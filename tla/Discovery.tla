----------------------------- MODULE Discovery -----------------------------
(***************************************************************************)
(* Discovery and dispatch tickets (src/discovery.rs, discovery_policy.rs,  *)
(* behavior_contract.rs, db.rs): a request reads the best reputed routable *)
(* rows, then their capabilities, then, in a restricted domain, the        *)
(* members among them, and selects and ranks.  Between its reads nodes     *)
(* register, report, come and go.                                          *)
(*                                                                         *)
(* A node id is a number, ordered as the ids are.  Shares are percentages; *)
(* a score is in units of 10^-4.  routable stands for the conditions that  *)
(* module Reachability keeps: available, active, not dead, seen.           *)
(***************************************************************************)
EXTENDS Integers, Sequences, FiniteSets

CONSTANTS N,          \* number of nodes
          Rows,       \* the rows a node may have, of the type below
          Queries,    \* the requests, of the type below
          Rosters,    \* the members there may be at first
          Restricted, \* restricted_domain.config.enabled
          MaxLimit,   \* MAX_LIMIT of the query, 50 in the code
          MaxWrites,  \* bound on the changes during a request
          None        \* an absent value

Nodes == 1..N
Percent == 0..100
Models == {"m"}
RowTypes == [routable : BOOLEAN, availability : Percent, load : Percent, capacity : Percent, region : {"eu", "us"},
             reputation : Percent, tasks : Nat, price : Percent, models : SUBSET Models,
             health_models : (SUBSET Models) \cup {None}, backend : {"ready", "draining"}, sdk_current : BOOLEAN, cx_key : BOOLEAN,
             relay : BOOLEAN]
Modes == {"public_view", "legacy_dispatch", "ticketed_dispatch"}
QueryTypes == [mode : Modes, intent : {"general", "high_risk", "malformed"}, profile : {None, "compatible", "unsupported"},
               profile_required : BOOLEAN, payload : BOOLEAN, valid : BOOLEAN, signing_key : BOOLEAN, cip : BOOLEAN,
               relay : {None, TRUE, FALSE}, model : Models \cup {None}, qos : {None, "realtime", "interactive"},
               region : {None, "eu", "us"}, min_reputation : Percent, limit : 1..MaxLimit,
               selector : (SUBSET Nodes) \cup {None}, exclude : SUBSET Nodes]

VARIABLES
  rows,     \* nodes and capabilities
  members,  \* current members of the domain
  query,    \* the request
  pc,       \* what it does next
  found,    \* the nodes it has so far, each at its place in the list, with what it read of it
  answer,   \* node ids
  usage,    \* record_dispatch_usage
  writes,   \* changes during the request
  outside,  \* history: nodes that were no members at any time of the request
  steady,   \* history: nodes whose row and membership did not change since the request began
  crowded   \* history: the request matched more rows than one query returns

history == <<outside, steady, crowded>>
vars == <<rows, members, query, pc, found, answer, usage, writes, history>>

Init ==
  /\ rows \in [Nodes -> Rows]
  /\ members \in Rosters
  /\ query \in Queries
  /\ pc = "admit" /\ found = {} /\ answer = <<>> /\ writes = 0
  /\ usage = [k \in Modes |-> 0]
  /\ outside = Nodes \ members
  /\ steady = Nodes
  /\ crowded = FALSE

\* A registration, a heartbeat, a probe or the sweep changes the row of a node.
Write(n, row) ==
  /\ pc \in {"capabilities", "members"} /\ writes < MaxWrites
  /\ rows' = [rows EXCEPT ![n] = row]
  /\ writes' = writes + 1
  /\ steady' = steady \ {n}
  /\ UNCHANGED <<members, query, pc, found, answer, usage, outside, crowded>>

\* A membership is issued, or ends.
ChangeMember(n) ==
  /\ pc \in {"capabilities", "members"} /\ writes < MaxWrites
  /\ members' = IF n \in members THEN members \ {n} ELSE members \cup {n}
  /\ outside' = outside \ members'
  /\ steady' = steady \ {n}
  /\ writes' = writes + 1
  /\ UNCHANGED <<rows, query, pc, found, answer, usage, crowded>>

---------------------------------------------------------------------------
IsTicket == query.mode = "ticketed_dispatch"

\* profile_negotiation's dispatch_allowed.
dispatch_allowed == query.profile \in {None, "compatible"} \/ ~query.profile_required

\* The refusals before anything is read: an unsupported profile that is required, a
\* payload, an intent that the public mesh refuses or, of a ticket, that is malformed, or
\* values out of range (valid: validate_min_reputation, validate_qos,
\* dispatch_ticket_selector_error).
Admitted ==
  /\ query.valid
  /\ query.intent # "high_risk"
  /\ IF IsTicket THEN query.intent # "malformed" /\ ~query.payload ELSE dispatch_allowed
Admit ==
  /\ pc = "admit"
  /\ pc' = IF Admitted THEN "rows" ELSE "done"
  /\ UNCHANGED <<rows, members, query, found, answer, usage, writes, history>>

\* discover's query: best reputed first, ties in any order, at most a limit.  A ticket
\* without a selector asks for no more rows than its own limit.
DatabaseLimit == IF IsTicket /\ query.selector = None THEN query.limit ELSE MaxLimit
MIN_SCORE == 10
Matches(n) == rows[n].routable /\ rows[n].reputation >= MIN_SCORE /\ rows[n].reputation >= query.min_reputation
BestFirst(s) == \A i, j \in 1..Len(s) : i < j => rows[s[i]].reputation >= rows[s[j]].reputation
Size(list, limit) == IF Cardinality(list) < limit THEN Cardinality(list) ELSE limit
Selections ==
  LET matching == {n \in Nodes : Matches(n)}
      size == Size(matching, DatabaseLimit)
  IN {s \in [1..size -> matching] :
        /\ \A i, j \in 1..size : i # j => s[i] # s[j]
        /\ BestFirst(s)
        /\ \A n \in matching \ {s[i] : i \in 1..size}, i \in 1..size : rows[n].reputation <= rows[s[i]].reputation}
\* From<NodeRow> for Node: a share of 0 is taken for an absent one; the models come later.
AsNode(row) == [row EXCEPT !.availability = IF @ = 0 THEN 100 ELSE @, !.models = {}]
ReadRows ==
  /\ pc = "rows"
  /\ \E s \in Selections : found' = {[id |-> s[i], at |-> i, row |-> AsNode(rows[s[i]])] : i \in DOMAIN s}
  /\ pc' = "capabilities"
  /\ crowded' = (Cardinality({n \in Nodes : Matches(n)}) > MaxLimit)
  /\ UNCHANGED <<rows, members, query, answer, usage, writes, outside, steady>>

\* capability_records_for_nodes, a second query.
capability_records_for_nodes(ids) == [n \in ids |-> rows[n].models]
ReadCapabilities ==
  LET records == capability_records_for_nodes({x.id : x \in found}) IN
  /\ pc = "capabilities"
  /\ found' = {[x EXCEPT !.row.models = records[x.id]] : x \in found}
  /\ pc' = IF Restricted /\ ~IsTicket THEN "members" ELSE "select"
  /\ UNCHANGED <<rows, members, query, answer, usage, writes, history>>
\* Any of the queries fails: there is nothing to offer.
ReadFails ==
  /\ pc \in {"admit", "rows", "capabilities", "members"}
  /\ found' = {}
  /\ pc' = "select"
  /\ steady' = {}
  /\ UNCHANGED <<rows, members, query, answer, usage, writes, outside, crowded>>

\* current_node_members, and retain.
Retained(list) == {x \in list : x.id \in members}
ReadMembers ==
  /\ pc = "members"
  /\ found' = Retained(found)
  /\ pc' = "select"
  /\ UNCHANGED <<rows, members, query, answer, usage, writes, history>>

\* The models that count: those the node reported healthy, or else those it registered.
LiveModels(row) == IF row.health_models = None THEN row.models ELSE row.health_models

\* behavior_contract::eligible
eligible(row) ==
  /\ row.health_models # {} /\ row.backend # "draining"
  /\ query.model # None => query.model \in LiveModels(row)
  /\ query.qos = "realtime" => row.tasks >= 1000 /\ row.reputation >= 80
  /\ query.qos = "interactive" => row.tasks >= 100
  /\ row.reputation >= query.min_reputation

\* behavior_contract::ranking_score
Weighted(row) ==
  LET region == IF query.region = None THEN 50 ELSE IF query.region = row.region THEN 100 ELSE 0
      match == IF query.model \in LiveModels(row) THEN 100 ELSE 0
  IN IF query.model = None
     THEN 35 * row.availability + 28 * (100 - row.load) + 18 * row.capacity + 9 * region + 10 * row.reputation
     ELSE 25 * row.availability + 20 * (100 - row.load) + 15 * row.capacity + 10 * region
          + 10 * row.reputation + 10 * row.price + 10 * match
Readiness(row) == 100 - (IF row.sdk_current THEN 0 ELSE 8) - (IF row.cx_key THEN 0 ELSE 7)
ranking_score(row) == Weighted(row) * Readiness(row)

\* select_and_rank.  The place of an element is one more than the elements before it.
Before(x, y) == \/ ranking_score(x.row) > ranking_score(y.row)
                \/ ranking_score(x.row) = ranking_score(y.row) /\ x.id < y.id
Place(list, x) == Cardinality({y \in list : Before(y, x)}) + 1
Sorted(list, limit) == [i \in 1..Size(list, limit) |-> CHOOSE x \in list : Place(list, x) = i]
\* No row is a CIP provider: cip_conformance_level is "CIP-None" for each.
Chosen(x) == ~query.cip /\ eligible(x.row)
M_select_and_rank(list) ==
  LET chosen == {x \in list : Chosen(x)}
  IN Sorted({x \in chosen : Cardinality({y \in chosen : y.at < x.at}) < query.limit}, query.limit)
select_and_rank(list) == Sorted({x \in list : Chosen(x)}, query.limit)

\* dispatch_ticket_issue: the rows it retains, and select_dispatch_ticket_node.
Dispatchable(x) ==
  /\ x.row.health_models # {}
  /\ query.model # None => query.model \in LiveModels(x.row)
  /\ query.relay \in {None, x.row.relay}
  /\ x.id \notin query.exclude
\* A selector is a node id or a prefix, here the set of ids that have it: one that fits
\* several nodes is refused.
select_dispatch_ticket_node(list) ==
  IF query.selector = None THEN {x \in list : \A y \in list : x.at <= y.at}
  ELSE LET fit == {x \in list : x.id \in query.selector}
       IN IF Cardinality(fit) = 1 THEN fit ELSE {}
TicketFor(list) == IF query.signing_key THEN select_dispatch_ticket_node({x \in list : Dispatchable(x)}) ELSE {}

\* record_dispatch_usage: once for the whole answer.  A ticket that finds no node is
\* refused and not counted.
Counted(chosen) == IF IsTicket /\ chosen = <<>> THEN 0 ELSE 1
Select ==
  LET chosen == IF IsTicket THEN Sorted(TicketFor(found), 1) ELSE select_and_rank(found)
  IN /\ pc = "select"
     /\ answer' = [i \in DOMAIN chosen |-> chosen[i].id]
     /\ usage' = [usage EXCEPT ![query.mode] = @ + Counted(chosen)]
     /\ pc' = "done"
     /\ UNCHANGED <<rows, members, query, found, writes, history>>

Next ==
  \/ \E n \in Nodes : ChangeMember(n) \/ \E row \in Rows : Write(n, row)
  \/ Admit \/ ReadRows \/ ReadCapabilities \/ ReadMembers \/ ReadFails \/ Select

Spec == Init /\ [][Next]_vars

---------------------------------------------------------------------------
Answered == {answer[i] : i \in DOMAIN answer}
IsPermitted(n) == Restricted => n \in members

TypeOK ==
  /\ rows \in [Nodes -> RowTypes]
  /\ members \subseteq Nodes
  /\ query \in QueryTypes
  /\ pc \in {"admit", "rows", "capabilities", "members", "select", "done"}
  /\ found \subseteq [id : Nodes, at : Nat, row : RowTypes] /\ answer \in Seq(Nodes)
  /\ usage \in [Modes -> 0..1]
  /\ writes \in 0..MaxWrites
  /\ outside \subseteq Nodes /\ steady \subseteq Nodes /\ crowded \in BOOLEAN

\* In a restricted domain discovery offers no node that was not a member at some time of
\* the request, whatever it read first (current_node_members).
OfferedWasMember == Restricted /\ ~IsTicket => Answered \cap outside = {}

\* A node that is at least as good as another in every signal and did not change is never
\* left behind it by the ranking or the caller's limit, as long as the directory lists no
\* more nodes than one query returns (select_and_rank, ranking_score).  Availability is what
\* AsNode makes of it.
AtLeastAsGood(a, b) ==
  /\ AsNode(a).availability >= AsNode(b).availability /\ a.load <= b.load /\ a.capacity >= b.capacity
  /\ a.reputation >= b.reputation /\ a.price >= b.price /\ a.tasks >= b.tasks
  /\ a.region = query.region \/ query.region = None \/ a.region = b.region
  /\ (b.sdk_current => a.sdk_current) /\ (b.cx_key => a.cx_key)
  /\ eligible(a)
StrictlyBetter(a, b) == AtLeastAsGood(a, b) /\ (a.load < b.load \/ a.reputation > b.reputation)
BetterIsNotBehind ==
  pc = "done" /\ ~IsTicket /\ ~crowded =>
    \A a \in steady, i \in DOMAIN answer :
      answer[i] \in steady /\ rows[a].routable /\ IsPermitted(a) /\ StrictlyBetter(rows[a], rows[answer[i]])
      => \E j \in 1..(i - 1) : answer[j] = a

\* Whoever is offered, by discovery or a ticket, was routable and had the requested model
\* and the requested service when the request read it, and the request was one that the
\* public mesh may serve.
OfferedIsSuitable ==
  \A n \in Answered \cap steady :
    /\ query.intent # "high_risk" /\ ~(IsTicket /\ (query.payload \/ query.intent = "malformed"))
    /\ rows[n].routable /\ rows[n].reputation >= query.min_reputation /\ n \notin query.exclude
    /\ query.model # None => query.model \in LiveModels(rows[n])
    /\ ~IsTicket /\ query.qos = "interactive" => rows[n].tasks >= 100

\* A ticket for a node that the selector tells from all others is not refused when the
\* node could be dispatched to, whatever limit the caller sent, and goes to no other; as
\* long as the directory lists no more nodes than one query returns.
SelectedRouteFound ==
  pc = "done" /\ IsTicket /\ Admitted /\ query.signing_key /\ query.selector # None /\ steady = Nodes /\ ~crowded =>
    LET fit == {n \in query.selector : Matches(n) /\ Dispatchable([id |-> n, row |-> rows[n]])}
    IN IF Cardinality(fit) = 1 THEN Answered = fit ELSE answer = <<>>

\* What is answered suits the request, is a member where discovery is asked (a ticket asks
\* for no membership), is in the order of the ranking, and is the route a ticket asked for,
\* although the request reads the tables in several queries (discover,
\* dispatch_ticket_issue).
Safety == TypeOK /\ OfferedWasMember /\ BetterIsNotBehind /\ OfferedIsSuitable /\ SelectedRouteFound
=============================================================================
