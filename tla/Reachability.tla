--------------------------- MODULE Reachability ---------------------------
(***************************************************************************)
(* Active reachability probes (src/background.rs, src/db.rs): a loop reads *)
(* the nodes to probe, connects to each endpoint it read, once more after  *)
(* a failure, and moves the route state of the node with an event in one   *)
(* transaction.  Registrations, heartbeats, restrictions and the sweep of  *)
(* silent nodes go on meanwhile.                                           *)
(*                                                                         *)
(* A row has what discovery and the probe look at.  dead stands for        *)
(* endpoint_verified_dead_at IS NOT NULL.  last_seen is what the 90        *)
(* seconds make of it, and the order in which nodes were heard.  The       *)
(* telemetry row of record_probe_result is left out: nothing here reads it.*)
(***************************************************************************)
EXTENDS Naturals, FiniteSets

CONSTANTS Nodes,
          Endpoints,   \* endpoints a node may register
          Probeable,   \* those that should_probe: neither private nor, without egress, IPv6
          ProbeLimit,  \* nodes that a round reads, 50 in the code
          None         \* an absent row

VARIABLES
  nodes,     \* the table
  newer,     \* the nodes that have a later last_seen than a node
  up,        \* environment: endpoints that accept connections
  prober,    \* run_probe_nodes_loop
  told,      \* the reachability that the log tells: the last REACHABILITY event of a node
  restricted,\* history: nodes restricted since they were last probed to a transition
  hidden,    \* history: nodes restricted and neither registered nor heard of since
  misses,    \* history: connects that failed in a row for the node in hand
  met,       \* history: endpoints the probe has connected to
  moved      \* history: nodes that changed their endpoint or row since a probe of it was applied

history == <<told, restricted, hidden, misses, met, moved>>
vars == <<nodes, newer, up, prober, history>>

Rows == [endpoint : Endpoints, available : BOOLEAN, status : {"active", "dormant", "archived"},
         seen : {"never", "fresh", "stale"}, reachable : BOOLEAN, dead : BOOLEAN]
ASSUME NoneIsNoRow == None \notin Rows
Targets == [node : Nodes, endpoint : Endpoints]
Idle == [pc |-> "idle", queue |-> {}]
Probers == [pc : {"next"}, queue : SUBSET Targets]
           \cup [pc : {"connect", "confirm"}, queue : SUBSET Targets, target : Targets]
           \cup [pc : {"apply"}, queue : SUBSET Targets, target : Targets, passed : BOOLEAN]

Init ==
  /\ nodes = [n \in Nodes |-> None]
  /\ newer = [n \in Nodes |-> {}]
  /\ up \in SUBSET Endpoints
  /\ prober = Idle
  /\ told = [n \in Nodes |-> FALSE]
  /\ restricted = {} /\ hidden = {} /\ misses = 0 /\ met = {} /\ moved = {}

\* A server or a network goes down or comes back.
Network(e) ==
  /\ up' = IF e \in up THEN up \ {e} ELSE up \cup {e}
  /\ UNCHANGED <<nodes, newer, prober, history>>

---------------------------------------------------------------------------
\* registration_store's upsert: a new row was never seen; an old one keeps its route
\* state, whatever endpoint it now has.
Upserted(row, e) ==
  IF row = None
  THEN [endpoint |-> e, available |-> TRUE, status |-> "active", seen |-> "never", reachable |-> FALSE, dead |-> FALSE]
  ELSE [row EXCEPT !.endpoint = e, !.available = TRUE, !.status = "active"]
Register(n, e) ==
  /\ nodes' = [nodes EXCEPT ![n] = Upserted(@, e)]
  /\ hidden' = hidden \ {n}
  /\ moved' = IF nodes[n] = None \/ nodes[n].endpoint = e THEN moved ELSE moved \cup {n}
  /\ UNCHANGED <<newer, up, prober, told, restricted, misses, met>>

\* heartbeat_once, as far as routes are concerned.  last_seen is now: later than that of
\* every other node, or in the same second as the latest.
Seen == {n \in Nodes : nodes[n] # None /\ nodes[n].seen # "never"}
Latest == {n \in Seen : newer[n] = {}}
Heard(n, tied) == [m \in Nodes |-> IF m \in Seen \ (tied \cup {n}) THEN newer[m] \cup {n} ELSE {}]
Heartbeat(n, available) ==
  /\ nodes[n] # None
  /\ nodes' = [nodes EXCEPT ![n].available = available, ![n].status = "active", ![n].seen = "fresh"]
  /\ \E tied \in {{}, Latest} : newer' = Heard(n, tied)
  /\ hidden' = hidden \ {n}
  /\ UNCHANGED <<up, prober, told, restricted, misses, met, moved>>

\* Ninety seconds pass without a heartbeat of the node, for those heard before it too.
Silence(n) ==
  /\ nodes[n] # None /\ nodes[n].seen = "fresh"
  /\ \A m \in Seen : n \in newer[m] => nodes[m].seen = "stale"
  /\ nodes' = [nodes EXCEPT ![n].seen = "stale"]
  /\ UNCHANGED <<newer, up, prober, history>>

\* expire_stale, of one node.
ExpireStale(n) ==
  /\ nodes[n] # None /\ nodes[n].seen = "stale" /\ nodes[n].status = "active"
  /\ nodes' = [nodes EXCEPT ![n].available = FALSE, ![n].status = "dormant"]
  /\ UNCHANGED <<newer, up, prober, history>>

\* apply_mysql_dsr_restriction, of the operator's node: no event is written.
Hidden(row) == [row EXCEPT !.available = FALSE, !.status = "archived", !.reachable = FALSE, !.dead = TRUE]
Restriction(n) ==
  /\ nodes[n] # None
  /\ nodes' = [nodes EXCEPT ![n] = Hidden(@)]
  /\ restricted' = restricted \cup {n}
  /\ hidden' = hidden \cup {n}
  /\ UNCHANGED <<newer, up, prober, told, misses, met, moved>>

\* deregister: a later registration starts from a new row.
Deregister(n) ==
  /\ nodes[n] # None
  /\ nodes' = [nodes EXCEPT ![n] = None]
  /\ newer' = [m \in Nodes |-> IF m = n THEN {} ELSE newer[m] \ {n}]
  /\ told' = [told EXCEPT ![n] = FALSE]
  /\ restricted' = restricted \ {n}
  /\ hidden' = hidden \ {n}
  /\ moved' = moved \cup {n}
  /\ UNCHANGED <<up, prober, misses, met>>

---------------------------------------------------------------------------
\* get_probeable_nodes: which nodes it may be, and what ORDER BY last_seen DESC LIMIT makes
\* of them, nodes of the same second in any order.
M_probeable == {n \in Seen : nodes[n].available /\ ~nodes[n].dead}
probeable == {n \in Seen : nodes[n].available}
get_probeable_nodes ==
  {list \in SUBSET probeable :
     /\ Cardinality(list) = IF Cardinality(probeable) < ProbeLimit THEN Cardinality(probeable) ELSE ProbeLimit
     /\ \A n \in list : newer[n] \cap probeable \subseteq list}
ReadQueue ==
  /\ prober = Idle
  /\ \E list \in get_probeable_nodes :
       prober' = [pc |-> "next", queue |-> {[node |-> n, endpoint |-> nodes[n].endpoint] : n \in list}]
  /\ UNCHANGED <<nodes, newer, up, history>>
\* The query fails: nothing to probe in this round.
ReadFails ==
  /\ prober = Idle
  /\ prober' = [pc |-> "next", queue |-> {}]
  /\ UNCHANGED <<nodes, newer, up, history>>

\* The next node of the round, or the end of it.
TakeNext(t) ==
  /\ prober.pc = "next" /\ t \in prober.queue
  /\ prober' = IF t.endpoint \in Probeable
               THEN [pc |-> "connect", queue |-> prober.queue \ {t}, target |-> t]
               ELSE [prober EXCEPT !.queue = @ \ {t}]
  /\ misses' = 0
  /\ UNCHANGED <<nodes, newer, up, told, restricted, hidden, met, moved>>
RoundEnds ==
  /\ prober.pc = "next" /\ prober.queue = {}
  /\ prober' = Idle
  /\ UNCHANGED <<nodes, newer, up, history>>

\* tcp_probe, within confirmed_probe: a failure is tried once more.
Judged(passed) == [pc |-> "apply", queue |-> prober.queue, target |-> prober.target, passed |-> passed]
M_AfterConnect(ok) == Judged(ok)
AfterConnect(ok) == IF ok \/ prober.pc = "confirm" THEN Judged(ok) ELSE [prober EXCEPT !.pc = "confirm"]
Connect ==
  LET ok == prober.target.endpoint \in up
  IN /\ prober.pc \in {"connect", "confirm"}
     /\ prober' = AfterConnect(ok)
     /\ misses' = IF ok THEN 0 ELSE misses + 1
     /\ met' = IF ok THEN met \cup {prober.target.endpoint} ELSE met
     /\ UNCHANGED <<nodes, newer, up, told, restricted, hidden, moved>>

\* apply_probe_route_state's transaction: the row it locks, whatever became of it since
\* the queue was read, and the event.
Restores(row, passed) == passed /\ (~row.reachable \/ row.dead)
Demotes(row, passed) == ~passed /\ row.reachable
Moved(row, passed) == [row EXCEPT !.reachable = passed, !.dead = ~passed]
Told(n, passed) == [told EXCEPT ![n] = passed]
Apply ==
  LET n == prober.target.node
      moves == nodes[n] # None /\ (Restores(nodes[n], prober.passed) \/ Demotes(nodes[n], prober.passed))
  IN /\ prober.pc = "apply"
     /\ prober' = [pc |-> "next", queue |-> prober.queue]
     /\ IF moves
        THEN /\ nodes' = [nodes EXCEPT ![n] = Moved(@, prober.passed)]
             /\ told' = Told(n, prober.passed)
             /\ restricted' = restricted \ {n}
        ELSE UNCHANGED <<nodes, told, restricted>>
     /\ moved' = IF nodes[n] # None /\ nodes[n].endpoint = prober.target.endpoint THEN moved \ {n} ELSE moved
     /\ UNCHANGED <<newer, up, hidden, misses, met>>
\* Any statement, the event or the commit fails: everything is rolled back.
ApplyFails ==
  /\ prober.pc = "apply"
  /\ prober' = [pc |-> "next", queue |-> prober.queue]
  /\ UNCHANGED <<nodes, newer, up, history>>

Write == \E n \in Nodes : \/ \E e \in Endpoints : Register(n, e)
                          \/ \E a \in BOOLEAN : Heartbeat(n, a)
                          \/ Silence(n) \/ ExpireStale(n) \/ Restriction(n) \/ Deregister(n)
ProbeStep == RoundEnds \/ Connect \/ \E t \in prober.queue : TakeNext(t)
Next == Write \/ ProbeStep \/ ReadQueue \/ ReadFails \/ Apply \/ ApplyFails \/ \E e \in Endpoints : Network(e)

Spec == Init /\ [][Next]_vars

---------------------------------------------------------------------------
\* The WHERE clause of discover, without intent and reputation.
Routable(row) == row # None /\ row.available /\ row.status = "active" /\ ~row.dead /\ row.seen # "stale"

\* live_node_value's route_evidence "directory_observed".
directory_observed(row) == row.reachable

TypeOK ==
  /\ nodes \in [Nodes -> Rows \cup {None}]
  /\ newer \in [Nodes -> SUBSET Nodes]
  /\ up \subseteq Endpoints
  /\ prober \in Probers \cup {Idle}
  /\ told \in [Nodes -> BOOLEAN]
  /\ restricted \subseteq Nodes /\ hidden \subseteq Nodes
  /\ met \subseteq Endpoints /\ moved \subseteq Nodes
  /\ misses \in 0..2

\* A route that is marked dead is never also called reachable, whichever of the probe,
\* a restriction and a re-registration wrote last (apply_probe_route_state).
DeadNotReachable == \A n \in Nodes : nodes[n] # None /\ nodes[n].dead => ~nodes[n].reachable

\* The last REACHABILITY event of a node tells the state of its row, since both are
\* written in one transaction; only a restriction changes it without an event.
LogTellsRoute == \A n \in Nodes \ restricted : nodes[n] # None => (nodes[n].reachable <=> told[n])

\* A node that was restricted is not offered until it registers or is heard again, also
\* when a probe that was under way restores its route (apply_mysql_dsr_restriction).
RestrictedNotOffered == \A n \in hidden : ~Routable(nodes[n])

\* A route that answers call directory_observed is one that the directory has connected
\* to, unless the node changed its endpoint since: a re-registration keeps the flag
\* (live_node_value, upsert_node).
ObservedWasConnected ==
  \A n \in Nodes \ moved : nodes[n] # None /\ directory_observed(nodes[n]) => nodes[n].endpoint \in met

\* The probe goes to demote a route only after two connects in a row failed, although the
\* network changes between them (confirmed_probe).
DemotedByTwo == prober.pc = "apply" /\ ~prober.passed => misses = 2

\* The route state is one that the directory has seen, tells in its log and offers only
\* when it may, whatever happened to a row while the probe was at it
\* (run_probe_nodes_loop, apply_probe_route_state).
Safety == /\ TypeOK
          /\ DeadNotReachable /\ LogTellsRoute /\ RestrictedNotOffered /\ ObservedWasConnected /\ DemotedByTwo

\* A node becomes and stays discoverable again once its probeable endpoint stays up and the
\* rounds do not lose sight of it: it stays among the nodes heard last, of which a round
\* reads ProbeLimit, or comes back among them again and again.  The loop then clears the
\* mark, whatever failed before (run_probe_nodes_loop, get_probeable_nodes).
AmongLatest(n) == Cardinality({m \in Seen : nodes[m].available /\ n \notin newer[m]}) <= ProbeLimit
Recovers(n) ==
  \A e \in Probeable :
    /\ <>[](n \in Seen /\ nodes[n].available /\ nodes[n].endpoint = e /\ e \in up)
    /\ <>[]AmongLatest(n) \/ []<>([node |-> n, endpoint |-> e] \in prober.queue)
    => <>[](nodes[n] # None /\ nodes[n].reachable /\ ~nodes[n].dead)
=============================================================================
