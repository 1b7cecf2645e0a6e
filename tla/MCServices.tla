---------------------------- MODULE MCServices ----------------------------
(***************************************************************************)
(* The services of a directory that share no state, on small instances: a  *)
(* behaviour exercises one of them, its focus.                             *)
(***************************************************************************)
EXTENDS ReplicaRegistry, Sequences, FiniteSets, TLC

CONSTANTS Services,                                           \* the services of the instance
          Subjects, Issuers, Requests, MaxTtl, MaxEpoch,      \* restricted domain
          N, NodeRows, Rosters, Queries,                      \* discovery
          Restricted, MaxLimit, MaxWrites,
          Evaluators, Mirrors, Start, Evaluations, Signals,   \* mesh health
          MaxLog, MaxFailed,
          Calls, Keys, Hosts, MaxLines, MaxEvents, MaxBatches \* in-memory repository

VARIABLES
  focus,
  members, epoch, issuing, inGate, tokens, domainNow, domainRetired, bare,
  rows, roster, query, pc, found, answer, usage, writes, outside, steady, crowded,
  signals, health, cursor, table, applied, failed,
  call, operators, records, lines, copies, tombs, hashes, held, events, minted, node, challenge, sentChallenges,
  batch, sent, overtaken, late, forgotten, doomed, mixed, solved, reported

domainVars == <<members, epoch, issuing, inGate, tokens, domainNow, domainRetired, bare>>
discoveryVars == <<rows, roster, query, pc, found, answer, usage, writes, outside, steady, crowded>>
meshVars == <<signals, health, cursor, table, applied, failed>>
memoryVars == <<call, operators, records, lines, copies, tombs, hashes, held, events, minted, node, challenge, sentChallenges,
                batch, sent, overtaken, late, forgotten, doomed, mixed, solved, reported>>
all == <<focus, vars, domainVars, discoveryVars, meshVars, memoryVars>>

Domain == INSTANCE RestrictedDomain
            WITH now <- domainNow, retired <- domainRetired, Grants <- {{"discovery", "bootstrap"}, {"*"}}
ASSUME DomainAssumption == MaxTtl \in Nat /\ MaxEpoch \in Nat \ {0}
ASSUME NoneIsNoMembership == None \notin Domain!Rows /\ None \notin Domain!Assertions

---------------------------------------------------------------------------
\* Nodes that are good, not routable, loaded, without a model, and new and elsewhere.
Good == [routable |-> TRUE, availability |-> 100, load |-> 20, capacity |-> 100, region |-> "eu", reputation |-> 60,
         tasks |-> 200, price |-> 50, models |-> {"m"}, health_models |-> None, backend |-> "ready", sdk_current |-> TRUE,
         cx_key |-> TRUE, relay |-> FALSE]
MCNodeRows == {Good, [Good EXCEPT !.routable = FALSE], [Good EXCEPT !.load = 90, !.cx_key = FALSE],
               [Good EXCEPT !.health_models = {}, !.reputation = 90],
               [Good EXCEPT !.tasks = 5, !.models = {}, !.health_models = {"m"}, !.reputation = 80, !.sdk_current = FALSE,
                            !.region = "us", !.availability = 0, !.relay = TRUE]}
MCRosters == {1..N, 2..N}
Ask == [mode |-> "legacy_dispatch", intent |-> "general", profile |-> None, profile_required |-> FALSE, payload |-> FALSE,
        valid |-> TRUE, signing_key |-> TRUE, cip |-> FALSE, relay |-> None, model |-> None, qos |-> None, region |-> None,
        min_reputation |-> 0, limit |-> 2, selector |-> None, exclude |-> {}]
Ticket == [Ask EXCEPT !.mode = "ticketed_dispatch", !.limit = 1]
MCQueries ==
  {Ask, [Ask EXCEPT !.model = "m", !.region = "eu", !.limit = 1],
   [Ask EXCEPT !.mode = "public_view", !.qos = "interactive", !.min_reputation = 70, !.profile = "unsupported"],
   [Ask EXCEPT !.cip = TRUE, !.limit = 1], [Ask EXCEPT !.intent = "high_risk"],
   [Ask EXCEPT !.intent = "malformed", !.limit = 1], [Ticket EXCEPT !.intent = "malformed"],
   [Ask EXCEPT !.profile = "unsupported", !.profile_required = TRUE],
   [Ticket EXCEPT !.model = "m"], [Ticket EXCEPT !.selector = {2}], [Ticket EXCEPT !.selector = {1, 2}, !.relay = FALSE],
   [Ticket EXCEPT !.exclude = {1}, !.limit = 2], [Ticket EXCEPT !.payload = TRUE], [Ticket EXCEPT !.signing_key = FALSE]}
Disco == INSTANCE Discovery WITH members <- roster, Rows <- NodeRows
\* Only a request for a ticket names nodes to leave out.
ASSUME DiscoveryAssumption ==
  /\ N \in Nat /\ MaxLimit \in Nat /\ MaxWrites \in Nat
  /\ NodeRows \subseteq Disco!RowTypes /\ Rosters \subseteq SUBSET (1..N)
  /\ \A q \in Queries : q \in Disco!QueryTypes /\ (q.mode # "ticketed_dispatch" => q.exclude = {})

---------------------------------------------------------------------------
\* Three evaluators of node 1, of which two agree, or one evaluator of three nodes.
Event(n, e, s, t) == [node |-> n, evaluator |-> e, score |-> s, at |-> t]
MCStart == {<<Event(1, 1, 7500, 1), Event(1, 2, 7000, 2), Event(1, 3, 3000, 3)>>,
            <<Event(1, 1, 7500, 1), Event(2, 1, 9000, 1), Event(3, 1, 6446, 1)>>}
\* A newer outlier, and an event out of order.
MCEvaluations == {Event(1, 3, 9000, 4), Event(1, 1, 3000, 0)}
Signal(reachable, relay, ms) == [public_reachable |-> reachable, relay_capable |-> relay, latency_ms |-> ms]
MCSignals == {Signal(TRUE, FALSE, 20), Signal(TRUE, FALSE, None), Signal(FALSE, TRUE, 20), Signal(FALSE, FALSE, 600)}
Mesh == INSTANCE MeshHealth WITH Nodes <- 1..N, Replicas <- Mirrors, Reports <- Evaluations, log <- health
ASSUME MeshAssumption ==
  N \in Nat /\ MaxFailed \in Nat /\ Evaluations \subseteq Mesh!Events /\ Start \subseteq Seq(Mesh!Events) /\ Signals \subseteq Mesh!SignalTypes

Memory == INSTANCE MemoryRepo
            WITH Nodes <- Hosts, Replicas <- Dids, replicas <- copies, tokens <- minted, issued <- sentChallenges, answered <- solved
ASSUME RepositoryAssumption ==
  /\ MaxTokens \in Nat /\ MaxLines \in Nat /\ MaxBatches \in Nat /\ MaxEvents \in Nat
  /\ None \notin Keys \cup Calls \cup (1..MaxTokens) \cup Memory!OperatorRows \cup Memory!NodeRecords
                 \cup Memory!IdentityCalls \cup Memory!ReplicaCalls \cup Memory!BeatCalls

---------------------------------------------------------------------------
\* The initial states of a service are explored when it is the focus.
MCInit ==
  /\ focus \in Services
  /\ Init
  /\ Domain!Init
  /\ Disco!Init
  /\ focus # "discovery" => rows = [n \in 1..N |-> Good] /\ roster = 1..N /\ query = Ask
  /\ Mesh!Init
  /\ focus # "mesh" => health = CHOOSE first \in Start : TRUE
  /\ Memory!Init
MCNext ==
  \/ focus = "registry" /\ Next /\ UNCHANGED <<focus, domainVars, discoveryVars, meshVars, memoryVars>>
  \/ focus = "domain" /\ Domain!Next /\ UNCHANGED <<focus, vars, discoveryVars, meshVars, memoryVars>>
  \/ focus = "discovery" /\ Disco!Next /\ UNCHANGED <<focus, vars, domainVars, meshVars, memoryVars>>
  \/ focus = "listing" /\ Mesh!LocalNext /\ UNCHANGED <<focus, vars, domainVars, discoveryVars, memoryVars>>
  \/ focus = "mesh" /\ Mesh!FederatedNext /\ UNCHANGED <<focus, vars, domainVars, discoveryVars, memoryVars>>
  \/ focus = "identity" /\ Memory!IdentityNext /\ UNCHANGED <<focus, vars, domainVars, discoveryVars, meshVars>>
  \/ focus = "replicas" /\ Memory!ReplicaNext /\ UNCHANGED <<focus, vars, domainVars, discoveryVars, meshVars>>
  \/ focus = "beats" /\ Memory!BeatNext /\ UNCHANGED <<focus, vars, domainVars, discoveryVars, meshVars>>
MCSpec == MCInit /\ [][MCNext]_all

Symmetry == Permutations(Joins) \cup Permutations(Issuers) \cup Permutations(Mirrors)

---------------------------------------------------------------------------
\* The state of a service that is not the focus does not change: its properties need no
\* evaluation there.

\* The registry of replicas: retired tokens stay retired, the answered one is accepted, and
\* mirrors agree (replicas_register, replicas_deregister).
RegistrySafe == focus = "registry" => Safety
\* Restricted domains: retired credentials are refused and served assertions are current
\* (authorize, issue_with_assertion).
DomainSafe == focus = "domain" => Domain!Safety
\* Discovery and tickets: members only (discovery), suitable, in order, and the selected route
\* (discover, dispatch_ticket_issue).
DiscoverySafe == focus = "discovery" => Disco!Safety
\* Mesh health: newest evaluations, one aggregate of the same ones, honest labels, no outliers
\* (upsert_health_observation, federated_mesh_health).
MeshSafe == focus \in {"listing", "mesh"} => Mesh!Safety
\* The in-memory repository: what its mutexes keep (InMemoryRepo).
MemorySafe == focus \in {"identity", "replicas", "beats"} => Memory!Safety
=============================================================================
