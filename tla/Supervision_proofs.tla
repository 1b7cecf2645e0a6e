------------------------- MODULE Supervision_proofs -------------------------
(***************************************************************************)
(* What holds of the loops and starts that run beside the directory, for   *)
(* every set of nodes, endpoints, rows and processes.                      *)
(*                                                                         *)
(* The reachability probe reads its queue, connects and writes in steps    *)
(* between which a row may be registered, restricted, removed or moved.    *)
(* The invariant that carries its safety says what a target that is still  *)
(* pending knows of the row it was read from.  Then the schema that a      *)
(* server verified before it serves, the ages behind a health answer, and  *)
(* the rows that a pass of the pruner may delete.                          *)
(***************************************************************************)
EXTENDS MCSupervision, Sequences, FiniteSetTheorems, TLAPS

---------------------------------------------------------------------------
(* Reachability *)

Busy == prober.pc \in {"connect", "confirm", "apply"}
Pending(t) == t \in prober.queue \/ (Busy /\ t = prober.target)

\* A round holds one endpoint of a node, the one that the row has unless it moved since.
OneTarget == \A t, u \in Targets : Pending(t) /\ Pending(u) /\ t.node = u.node => t = u
TargetIsCurrent ==
  \A t \in Targets : Pending(t) /\ t.node \notin moved => nodes[t.node] # None /\ nodes[t.node].endpoint = t.endpoint
\* What the connects so far have shown.
PassedWasMet == prober.pc = "apply" /\ prober.passed => prober.target.endpoint \in met
MissesCounted ==
  /\ prober.pc = "connect" => misses = 0
  /\ prober.pc = "confirm" => misses = 1
\* A row that is gone is told unreachable, and one that is hidden is archived.
GoneIsUntold == \A n \in Nodes : nodes[n] = None => ~told[n]
HiddenIsArchived == \A n \in hidden : nodes[n] # None /\ nodes[n].status = "archived" /\ ~nodes[n].available

RouteInv ==
  /\ TypeOK /\ DeadNotReachable /\ LogTellsRoute /\ ObservedWasConnected /\ DemotedByTwo
  /\ OneTarget /\ TargetIsCurrent /\ PassedWasMet /\ MissesCounted /\ GoneIsUntold /\ HiddenIsArchived

\* The loop waits between rounds, is between nodes, or has one in hand.
LEMMA ProberCases ==
  ASSUME prober \in Probers \cup {Idle}
  PROVE  \/ prober = Idle
         \/ prober \in [pc : {"next"}, queue : SUBSET Targets]
         \/ prober \in [pc : {"connect", "confirm"}, queue : SUBSET Targets, target : Targets]
         \/ prober \in [pc : {"apply"}, queue : SUBSET Targets, target : Targets, passed : BOOLEAN]
  BY DEF Probers

\* An upserted row is a row of the endpoint, and keeps the route state.
LEMMA UpsertedRow ==
  ASSUME NEW row \in Rows \cup {None}, NEW e \in Endpoints
  PROVE  LET new == Upserted(row, e) IN
         /\ new \in Rows /\ new # None /\ new.endpoint = e
         /\ row = None => ~new.reachable /\ ~new.dead
         /\ row # None => new.reachable = row.reachable /\ new.dead = row.dead
  <1>1. CASE row = None
    <2> DEFINE new == [endpoint |-> e, available |-> TRUE, status |-> "active", seen |-> "never", reachable |-> FALSE, dead |-> FALSE]
    <2>1. Upserted(row, e) = new
      BY <1>1 DEF Upserted
    <2>2. new \in Rows
      BY DEF Rows
    <2>3. new.endpoint = e /\ ~new.reachable /\ ~new.dead
      OBVIOUS
    <2> HIDE DEF new
    <2> QED
      BY <1>1, <2>1, <2>2, <2>3, NoneIsNoRow
  <1>2. CASE row # None
    <2> row \in Rows
      BY <1>2
    <2>1. Upserted(row, e) = [row EXCEPT !.endpoint = e, !.available = TRUE, !.status = "active"]
      BY <1>2 DEF Upserted
    <2>2. [row EXCEPT !.endpoint = e, !.available = TRUE, !.status = "active"] \in Rows
      BY DEF Rows
    <2> QED
      BY <2>1, <2>2, <1>2, NoneIsNoRow DEF Rows
  <1> QED
    BY <1>1, <1>2

LEMMA RouteInit == Init => RouteInv
  <1> SUFFICES ASSUME Init
               PROVE  RouteInv
    OBVIOUS
  <1> USE DEF Init
  <1>1. TypeOK
    BY DEF TypeOK, Idle
  <1>2. DeadNotReachable /\ LogTellsRoute /\ ObservedWasConnected /\ GoneIsUntold /\ HiddenIsArchived
    BY DEF DeadNotReachable, LogTellsRoute, ObservedWasConnected, GoneIsUntold, HiddenIsArchived
  <1>3. DemotedByTwo /\ PassedWasMet /\ MissesCounted
    BY DEF DemotedByTwo, PassedWasMet, MissesCounted, Idle
  <1>4. OneTarget /\ TargetIsCurrent
    BY DEF OneTarget, TargetIsCurrent, Pending, Busy, Idle
  <1> QED
    BY <1>1, <1>2, <1>3, <1>4 DEF RouteInv

\* What a write of one row keeps, as long as the prober's own state does not change.
RowPart == DeadNotReachable /\ LogTellsRoute /\ ObservedWasConnected /\ GoneIsUntold /\ HiddenIsArchived /\ TargetIsCurrent

LEMMA ProberPart ==
  ASSUME RouteInv, prober' = prober, misses' = misses, met' = met
  PROVE  DemotedByTwo' /\ OneTarget' /\ PassedWasMet' /\ MissesCounted'
  BY DEF RouteInv, DemotedByTwo, OneTarget, PassedWasMet, MissesCounted, Pending, Busy

LEMMA RegisterKeeps ==
  ASSUME RouteInv, NEW n \in Nodes, NEW e \in Endpoints, Register(n, e)
  PROVE  RouteInv'
  <1> DEFINE new == Upserted(nodes[n], e)
  <1>0. nodes \in [Nodes -> Rows \cup {None}]
    BY DEF RouteInv, TypeOK
  <1>1. /\ new \in Rows /\ new # None /\ new.endpoint = e
        /\ nodes[n] = None => ~new.reachable /\ ~new.dead
        /\ nodes[n] # None => new.reachable = nodes[n].reachable /\ new.dead = nodes[n].dead
    BY <1>0, UpsertedRow
  <1>2. nodes' = [nodes EXCEPT ![n] = new]
    BY DEF Register
  <1> HIDE DEF new
  <1>3. TypeOK'
    BY <1>0, <1>1, <1>2 DEF RouteInv, TypeOK, Register
  <1>4. RowPart'
    BY <1>0, <1>1, <1>2 DEF RowPart, RouteInv, TypeOK, Register, DeadNotReachable, LogTellsRoute, ObservedWasConnected,
       GoneIsUntold, HiddenIsArchived, TargetIsCurrent, directory_observed, Targets, Pending, Busy
  <1>5. DemotedByTwo' /\ OneTarget' /\ PassedWasMet' /\ MissesCounted'
    BY ProberPart DEF Register
  <1> QED
    BY <1>3, <1>4, <1>5 DEF RouteInv, RowPart

\* Heartbeats, silence and the sweep change neither endpoint nor route state.
LEMMA RowKeeps ==
  ASSUME RouteInv, NEW n \in Nodes, NEW new \in Rows, nodes[n] # None,
         new.endpoint = nodes[n].endpoint, new.reachable = nodes[n].reachable, new.dead = nodes[n].dead,
         nodes' = [nodes EXCEPT ![n] = new],
         hidden' \subseteq hidden,
         n \in hidden' => new.status = "archived" /\ ~new.available,
         newer' \in [Nodes -> SUBSET Nodes],
         UNCHANGED <<up, prober, told, restricted, misses, met, moved>>
  PROVE  RouteInv'
  <1>0. nodes \in [Nodes -> Rows \cup {None}] /\ new # None
    BY NoneIsNoRow DEF RouteInv, TypeOK
  <1>3. TypeOK'
    BY <1>0 DEF RouteInv, TypeOK
  <1>4. RowPart'
    BY <1>0 DEF RowPart, RouteInv, TypeOK, DeadNotReachable, LogTellsRoute, ObservedWasConnected,
       GoneIsUntold, HiddenIsArchived, TargetIsCurrent, directory_observed, Targets, Pending, Busy
  <1>5. DemotedByTwo' /\ OneTarget' /\ PassedWasMet' /\ MissesCounted'
    BY ProberPart
  <1> QED
    BY <1>3, <1>4, <1>5 DEF RouteInv, RowPart

LEMMA HeartbeatKeeps ==
  ASSUME RouteInv, NEW n \in Nodes, NEW a \in BOOLEAN, Heartbeat(n, a)
  PROVE  RouteInv'
  <1> DEFINE new == [nodes[n] EXCEPT !.available = a, !.status = "active", !.seen = "fresh"]
  <1>1. nodes[n] \in Rows /\ nodes \in [Nodes -> Rows \cup {None}]
    BY DEF RouteInv, TypeOK, Heartbeat
  <1>2. new \in Rows /\ new.endpoint = nodes[n].endpoint /\ new.reachable = nodes[n].reachable /\ new.dead = nodes[n].dead
    BY <1>1 DEF Rows
  <1>3. nodes' = [nodes EXCEPT ![n] = new]
    BY <1>1 DEF Heartbeat, Rows
  <1>4. newer' \in [Nodes -> SUBSET Nodes]
    BY DEF Heartbeat, Heard, RouteInv, TypeOK
  <1> HIDE DEF new
  <1> QED
    BY <1>1, <1>2, <1>3, <1>4, RowKeeps DEF Heartbeat

LEMMA SilenceKeeps ==
  ASSUME RouteInv, NEW n \in Nodes, Silence(n)
  PROVE  RouteInv'
  <1> DEFINE new == [nodes[n] EXCEPT !.seen = "stale"]
  <1>1. nodes[n] \in Rows /\ nodes \in [Nodes -> Rows \cup {None}]
    BY DEF RouteInv, TypeOK, Silence
  <1>2. /\ new \in Rows /\ new.endpoint = nodes[n].endpoint /\ new.reachable = nodes[n].reachable /\ new.dead = nodes[n].dead
        /\ new.status = nodes[n].status /\ new.available = nodes[n].available
    BY <1>1 DEF Rows
  <1>3. nodes' = [nodes EXCEPT ![n] = new]
    BY <1>1 DEF Silence, Rows
  <1>4. n \in hidden => nodes[n].status = "archived" /\ ~nodes[n].available
    BY DEF RouteInv, HiddenIsArchived
  <1>5. /\ UNCHANGED <<up, prober, told, restricted, hidden, misses, met, moved>> /\ nodes[n] # None
        /\ newer' \in [Nodes -> SUBSET Nodes]
    BY DEF Silence, history, RouteInv, TypeOK
  <1> HIDE DEF new
  <1> QED
    BY <1>2, <1>3, <1>4, <1>5, RowKeeps

LEMMA ExpireKeeps ==
  ASSUME RouteInv, NEW n \in Nodes, ExpireStale(n)
  PROVE  RouteInv'
  <1> DEFINE new == [nodes[n] EXCEPT !.available = FALSE, !.status = "dormant"]
  <1>1. nodes[n] \in Rows /\ nodes \in [Nodes -> Rows \cup {None}]
    BY DEF RouteInv, TypeOK, ExpireStale
  <1>2. new \in Rows /\ new.endpoint = nodes[n].endpoint /\ new.reachable = nodes[n].reachable /\ new.dead = nodes[n].dead
    BY <1>1 DEF Rows
  <1>3. nodes' = [nodes EXCEPT ![n] = new]
    BY <1>1 DEF ExpireStale, Rows
  <1>4. n \notin hidden
    BY DEF RouteInv, HiddenIsArchived, ExpireStale
  <1>5. newer' \in [Nodes -> SUBSET Nodes]
    BY DEF ExpireStale, RouteInv, TypeOK
  <1> HIDE DEF new
  <1> QED
    BY <1>1, <1>2, <1>3, <1>4, <1>5, RowKeeps DEF ExpireStale, history

LEMMA RestrictKeeps ==
  ASSUME RouteInv, NEW n \in Nodes, Restriction(n)
  PROVE  RouteInv'
  <1> DEFINE new == Hidden(nodes[n])
  <1>0. nodes[n] \in Rows /\ nodes \in [Nodes -> Rows \cup {None}]
    BY DEF RouteInv, TypeOK, Restriction
  <1>1. /\ new \in Rows /\ new.endpoint = nodes[n].endpoint /\ ~new.reachable
        /\ new.status = "archived" /\ ~new.available
    BY <1>0 DEF Rows, Hidden
  <1>2. nodes' = [nodes EXCEPT ![n] = new] /\ new # None
    BY <1>1, NoneIsNoRow DEF Restriction
  <1> HIDE DEF new
  <1>3. TypeOK'
    BY <1>0, <1>1, <1>2 DEF RouteInv, TypeOK, Restriction
  <1>4. RowPart'
    BY <1>0, <1>1, <1>2 DEF RowPart, RouteInv, TypeOK, Restriction, DeadNotReachable, LogTellsRoute, ObservedWasConnected,
       GoneIsUntold, HiddenIsArchived, TargetIsCurrent, directory_observed, Targets, Pending, Busy
  <1>5. DemotedByTwo' /\ OneTarget' /\ PassedWasMet' /\ MissesCounted'
    BY ProberPart DEF Restriction
  <1> QED
    BY <1>3, <1>4, <1>5 DEF RouteInv, RowPart

LEMMA DeregisterKeeps ==
  ASSUME RouteInv, NEW n \in Nodes, Deregister(n)
  PROVE  RouteInv'
  <1>0. nodes \in [Nodes -> Rows \cup {None}] /\ told \in [Nodes -> BOOLEAN]
    BY DEF RouteInv, TypeOK
  <1>3. TypeOK'
    BY <1>0 DEF RouteInv, TypeOK, Deregister
  <1>4. RowPart'
    BY <1>0 DEF RowPart, RouteInv, TypeOK, Deregister, DeadNotReachable, LogTellsRoute, ObservedWasConnected,
       GoneIsUntold, HiddenIsArchived, TargetIsCurrent, directory_observed, Targets, Pending, Busy
  <1>5. DemotedByTwo' /\ OneTarget' /\ PassedWasMet' /\ MissesCounted'
    BY ProberPart DEF Deregister
  <1> QED
    BY <1>3, <1>4, <1>5 DEF RouteInv, RowPart

---------------------------------------------------------------------------
(* The probe's own steps *)

LEMMA ReadQueueKeeps ==
  ASSUME RouteInv, ReadQueue \/ ReadFails
  PROVE  RouteInv'
  <1> DEFINE Queue(list) == {[node |-> n, endpoint |-> nodes[n].endpoint] : n \in list}
  <1>0. nodes \in [Nodes -> Rows \cup {None}]
    BY DEF RouteInv, TypeOK
  <1>1. PICK list \in SUBSET probeable : prober' = [pc |-> "next", queue |-> Queue(list)]
    <2>1. Queue({}) = {}
      OBVIOUS
    <2> QED
      BY <2>1 DEF ReadQueue, ReadFails, get_probeable_nodes
  <1>2. UNCHANGED <<nodes, newer, up, told, restricted, hidden, misses, met, moved>>
    BY DEF ReadQueue, ReadFails, history
  <1> DEFINE r == Queue(list)
  <1>3. \A t \in r : t \in Targets /\ nodes[t.node] # None /\ nodes[t.node].endpoint = t.endpoint
    BY <1>0 DEF probeable, Seen, Targets, Rows
  <1> HIDE DEF r
  <1>4. prober' \in [pc : {"next"}, queue : SUBSET Targets] /\ prober'.pc = "next" /\ prober'.queue = r
    <2>1. prober' = [pc |-> "next", queue |-> r]
      BY <1>1 DEF r
    <2> QED
      BY <1>3, <2>1
  <1>5. TypeOK'
    BY <1>2, <1>4 DEF RouteInv, TypeOK, Probers
  <1>6. OneTarget' /\ TargetIsCurrent'
    BY <1>2, <1>3, <1>4 DEF OneTarget, TargetIsCurrent, Pending, Busy, Targets
  <1>7. DemotedByTwo' /\ PassedWasMet' /\ MissesCounted'
    BY <1>4 DEF DemotedByTwo, PassedWasMet, MissesCounted
  <1>8. DeadNotReachable' /\ LogTellsRoute' /\ ObservedWasConnected' /\ GoneIsUntold' /\ HiddenIsArchived'
    BY <1>2 DEF RouteInv, DeadNotReachable, LogTellsRoute, ObservedWasConnected, GoneIsUntold, HiddenIsArchived
  <1> QED
    BY <1>5, <1>6, <1>7, <1>8 DEF RouteInv

\* A step of the loop that takes no new target keeps what is known of the pending ones.
LEMMA ProbeKeeps ==
  ASSUME RouteInv, TypeOK',
         UNCHANGED <<nodes, up, told, restricted, hidden, moved>>,
         met \subseteq met',
         \A t \in Targets : Pending(t)' => Pending(t),
         DemotedByTwo', PassedWasMet', MissesCounted'
  PROVE  RouteInv'
  <1>1. OneTarget' /\ TargetIsCurrent'
    BY DEF RouteInv, OneTarget, TargetIsCurrent
  <1>2. DeadNotReachable' /\ LogTellsRoute' /\ ObservedWasConnected' /\ GoneIsUntold' /\ HiddenIsArchived'
    BY DEF RouteInv, DeadNotReachable, LogTellsRoute, ObservedWasConnected, GoneIsUntold, HiddenIsArchived
  <1> QED
    BY <1>1, <1>2 DEF RouteInv

LEMMA TakeNextKeeps ==
  ASSUME RouteInv, NEW t \in prober.queue, TakeNext(t)
  PROVE  RouteInv'
  <1>1. prober \in [pc : {"next"}, queue : SUBSET Targets] /\ t \in Targets
    BY ProberCases DEF RouteInv, TypeOK, TakeNext, Idle
  <1>2. CASE t.endpoint \in Probeable
    <2>1. prober' = [pc |-> "connect", queue |-> prober.queue \ {t}, target |-> t]
      BY <1>2 DEF TakeNext
    <2>2. /\ prober' \in [pc : {"connect", "confirm"}, queue : SUBSET Targets, target : Targets]
          /\ prober'.pc = "connect" /\ prober'.queue = prober.queue \ {t} /\ prober'.target = t
      BY <1>1, <2>1
    <2>3. TypeOK'
      BY <2>2 DEF RouteInv, TypeOK, Probers, TakeNext
    <2>4. \A u \in Targets : Pending(u)' => Pending(u)
      BY <2>2 DEF Pending, Busy
    <2>5. DemotedByTwo' /\ PassedWasMet' /\ MissesCounted'
      BY <2>2 DEF DemotedByTwo, PassedWasMet, MissesCounted, TakeNext
    <2> QED
      BY <2>3, <2>4, <2>5, ProbeKeeps DEF TakeNext
  <1>3. CASE t.endpoint \notin Probeable
    <2>1. prober' = [prober EXCEPT !.queue = prober.queue \ {t}]
      BY <1>3 DEF TakeNext
    <2>2. /\ prober' \in [pc : {"next"}, queue : SUBSET Targets]
          /\ prober'.pc = "next" /\ prober'.queue = prober.queue \ {t}
      BY <1>1, <2>1
    <2>3. TypeOK'
      BY <2>2 DEF RouteInv, TypeOK, Probers, TakeNext
    <2>4. \A u \in Targets : Pending(u)' => Pending(u)
      BY <2>2 DEF Pending, Busy
    <2>5. DemotedByTwo' /\ PassedWasMet' /\ MissesCounted'
      BY <2>2 DEF DemotedByTwo, PassedWasMet, MissesCounted
    <2> QED
      BY <2>3, <2>4, <2>5, ProbeKeeps DEF TakeNext
  <1> QED
    BY <1>2, <1>3

LEMMA RoundEndsKeeps ==
  ASSUME RouteInv, RoundEnds
  PROVE  RouteInv'
  <1>1. prober' = Idle /\ UNCHANGED <<nodes, newer, up, told, restricted, hidden, misses, met, moved>>
    BY DEF RoundEnds, history
  <1>2. TypeOK'
    BY <1>1 DEF RouteInv, TypeOK
  <1>3. prober'.pc = "idle" /\ prober'.queue = {}
    BY <1>1 DEF Idle
  <1>4. \A u \in Targets : Pending(u)' => Pending(u)
    BY <1>3 DEF Pending, Busy
  <1>5. DemotedByTwo' /\ PassedWasMet' /\ MissesCounted'
    BY <1>3 DEF DemotedByTwo, PassedWasMet, MissesCounted
  <1> QED
    BY <1>1, <1>2, <1>4, <1>5, ProbeKeeps

LEMMA ConnectKeeps ==
  ASSUME RouteInv, Connect
  PROVE  RouteInv'
  <1> DEFINE ok == prober.target.endpoint \in up
  <1>1. /\ prober \in [pc : {"connect", "confirm"}, queue : SUBSET Targets, target : Targets]
        /\ prober.pc \in {"connect", "confirm"}
    BY ProberCases DEF RouteInv, TypeOK, Connect, Idle
  <1>2. /\ prober' = AfterConnect(ok)
        /\ misses' = IF ok THEN 0 ELSE misses + 1
        /\ met' = IF ok THEN met \cup {prober.target.endpoint} ELSE met
        /\ UNCHANGED <<nodes, newer, up, told, restricted, hidden, moved>>
    BY DEF Connect
  <1>3. /\ prober.pc = "connect" => misses = 0
        /\ prober.pc = "confirm" => misses = 1
    BY DEF RouteInv, MissesCounted
  <1>t. prober.target \in Targets /\ prober.target.endpoint \in Endpoints /\ ok \in BOOLEAN
    BY <1>1 DEF Targets
  <1> HIDE DEF ok
  <1>4. CASE ok \/ prober.pc = "confirm"
    <2>1. prober' = [pc |-> "apply", queue |-> prober.queue, target |-> prober.target, passed |-> ok]
      BY <1>2, <1>4 DEF AfterConnect, Judged
    <2>2. /\ prober' \in [pc : {"apply"}, queue : SUBSET Targets, target : Targets, passed : BOOLEAN]
          /\ prober'.pc = "apply" /\ prober'.queue = prober.queue /\ prober'.target = prober.target /\ prober'.passed = ok
      BY <1>1, <1>t, <2>1
    <2>3. TypeOK'
      BY <1>2, <1>3, <1>4, <1>t, <2>2 DEF RouteInv, TypeOK, Probers
    <2>4. \A u \in Targets : Pending(u)' => Pending(u)
      BY <1>1, <2>2 DEF Pending, Busy
    <2>5. DemotedByTwo' /\ PassedWasMet' /\ MissesCounted'
      BY <1>2, <1>3, <1>4, <2>2 DEF DemotedByTwo, PassedWasMet, MissesCounted
    <2> QED
      BY <1>2, <2>3, <2>4, <2>5, ProbeKeeps
  <1>5. CASE ~ok /\ prober.pc = "connect"
    <2>1. prober' = [prober EXCEPT !.pc = "confirm"]
      BY <1>2, <1>5 DEF AfterConnect
    <2>2. /\ prober' \in [pc : {"connect", "confirm"}, queue : SUBSET Targets, target : Targets]
          /\ prober'.pc = "confirm" /\ prober'.queue = prober.queue /\ prober'.target = prober.target
      BY <1>1, <2>1
    <2>3. TypeOK'
      BY <1>2, <1>3, <1>5, <2>2 DEF RouteInv, TypeOK, Probers
    <2>4. \A u \in Targets : Pending(u)' => Pending(u)
      BY <1>1, <2>2 DEF Pending, Busy
    <2>5. DemotedByTwo' /\ PassedWasMet' /\ MissesCounted'
      BY <1>2, <1>3, <1>5, <2>2 DEF DemotedByTwo, PassedWasMet, MissesCounted
    <2> QED
      BY <1>2, <2>3, <2>4, <2>5, ProbeKeeps
  <1> QED
    BY <1>1, <1>4, <1>5

LEMMA ApplyFailsKeeps ==
  ASSUME RouteInv, ApplyFails
  PROVE  RouteInv'
  <1>1. prober \in [pc : {"apply"}, queue : SUBSET Targets, target : Targets, passed : BOOLEAN]
    BY ProberCases DEF RouteInv, TypeOK, ApplyFails, Idle
  <1>2. /\ prober' = [pc |-> "next", queue |-> prober.queue]
        /\ UNCHANGED <<nodes, newer, up, told, restricted, hidden, misses, met, moved>>
    BY DEF ApplyFails, history
  <1>3. prober' \in [pc : {"next"}, queue : SUBSET Targets] /\ prober'.pc = "next" /\ prober'.queue = prober.queue
    BY <1>1, <1>2
  <1>4. TypeOK'
    BY <1>2, <1>3 DEF RouteInv, TypeOK, Probers
  <1>5. \A u \in Targets : Pending(u)' => Pending(u)
    BY <1>3 DEF Pending, Busy
  <1>6. DemotedByTwo' /\ PassedWasMet' /\ MissesCounted'
    BY <1>3 DEF DemotedByTwo, PassedWasMet, MissesCounted
  <1> QED
    BY <1>2, <1>4, <1>5, <1>6, ProbeKeeps

\* The transaction: the row it locks may be another one than the probe was sent for.
LEMMA ApplyKeeps ==
  ASSUME RouteInv, Apply
  PROVE  RouteInv'
  <1>1. prober \in [pc : {"apply"}, queue : SUBSET Targets, target : Targets, passed : BOOLEAN]
    BY ProberCases DEF RouteInv, TypeOK, Apply, Idle
  <1>2. PICK n \in Nodes, e \in Endpoints, passed \in BOOLEAN :
          n = prober.target.node /\ e = prober.target.endpoint /\ passed = prober.passed
    BY <1>1 DEF Targets
  <1>3. prober.pc = "apply" /\ prober.target \in Targets /\ prober.queue \subseteq Targets
    BY <1>1
  <1>4. /\ prober' = [pc |-> "next", queue |-> prober.queue]
        /\ moved' = IF nodes[n] # None /\ nodes[n].endpoint = e THEN moved \ {n} ELSE moved
        /\ UNCHANGED <<newer, up, hidden, misses, met>>
    BY <1>2 DEF Apply
  <1>5. prober' \in [pc : {"next"}, queue : SUBSET Targets] /\ prober'.pc = "next" /\ prober'.queue = prober.queue
    BY <1>3, <1>4
  <1>6. \/ /\ nodes[n] # None
           /\ Restores(nodes[n], passed) \/ Demotes(nodes[n], passed)
           /\ nodes' = [nodes EXCEPT ![n] = Moved(nodes[n], passed)]
           /\ told' = [told EXCEPT ![n] = passed]
           /\ restricted' = restricted \ {n}
        \/ /\ ~(nodes[n] # None /\ (Restores(nodes[n], passed) \/ Demotes(nodes[n], passed)))
           /\ UNCHANGED <<nodes, told, restricted>>
    BY <1>2 DEF Apply, Told
  <1>7. nodes \in [Nodes -> Rows \cup {None}] /\ told \in [Nodes -> BOOLEAN]
    BY DEF RouteInv, TypeOK
  <1>8. n \notin moved => nodes[n] # None /\ nodes[n].endpoint = e
    BY <1>2, <1>3 DEF RouteInv, TargetIsCurrent, Pending, Busy
  <1>9. passed => e \in met
    BY <1>2, <1>3 DEF RouteInv, PassedWasMet
  <1>10. \A t \in Targets : Pending(t)' => Pending(t) /\ (t.node = n => t.endpoint = e)
    BY <1>2, <1>3, <1>5 DEF RouteInv, OneTarget, Pending, Busy
  <1>11. OneTarget'
    BY <1>10 DEF RouteInv, OneTarget
  <1>12. DemotedByTwo' /\ PassedWasMet' /\ MissesCounted'
    BY <1>5 DEF DemotedByTwo, PassedWasMet, MissesCounted
  <1>13. CASE /\ nodes[n] # None
              /\ nodes' = [nodes EXCEPT ![n] = Moved(nodes[n], passed)]
              /\ told' = [told EXCEPT ![n] = passed]
              /\ restricted' = restricted \ {n}
    <2> DEFINE new == Moved(nodes[n], passed)
    <2>0. nodes[n] \in Rows
      BY <1>7, <1>13
    <2>1. /\ new \in Rows /\ new.endpoint = nodes[n].endpoint /\ new.reachable = passed /\ new.dead = ~passed
          /\ new.status = nodes[n].status /\ new.available = nodes[n].available
      BY <2>0 DEF Rows, Moved
    <2>2. nodes' = [nodes EXCEPT ![n] = new] /\ new # None
      BY <1>13, <2>1, NoneIsNoRow
    <2> HIDE DEF new
    <2>3. TypeOK'
      BY <1>4, <1>5, <1>7, <1>13, <2>1, <2>2 DEF RouteInv, TypeOK, Probers
    <2>4. DeadNotReachable' /\ LogTellsRoute' /\ GoneIsUntold'
      BY <1>7, <1>13, <2>1, <2>2 DEF RouteInv, DeadNotReachable, LogTellsRoute, GoneIsUntold
    <2>5. HiddenIsArchived'
      BY <1>4, <1>7, <2>1, <2>2 DEF RouteInv, TypeOK, HiddenIsArchived
    <2>6. ObservedWasConnected'
      BY <1>4, <1>7, <1>8, <1>9, <2>1, <2>2 DEF RouteInv, ObservedWasConnected, directory_observed
    <2>7. TargetIsCurrent'
      BY <1>4, <1>7, <1>10, <2>1, <2>2 DEF RouteInv, TargetIsCurrent, Targets
    <2> QED
      BY <1>11, <1>12, <2>3, <2>4, <2>5, <2>6, <2>7 DEF RouteInv
  <1>14. CASE /\ ~(nodes[n] # None /\ (Restores(nodes[n], passed) \/ Demotes(nodes[n], passed)))
              /\ UNCHANGED <<nodes, told, restricted>>
    <2>1. nodes[n] # None => (nodes[n].reachable => passed)
      BY <1>7, <1>14 DEF Demotes, Rows
    <2>2. TypeOK'
      BY <1>4, <1>5, <1>7, <1>14 DEF RouteInv, TypeOK, Probers
    <2>3. DeadNotReachable' /\ LogTellsRoute' /\ GoneIsUntold' /\ HiddenIsArchived'
      BY <1>4, <1>14 DEF RouteInv, DeadNotReachable, LogTellsRoute, GoneIsUntold, HiddenIsArchived
    <2>4. ObservedWasConnected'
      BY <1>4, <1>8, <1>9, <1>14, <2>1 DEF RouteInv, ObservedWasConnected, directory_observed
    <2>5. TargetIsCurrent'
      BY <1>4, <1>10, <1>14 DEF RouteInv, TargetIsCurrent, Targets
    <2> QED
      BY <1>11, <1>12, <2>2, <2>3, <2>4, <2>5 DEF RouteInv
  <1> QED
    BY <1>6, <1>13, <1>14

LEMMA NetworkKeeps ==
  ASSUME RouteInv, NEW e \in Endpoints, Network(e)
  PROVE  RouteInv'
  BY DEF Network, history, RouteInv, TypeOK, DeadNotReachable, LogTellsRoute, ObservedWasConnected, GoneIsUntold,
     HiddenIsArchived, DemotedByTwo, OneTarget, TargetIsCurrent, PassedWasMet, MissesCounted, Pending, Busy

LEMMA RouteStep == RouteInv /\ [Next]_vars => RouteInv'
  <1> SUFFICES ASSUME RouteInv, [Next]_vars
               PROVE  RouteInv'
    OBVIOUS
  <1>1. CASE Write
    BY <1>1, RegisterKeeps, HeartbeatKeeps, SilenceKeeps, ExpireKeeps, RestrictKeeps, DeregisterKeeps DEF Write
  <1>2. CASE ProbeStep
    BY <1>2, RoundEndsKeeps, ConnectKeeps, TakeNextKeeps DEF ProbeStep
  <1>3. CASE ReadQueue \/ ReadFails
    BY <1>3, ReadQueueKeeps
  <1>4. CASE Apply \/ ApplyFails
    BY <1>4, ApplyKeeps, ApplyFailsKeeps
  <1>5. CASE \E e \in Endpoints : Network(e)
    BY <1>5, NetworkKeeps
  <1>6. CASE UNCHANGED vars
    BY <1>6 DEF vars, history, RouteInv, TypeOK, DeadNotReachable, LogTellsRoute, ObservedWasConnected, GoneIsUntold,
       HiddenIsArchived, DemotedByTwo, OneTarget, TargetIsCurrent, PassedWasMet, MissesCounted, Pending, Busy
  <1> QED
    BY <1>1, <1>2, <1>3, <1>4, <1>5, <1>6 DEF Next

LEMMA RouteSafety == RouteInv => Safety
  BY DEF RouteInv, Safety, HiddenIsArchived, RestrictedNotOffered, Routable

\* Routes are observed, logged and offered rightly whatever happens to a row between the
\* read of the queue and the transaction of the probe (run_probe_nodes_loop,
\* apply_probe_route_state).
THEOREM RoutesAreSafe == Spec => []Safety
  <1>1. Init => RouteInv
    BY RouteInit
  <1>2. RouteInv /\ [Next]_vars => RouteInv'
    BY RouteStep
  <1> QED
    BY <1>1, <1>2, RouteSafety, PTL DEF Spec

\* The same of the probe loop among the other loops of a process.
THEOREM SupervisedRoutesAreSafe == MCSpec => []RoutesSafe
  <1> DEFINE all == <<focus, vars, healthVars, telemetryVars, schemaVars>>
             Inv == Routing => RouteInv
  <1>1. MCInit => Inv
    BY RouteInit DEF MCInit
  <1>2. Inv /\ [MCNext]_all => Inv'
    <2> SUFFICES ASSUME Inv, [MCNext]_all, Routing'
                 PROVE  RouteInv'
      OBVIOUS
    <2>1. Routing /\ [Next]_vars
      BY DEF MCNext, Routing, Starting, AllServe
    <2> QED
      BY <2>1, RouteStep
  <1>3. Inv => RoutesSafe
    BY RouteSafety DEF RoutesSafe
  <1> QED
    BY <1>1, <1>2, <1>3, PTL DEF MCSpec

---------------------------------------------------------------------------
(* The schema contract *)

LEMMA PartsAre == Schema!Parts = {"columns", "indexes", "foreign_keys"}
  <1>1. Len(Schema!Catalogues) = 3 /\ Schema!Catalogues[1] = "columns" /\ Schema!Catalogues[2] = "indexes"
        /\ Schema!Catalogues[3] = "foreign_keys"
    BY DEF Schema!Catalogues
  <1>2. 1..Len(Schema!Catalogues) = {1, 2, 3}
    BY <1>1
  <1> QED
    BY <1>1, <1>2 DEF Schema!Parts

LEMMA BaselineIs ==
  /\ Len(Schema!Baseline) = 4
  /\ Schema!Baseline[1] = "windows" /\ Schema!Baseline[2] = "chain_heads"
  /\ Schema!Baseline[3] = "genesis" /\ Schema!Baseline[4] = "nodes"
  BY DEF Schema!Baseline

\* A catalogue once read matches for as long as the tables are there.
SeenIsThere ==
  \A p \in Schema!Processes : proc[p].pc = "verify" =>
    \A c \in DOMAIN proc[p].seen : \A t \in proc[p].seen[c] : db[t] # None /\ c \in db[t]
\* The first row comes before the last table, by whichever process.
RowBeforeNodes ==
  /\ db["nodes"] # None => genesis
  /\ \A p \in Schema!Processes : proc[p].pc = "bootstrap" /\ proc[p].stmt >= 4 => genesis
\* A process that is past the first table has created it in this life, and nobody else
\* creates a table.
CreatesAll ==
  /\ \A p \in Schema!Processes : proc[p].pc = "bootstrap" /\ proc[p].stmt >= 2 => creator["windows"] = p
  /\ \A t \in Schema!Tables : (db[t] = None <=> creator[t] = None)
  /\ \A t \in Schema!Tables : creator[t] # None => creator[t] = creator["windows"]

SchemaInv == Schema!TypeOK /\ Schema!ServedIsWhole /\ SeenIsThere /\ RowBeforeNodes /\ CreatesAll

LEMMA SchemaInit == Schema!Init => SchemaInv
  <1> SUFFICES ASSUME Schema!Init
               PROVE  SchemaInv
    OBVIOUS
  <1> DEFINE down == [pc |-> "down"]
  <1>0. down.pc = "down" /\ down \in [pc : {"down", "failed", "count", "serving"}]
    OBVIOUS
  <1> HIDE DEF down
  <1>1. proc = [p \in Schema!Processes |-> down]
    BY DEF Schema!Init, Schema!Down, down
  <1>2. proc \in [Schema!Processes -> Schema!ProcStates] /\ \A p \in Schema!Processes : proc[p].pc = "down"
    BY <1>0, <1>1 DEF Schema!ProcStates
  <1>3. db \in [Schema!Tables -> (SUBSET Schema!Parts) \cup {None}]
    <2>1. CASE db = [t \in Schema!Tables |-> None]
      BY <2>1
    <2>2. CASE \E c \in Schema!Parts \cup {None} : db = [[t \in Schema!Tables |-> Schema!Parts] EXCEPT !["nodes"] = Schema!Parts \ {c}]
      BY <2>2
    <2> QED
      BY <2>1, <2>2 DEF Schema!Init
  <1>4. Schema!TypeOK
    <2>1. creator \in [Schema!Tables -> Schema!Processes \cup {None, "operator", "dead"}]
      BY DEF Schema!Init
    <2>2. genesis \in BOOLEAN /\ extra \in BOOLEAN /\ fails \in 0..MaxFails
      <3>1. genesis \in BOOLEAN
        BY Zenon DEF Schema!Init
      <3> QED
        BY <3>1, SchemaAssumption DEF Schema!Init
    <2>3. recent \in [Servers -> 0..StartLimitBurst]
      BY SchemaAssumption DEF Schema!Init
    <2> QED
      BY <1>2, <1>3, <2>1, <2>2, <2>3 DEF Schema!TypeOK
  <1>5. RowBeforeNodes
    BY <1>2 DEF Schema!Init, RowBeforeNodes, Schema!Tables
  <1>6. CreatesAll
    <2>1. \A t \in Schema!Tables : creator[t] = IF db[t] = None THEN None ELSE "operator"
      BY DEF Schema!Init
    <2>2. \A t \in Schema!Tables : db[t] # None => db["windows"] # None
      <3>1. CASE db = [t \in Schema!Tables |-> None]
        BY <3>1
      <3>2. CASE \E c \in Schema!Parts \cup {None} : db = [[t \in Schema!Tables |-> Schema!Parts] EXCEPT !["nodes"] = Schema!Parts \ {c}]
        BY <3>2, NoneIsNoTable DEF Schema!Tables
      <3> QED
        BY <3>1, <3>2 DEF Schema!Init
    <2> QED
      BY <1>2, <2>1, <2>2, NoneIsNoCreator DEF CreatesAll, Schema!Tables
  <1>7. SeenIsThere /\ Schema!ServedIsWhole
    BY <1>2 DEF SeenIsThere, Schema!ServedIsWhole
  <1> QED
    BY <1>4, <1>5, <1>6, <1>7 DEF SchemaInv

LEMMA ProcCases ==
  ASSUME NEW s \in Schema!ProcStates
  PROVE  \/ s \in [pc : {"down", "failed", "count", "serving"}]
         \/ s \in [pc : {"bootstrap"}, stmt : 1..4]
         \/ s \in [pc : {"verify"}, seen : UNION {[P -> SUBSET Schema!Tables] : P \in SUBSET Schema!Parts}]
  BY BaselineIs DEF Schema!ProcStates

\* A step of one process that leaves the database alone.
LEMMA GoesKeeps ==
  ASSUME SchemaInv, NEW p \in Schema!Processes, NEW to \in Schema!ProcStates,
         proc' = [proc EXCEPT ![p] = to], UNCHANGED <<db, extra, genesis, creator, fails>>,
         recent' \in [Servers -> 0..StartLimitBurst],
         to.pc = "serving" => Schema!Whole,
         to.pc = "verify" => \A c \in DOMAIN to.seen : \A t \in to.seen[c] : db[t] # None /\ c \in db[t],
         to.pc = "bootstrap" => to.stmt = 1
  PROVE  SchemaInv'
  <1>0. proc \in [Schema!Processes -> Schema!ProcStates]
    BY DEF SchemaInv, Schema!TypeOK
  <1>1. Schema!TypeOK'
    BY <1>0 DEF SchemaInv, Schema!TypeOK
  <1>2. Schema!ServedIsWhole'
    BY <1>0 DEF SchemaInv, Schema!ServedIsWhole, Schema!Whole
  <1>3. SeenIsThere'
    BY <1>0 DEF SchemaInv, SeenIsThere
  <1>4. RowBeforeNodes'
    BY <1>0 DEF SchemaInv, RowBeforeNodes
  <1>5. CreatesAll'
    BY <1>0 DEF SchemaInv, CreatesAll
  <1> QED
    BY <1>1, <1>2, <1>3, <1>4, <1>5 DEF SchemaInv

\* A process ends, and with it the creator of what it has created.
LEMMA EndsKeeps ==
  ASSUME SchemaInv, NEW p \in Schema!Processes, Schema!Ends(p), UNCHANGED <<db, extra, genesis, recent>>,
         fails' \in 0..MaxFails
  PROVE  SchemaInv'
  <1> DEFINE down == [pc |-> "down"]
  <1>a. down.pc = "down" /\ down \in Schema!ProcStates
    BY DEF Schema!ProcStates
  <1> HIDE DEF down
  <1>b. proc' = [proc EXCEPT ![p] = down]
    BY DEF Schema!Ends, Schema!Goes, Schema!Down, down
  <1>c. \A t \in Schema!Tables : creator'[t] = IF creator[t] = p THEN "dead" ELSE creator[t]
    BY DEF Schema!Ends
  <1>0. proc \in [Schema!Processes -> Schema!ProcStates] /\ creator \in [Schema!Tables -> Schema!Processes \cup {None, "operator", "dead"}]
    BY DEF SchemaInv, Schema!TypeOK
  <1>1. Schema!TypeOK'
    BY <1>0, <1>a, <1>b DEF SchemaInv, Schema!TypeOK, Schema!Ends
  <1>2. Schema!ServedIsWhole'
    BY <1>0, <1>a, <1>b DEF SchemaInv, Schema!ServedIsWhole, Schema!Whole
  <1>3. SeenIsThere'
    BY <1>0, <1>a, <1>b DEF SchemaInv, SeenIsThere
  <1>4. RowBeforeNodes'
    BY <1>0, <1>a, <1>b DEF SchemaInv, RowBeforeNodes
  <1>5. CreatesAll'
    <2>1. p # None /\ "dead" # None
      BY NoneIsNoCreator DEF Schema!Processes
    <2>2. "windows" \in Schema!Tables
      BY DEF Schema!Tables
    <2>3. \A q \in Schema!Processes : proc'[q].pc = "bootstrap" => q # p /\ proc'[q] = proc[q]
      BY <1>0, <1>a, <1>b
    <2>4. \A q \in Schema!Processes : proc'[q].pc = "bootstrap" /\ proc'[q].stmt >= 2 => creator'["windows"] = q
      BY <1>c, <2>2, <2>3 DEF SchemaInv, CreatesAll
    <2>5. \A t \in Schema!Tables : (db'[t] = None <=> creator'[t] = None)
      BY <1>c, <2>1 DEF SchemaInv, CreatesAll
    <2>6. \A t \in Schema!Tables : creator'[t] # None => creator'[t] = creator'["windows"]
      BY <1>c, <2>1, <2>2 DEF SchemaInv, CreatesAll
    <2> QED
      BY <2>4, <2>5, <2>6 DEF CreatesAll
  <1> QED
    BY <1>1, <1>2, <1>3, <1>4, <1>5 DEF SchemaInv

LEMMA VerifyingState ==
  /\ Schema!Verifying \in Schema!ProcStates /\ Schema!Verifying.pc = "verify"
  /\ DOMAIN Schema!Verifying.seen = {}
  <1> DEFINE f == [c \in {} |-> {}]
  <1>1. f \in [{} -> SUBSET Schema!Tables] /\ DOMAIN f = {}
    OBVIOUS
  <1>2. f \in UNION {[P -> SUBSET Schema!Tables] : P \in SUBSET Schema!Parts}
    BY <1>1
  <1> HIDE DEF f
  <1>3. Schema!Verifying = [pc |-> "verify", seen |-> f]
    BY DEF Schema!Verifying, f
  <1> QED
    BY <1>1, <1>2, <1>3 DEF Schema!ProcStates

\* A start counts against the limit, and the count never exceeds it.
LEMMA StartKeeps ==
  ASSUME SchemaInv, NEW p \in Schema!Processes, Schema!Start(p) \/ (p \in Servers /\ Schema!ResetFailed(p))
  PROVE  SchemaInv'
  <1>0. recent \in [Servers -> 0..StartLimitBurst] /\ StartLimitBurst \in Nat
    BY SchemaAssumption DEF SchemaInv, Schema!TypeOK
  <1>1. recent' \in [Servers -> 0..StartLimitBurst]
    <2>1. ASSUME NEW starts \in {0, recent[p]}, p \in Servers, starts < StartLimitBurst,
                 recent' = [recent EXCEPT ![p] = starts + 1]
          PROVE  recent' \in [Servers -> 0..StartLimitBurst]
      <3>1. starts \in Nat /\ starts + 1 \in 0..StartLimitBurst
        BY <1>0, <2>1
      <3> QED
        BY <1>0, <2>1, <3>1
    <2>2. CASE recent' = recent
      BY <1>0, <2>2
    <2>3. CASE recent' = [recent EXCEPT ![p] = 0]
      <3>1. 0 \in 0..StartLimitBurst
        BY <1>0
      <3> QED
        BY <1>0, <2>3, <3>1
    <2> QED
      BY <2>1, <2>2, <2>3 DEF Schema!Start, Schema!ResetFailed
  <1>2. PICK k \in {"down", "count", "failed"} : proc' = [proc EXCEPT ![p] = [pc |-> k]]
    BY DEF Schema!Start, Schema!ResetFailed, Schema!Goes, Schema!Down
  <1>3. UNCHANGED <<db, extra, genesis, creator, fails>>
    BY DEF Schema!Start, Schema!ResetFailed
  <1> DEFINE to == [pc |-> k]
  <1>4. to \in Schema!ProcStates /\ to.pc \in {"down", "count", "failed"} /\ proc' = [proc EXCEPT ![p] = to]
    BY <1>2 DEF Schema!ProcStates
  <1> HIDE DEF to
  <1> QED
    BY <1>1, <1>3, <1>4, GoesKeeps

LEMMA CountKeeps ==
  ASSUME SchemaInv, NEW p \in Schema!Processes, Schema!CountTables(p)
  PROVE  SchemaInv'
  <1>1. CASE Schema!Goes(p, Schema!Verifying) /\ UNCHANGED creator
    BY <1>1, VerifyingState, GoesKeeps DEF Schema!CountTables, Schema!Goes, SchemaInv, Schema!TypeOK
  <1>2. CASE Schema!Goes(p, [pc |-> "bootstrap", stmt |-> 1]) /\ UNCHANGED creator
    <2> DEFINE to == [pc |-> "bootstrap", stmt |-> 1]
    <2>1. to \in Schema!ProcStates /\ to.pc = "bootstrap" /\ to.stmt = 1
      BY BaselineIs DEF Schema!ProcStates
    <2>2. proc' = [proc EXCEPT ![p] = to] /\ UNCHANGED <<db, extra, genesis, creator, fails, recent>>
      BY <1>2 DEF Schema!CountTables, Schema!Goes
    <2> HIDE DEF to
    <2> QED
      BY <2>1, <2>2, GoesKeeps DEF SchemaInv, Schema!TypeOK
  <1>3. CASE Schema!Ends(p)
    BY <1>3, EndsKeeps DEF Schema!CountTables, SchemaInv, Schema!TypeOK
  <1> QED
    BY <1>1, <1>2, <1>3 DEF Schema!CountTables

LEMMA LoadKeeps ==
  ASSUME SchemaInv, NEW p \in Schema!Processes, Schema!Load(p)
  PROVE  SchemaInv'
  <1>0. proc[p] \in [pc : {"verify"}, seen : UNION {[P -> SUBSET Schema!Tables] : P \in SUBSET Schema!Parts}]
    BY ProcCases DEF SchemaInv, Schema!TypeOK, Schema!Load
  <1>1. PICK f : f = proc[p].seen
    OBVIOUS
  <1>2. PICK P \in SUBSET Schema!Parts : f \in [P -> SUBSET Schema!Tables]
    BY <1>0, <1>1
  <1>3. PICK i \in 1..Len(Schema!Catalogues) :
          Schema!Goes(p, [proc[p] EXCEPT !.seen = [c \in DOMAIN f \cup {Schema!Catalogues[i]} |->
             IF c \in DOMAIN f THEN f[c] ELSE {t \in Schema!Tables : db[t] # None /\ c \in db[t]}]])
    BY <1>1 DEF Schema!Load
  <1>4. PICK k \in Schema!Parts : k = Schema!Catalogues[i]
    BY DEF Schema!Parts
  <1> DEFINE g == [c \in P \cup {k} |-> IF c \in P THEN f[c] ELSE {t \in Schema!Tables : db[t] # None /\ c \in db[t]}]
             to == [proc[p] EXCEPT !.seen = g]
  <1>5. proc' = [proc EXCEPT ![p] = to]
    BY <1>2, <1>3, <1>4 DEF Schema!Goes
  <1>6. g \in [P \cup {k} -> SUBSET Schema!Tables] /\ DOMAIN g = P \cup {k}
    BY <1>2
  <1>7. g \in UNION {[Q -> SUBSET Schema!Tables] : Q \in SUBSET Schema!Parts}
    <2>1. P \cup {k} \in SUBSET Schema!Parts
      OBVIOUS
    <2> HIDE DEF g
    <2> QED
      BY <1>6, <2>1
  <1>8. \A c \in DOMAIN f : \A t \in f[c] : db[t] # None /\ c \in db[t]
    BY <1>0, <1>1 DEF SchemaInv, SeenIsThere
  <1>9. \A c \in DOMAIN g : \A t \in g[c] : db[t] # None /\ c \in db[t]
    BY <1>2, <1>8
  <1> HIDE DEF g
  <1>10. to \in Schema!ProcStates /\ to.pc = "verify" /\ to.seen = g
    BY <1>0, <1>7 DEF Schema!ProcStates
  <1> HIDE DEF to
  <1>11. UNCHANGED <<db, extra, genesis, creator, fails>> /\ recent' \in [Servers -> 0..StartLimitBurst]
    BY DEF Schema!Load, SchemaInv, Schema!TypeOK
  <1> QED
    BY <1>5, <1>9, <1>10, <1>11, GoesKeeps

LEMMA CompareKeeps ==
  ASSUME SchemaInv, NEW p \in Schema!Processes, Schema!Compare(p)
  PROVE  SchemaInv'
  <1>1. CASE Schema!problems(proc[p].seen) = {} /\ Schema!Goes(p, [pc |-> "serving"]) /\ UNCHANGED creator
    <2> DEFINE to == [pc |-> "serving"]
    <2>1. to \in Schema!ProcStates /\ to.pc = "serving"
      BY DEF Schema!ProcStates
    <2>2. proc' = [proc EXCEPT ![p] = to] /\ UNCHANGED <<db, extra, genesis, creator, fails, recent>>
      BY <1>1 DEF Schema!Compare, Schema!Goes
    <2> HIDE DEF to
    <2>3. \A t \in Schema!Tables, c \in Schema!Parts : t \in proc[p].seen[c]
      <3> SUFFICES ASSUME NEW t \in Schema!Tables, NEW c \in Schema!Parts
                   PROVE  t \in proc[p].seen[c]
        OBVIOUS
      <3>1. <<t, c>> \in Schema!Tables \X Schema!Parts /\ <<t, c>>[1] = t /\ <<t, c>>[2] = c
        OBVIOUS
      <3>2. <<t, c>> \notin {tc \in Schema!Tables \X Schema!Parts : tc[1] \notin proc[p].seen[tc[2]]}
        BY <1>1 DEF Schema!problems
      <3> QED
        BY <3>1, <3>2
    <2>4. \A t \in Schema!Tables, c \in Schema!Parts : db[t] # None /\ c \in db[t]
      BY <2>3 DEF Schema!Compare, SchemaInv, SeenIsThere
    <2>5. \A t \in Schema!Tables : db[t] = Schema!Parts
      <3> SUFFICES ASSUME NEW t \in Schema!Tables
                   PROVE  db[t] = Schema!Parts
        OBVIOUS
      <3>1. db[t] # None
        BY <2>4, PartsAre
      <3>2. db[t] \in SUBSET Schema!Parts
        BY <3>1 DEF SchemaInv, Schema!TypeOK
      <3> QED
        BY <2>4, <3>2
    <2>6. genesis
      BY <2>5, NoneIsNoTable DEF SchemaInv, RowBeforeNodes, Schema!Tables
    <2> QED
      BY <2>1, <2>2, <2>5, <2>6, GoesKeeps DEF Schema!Whole, SchemaInv, Schema!TypeOK
  <1>2. CASE Schema!Ends(p)
    BY <1>2, EndsKeeps DEF Schema!Compare, SchemaInv, Schema!TypeOK
  <1> QED
    BY <1>1, <1>2 DEF Schema!Compare

\* What a step may do to the tables: those that are there lose nothing.
LEMMA WithFacts ==
  ASSUME NEW f, NEW s, NEW v, NEW t \in Schema!Tables
  PROVE  Schema!With(f, s, v)[t] = IF t = s /\ f[t] = None THEN v ELSE f[t]
  BY DEF Schema!With

LEMMA ExecuteKeeps ==
  ASSUME SchemaInv, NEW p \in Schema!Processes, Schema!Execute(p)
  PROVE  SchemaInv'
  <1>0. proc \in [Schema!Processes -> Schema!ProcStates] /\ proc[p] \in [pc : {"bootstrap"}, stmt : 1..4]
    BY ProcCases DEF SchemaInv, Schema!TypeOK, Schema!Execute
  <1>1. PICK i \in 1..4 : i = proc[p].stmt
    BY <1>0
  <1>2. PICK s : s = Schema!Baseline[i]
    OBVIOUS
  <1>3. CASE Schema!Ends(p) /\ UNCHANGED <<db, genesis>>
    BY <1>3, EndsKeeps DEF Schema!Execute, SchemaInv, Schema!TypeOK
  <1>4. CASE /\ ~Schema!Clashes(s)
             /\ db' = Schema!With(db, s, Schema!Parts) /\ creator' = Schema!With(creator, s, p)
             /\ genesis' = (genesis \/ s = "genesis")
             /\ Schema!Goes(p, IF Schema!LastStatement(i) THEN Schema!Verifying ELSE [proc[p] EXCEPT !.stmt = i + 1])
    <2> DEFINE to == IF i = 4 THEN Schema!Verifying ELSE [proc[p] EXCEPT !.stmt = i + 1]
    <2>1. proc' = [proc EXCEPT ![p] = to] /\ UNCHANGED <<extra, recent, fails>>
      BY <1>4, BaselineIs DEF Schema!Goes, Schema!LastStatement, Schema!Execute
    <2>2. i # 4 => to \in [pc : {"bootstrap"}, stmt : 1..4] /\ to.pc = "bootstrap" /\ to.stmt = i + 1
      BY <1>0
    <2>3. to \in Schema!ProcStates
      BY <2>2, VerifyingState, BaselineIs DEF Schema!ProcStates
    <2>4. i = 4 => to.pc = "verify" /\ DOMAIN to.seen = {}
      BY VerifyingState
    <2> HIDE DEF to
    <2>5. \A t \in Schema!Tables : db'[t] = IF t = s /\ db[t] = None THEN Schema!Parts ELSE db[t]
      BY <1>4, WithFacts
    <2>6. \A t \in Schema!Tables : creator'[t] = IF t = s /\ creator[t] = None THEN p ELSE creator[t]
      BY <1>4, WithFacts
    <2>7. /\ db \in [Schema!Tables -> (SUBSET Schema!Parts) \cup {None}] /\ genesis \in BOOLEAN
          /\ creator \in [Schema!Tables -> Schema!Processes \cup {None, "operator", "dead"}]
      BY DEF SchemaInv, Schema!TypeOK
    <2>8. /\ db' \in [Schema!Tables -> (SUBSET Schema!Parts) \cup {None}]
          /\ creator' \in [Schema!Tables -> Schema!Processes \cup {None, "operator", "dead"}]
      BY <1>4, <2>7 DEF Schema!With
    <2>9. genesis' \in BOOLEAN /\ (genesis => genesis')
      BY <1>4, <2>7
    <2>10. Schema!TypeOK'
      BY <1>0, <2>1, <2>3, <2>8, <2>9 DEF SchemaInv, Schema!TypeOK
    <2>11. \A t \in Schema!Tables : db[t] # None => db'[t] = db[t]
      BY <2>5
    <2>12. \A q \in Schema!Processes : q # p => proc'[q] = proc[q]
      BY <1>0, <2>1
    <2>13. proc'[p] = to
      BY <1>0, <2>1
    <2>14. to.pc # "serving"
      BY <2>2, <2>4
    <2>15. Schema!ServedIsWhole'
      BY <2>9, <2>11, <2>12, <2>13, <2>14, NoneIsNoTable DEF SchemaInv, Schema!ServedIsWhole, Schema!Whole
    <2>16. SeenIsThere'
      <3> SUFFICES ASSUME NEW q \in Schema!Processes, proc'[q].pc = "verify",
                          NEW c \in DOMAIN proc'[q].seen, NEW t \in proc'[q].seen[c]
                   PROVE  db'[t] # None /\ c \in db'[t]
        BY DEF SeenIsThere
      <3>1. q # p /\ proc'[q] = proc[q]
        BY <2>2, <2>4, <2>12, <2>13
      <3>2. t \in Schema!Tables
        <4>1. proc[q] \in [pc : {"verify"}, seen : UNION {[P -> SUBSET Schema!Tables] : P \in SUBSET Schema!Parts}]
          BY <1>0, <3>1, ProcCases
        <4>2. PICK P \in SUBSET Schema!Parts : proc[q].seen \in [P -> SUBSET Schema!Tables]
          BY <4>1
        <4> QED
          BY <3>1, <4>2
      <3> QED
        BY <2>11, <3>1, <3>2 DEF SchemaInv, SeenIsThere
    <2>17. RowBeforeNodes'
      <3>1. i = 4 => genesis
        <4>1. proc[p].pc = "bootstrap" /\ (i = 4 => proc[p].stmt >= 4)
          BY <1>0, <1>1
        <4> QED
          BY <4>1 DEF SchemaInv, RowBeforeNodes
      <3>2. i = 3 => genesis'
        BY <1>2, <1>4, BaselineIs
      <3>3. s = "nodes" => i = 4
        <4>1. i = 1 \/ i = 2 \/ i = 3 \/ i = 4
          OBVIOUS
        <4> QED
          BY <1>2, <4>1, BaselineIs
      <3>4. db'["nodes"] # None => genesis'
        BY <2>5, <2>9, <3>1, <3>3 DEF SchemaInv, RowBeforeNodes, Schema!Tables
      <3>5. ASSUME NEW q \in Schema!Processes, proc'[q].pc = "bootstrap", proc'[q].stmt >= 4
            PROVE  genesis'
        <4>1. CASE q = p
          BY <2>2, <2>4, <2>13, <3>2, <3>5, <4>1
        <4>2. CASE q # p
          BY <2>9, <2>12, <3>5, <4>2 DEF SchemaInv, RowBeforeNodes
        <4> QED
          BY <4>1, <4>2
      <3> QED
        BY <3>4, <3>5 DEF RowBeforeNodes
    <2>18. CreatesAll'
      <3>0. "windows" \in Schema!Tables /\ p # None
        BY NoneIsNoCreator DEF Schema!Tables, Schema!Processes
      <3>1. \A t \in Schema!Tables : (db[t] = None <=> creator[t] = None)
        BY DEF SchemaInv, CreatesAll
      <3>2. \A t \in Schema!Tables : creator[t] # None => creator[t] = creator["windows"]
        BY DEF SchemaInv, CreatesAll
      <3>3. i >= 2 => creator["windows"] = p
        BY <1>0, <1>1 DEF SchemaInv, CreatesAll
      <3>4. i = 1 => s = "windows"
        BY <1>2, BaselineIs
      <3>5. i = 1 => creator["windows"] = None
        BY <1>4, <3>0, <3>1, <3>4 DEF Schema!Clashes
      <3>6. creator'["windows"] = p
        BY <2>6, <3>0, <3>3, <3>4, <3>5
      <3>7. \A t \in Schema!Tables : (db'[t] = None <=> creator'[t] = None)
        BY <2>5, <2>6, <3>0, <3>1, NoneIsNoTable
      <3>8. \A t \in Schema!Tables : creator'[t] # None => creator'[t] = creator'["windows"]
        BY <2>6, <3>0, <3>2, <3>3, <3>4, <3>5, <3>6
      <3>9. ASSUME NEW q \in Schema!Processes, proc'[q].pc = "bootstrap", proc'[q].stmt >= 2
            PROVE  creator'["windows"] = q
        <4>1. CASE q = p
          BY <3>6, <4>1
        <4>2. CASE q # p
          <5>1. creator["windows"] = q
            BY <2>12, <3>9, <4>2 DEF SchemaInv, CreatesAll
          <5>2. q # None
            BY NoneIsNoCreator DEF Schema!Processes
          <5> QED
            BY <3>3, <3>5, <4>2, <5>1, <5>2
        <4> QED
          BY <4>1, <4>2
      <3> QED
        BY <3>7, <3>8, <3>9 DEF CreatesAll
    <2> QED
      BY <2>10, <2>15, <2>16, <2>17, <2>18 DEF SchemaInv
  <1> QED
    BY <1>1, <1>2, <1>3, <1>4 DEF Schema!Execute

LEMMA MigrateKeeps ==
  ASSUME SchemaInv, NEW t \in Schema!Tables, NEW c \in Schema!Parts, Schema!Migrate(t, c)
  PROVE  SchemaInv'
  <1>0. db \in [Schema!Tables -> (SUBSET Schema!Parts) \cup {None}] /\ proc \in [Schema!Processes -> Schema!ProcStates]
    BY DEF SchemaInv, Schema!TypeOK
  <1>1. PICK v \in SUBSET Schema!Parts : v = db[t] \cup {c}
    <2>1. db[t] \in SUBSET Schema!Parts
      BY <1>0 DEF Schema!Migrate
    <2>2. db[t] \cup {c} \in SUBSET Schema!Parts
      BY <2>1
    <2> QED
      BY <2>2
  <1>2. v # None /\ db' = [db EXCEPT ![t] = v] /\ UNCHANGED <<extra, genesis, proc, recent, creator, fails>>
    BY <1>1, NoneIsNoTable DEF Schema!Migrate
  <1>3. \A u \in Schema!Tables : /\ db'[u] = None <=> db[u] = None
                                 /\ db[u] # None => db[u] \subseteq db'[u]
    BY <1>0, <1>1, <1>2 DEF Schema!Migrate
  <1>4. Schema!TypeOK'
    BY <1>0, <1>1, <1>2 DEF SchemaInv, Schema!TypeOK
  <1>5. Schema!ServedIsWhole'
    BY <1>2 DEF SchemaInv, Schema!ServedIsWhole, Schema!Whole, Schema!Migrate
  <1>6. SeenIsThere'
    <2> SUFFICES ASSUME NEW q \in Schema!Processes, proc[q].pc = "verify",
                        NEW k \in DOMAIN proc[q].seen, NEW u \in proc[q].seen[k]
                 PROVE  db'[u] # None /\ k \in db'[u]
      BY <1>2 DEF SeenIsThere
    <2>1. proc[q] \in [pc : {"verify"}, seen : UNION {[P -> SUBSET Schema!Tables] : P \in SUBSET Schema!Parts}]
      BY <1>0, ProcCases
    <2>2. PICK P \in SUBSET Schema!Parts : proc[q].seen \in [P -> SUBSET Schema!Tables]
      BY <2>1
    <2>3. u \in Schema!Tables
      BY <2>2
    <2> QED
      BY <1>3, <2>3 DEF SchemaInv, SeenIsThere
  <1>7. RowBeforeNodes'
    BY <1>2, <1>3 DEF SchemaInv, RowBeforeNodes, Schema!Tables
  <1>8. CreatesAll'
    BY <1>2, <1>3 DEF SchemaInv, CreatesAll
  <1> QED
    BY <1>4, <1>5, <1>6, <1>7, <1>8 DEF SchemaInv

LEMMA SchemaStep == SchemaInv /\ [Schema!Next]_schemaVars => SchemaInv'
  <1> SUFFICES ASSUME SchemaInv, [Schema!Next]_schemaVars
               PROVE  SchemaInv'
    OBVIOUS
  <1>1. ASSUME NEW p \in Schema!Processes, Schema!Steps(p)
        PROVE  SchemaInv'
    BY <1>1, StartKeeps, CountKeeps, ExecuteKeeps, LoadKeeps, CompareKeeps DEF Schema!Steps
  <1>2. ASSUME NEW p \in Schema!Processes, Schema!Fail(p)
        PROVE  SchemaInv'
    <2>1. fails' \in 0..MaxFails
      BY <1>2, SchemaAssumption DEF Schema!Fail, SchemaInv, Schema!TypeOK
    <2> QED
      BY <1>2, <2>1, EndsKeeps DEF Schema!Fail
  <1>3. ASSUME NEW p \in Schema!Processes, Schema!Finish(p)
        PROVE  SchemaInv'
    BY <1>3, EndsKeeps DEF Schema!Finish, SchemaInv, Schema!TypeOK
  <1>5. ASSUME NEW p \in Servers, Schema!ResetFailed(p)
        PROVE  SchemaInv'
    BY <1>5, StartKeeps DEF Schema!Processes
  <1>4. CASE UNCHANGED schemaVars
    BY <1>4 DEF schemaVars, SchemaInv, Schema!TypeOK, Schema!ServedIsWhole, Schema!Whole, SeenIsThere, RowBeforeNodes, CreatesAll
  <1> QED
    BY <1>1, <1>2, <1>3, <1>4, <1>5, MigrateKeeps DEF Schema!Next

LEMMA SchemaSafety == SchemaInv => Schema!Safety
  BY DEF SchemaInv, Schema!Safety, Schema!OneBootstrap, CreatesAll

\* However many servers and commands start at once, fail and start again, within systemd's
\* limit or after it, only a whole schema of one creator is ever served (ensure_schema,
\* bootstrap_empty_schema, verify_schema).
THEOREM SchemaIsSafe == Schema!Init /\ [][Schema!Next]_schemaVars => []Schema!Safety
  BY SchemaInit, SchemaStep, SchemaSafety, PTL

\* The same of the starts among the loops of a process (ensure_schema).
THEOREM OnlyWholeSchemaServed == MCSpec => []SchemaSafe
  <1> DEFINE all == <<focus, vars, healthVars, telemetryVars, schemaVars>>
             Inv == Starting => SchemaInv
  <1>1. MCInit => Inv
    BY SchemaInit DEF MCInit
  <1>2. Inv /\ [MCNext]_all => Inv'
    <2> SUFFICES ASSUME Inv, [MCNext]_all, Starting'
                 PROVE  SchemaInv'
      OBVIOUS
    <2>1. Starting /\ [Schema!Next]_schemaVars
      BY DEF MCNext, Routing, Starting, AllServe
    <2> QED
      BY <2>1, SchemaStep
  <1>3. Inv => SchemaSafe
    BY SchemaSafety DEF SchemaSafe
  <1> QED
    BY <1>1, <1>2, <1>3, PTL DEF MCSpec

---------------------------------------------------------------------------
(* Runtime health and the watchdog *)

Clocks == {"runtime", "supervisor"}

\* What a snapshot that is young enough still says of the process.
Honest(f) ==
  f # None => /\ quiet <= f.age
              /\ f.snapshot.readiness = "ready" => f.snapshot.liveness = "live"
              /\ f.snapshot.liveness = "live" /\ f.age <= RuntimeStale => age["supervisor"] <= SupervisorStale + f.age
\* systemd watches a running process, and as long as nothing was stuck or stale the
\* notifier's timer fires within the cadence of the last pulse.
Watched == unpulsed # None => lifecycle = "running"
PulseIsNear ==
  unpulsed # None /\ ~lately => /\ unpulsed + due["notifier"] <= Health!Cadence
                                /\ \A k \in Clocks : age[k] <= Health!Limit(k)
LatelyStuck == "runtime" \in stuck => lately

HealthInv == Health!TypeOK /\ Honest(file) /\ Honest(writing) /\ Watched /\ PulseIsNear /\ LatelyStuck

LEMMA HealthConstants ==
  /\ RuntimePeriod \in Nat /\ RuntimeStale \in Nat /\ SupervisorPeriod \in Nat /\ SupervisorStale \in Nat
  /\ Watchdog \in Nat /\ Health!Cadence \in Nat /\ Health!Cadence < Watchdog
  /\ None \notin Nat
  BY HealthAssumption DEF Health!Cadence

LEMMA LimitFacts ==
  /\ Health!Limit("runtime") = RuntimeStale /\ Health!Limit("supervisor") = SupervisorStale
  /\ Health!Cap("runtime") = RuntimeStale + RuntimeStale + 1
  /\ Health!Cap("supervisor") = SupervisorStale + RuntimeStale + 1
  /\ Health!Period("runtime") = RuntimePeriod /\ Health!Period("supervisor") = SupervisorPeriod
  /\ Health!Period("notifier") = Health!Cadence
  BY DEF Health!Limit, Health!Cap, Health!Period

LEMMA HealthInit == Health!Init => HealthInv
  <1> SUFFICES ASSUME Health!Init
               PROVE  HealthInv
    OBVIOUS
  <1>1. Health!TypeOK
    <2>1. age \in [Clocks -> Nat] /\ DOMAIN age = Clocks /\ \A k \in Clocks : age[k] <= Health!Cap(k)
      BY HealthConstants, LimitFacts DEF Health!Init, Clocks
    <2>2. due \in [Health!Timers -> Nat] /\ \A k \in Health!Timers : due[k] <= Health!Period(k)
      BY HealthConstants, LimitFacts DEF Health!Init, Health!Timers
    <2>3. quiet \in 0..(RuntimeStale + 1)
      BY HealthConstants DEF Health!Init
    <2> QED
      BY <2>1, <2>2, <2>3 DEF Health!Init, Health!TypeOK, Clocks
  <1>2. Honest(file) /\ Honest(writing) /\ Watched /\ PulseIsNear /\ LatelyStuck
    BY DEF Health!Init, Honest, Watched, PulseIsNear, LatelyStuck
  <1> QED
    BY <1>1, <1>2 DEF HealthInv

LEMMA HealthTypes ==
  ASSUME Health!TypeOK
  PROVE  /\ age \in [Clocks -> Nat] /\ DOMAIN age = Clocks
         /\ age["runtime"] \in Nat /\ age["runtime"] <= RuntimeStale + RuntimeStale + 1
         /\ age["supervisor"] \in Nat /\ age["supervisor"] <= SupervisorStale + RuntimeStale + 1
         /\ due \in [{"runtime", "supervisor", "notifier"} -> Nat]
         /\ due["runtime"] <= RuntimePeriod /\ due["supervisor"] <= SupervisorPeriod /\ due["notifier"] <= Health!Cadence
  BY LimitFacts DEF Health!TypeOK, Health!Timers, Clocks

\* classify_input: only what lives is ready, and what lives is not stale.
LEMMA ClassifyFacts ==
  ASSUME NEW a \in [Clocks -> Nat]
  PROVE  /\ Health!classify(a) \in Health!Snapshots
         /\ Health!classify(a).readiness = "ready" => Health!classify(a).liveness = "live"
         /\ Health!classify(a).liveness = "live" => a["runtime"] <= RuntimeStale /\ a["supervisor"] <= SupervisorStale
         /\ lifecycle = "running" /\ a["runtime"] <= RuntimeStale /\ a["supervisor"] <= SupervisorStale
              => Health!classify(a).liveness = "live"
  <1>0. Health!StaleAt(a) <=> a["runtime"] > RuntimeStale \/ a["supervisor"] > SupervisorStale
    BY LimitFacts DEF Health!StaleAt, Clocks
  <1>1. a["runtime"] \in Nat /\ a["supervisor"] \in Nat
    BY DEF Clocks
  <1> DEFINE ready == IF lifecycle = "stopping" \/ out \cap Health!Local # {} THEN "not_ready"
                      ELSE IF out \cap Health!Remote # {} THEN "degraded" ELSE "ready"
  <1>2. CASE lifecycle = "starting"
    <2>1. Health!classify(a) = [liveness |-> "starting", readiness |-> "not_ready"]
      BY <1>2 DEF Health!classify
    <2> QED
      BY <1>2, <2>1 DEF Health!Snapshots
  <1>3. CASE lifecycle # "starting" /\ Health!StaleAt(a)
    <2>1. Health!classify(a) = [liveness |-> "not_live", readiness |-> "not_ready"]
      BY <1>3 DEF Health!classify
    <2> QED
      BY <1>0, <1>1, <1>3, <2>1, HealthConstants DEF Health!Snapshots
  <1>4. CASE lifecycle # "starting" /\ ~Health!StaleAt(a)
    <2>1. Health!classify(a) = [liveness |-> "live", readiness |-> ready]
      BY <1>4 DEF Health!classify
    <2>2. ready \in {"ready", "degraded", "not_ready"}
      OBVIOUS
    <2> HIDE DEF ready
    <2> QED
      BY <1>0, <1>1, <1>4, <2>1, <2>2, HealthConstants DEF Health!Snapshots
  <1> QED
    BY <1>2, <1>3, <1>4

\* A file grows old with the process.
LEMMA OlderHonest ==
  ASSUME NEW f \in Health!FileStates \cup {None}, f # None => f.age \in Nat, Health!TypeOK, Honest(f),
         quiet' = IF quiet <= RuntimeStale THEN quiet + 1 ELSE quiet,
         age'["supervisor"] <= age["supervisor"] + 1, age'["supervisor"] \in Nat,
         NEW g, g = Health!Older(f)
  PROVE  /\ g \in Health!FileStates \cup {None}
         /\ g # None => /\ quiet' <= g.age
                        /\ g.snapshot.readiness = "ready" => g.snapshot.liveness = "live"
                        /\ g.snapshot.liveness = "live" /\ g.age <= RuntimeStale => age'["supervisor"] <= SupervisorStale + g.age
  <1>1. CASE f = None
    BY <1>1 DEF Health!Older
  <1>2. CASE f # None
    <2>0. f \in Health!FileStates /\ f.age \in 0..(RuntimeStale + 1) /\ f.snapshot \in Health!Snapshots
      BY <1>2 DEF Health!FileStates
    <2>1. PICK a : a = IF f.age <= RuntimeStale THEN f.age + 1 ELSE f.age
      OBVIOUS
    <2>2. g = [f EXCEPT !.age = a]
      BY <1>2, <2>0, <2>1 DEF Health!Older, Health!FileStates
    <2>3. a \in 0..(RuntimeStale + 1)
      BY <2>0, <2>1, HealthConstants
    <2>4. g \in Health!FileStates /\ g.age = a /\ g.snapshot = f.snapshot
      BY <2>0, <2>2, <2>3 DEF Health!FileStates
    <2>5. quiet \in 0..(RuntimeStale + 1) /\ age["supervisor"] \in Nat
      BY HealthTypes DEF Health!TypeOK
    <2>6. quiet' <= a
      BY <1>2, <2>0, <2>1, <2>5, HealthConstants DEF Honest
    <2>7. f.snapshot.liveness = "live" /\ a <= RuntimeStale => age'["supervisor"] <= SupervisorStale + a
      BY <1>2, <2>0, <2>1, <2>5, HealthConstants DEF Honest
    <2> QED
      BY <1>2, <2>4, <2>6, <2>7 DEF Honest
  <1> QED
    BY <1>1, <1>2

LEMMA TickKeeps ==
  ASSUME HealthInv, Health!Tick
  PROVE  HealthInv'
  <1>0. Health!TypeOK
    BY DEF HealthInv
  <1>t. /\ lifecycle \in {"down", "starting", "running", "stopping"}
        /\ stuck \subseteq {"runtime", "supervisor"} /\ out \subseteq Health!Remote \cup Health!Local
        /\ ready_sent \in BOOLEAN /\ lately \in BOOLEAN
        /\ writing \in Health!FileStates \cup {None} /\ file \in Health!FileStates \cup {None}
        /\ unpulsed \in (0..Watchdog) \cup {None} /\ quiet \in 0..(RuntimeStale + 1)
    BY <1>0 DEF Health!TypeOK
  <1>a. /\ age' = [k \in Clocks |-> IF age[k] < Health!Cap(k) THEN age[k] + 1 ELSE age[k]]
        /\ due' = [k \in {"runtime", "supervisor", "notifier"} |-> IF due[k] > 0 THEN due[k] - 1 ELSE 0]
        /\ file' = Health!Older(file) /\ writing' = Health!Older(writing)
        /\ unpulsed' = IF unpulsed = None THEN None ELSE unpulsed + 1
        /\ quiet' = IF quiet <= RuntimeStale THEN quiet + 1 ELSE quiet
        /\ lately' = (lately \/ stuck # {} \/ \E k \in Clocks : age[k] >= Health!Limit(k))
        /\ UNCHANGED <<lifecycle, stuck, out, ready_sent>>
    BY <1>0, HealthTypes DEF Health!Tick, Health!Timers
  <1>b. unpulsed # None => unpulsed < Watchdog
    BY DEF Health!Tick
  <1>c. ~Health!Due("notifier")
    BY DEF Health!Tick, Health!Timers
  <1>1. /\ age' \in [Clocks -> Nat]
        /\ \A k \in Clocks : age'[k] <= Health!Cap(k) /\ age'[k] <= age[k] + 1
        /\ age'["supervisor"] \in Nat /\ age'["supervisor"] <= age["supervisor"] + 1
    BY <1>0, <1>a, HealthTypes, HealthConstants, LimitFacts DEF Clocks
  <1>2. /\ due' \in [Health!Timers -> Nat]
        /\ \A k \in Health!Timers : due'[k] <= Health!Period(k)
        /\ due["notifier"] > 0 => due'["notifier"] = due["notifier"] - 1
    BY <1>0, <1>a, HealthTypes, HealthConstants, LimitFacts DEF Health!Timers
  <1>3. file' \in Health!FileStates \cup {None} /\ Honest(file)'
    <2>1. file # None => file.age \in Nat
      BY <1>t, HealthConstants DEF Health!FileStates
    <2> QED
      BY <1>0, <1>a, <1>t, <1>1, <2>1, OlderHonest DEF HealthInv, Honest
  <1>4. writing' \in Health!FileStates \cup {None} /\ Honest(writing)'
    <2>1. writing # None => writing.age \in Nat
      BY <1>t, HealthConstants DEF Health!FileStates
    <2> QED
      BY <1>0, <1>a, <1>t, <1>1, <2>1, OlderHonest DEF HealthInv, Honest
  <1>5. unpulsed' \in (0..Watchdog) \cup {None} /\ quiet' \in 0..(RuntimeStale + 1)
    BY <1>a, <1>b, <1>t, HealthConstants
  <1>6. Health!TypeOK'
    BY <1>a, <1>t, <1>1, <1>2, <1>3, <1>4, <1>5 DEF Health!TypeOK, Clocks
  <1>7. Watched' /\ LatelyStuck'
    BY <1>a DEF HealthInv, Watched, LatelyStuck
  <1>8. PulseIsNear'
    <2> SUFFICES ASSUME unpulsed' # None, ~lately'
                 PROVE  /\ unpulsed' + due'["notifier"] <= Health!Cadence
                        /\ \A k \in Clocks : age'[k] <= Health!Limit(k)
      BY DEF PulseIsNear
    <2>1. unpulsed # None /\ ~lately /\ stuck = {} /\ \A k \in Clocks : ~(age[k] >= Health!Limit(k))
      BY <1>a
    <2>2. lifecycle = "running" /\ unpulsed + due["notifier"] <= Health!Cadence
      BY <2>1 DEF HealthInv, Watched, PulseIsNear
    <2>3. due["notifier"] # 0
      BY <1>c, <2>1, <2>2 DEF Health!Due, Health!CanRun, Health!Alive
    <2>4. due["notifier"] \in Nat /\ unpulsed \in Nat
      BY <1>0, <1>t, <2>1, HealthTypes
    <2>5. unpulsed' = unpulsed + 1 /\ due'["notifier"] = due["notifier"] - 1
      BY <1>2, <1>a, <2>1, <2>3, <2>4
    <2>6. \A k \in Clocks : age[k] \in Nat /\ age'[k] \in Nat /\ Health!Limit(k) \in Nat
      BY <1>0, <1>1, HealthTypes, HealthConstants, LimitFacts DEF Clocks
    <2>7. \A k \in Clocks : age'[k] <= Health!Limit(k)
      BY <1>1, <2>1, <2>6
    <2> QED
      BY <2>2, <2>4, <2>5, <2>7, HealthConstants
  <1> QED
    BY <1>3, <1>4, <1>6, <1>7, <1>8 DEF HealthInv

\* A step that only lowers ages, and leaves files and pulses alone or drops them.
LEMMA CalmStep ==
  ASSUME HealthInv,
         lifecycle' \in {"down", "starting", "running", "stopping"},
         age' \in [Clocks -> Nat], \A k \in Clocks : age'[k] <= age[k],
         due' \in [Health!Timers -> Nat], \A k \in Health!Timers : due'[k] <= Health!Period(k),
         stuck' \subseteq {"runtime", "supervisor"}, out' \subseteq Health!Remote \cup Health!Local,
         ready_sent' \in BOOLEAN, lately' \in BOOLEAN,
         file' \in {file, writing}, writing' \in {writing, None},
         quiet' = quiet,
         "runtime" \in stuck' => lately',
         \/ unpulsed' = None
         \/ /\ unpulsed' = unpulsed /\ (lately => lately') /\ lifecycle' = lifecycle
            /\ due'["notifier"] = due["notifier"]
  PROVE  HealthInv'
  <1>0. Health!TypeOK
    BY DEF HealthInv
  <1>1. \A k \in Clocks : age[k] \in Nat /\ age'[k] \in Nat /\ Health!Cap(k) \in Nat /\ Health!Limit(k) \in Nat /\ age[k] <= Health!Cap(k)
    BY <1>0, HealthTypes, HealthConstants, LimitFacts DEF Clocks
  <1>2. \A k \in Clocks : age'[k] <= Health!Cap(k)
    BY <1>1
  <1>3. Health!TypeOK'
    BY <1>0, <1>2 DEF Health!TypeOK, Clocks
  <1>4. ASSUME NEW f \in {file, writing, None}
        PROVE  f # None => /\ quiet' <= f.age
                           /\ f.snapshot.readiness = "ready" => f.snapshot.liveness = "live"
                           /\ f.snapshot.liveness = "live" /\ f.age <= RuntimeStale => age'["supervisor"] <= SupervisorStale + f.age
    <2> SUFFICES ASSUME f # None
                 PROVE  /\ quiet' <= f.age
                        /\ f.snapshot.readiness = "ready" => f.snapshot.liveness = "live"
                        /\ f.snapshot.liveness = "live" /\ f.age <= RuntimeStale => age'["supervisor"] <= SupervisorStale + f.age
      OBVIOUS
    <2>1. Honest(f) /\ f \in Health!FileStates
      BY <1>0, <1>4 DEF HealthInv, Health!TypeOK
    <2>2. f.age \in Nat
      BY <2>1, HealthConstants DEF Health!FileStates
    <2>3. age'["supervisor"] <= age["supervisor"] /\ age'["supervisor"] \in Nat /\ age["supervisor"] \in Nat
      BY <1>1 DEF Clocks
    <2> QED
      BY <2>1, <2>2, <2>3, HealthConstants DEF Honest
  <1>5. Honest(file)' /\ Honest(writing)'
    BY <1>4 DEF Honest
  <1>6. Watched' /\ LatelyStuck'
    BY DEF HealthInv, Watched, LatelyStuck
  <1>7. PulseIsNear'
    BY <1>1 DEF HealthInv, PulseIsNear
  <1> QED
    BY <1>3, <1>5, <1>6, <1>7 DEF HealthInv

\* The types that a step leaves alone.
LEMMA HealthUnchanged ==
  ASSUME Health!TypeOK
  PROVE  /\ lifecycle \in {"down", "starting", "running", "stopping"}
         /\ age \in [Clocks -> Nat] /\ DOMAIN age = Clocks /\ \A k \in Clocks : age[k] \in Nat /\ age[k] <= age[k] /\ 0 <= age[k]
         /\ due \in [Health!Timers -> Nat] /\ \A k \in Health!Timers : due[k] <= Health!Period(k)
         /\ stuck \subseteq {"runtime", "supervisor"} /\ out \subseteq Health!Remote \cup Health!Local
         /\ ready_sent \in BOOLEAN /\ lately \in BOOLEAN
         /\ writing \in Health!FileStates \cup {None} /\ file \in Health!FileStates \cup {None}
         /\ unpulsed \in (0..Watchdog) \cup {None} /\ quiet \in 0..(RuntimeStale + 1)
  BY DEF Health!TypeOK, Clocks

LEMMA ProcessKeeps ==
  ASSUME HealthInv,
         \/ Health!Start \/ Health!MarkRunning \/ Health!Rename \/ Health!WriteFails \/ Health!Stop \/ Health!Exit \/ Health!Kill
         \/ Health!Clear \/ \E w \in Clocks : Health!Stall(w) \/ Health!Resume(w)
         \/ \E o \in Outages : Health!Outage(o)
  PROVE  HealthInv'
  <1>0. Health!TypeOK
    BY DEF HealthInv
  <1>l. "runtime" \in stuck => lately
    BY DEF HealthInv, LatelyStuck
  <1>w. unpulsed # None => lifecycle = "running"
    BY DEF HealthInv, Watched
  <1>z. \A k \in Health!Timers : 0 <= Health!Period(k)
    BY HealthConstants, LimitFacts DEF Health!Timers
  <1>1. CASE Health!Start
    <2>1. age' \in [Clocks -> Nat] /\ \A k \in Clocks : age'[k] <= age[k]
      BY <1>0, <1>1, HealthUnchanged DEF Health!Start, Health!Fresh, Clocks
    <2>2. due' \in [Health!Timers -> Nat] /\ \A k \in Health!Timers : due'[k] <= Health!Period(k)
      BY <1>1, HealthConstants, LimitFacts DEF Health!Start, Health!Fresh, Health!Timers
    <2>3. out' \subseteq Health!Remote \cup Health!Local /\ lifecycle' = "starting" /\ ready_sent' = FALSE /\ writing' = None
      BY <1>1 DEF Health!Start, Health!Fresh, Health!Local
    <2>4. unpulsed' = None
      BY <1>1, <1>w DEF Health!Start, Health!Alive
    <2>5. UNCHANGED <<stuck, file, unpulsed, quiet, lately>>
      BY <1>1 DEF Health!Start
    <2> QED
      BY <1>0, <1>l, <2>1, <2>2, <2>3, <2>4, <2>5, HealthUnchanged, CalmStep
  <1>2. CASE Health!MarkRunning
    <2>1. UNCHANGED <<age, due, stuck, ready_sent, writing, file, unpulsed, quiet, lately>> /\ lifecycle = "starting" /\ lifecycle' = "running"
      BY <1>2 DEF Health!MarkRunning
    <2>2. unpulsed' = None
      BY <2>1, <1>w
    <2>3. out' \subseteq Health!Remote \cup Health!Local
      BY <1>0, <1>2, HealthUnchanged DEF Health!MarkRunning
    <2> QED
      BY <1>0, <1>l, <2>1, <2>2, <2>3, HealthUnchanged, CalmStep
  <1>3. CASE Health!Rename \/ Health!WriteFails
    <2>1. UNCHANGED <<lifecycle, age, due, stuck, out, ready_sent, unpulsed, quiet, lately>> /\ writing' = None /\ file' \in {file, writing}
      BY <1>3 DEF Health!Rename, Health!WriteFails
    <2> QED
      BY <1>0, <1>l, <2>1, HealthUnchanged, CalmStep
  <1>4. CASE Health!Stop
    <2>1. UNCHANGED <<age, due, stuck, out, ready_sent, writing, file, quiet, lately>> /\ unpulsed' = None /\ lifecycle' = "stopping"
      BY <1>4 DEF Health!Stop
    <2> QED
      BY <1>0, <1>l, <2>1, HealthUnchanged, CalmStep
  <1>5. CASE Health!Exit \/ Health!Kill
    <2>1. age' \in [Clocks -> Nat] /\ \A k \in Clocks : age'[k] <= age[k]
      BY <1>0, <1>5, HealthUnchanged DEF Health!Exit, Health!Kill, Health!Gone
    <2>2. due' \in [Health!Timers -> Nat] /\ \A k \in Health!Timers : due'[k] <= Health!Period(k)
      BY <1>5, <1>z DEF Health!Exit, Health!Kill, Health!Gone
    <2>3. /\ lifecycle' = "down" /\ stuck' = {} /\ out' = {} /\ ready_sent' = FALSE /\ writing' = None /\ unpulsed' = None
          /\ lately' = FALSE /\ UNCHANGED <<file, quiet>>
      BY <1>5 DEF Health!Exit, Health!Kill, Health!Gone
    <2> QED
      BY <1>0, <2>1, <2>2, <2>3, CalmStep
  <1>6. CASE Health!Clear
    <2>1. age' \in [Clocks -> Nat] /\ \A k \in Clocks : age'[k] <= age[k]
      BY <1>0, <1>6, HealthUnchanged DEF Health!Clear
    <2>2. UNCHANGED <<lifecycle, due, stuck, ready_sent, writing, file, unpulsed, quiet, lately>> /\ out' = {}
      BY <1>6 DEF Health!Clear
    <2> QED
      BY <1>0, <1>l, <2>1, <2>2, HealthUnchanged, CalmStep
  <1>7. ASSUME NEW w \in Clocks, Health!Stall(w) \/ Health!Resume(w)
        PROVE  HealthInv'
    <2>1. UNCHANGED <<lifecycle, age, due, out, ready_sent, writing, file, unpulsed, quiet>>
      BY <1>7 DEF Health!Stall, Health!Resume
    <2>2. stuck' \subseteq {"runtime", "supervisor"} /\ lately' \in BOOLEAN /\ (lately => lately') /\ ("runtime" \in stuck' => lately')
      <3>1. CASE Health!Stall(w)
        <4>1. stuck' = stuck \cup {w} /\ lately' = TRUE
          BY <3>1 DEF Health!Stall
        <4> QED
          BY <1>0, <4>1, HealthUnchanged DEF Clocks
      <3>2. CASE Health!Resume(w)
        <4>1. stuck' = stuck \ {w} /\ lately' = lately
          BY <3>2 DEF Health!Resume
        <4> QED
          BY <1>0, <1>l, <4>1, HealthUnchanged
      <3> QED
        BY <1>7, <3>1, <3>2
    <2> QED
      BY <1>0, <2>1, <2>2, HealthUnchanged, CalmStep
  <1>8. ASSUME NEW o \in Outages, Health!Outage(o)
        PROVE  HealthInv'
    <2>1. UNCHANGED <<lifecycle, age, due, stuck, ready_sent, writing, file, unpulsed, quiet, lately>>
      BY <1>8 DEF Health!Outage
    <2>2. out' \subseteq Health!Remote \cup Health!Local
      BY <1>0, <1>8, HealthUnchanged, HealthAssumption DEF Health!Outage
    <2> QED
      BY <1>0, <1>l, <2>1, <2>2, HealthUnchanged, CalmStep
  <1> QED
    BY <1>1, <1>2, <1>3, <1>4, <1>5, <1>6, <1>7, <1>8

LEMMA SupervisorKeeps ==
  ASSUME HealthInv, Health!SupervisorLoop
  PROVE  HealthInv'
  <1>0. Health!TypeOK
    BY DEF HealthInv
  <1>1. age' \in [Clocks -> Nat] /\ \A k \in Clocks : age'[k] <= age[k]
    BY <1>0, HealthUnchanged DEF Health!SupervisorLoop, Clocks
  <1>2. /\ due' \in [Health!Timers -> Nat] /\ \A k \in Health!Timers : due'[k] <= Health!Period(k)
        /\ due'["notifier"] = due["notifier"]
    BY <1>0, HealthUnchanged, HealthConstants, LimitFacts DEF Health!SupervisorLoop, Health!Timers
  <1>3. UNCHANGED <<lifecycle, stuck, out, ready_sent, writing, file, unpulsed, quiet, lately>>
    BY DEF Health!SupervisorLoop
  <1>4. "runtime" \in stuck => lately
    BY DEF HealthInv, LatelyStuck
  <1> QED
    BY <1>0, <1>1, <1>2, <1>3, <1>4, HealthUnchanged, CalmStep

LEMMA ProgressKeeps ==
  ASSUME HealthInv, Health!ProgressLoop
  PROVE  HealthInv'
  <1>0. Health!TypeOK
    BY DEF HealthInv
  <1>1. PICK a \in [Clocks -> Nat] : a = [age EXCEPT !["runtime"] = 0]
    BY <1>0, HealthUnchanged
  <1>2. /\ age' = a /\ writing' = [snapshot |-> Health!classify(a), age |-> 0]
        /\ due' = [due EXCEPT !["runtime"] = RuntimePeriod]
        /\ quiet' = 0 /\ UNCHANGED <<lifecycle, stuck, out, ready_sent, file, unpulsed, lately>>
    BY <1>1 DEF Health!ProgressLoop
  <1>3. /\ \A k \in Clocks : a[k] <= age[k] /\ a[k] \in Nat /\ age[k] \in Nat /\ a[k] <= Health!Cap(k) /\ Health!Limit(k) \in Nat
        /\ a["supervisor"] = age["supervisor"]
    BY <1>0, <1>1, HealthUnchanged, HealthTypes, HealthConstants, LimitFacts DEF Clocks
  <1>4. /\ due' \in [Health!Timers -> Nat] /\ \A k \in Health!Timers : due'[k] <= Health!Period(k)
        /\ due'["notifier"] = due["notifier"]
    BY <1>0, <1>2, HealthUnchanged, HealthConstants, LimitFacts DEF Health!Timers
  <1>5. /\ writing' \in Health!FileStates
        /\ writing'.age = 0 /\ writing'.snapshot = Health!classify(a)
    BY <1>2, ClassifyFacts, HealthConstants DEF Health!FileStates
  <1>6. Health!TypeOK'
    <2>1. quiet' \in 0..(RuntimeStale + 1)
      BY <1>2, HealthConstants
    <2> QED
      BY <1>0, <1>2, <1>3, <1>4, <1>5, <2>1 DEF Health!TypeOK, Clocks
  <1>7. Honest(writing)'
    <2>1. Health!classify(a).liveness = "live" => age'["supervisor"] <= SupervisorStale + 0
      BY <1>2, <1>3, ClassifyFacts, HealthConstants DEF Clocks
    <2> QED
      BY <1>2, <1>5, <2>1, ClassifyFacts DEF Honest
  <1>8. Honest(file)'
    <2>1. file # None => file.age \in Nat
      BY <1>0, HealthUnchanged, HealthConstants DEF Health!FileStates
    <2> QED
      BY <1>2, <1>3, <2>1 DEF HealthInv, Honest
  <1>9. Watched' /\ LatelyStuck'
    BY <1>2 DEF HealthInv, Watched, LatelyStuck
  <1>10. PulseIsNear'
    BY <1>2, <1>3, <1>4 DEF HealthInv, PulseIsNear
  <1> QED
    BY <1>6, <1>7, <1>8, <1>9, <1>10 DEF HealthInv

LEMMA NotifyKeeps ==
  ASSUME HealthInv, Health!Notify
  PROVE  HealthInv'
  <1>0. Health!TypeOK
    BY DEF HealthInv
  <1>1. /\ due' = [due EXCEPT !["notifier"] = Health!Cadence]
        /\ UNCHANGED <<lifecycle, age, stuck, out, writing, file, quiet>>
        /\ "runtime" \notin stuck
    BY DEF Health!Notify, Health!Due, Health!CanRun
  <1>2. /\ due' \in [Health!Timers -> Nat] /\ \A k \in Health!Timers : due'[k] <= Health!Period(k)
        /\ due'["notifier"] = Health!Cadence
    BY <1>0, <1>1, HealthUnchanged, HealthConstants, LimitFacts DEF Health!Timers
  <1>3. Honest(file)' /\ Honest(writing)'
    BY <1>1 DEF HealthInv, Honest
  <1>4. LatelyStuck'
    BY <1>1 DEF LatelyStuck
  <1>5. CASE /\ Health!live_running(Health!classify(age))
             /\ ready_sent' = TRUE /\ unpulsed' = 0 /\ lately' = FALSE
    <2>1. unpulsed' \in (0..Watchdog) \cup {None}
      BY <1>5, HealthConstants
    <2>2. Health!TypeOK'
      BY <1>0, <1>1, <1>2, <1>5, <2>1 DEF Health!TypeOK
    <2>3. lifecycle = "running" /\ age["runtime"] <= RuntimeStale /\ age["supervisor"] <= SupervisorStale
      BY <1>0, <1>5, HealthUnchanged, ClassifyFacts DEF Health!live_running
    <2>4. Watched' /\ PulseIsNear'
      BY <1>1, <1>2, <1>5, <2>3, HealthConstants, LimitFacts DEF Watched, PulseIsNear, Clocks
    <2> QED
      BY <1>3, <1>4, <2>2, <2>4 DEF HealthInv
  <1>6. CASE ~Health!live_running(Health!classify(age)) /\ UNCHANGED <<ready_sent, unpulsed, lately>>
    <2>1. Health!TypeOK'
      BY <1>0, <1>1, <1>2, <1>6 DEF Health!TypeOK
    <2>2. Watched'
      BY <1>1, <1>6 DEF HealthInv, Watched
    <2>3. unpulsed = None \/ lately
      <3> SUFFICES ASSUME unpulsed # None, ~lately
                   PROVE  FALSE
        OBVIOUS
      <3>1. lifecycle = "running" /\ age["runtime"] <= RuntimeStale /\ age["supervisor"] <= SupervisorStale
        BY LimitFacts DEF HealthInv, Watched, PulseIsNear, Clocks
      <3> QED
        BY <1>0, <1>6, <3>1, HealthUnchanged, ClassifyFacts DEF Health!live_running
    <2>4. PulseIsNear'
      BY <1>6, <2>3 DEF PulseIsNear
    <2> QED
      BY <1>3, <1>4, <2>1, <2>2, <2>4 DEF HealthInv
  <1> QED
    BY <1>5, <1>6 DEF Health!Notify

LEMMA HealthStep == HealthInv /\ [Health!Next]_healthVars => HealthInv'
  <1> SUFFICES ASSUME HealthInv, [Health!Next]_healthVars
               PROVE  HealthInv'
    OBVIOUS
  <1>1. CASE Health!Tick
    BY <1>1, TickKeeps
  <1>2. CASE Health!Progress
    BY <1>2, ProgressKeeps, SupervisorKeeps, NotifyKeeps, ProcessKeeps DEF Health!Progress
  <1>3. CASE Health!Start \/ Health!Stop \/ Health!Exit \/ Health!Kill \/ Health!Clear
    BY <1>3, ProcessKeeps
  <1>4. CASE \E w \in {"runtime", "supervisor"} : Health!Stall(w) \/ Health!Resume(w)
    BY <1>4, ProcessKeeps DEF Clocks
  <1>5. CASE \E o \in Outages : Health!Outage(o)
    BY <1>5, ProcessKeeps
  <1>6. CASE UNCHANGED healthVars
    BY <1>6 DEF healthVars, HealthInv, Health!TypeOK, Honest, Watched, PulseIsNear, LatelyStuck
  <1> QED
    BY <1>1, <1>2, <1>3, <1>4, <1>5, <1>6 DEF Health!Next

LEMMA HealthSafety == HealthInv => Health!Safety
  <1> SUFFICES ASSUME HealthInv
               PROVE  Health!Safety
    OBVIOUS
  <1>0. Health!TypeOK
    BY DEF HealthInv
  <1>1. Health!CheckHonest
    <2> SUFFICES ASSUME Health!Healthcheck(FALSE) = 0 \/ Health!Healthcheck(TRUE) = 0
                 PROVE  quiet <= RuntimeStale /\ age["supervisor"] <= SupervisorStale + RuntimeStale
      BY DEF Health!CheckHonest
    <2>1. file # None /\ ~(file.age > RuntimeStale)
      BY DEF Health!Healthcheck
    <2>2. file.snapshot.liveness = "live" \/ file.snapshot.readiness = "ready"
      BY <2>1 DEF Health!Healthcheck
    <2>3. file.age \in Nat /\ quiet \in Nat /\ age["supervisor"] \in Nat
      BY <1>0, <2>1, HealthUnchanged, HealthConstants DEF Health!FileStates, Clocks
    <2> QED
      BY <2>1, <2>2, <2>3, HealthConstants DEF HealthInv, Honest
  <1>2. Health!HealthyNeverKilled
    <2> SUFFICES ASSUME unpulsed = Watchdog, ~lately
                 PROVE  FALSE
      BY DEF Health!HealthyNeverKilled
    <2>1. unpulsed # None /\ due["notifier"] \in Nat
      BY <1>0, HealthConstants, HealthTypes
    <2> QED
      BY <2>1, HealthConstants DEF HealthInv, PulseIsNear
  <1> QED
    BY <1>0, <1>1, <1>2 DEF Health!Safety

\* A health check that succeeds tells of recent progress, and the watchdog kills no process
\* whose loops run, for all periods and limits (run_healthcheck, systemd_notify::decision).
THEOREM HealthIsHonest == MCSpec => []HealthSafe
  <1> DEFINE all == <<focus, vars, healthVars, telemetryVars, schemaVars>>
             Inv == focus = "health" => HealthInv
  <1>1. MCInit => Inv
    BY HealthInit DEF MCInit
  <1>2. Inv /\ [MCNext]_all => Inv'
    <2> SUFFICES ASSUME Inv, [MCNext]_all, focus' = "health"
                 PROVE  HealthInv'
      OBVIOUS
    <2>1. focus = "health" /\ [Health!Next]_healthVars
      BY DEF MCNext
    <2> QED
      BY <2>1, HealthStep
  <1>3. Inv => HealthSafe
    BY HealthSafety DEF HealthSafe
  <1> QED
    BY <1>1, <1>2, <1>3, PTL DEF MCSpec

---------------------------------------------------------------------------
(* Telemetry and its pruning *)

\* A set of numbers up to a bound has a largest one.
LEMMA LargestNatural ==
  ASSUME NEW n \in Nat, NEW S \in SUBSET (1..n), S # {}
  PROVE  \E m \in S : \A j \in S : j <= m
  <1> DEFINE above(i) == {j \in S : j > i}
             T == {above(i) : i \in S}
             F == FiniteSubsetsOf(S)
  <1>0. S \subseteq Int /\ 1 \in Int /\ n \in Int
    OBVIOUS
  <1>1. IsFiniteSet(S)
    <2>1. IsFiniteSet(1..n)
      BY <1>0, FS_Interval
    <2> QED
      BY <2>1, FS_Subset
  <1>2. T \subseteq F /\ T # {}
    <2>1. \A i \in S : above(i) \in SUBSET S
      OBVIOUS
    <2>2. F = SUBSET S
      BY <1>1, FS_FiniteSubsetsOfFinite
    <2> HIDE DEF above, F
    <2> QED
      BY <2>1, <2>2
  <1>3. IsWellFoundedOn(StrictSubsetOrdering(S), F)
    BY FS_StrictSubsetOrderingWellFounded
  <1>4. \E x \in T : \A y \in T : ~(<<y, x>> \in StrictSubsetOrdering(S))
    <2> HIDE DEF T, F
    <2> QED
      BY <1>2, <1>3, WFMin
  <1>5. PICK m \in S : \A j \in S : ~(<<above(j), above(m)>> \in StrictSubsetOrdering(S))
    BY <1>4
  <1>6. ASSUME NEW j \in S, ~(j <= m)
        PROVE  FALSE
    <2>1. j \in Int /\ m \in Int /\ j > m
      BY <1>0, <1>6
    <2>2. above(j) \subseteq above(m) /\ j \in above(m) /\ j \notin above(j)
      <3>1. ASSUME NEW k \in S, k > j
            PROVE  k > m
        BY <1>0, <2>1, <3>1
      <3>2. ~(j > j)
        BY <2>1
      <3> QED
        BY <2>1, <3>1, <3>2
    <2>3. <<above(j), above(m)>> \in StrictSubsetOrdering(S)
      BY <2>2 DEF StrictSubsetOrdering
    <2> QED
      BY <1>5, <2>3
  <1> QED
    BY <1>6

LEMMA SameCardinality == \A S : Prune!Cardinality(S) = Cardinality(S)
  <1> SUFFICES ASSUME NEW S
               PROVE  Prune!Cardinality(S) = Cardinality(S)
    OBVIOUS
  <1> QED
    BY DEF Prune!Cardinality, Cardinality

LEMMA TelemetryConstants == BatchSize \in Nat /\ MaxBatches \in Nat /\ MaxNow \in Nat /\ MaxRows \in Nat
  BY TelemetryAssumption

\* A batch selects no more ids than its size.
LEMMA LowestFew ==
  ASSUME NEW ids \in SUBSET (1..MaxRows)
  PROVE  /\ Prune!LowestIds(ids) \subseteq ids
         /\ IsFiniteSet(Prune!LowestIds(ids)) /\ Cardinality(Prune!LowestIds(ids)) <= BatchSize
  <1> DEFINE L == Prune!LowestIds(ids)
             below(i) == {j \in ids : j < i}
  <1>c. BatchSize \in Nat /\ MaxRows \in Nat
    BY TelemetryAssumption
  <1>1. L \subseteq ids /\ \A i \in L : Cardinality(below(i)) < BatchSize
    <2>1. L = {i \in ids : Cardinality(below(i)) < BatchSize}
      BY SameCardinality DEF Prune!LowestIds
    <2> HIDE DEF L, below
    <2> QED
      BY <2>1
  <1>2. IsFiniteSet(ids) /\ IsFiniteSet(L)
    <2>1. IsFiniteSet(1..MaxRows)
      BY <1>c, FS_Interval
    <2>2. IsFiniteSet(ids)
      BY <2>1, FS_Subset
    <2> HIDE DEF L
    <2> QED
      BY <1>1, <2>2, FS_Subset
  <1> HIDE DEF L
  <1>3. CASE L = {}
    BY <1>1, <1>2, <1>3, <1>c, FS_EmptySet DEF L
  <1>4. CASE L # {}
    <2>1. PICK m \in L : \A j \in L : j <= m
      BY <1>1, <1>4, <1>c, LargestNatural
    <2>2. L \ {m} \subseteq below(m)
      BY <1>1, <2>1
    <2>3. IsFiniteSet(below(m))
      BY <1>2, FS_Subset
    <2>4. Cardinality(L \ {m}) <= Cardinality(below(m)) /\ Cardinality(below(m)) \in Nat
      BY <2>2, <2>3, FS_Subset, FS_CardinalityType
    <2>5. Cardinality(L \ {m}) = Cardinality(L) - 1 /\ Cardinality(L) \in Nat
      BY <1>2, <2>1, FS_RemoveElement, FS_CardinalityType
    <2>6. Cardinality(below(m)) < BatchSize
      BY <1>1, <2>1
    <2>7. Cardinality(L) <= BatchSize
      BY <2>4, <2>5, <2>6, <1>c
    <2> QED
      BY <1>1, <1>2, <2>7 DEF L
  <1> QED
    BY <1>3, <1>4

\* Each id is given out once, and what has been deleted is no longer among the rows.
RowsCounted == /\ IsFiniteSet(rows) /\ surplus + Cardinality(rows) < next_id
               /\ \A r \in rows : r.id < next_id
\* How far a pass has come at its table.
BatchFacts(s) ==
  /\ s.batches <= MaxBatches /\ s.deleted <= BatchSize * s.batches
  /\ s.pc = "delete" => s.batches < MaxBatches /\ IsFiniteSet(s.ids) /\ Cardinality(s.ids) <= BatchSize
PassesBatched == \A p \in Prune!Pruners : pass[p] # None => BatchFacts(pass[p])
\* The failures that the request began with are failures of its run.
AttestKnows ==
  attest # None =>
    /\ \A i \in attest.begun : i < next_id
    /\ \A r \in rows : r.id \in attest.begun =>
         /\ r.table = "probes"
         /\ attest.pc = "rows" => r.body.run = attest.run /\ ~r.body.passed
         /\ attest.pc = "done" => r.body.test \in attest.failed

PruneInv ==
  /\ Prune!TypeOK /\ pass \in [Prune!Pruners -> Prune!Passes \cup {None}]
  /\ RowsCounted /\ Prune!CountedOnce /\ PassesBatched /\ AttestKnows

Worth(s) == IF s = None THEN 0 ELSE s.total + s.deleted

LEMMA PruneInit == Prune!Init => PruneInv
  <1> SUFFICES ASSUME Prune!Init
               PROVE  PruneInv
    OBVIOUS
  <1>1. Prune!TypeOK /\ pass \in [Prune!Pruners -> Prune!Passes \cup {None}]
    <2>1. \A p \in Prune!Pruners : pass[p] = None
      BY DEF Prune!Init
    <2>2. now \in 0..MaxNow /\ next_id \in 1..(MaxRows + 1) /\ surplus \in 0..MaxRows
      BY TelemetryConstants DEF Prune!Init
    <2> QED
      BY <2>1, <2>2 DEF Prune!Init, Prune!TypeOK
  <1>2. RowsCounted
    BY FS_EmptySet DEF Prune!Init, RowsCounted
  <1>3. Prune!CountedOnce /\ PassesBatched /\ AttestKnows
    BY DEF Prune!Init, Prune!CountedOnce, Prune!InPass, Prune!Pruners, PassesBatched, AttestKnows
  <1> QED
    BY <1>1, <1>2, <1>3 DEF PruneInv

LEMMA PruneTypes ==
  ASSUME PruneInv
  PROVE  /\ now \in 0..MaxNow /\ rows \subseteq Prune!Rows /\ next_id \in 1..(MaxRows + 1) /\ batch \subseteq Prune!Results
         /\ \A r, x \in rows : r.id = x.id => r = x
         /\ pass \in [Prune!Pruners -> Prune!Passes \cup {None}]
         /\ attest # None => attest \in Prune!Attests
         /\ surplus \in 0..MaxRows
         /\ IsFiniteSet(rows) /\ Cardinality(rows) \in Nat /\ surplus + Cardinality(rows) < next_id
         /\ \A p \in Prune!Pruners : Worth(pass[p]) \in Nat /\ Worth(pass[p]) <= surplus
         /\ \A r \in rows : r.id \in 1..MaxRows
  <1>1. \A p \in Prune!Pruners : Worth(pass[p]) \in Nat /\ Prune!InPass(p) = Worth(pass[p])
    BY TelemetryConstants DEF PruneInv, Worth, Prune!InPass, Prune!Passes
  <1>2. Prune!InPass("loop") + Prune!InPass("command") <= surplus /\ surplus \in 0..MaxRows
    BY DEF PruneInv, Prune!CountedOnce, Prune!TypeOK
  <1>3. \A p \in Prune!Pruners : Worth(pass[p]) <= surplus
    BY <1>1, <1>2 DEF Prune!Pruners
  <1>4. rows \subseteq Prune!Rows
    BY DEF PruneInv, Prune!TypeOK
  <1>5. \A r \in rows : r.id \in 1..MaxRows
    BY <1>4 DEF Prune!Rows
  <1> QED
    BY <1>1, <1>3, <1>5, FS_CardinalityType DEF PruneInv, Prune!TypeOK, RowsCounted

\* A step of one pruner, which may delete rows and report.
LEMMA PassKeeps ==
  ASSUME PruneInv, NEW p \in Prune!Pruners, NEW s \in Prune!Passes \cup {None},
         pass' = [pass EXCEPT ![p] = s], s # None => BatchFacts(s),
         NEW d \in Int, surplus' = surplus + d, Worth(s) <= Worth(pass[p]) + d,
         rows' \subseteq rows, IsFiniteSet(rows'), surplus' + Cardinality(rows') < next_id,
         UNCHANGED <<now, next_id, batch, attest>>
  PROVE  PruneInv'
  <1>1. \A q \in Prune!Pruners : pass'[q] = IF q = p THEN s ELSE pass[q]
    BY PruneTypes
  <1>2. pass' \in [Prune!Pruners -> Prune!Passes \cup {None}]
    BY PruneTypes
  <1>3. \A q \in Prune!Pruners : Prune!InPass(q) = Worth(pass[q])
    BY DEF Prune!InPass, Worth
  <1>4. \A q \in Prune!Pruners : Prune!InPass(q)' = Worth(pass'[q])
    BY DEF Prune!InPass, Worth
  <1>5. Worth(s) \in Nat /\ \A q \in Prune!Pruners : Worth(pass[q]) \in Nat
    BY PruneTypes, TelemetryConstants DEF Worth, Prune!Passes
  <1>6. Prune!InPass("loop") + Prune!InPass("command") <= surplus
    BY DEF PruneInv, Prune!CountedOnce
  <1>7. Prune!InPass("loop")' + Prune!InPass("command")' <= surplus'
    <2>1. surplus \in Int
      BY PruneTypes
    <2>2. CASE p = "loop"
      BY <1>1, <1>3, <1>4, <1>5, <1>6, <2>1, <2>2 DEF Prune!Pruners
    <2>3. CASE p = "command"
      BY <1>1, <1>3, <1>4, <1>5, <1>6, <2>1, <2>3 DEF Prune!Pruners
    <2> QED
      BY <2>2, <2>3 DEF Prune!Pruners
  <1>8. surplus' \in 0..MaxRows
    <2>1. surplus' \in Int
      BY PruneTypes
    <2>2. Prune!InPass("loop")' \in Nat /\ Prune!InPass("command")' \in Nat
      BY <1>1, <1>4, <1>5 DEF Prune!Pruners
    <2>3. next_id \in 1..(MaxRows + 1) /\ Cardinality(rows') \in Nat
      BY PruneTypes, FS_CardinalityType
    <2> QED
      BY <1>7, <2>1, <2>2, <2>3, TelemetryConstants
  <1>9. Prune!TypeOK'
    BY <1>2, <1>8, PruneTypes DEF Prune!TypeOK
  <1>10. RowsCounted'
    BY DEF PruneInv, RowsCounted
  <1>11. PassesBatched'
    BY <1>1 DEF PruneInv, PassesBatched
  <1>12. AttestKnows'
    BY DEF PruneInv, AttestKnows
  <1> QED
    BY <1>2, <1>7, <1>9, <1>10, <1>11, <1>12 DEF PruneInv, Prune!CountedOnce

\* A step of one pruner that neither deletes nor reports.
LEMMA ReadPassKeeps ==
  ASSUME PruneInv, NEW p \in Prune!Pruners, NEW s \in Prune!Passes \cup {None},
         pass' = [pass EXCEPT ![p] = s], s # None => BatchFacts(s), Worth(s) <= Worth(pass[p]),
         UNCHANGED <<now, rows, next_id, batch, attest, surplus>>
  PROVE  PruneInv'
  <1>1. PICK d \in Int : d = 0
    OBVIOUS
  <1>2. surplus' = surplus + d /\ Worth(s) <= Worth(pass[p]) + d
    BY <1>1, PruneTypes
  <1>3. rows' \subseteq rows /\ IsFiniteSet(rows') /\ surplus' + Cardinality(rows') < next_id
    BY PruneTypes
  <1> QED
    BY <1>2, <1>3, PassKeeps

LEMMA TablesAre == Len(Prune!Tables) = 2 /\ Prune!Tables[1] = "probes" /\ Prune!Tables[2] = "usage"
  BY DEF Prune!Tables

\* A pass comes to a table with nothing deleted there.
LEMMA AtTargetFacts ==
  ASSUME NEW t \in 1..2, NEW apply \in BOOLEAN, NEW cutoff \in Int, NEW total \in 0..MaxRows
  PROVE  LET s == Prune!AtTarget(t, apply, cutoff, total) IN
         s \in Prune!Passes /\ BatchFacts(s) /\ (s # None => Worth(s) = total) /\ Worth(s) <= total
  <1> DEFINE pc == IF apply THEN "select" ELSE "after"
             s == [apply |-> apply, pc |-> pc, target |-> t, cutoff |-> cutoff, batches |-> 0, ids |-> {}, deleted |-> 0, total |-> total]
  <1>1. pc \in {"select", "delete", "after"} /\ pc # "delete"
    OBVIOUS
  <1> HIDE DEF pc
  <1>2. 0 \in Nat /\ {} \in SUBSET (1..MaxRows) /\ 0 \in 0..MaxRows /\ t \in 1..Len(Prune!Tables)
    BY TelemetryConstants, TablesAre
  <1>3. s \in Prune!Passes
    BY <1>1, <1>2 DEF Prune!Passes
  <1>4. BatchFacts(s)
    BY <1>1, TelemetryConstants DEF BatchFacts
  <1>5. Worth(s) <= total /\ (s # None => Worth(s) = total)
    BY TelemetryConstants DEF Worth
  <1>6. Prune!AtTarget(t, apply, cutoff, total) = s
    BY DEF Prune!AtTarget, pc
  <1> HIDE DEF s
  <1> QED
    BY <1>3, <1>4, <1>5, <1>6

LEMMA BeginKeeps ==
  ASSUME PruneInv, NEW p \in Prune!Pruners, NEW apply \in BOOLEAN, Prune!Begin(p, apply)
  PROVE  PruneInv'
  <1> DEFINE s == Prune!AtTarget(1, apply, now, 0)
  <1>1. s \in Prune!Passes /\ BatchFacts(s) /\ Worth(s) <= 0
    BY AtTargetFacts, PruneTypes, TelemetryConstants
  <1>2. pass' = [pass EXCEPT ![p] = s] /\ pass[p] = None /\ UNCHANGED <<now, rows, next_id, batch, attest, surplus>>
    BY DEF Prune!Begin
  <1> HIDE DEF s
  <1>3. Worth(s) <= Worth(pass[p])
    BY <1>1, <1>2 DEF Worth
  <1> QED
    BY <1>1, <1>2, <1>3, ReadPassKeeps

LEMMA PassFailsKeeps ==
  ASSUME PruneInv, NEW p \in Prune!Pruners, Prune!PassFails(p)
  PROVE  PruneInv'
  <1>1. pass' = [pass EXCEPT ![p] = None] /\ UNCHANGED <<now, rows, next_id, batch, attest, surplus>>
    BY DEF Prune!PassFails
  <1>2. Worth(None) <= Worth(pass[p])
    BY PruneTypes DEF Worth
  <1> QED
    BY <1>1, <1>2, ReadPassKeeps

LEMMA SelectKeeps ==
  ASSUME PruneInv, NEW p \in Prune!Pruners, Prune!SelectBatch(p)
  PROVE  PruneInv'
  <1> DEFINE eligible == Prune!Eligible(pass[p].target, Prune!CutoffOf(pass[p]))
             ids == Prune!LowestIds(eligible)
             to == IF Prune!MoreBatches(pass[p]) /\ ids # {} THEN [pass[p] EXCEPT !.pc = "delete", !.ids = ids]
                                                            ELSE [pass[p] EXCEPT !.pc = "after"]
  <1>0. pass[p] \in Prune!Passes /\ BatchFacts(pass[p]) /\ pass[p] # None
    BY PruneTypes DEF Prune!SelectBatch, PruneInv, PassesBatched
  <1>1. pass' = [pass EXCEPT ![p] = to] /\ UNCHANGED <<now, rows, next_id, batch, attest, surplus>>
    BY DEF Prune!SelectBatch
  <1>2. eligible \in SUBSET (1..MaxRows)
    BY PruneTypes DEF Prune!Eligible
  <1> HIDE DEF eligible
  <1>3. ids \in SUBSET (1..MaxRows) /\ IsFiniteSet(ids) /\ Cardinality(ids) <= BatchSize
    BY <1>2, LowestFew
  <1> HIDE DEF ids
  <1>4. to \in Prune!Passes /\ to.total = pass[p].total /\ to.deleted = pass[p].deleted /\ BatchFacts(to)
    <2>1. CASE Prune!MoreBatches(pass[p]) /\ ids # {}
      <3>1. to = [pass[p] EXCEPT !.pc = "delete", !.ids = ids]
        BY <2>1
      <3> HIDE DEF to
      <3>2. to \in Prune!Passes
        BY <1>0, <1>3, <3>1 DEF Prune!Passes
      <3>3. /\ to.total = pass[p].total /\ to.deleted = pass[p].deleted /\ to.batches = pass[p].batches /\ to.ids = ids /\ to.pc = "delete"
        BY <1>0, <3>1 DEF Prune!Passes
      <3> QED
        BY <1>0, <1>3, <2>1, <3>2, <3>3 DEF BatchFacts, Prune!MoreBatches
    <2>2. CASE ~(Prune!MoreBatches(pass[p]) /\ ids # {})
      <3>1. to = [pass[p] EXCEPT !.pc = "after"]
        BY <2>2
      <3> HIDE DEF to
      <3>2. to \in Prune!Passes
        BY <1>0, <3>1 DEF Prune!Passes
      <3>3. /\ to.total = pass[p].total /\ to.deleted = pass[p].deleted /\ to.batches = pass[p].batches /\ to.pc = "after"
        BY <1>0, <3>1 DEF Prune!Passes
      <3> QED
        BY <1>0, <3>2, <3>3 DEF BatchFacts
    <2> QED
      BY <2>1, <2>2
  <1> HIDE DEF to
  <1>5. Worth(to) <= Worth(pass[p])
    BY <1>0, <1>4, PruneTypes, TelemetryConstants DEF Worth, Prune!Passes
  <1> QED
    BY <1>1, <1>4, <1>5, ReadPassKeeps

\* A DELETE removes at most the ids it names: ids are unique.
LEMMA AffectedFew ==
  ASSUME PruneInv, NEW s, IsFiniteSet(s.ids)
  PROVE  /\ Prune!Affected(s) \subseteq rows /\ IsFiniteSet(Prune!Affected(s))
         /\ Cardinality(Prune!Affected(s)) \in Nat /\ Cardinality(Prune!Affected(s)) <= Cardinality(s.ids)
         /\ Cardinality(rows \ Prune!Affected(s)) = Cardinality(rows) - Cardinality(Prune!Affected(s))
  <1> DEFINE gone == Prune!Affected(s)
             f == [r \in gone |-> r.id]
  <1>1. gone \subseteq rows /\ \A r \in gone : r.id \in s.ids
    BY DEF Prune!Affected
  <1> HIDE DEF gone
  <1>2. f \in Injection(gone, s.ids)
    BY <1>1, PruneTypes DEF Injection, IsInjective
  <1>3. IsFiniteSet(gone) /\ Cardinality(gone) <= Cardinality(s.ids)
    BY <1>2, FS_Injection
  <1>4. Cardinality(rows \ gone) = Cardinality(rows) - Cardinality(rows \cap gone) /\ rows \cap gone = gone
    BY <1>1, PruneTypes, FS_Difference
  <1> QED
    BY <1>1, <1>3, <1>4, FS_CardinalityType DEF gone

LEMMA DeleteKeeps ==
  ASSUME PruneInv, NEW p \in Prune!Pruners, Prune!DeleteBatch(p)
  PROVE  PruneInv'
  <1>0. pass[p] \in Prune!Passes /\ BatchFacts(pass[p]) /\ pass[p] # None /\ pass[p].pc = "delete"
    BY PruneTypes DEF Prune!DeleteBatch, PruneInv, PassesBatched
  <1>1. PICK s \in Prune!Passes : s = pass[p]
    BY <1>0
  <1> DEFINE gone == Prune!Affected(s)
             c == Cardinality(gone)
             pc == IF Cardinality(s.ids) < BatchSize THEN "after" ELSE "select"
             to == [s EXCEPT !.pc = pc, !.batches = s.batches + 1, !.ids = {}, !.deleted = s.deleted + c]
  <1>2. IsFiniteSet(s.ids) /\ Cardinality(s.ids) <= BatchSize /\ s.batches < MaxBatches /\ s.deleted <= BatchSize * s.batches
    BY <1>0, <1>1 DEF BatchFacts
  <1>3. /\ gone \subseteq rows /\ c \in Nat /\ c <= Cardinality(s.ids) /\ Cardinality(rows \ gone) = Cardinality(rows) - c
        /\ IsFiniteSet(gone)
    BY <1>2, AffectedFew
  <1>4. /\ rows' = rows \ gone /\ pass' = [pass EXCEPT ![p] = to] /\ surplus' = surplus + c
        /\ UNCHANGED <<now, next_id, batch, attest>>
    BY <1>1, SameCardinality DEF Prune!DeleteBatch, Prune!RowsAffected, Prune!Passes
  <1>5. pc \in {"select", "after"}
    OBVIOUS
  <1>6. IsFiniteSet(rows') /\ surplus' + Cardinality(rows') < next_id
    <2>1. IsFiniteSet(rows \ gone)
      BY PruneTypes, FS_Difference
    <2>2. surplus \in Int /\ Cardinality(rows) \in Int /\ surplus + Cardinality(rows) < next_id /\ next_id \in Int
      BY PruneTypes
    <2> HIDE DEF gone, c
    <2>3. (surplus + c) + (Cardinality(rows) - c) = surplus + Cardinality(rows)
      BY <1>3, <2>2
    <2> QED
      BY <1>3, <1>4, <2>1, <2>2, <2>3
  <1>7. s.batches \in Nat /\ s.deleted \in Nat /\ s.total \in Nat /\ Cardinality(s.ids) \in Nat
    BY <1>2, TelemetryConstants, FS_CardinalityType DEF Prune!Passes
  <1>8. Worth(s) = s.total + s.deleted /\ Worth(s) <= surplus /\ surplus \in Nat /\ Cardinality(rows) \in Nat
    BY <1>0, <1>1, PruneTypes DEF Worth
  <1>9. c <= Cardinality(rows)
    BY <1>3, PruneTypes, FS_Subset
  <1>10. s.deleted + c \in 0..MaxRows
    <2>1. surplus + Cardinality(rows) < next_id /\ next_id \in 1..(MaxRows + 1)
      BY PruneTypes
    <2> HIDE DEF c
    <2> QED
      BY <1>3, <1>7, <1>8, <1>9, <2>1, TelemetryConstants
  <1> HIDE DEF gone, c, pc
  <1>11. /\ to \in Prune!Passes
    <2>1. pc \in {"select", "delete", "after"} /\ s.batches + 1 \in Nat /\ {} \in SUBSET (1..MaxRows)
      BY <1>5, <1>7
    <2> QED
      BY <1>10, <2>1 DEF Prune!Passes
  <1>12. /\ to.pc = pc /\ to.batches = s.batches + 1 /\ to.deleted = s.deleted + c /\ to.total = s.total
    BY DEF Prune!Passes
  <1> HIDE DEF to
  <1>13. BatchFacts(to)
    <2>1. BatchSize * (s.batches + 1) = BatchSize * s.batches + BatchSize /\ BatchSize * s.batches \in Nat
      BY <1>7, TelemetryConstants
    <2>2. s.deleted + c <= BatchSize * s.batches + BatchSize
      BY <1>2, <1>3, <1>7, <2>1, TelemetryConstants
    <2>3. s.batches + 1 <= MaxBatches
      BY <1>2, <1>7, TelemetryConstants
    <2> QED
      BY <1>5, <1>12, <2>1, <2>2, <2>3 DEF BatchFacts
  <1>14. Worth(to) <= Worth(pass[p]) + c
    BY <1>1, <1>3, <1>7, <1>8, <1>12 DEF Worth
  <1>15. c \in Int /\ rows' \subseteq rows
    BY <1>3, <1>4
  <1> QED
    BY <1>4, <1>6, <1>11, <1>13, <1>14, <1>15, PassKeeps

LEMMA CountAfterKeeps ==
  ASSUME PruneInv, NEW p \in Prune!Pruners, Prune!CountAfter(p)
  PROVE  PruneInv'
  <1>0. pass[p] \in Prune!Passes /\ pass[p] # None
    BY PruneTypes DEF Prune!CountAfter
  <1>1. PICK s \in Prune!Passes : s = pass[p]
    BY <1>0
  <1>2. PICK total : total = s.total + s.deleted
    OBVIOUS
  <1>3. total = Worth(pass[p]) /\ total \in 0..MaxRows
    BY <1>0, <1>1, <1>2, PruneTypes, TelemetryConstants DEF Worth
  <1>4. UNCHANGED <<now, rows, next_id, batch, attest>>
    BY DEF Prune!CountAfter
  <1>5. CASE Prune!MoreTargets(s)
    <2> DEFINE to == Prune!AtTarget(s.target + 1, s.apply, s.cutoff, total)
    <2>1. pass' = [pass EXCEPT ![p] = to] /\ UNCHANGED surplus
      BY <1>1, <1>2, <1>5 DEF Prune!CountAfter
    <2>2. s.target + 1 \in 1..2 /\ s.apply \in BOOLEAN /\ s.cutoff \in Int
      BY <1>5, TablesAre DEF Prune!MoreTargets, Prune!Passes
    <2>3. to \in Prune!Passes /\ BatchFacts(to) /\ Worth(to) <= total
      BY <1>3, <2>2, AtTargetFacts
    <2> HIDE DEF to
    <2> QED
      BY <1>3, <1>4, <2>1, <2>3, ReadPassKeeps
  <1>6. CASE ~Prune!MoreTargets(s)
    <2>1. pass' = [pass EXCEPT ![p] = None] /\ surplus' = surplus - total
      BY <1>1, <1>2, <1>6 DEF Prune!CountAfter
    <2>2. PICK d \in Int : d = -total
      BY <1>3
    <2>3. surplus' = surplus + d /\ Worth(None) <= Worth(pass[p]) + d
      BY <1>3, <2>1, <2>2, PruneTypes DEF Worth
    <2>4. rows' \subseteq rows /\ IsFiniteSet(rows') /\ surplus' + Cardinality(rows') < next_id
      BY <1>3, <1>4, <2>1, PruneTypes
    <2> QED
      BY <1>4, <2>1, <2>3, <2>4, PassKeeps
  <1> QED
    BY <1>5, <1>6

---------------------------------------------------------------------------
\* A step that writes rows or attests, and leaves the passes alone.
LEMMA OtherKeeps ==
  ASSUME PruneInv, UNCHANGED <<pass, surplus>>,
         now' \in 0..MaxNow, rows' \subseteq Prune!Rows, next_id' \in 1..(MaxRows + 1), batch' \subseteq Prune!Results,
         \A r, x \in rows' : r.id = x.id => r = x,
         attest' # None => attest' \in Prune!Attests,
         IsFiniteSet(rows'), surplus + Cardinality(rows') < next_id', \A r \in rows' : r.id < next_id',
         AttestKnows'
  PROVE  PruneInv'
  <1>1. Prune!TypeOK' /\ (pass \in [Prune!Pruners -> Prune!Passes \cup {None}])'
    BY DEF PruneInv, Prune!TypeOK
  <1>2. Prune!CountedOnce' /\ PassesBatched'
    BY DEF PruneInv, Prune!CountedOnce, Prune!InPass, PassesBatched
  <1> QED
    BY <1>1, <1>2 DEF PruneInv, RowsCounted

LEMMA DaysKeep ==
  ASSUME PruneInv, Prune!Tick \/ (\E b \in Batches : Prune!Upload(b)) \/ \E x \in batch : Prune!SkipProbe(x)
  PROVE  PruneInv'
  <1>1. UNCHANGED <<rows, next_id, pass, attest, surplus>>
    BY DEF Prune!Tick, Prune!Upload, Prune!SkipProbe
  <1>2. now' \in 0..MaxNow
    BY PruneTypes, TelemetryConstants DEF Prune!Tick, Prune!Upload, Prune!SkipProbe
  <1>3. \A b \in Batches : b \subseteq Prune!Results
    <2> SUFFICES ASSUME NEW b \in Batches
                 PROVE  b \subseteq Prune!Results
      OBVIOUS
    <2>0. PICK r \in Runs, t \in Tests :
            b = {[run |-> r, test |-> t, passed |-> TRUE], [run |-> r, test |-> t, passed |-> FALSE]}
      BY SMT DEF Batches
    <2>1. [run |-> r, test |-> t, passed |-> TRUE] \in Prune!Results
      BY DEF Prune!Results
    <2>2. [run |-> r, test |-> t, passed |-> FALSE] \in Prune!Results
      BY DEF Prune!Results
    <2> QED
      BY <2>0, <2>1, <2>2, Zenon
  <1>4. batch' \subseteq Prune!Results
    BY <1>3, PruneTypes DEF Prune!Tick, Prune!Upload, Prune!SkipProbe
  <1>5. RowsCounted /\ AttestKnows'
    BY <1>1 DEF PruneInv, AttestKnows
  <1> QED
    BY <1>1, <1>2, <1>4, <1>5, PruneTypes, OtherKeeps DEF RowsCounted

\* A row with the next id.
LEMMA NewRowKeeps ==
  ASSUME PruneInv, NEW r \in Prune!Rows, r.id = next_id, next_id <= MaxRows,
         rows' = rows \cup {r}, next_id' = next_id + 1, batch' \subseteq batch,
         UNCHANGED <<now, pass, attest, surplus>>
  PROVE  PruneInv'
  <1>0. /\ \A x \in rows : x.id < next_id /\ x.id \in Int
        /\ next_id \in Nat /\ next_id' \in 1..(MaxRows + 1)
    BY PruneTypes, TelemetryConstants DEF PruneInv, RowsCounted
  <1>1. r \notin rows /\ \A x \in rows : x.id # r.id
    BY <1>0
  <1>2. \A y, x \in rows' : y.id = x.id => y = x
    BY <1>1, PruneTypes
  <1>3. IsFiniteSet(rows') /\ Cardinality(rows') = Cardinality(rows) + 1
    BY <1>1, PruneTypes, FS_AddElement
  <1>4. surplus + Cardinality(rows') < next_id'
    BY <1>0, <1>3, PruneTypes
  <1>5. \A x \in rows' : x.id < next_id'
    BY <1>0
  <1>6. AttestKnows'
    <2> SUFFICES ASSUME attest # None
                 PROVE  /\ \A i \in attest.begun : i < next_id'
                        /\ \A x \in rows' : x.id \in attest.begun =>
                             /\ x.table = "probes"
                             /\ attest.pc = "rows" => x.body.run = attest.run /\ ~x.body.passed
                             /\ attest.pc = "done" => x.body.test \in attest.failed
      BY DEF AttestKnows
    <2>1. \A i \in attest.begun : i < next_id /\ i \in Nat
      BY PruneTypes DEF PruneInv, AttestKnows, Prune!Attests
    <2>2. next_id \notin attest.begun /\ \A i \in attest.begun : i < next_id'
      BY <1>0, <2>1
    <2> QED
      BY <2>2 DEF PruneInv, AttestKnows
  <1> QED
    BY <1>0, <1>2, <1>3, <1>4, <1>5, <1>6, PruneTypes, OtherKeeps

LEMMA StoreProbeKeeps ==
  ASSUME PruneInv, NEW x \in batch, Prune!StoreProbe(x)
  PROVE  PruneInv'
  <1> DEFINE r == [table |-> "probes", id |-> next_id, at |-> now, body |-> x]
  <1>1. next_id \in 1..MaxRows /\ next_id <= MaxRows
    BY PruneTypes, TelemetryConstants DEF Prune!StoreProbe
  <1>2. r \in Prune!Rows /\ r.id = next_id
    BY <1>1, PruneTypes DEF Prune!Rows
  <1>3. rows' = rows \cup {r} /\ next_id' = next_id + 1 /\ batch' \subseteq batch /\ UNCHANGED <<now, pass, attest, surplus>>
    BY DEF Prune!StoreProbe
  <1> HIDE DEF r
  <1> QED
    BY <1>1, <1>2, <1>3, NewRowKeeps

LEMMA UsageKeeps ==
  ASSUME PruneInv, Prune!RecordUsage
  PROVE  PruneInv'
  <1> DEFINE today == {r \in rows : r.table = "usage" /\ r.at = now}
  <1>1. CASE today = {}
    <2> DEFINE r == [table |-> "usage", id |-> next_id, at |-> now, body |-> 1]
    <2>1. next_id \in 1..MaxRows /\ next_id <= MaxRows
      BY <1>1, PruneTypes, TelemetryConstants DEF Prune!RecordUsage
    <2>2. r \in Prune!Rows /\ r.id = next_id
      BY <2>1, PruneTypes DEF Prune!Rows
    <2>3. rows' = rows \cup {r} /\ next_id' = next_id + 1 /\ batch' \subseteq batch /\ UNCHANGED <<now, pass, attest, surplus>>
      BY <1>1 DEF Prune!RecordUsage
    <2> HIDE DEF r
    <2> QED
      BY <2>1, <2>2, <2>3, NewRowKeeps
  <1>2. CASE today # {}
    <2> DEFINE up1(r) == [r EXCEPT !.body = r.body + 1]
               f == [r \in rows |-> IF r \in today THEN up1(r) ELSE r]
    <2>0. /\ \A r \in today : r.body < 2
          /\ rows' = (rows \ today) \cup {up1(r) : r \in today}
          /\ UNCHANGED <<now, next_id, batch, pass, attest, surplus>>
      BY <1>2 DEF Prune!RecordUsage, Prune!CountedUp
    <2>1. \A r \in today : r \in rows /\ r.table = "usage" /\ r.body < 2
      BY <2>0
    <2>2. \A r \in today : up1(r) \in Prune!Rows /\ up1(r).id = r.id /\ up1(r).table = "usage"
      <3> SUFFICES ASSUME NEW r \in today
                   PROVE  up1(r) \in Prune!Rows /\ up1(r).id = r.id /\ up1(r).table = "usage"
        OBVIOUS
      <3>1. r \in [table : {"usage"}, id : 1..MaxRows, at : 0..MaxNow, body : 1..2] /\ r.body < 2
        BY <2>1, PruneTypes DEF Prune!Rows
      <3>2. r.body + 1 \in 1..2
        BY <3>1
      <3>3. up1(r) \in [table : {"usage"}, id : 1..MaxRows, at : 0..MaxNow, body : 1..2]
        BY <3>1, <3>2
      <3> QED
        BY <3>1, <3>3 DEF Prune!Rows
    <2> HIDE DEF today, up1
    <2>3. rows' \subseteq Prune!Rows
      BY <2>0, <2>2, PruneTypes
    <2>4. ASSUME NEW y \in rows'
          PROVE  \E r \in rows : y = f[r] /\ y.id = r.id /\ (y.table = "probes" => y = r)
      BY <2>0, <2>1, <2>2
    <2>5. \A y, z \in rows' : y.id = z.id => y = z
      BY <2>4, PruneTypes
    <2>6. f \in Surjection(rows, rows')
      <3>1. f \in [rows -> rows']
        BY <2>0
      <3> HIDE DEF f
      <3> QED
        BY <2>4, <3>1 DEF Surjection
    <2>7. IsFiniteSet(rows') /\ Cardinality(rows') <= Cardinality(rows) /\ Cardinality(rows') \in Nat
      BY <2>6, PruneTypes, FS_Surjection, FS_CardinalityType
    <2>8. surplus + Cardinality(rows') < next_id
      BY <2>7, PruneTypes
    <2>9. \A y \in rows' : y.id < next_id
      BY <2>4 DEF PruneInv, RowsCounted
    <2>10. AttestKnows'
      <3> SUFFICES ASSUME attest # None, NEW y \in rows', y.id \in attest.begun
                   PROVE  /\ y.table = "probes"
                          /\ attest.pc = "rows" => y.body.run = attest.run /\ ~y.body.passed
                          /\ attest.pc = "done" => y.body.test \in attest.failed
        BY <2>0 DEF PruneInv, AttestKnows
      <3>1. PICK r \in rows : y = f[r] /\ y.id = r.id
        BY <2>4
      <3>2. r.table = "probes"
        BY <3>1 DEF PruneInv, AttestKnows
      <3>3. r \notin today /\ y = r
        BY <2>1, <3>1, <3>2
      <3> QED
        BY <3>1, <3>3 DEF PruneInv, AttestKnows
    <2> HIDE DEF f
    <2> QED
      BY <2>0, <2>3, <2>5, <2>7, <2>8, <2>9, <2>10, PruneTypes, OtherKeeps
  <1> QED
    BY <1>1, <1>2

LEMMA AttestKeeps ==
  ASSUME PruneInv, Prune!Attest
  PROVE  PruneInv'
  <1>0. UNCHANGED <<now, rows, next_id, batch, pass, surplus>>
    BY DEF Prune!Attest, Prune!AttestRun, Prune!AttestRows, Prune!AttestEnds
  <1>p. \A r \in Prune!Probes : r \in rows /\ r.table = "probes" /\ r.body \in Prune!Results /\ r.id \in 1..MaxRows
    BY PruneTypes DEF Prune!Probes, Prune!Rows
  <1>1. (attest' # None => attest' \in Prune!Attests) /\ AttestKnows'
    <2>1. CASE Prune!AttestRun
      <3> DEFINE run == Prune!LatestRun(Prune!Probes)
                 begun == {r.id : r \in Prune!Failures(run)}
                 to == [pc |-> "rows", run |-> run, begun |-> begun, passed |-> {}, failed |-> {}]
      <3>1. attest' = to /\ Prune!Probes # {}
        BY <2>1 DEF Prune!AttestRun
      <3>2. run \in Runs
        <4> DEFINE ids == {r.id : r \in Prune!Probes}
        <4>1. PICK m \in ids : \A j \in ids : j <= m
          <5>1. ids \in SUBSET (1..MaxRows) /\ ids # {}
            BY <1>p, <3>1
          <5> HIDE DEF ids
          <5> QED
            BY <5>1, LargestNatural, TelemetryConstants
        <4>2. \E r \in Prune!Probes : \A x \in Prune!Probes : x.id <= r.id
          BY <4>1
        <4>3. PICK r \in Prune!Probes : r = CHOOSE z \in Prune!Probes : \A x \in Prune!Probes : x.id <= z.id
          BY <4>2
        <4>4. run = r.body.run
          BY <4>3 DEF Prune!LatestRun
        <4> QED
          BY <1>p, <4>4 DEF Prune!Results
      <3>3. \A i \in begun : i \in 1..MaxRows /\ i < next_id
        BY <1>p DEF Prune!Failures, PruneInv, RowsCounted
      <3>4. \A r \in rows : r.id \in begun => r.table = "probes" /\ r.body.run = run /\ ~r.body.passed
        BY <1>p, PruneTypes DEF Prune!Failures
      <3> HIDE DEF run, begun
      <3>5. to \in Prune!Attests /\ to.pc = "rows" /\ to.run = run /\ to.begun = begun
        BY <3>2, <3>3 DEF Prune!Attests
      <3> QED
        BY <1>0, <3>1, <3>3, <3>4, <3>5 DEF AttestKnows
    <2>2. CASE Prune!AttestRows
      <3>0. attest \in Prune!Attests /\ attest # None /\ attest.pc = "rows"
        BY <2>2, PruneTypes DEF Prune!AttestRows
      <3>1. PICK v : v = Prune!Verdicts(attest.run)
        OBVIOUS
      <3>2. attest' = [attest EXCEPT !.pc = "done", !.passed = v.passed, !.failed = v.failed]
        BY <2>2, <3>1 DEF Prune!AttestRows
      <3>3. v.passed = Prune!OfRun(attest.run, TRUE) /\ v.failed = Prune!OfRun(attest.run, FALSE)
        BY <3>1 DEF Prune!Verdicts
      <3>4. \A b \in BOOLEAN : Prune!OfRun(attest.run, b) \subseteq Tests
        BY <1>p DEF Prune!OfRun, Prune!Results
      <3>5. \A r \in rows : r.id \in attest.begun => r.table = "probes" /\ r.body.test \in v.failed
        <4> SUFFICES ASSUME NEW r \in rows, r.id \in attest.begun
                     PROVE  r.table = "probes" /\ r.body.test \in v.failed
          OBVIOUS
        <4>1. r.table = "probes" /\ r.body.run = attest.run /\ ~r.body.passed
          BY <3>0 DEF PruneInv, AttestKnows
        <4>2. r \in Prune!Probes
          BY <4>1 DEF Prune!Probes
        <4>3. r.body.passed = FALSE
          BY <1>p, <4>1, <4>2 DEF Prune!Results
        <4> QED
          BY <3>3, <4>1, <4>2, <4>3 DEF Prune!OfRun
      <3>6. attest' \in Prune!Attests /\ attest'.pc = "done" /\ attest'.begun = attest.begun /\ attest'.failed = v.failed
        BY <3>0, <3>2, <3>3, <3>4 DEF Prune!Attests
      <3> QED
        BY <1>0, <3>0, <3>5, <3>6 DEF PruneInv, AttestKnows
    <2>3. CASE Prune!AttestEnds
      BY <2>3 DEF Prune!AttestEnds, AttestKnows
    <2> QED
      BY <2>1, <2>2, <2>3 DEF Prune!Attest
  <1>2. RowsCounted
    BY DEF PruneInv
  <1> QED
    BY <1>0, <1>1, <1>2, PruneTypes, OtherKeeps DEF RowsCounted

LEMMA PruneStep == PruneInv /\ [Prune!Next]_telemetryVars => PruneInv'
  <1> SUFFICES ASSUME PruneInv, [Prune!Next]_telemetryVars
               PROVE  PruneInv'
    OBVIOUS
  <1>1. CASE Prune!Write
    BY <1>1, DaysKeep, StoreProbeKeeps, UsageKeeps DEF Prune!Write
  <1>2. CASE Prune!Attest
    BY <1>2, AttestKeeps
  <1>3. ASSUME NEW p \in Prune!Pruners, Prune!PassStep(p)
        PROVE  PruneInv'
    BY <1>3, BeginKeeps, SelectKeeps, DeleteKeeps, CountAfterKeeps, PassFailsKeeps DEF Prune!PassStep
  <1>4. CASE UNCHANGED telemetryVars
    BY <1>4 DEF telemetryVars, PruneInv, Prune!TypeOK, RowsCounted, Prune!CountedOnce, Prune!InPass, PassesBatched, AttestKnows
  <1> QED
    BY <1>1, <1>2, <1>3, <1>4 DEF Prune!Next

LEMMA PruneSafety == PruneInv => Prune!Safety
  <1> SUFFICES ASSUME PruneInv
               PROVE  Prune!Safety
    OBVIOUS
  <1>1. Prune!PassBounded
    <2> SUFFICES ASSUME NEW p \in Prune!Pruners, pass[p] # None
                 PROVE  pass[p].deleted <= BatchSize * MaxBatches
      BY DEF Prune!PassBounded
    <2>1. pass[p].batches \in Nat /\ pass[p].deleted \in Nat
      BY PruneTypes, TelemetryConstants DEF Prune!Passes
    <2>2. pass[p].batches <= MaxBatches /\ pass[p].deleted <= BatchSize * pass[p].batches
      BY DEF PruneInv, PassesBatched, BatchFacts
    <2>3. BatchSize * pass[p].batches <= BatchSize * MaxBatches /\ BatchSize * pass[p].batches \in Nat /\ BatchSize * MaxBatches \in Nat
      BY <2>1, <2>2, TelemetryConstants
    <2> QED
      BY <2>1, <2>2, <2>3
  <1>2. Prune!AttestsFailures
    BY DEF PruneInv, AttestKnows, Prune!AttestsFailures
  <1> QED
    BY <1>1, <1>2 DEF PruneInv, Prune!Safety

\* Overlapping passes stay within their batches and count every deletion once, and an
\* attestation hides no failure that stays stored, for every number of runs, tests and
\* rows (delete_bounded, latest_conformance_run).
THEOREM PruningIsSafe == MCSpec => []TelemetrySafe
  <1> DEFINE all == <<focus, vars, healthVars, telemetryVars, schemaVars>>
             Inv == focus \in {"pruning", "attestation"} => PruneInv
  <1>1. MCInit => Inv
    BY PruneInit DEF MCInit
  <1>2. Inv /\ [MCNext]_all => Inv'
    <2> SUFFICES ASSUME Inv, [MCNext]_all, focus' \in {"pruning", "attestation"}
                 PROVE  PruneInv'
      OBVIOUS
    <2>1. focus \in {"pruning", "attestation"} /\ [Prune!Next]_telemetryVars
      BY DEF MCNext, Prune!Next, Prune!Pruners
    <2> QED
      BY <2>1, PruneStep
  <1>3. Inv => TelemetrySafe
    BY PruneSafety DEF TelemetrySafe
  <1> QED
    BY <1>1, <1>2, <1>3, PTL DEF MCSpec
=============================================================================
