---------------------------- MODULE SeedDirectory -----------------------------
(***************************************************************************)
(* The write path of a seed directory as its replicas see it: the nodes    *)
(* table, and the signed events that report its changes on GET /v1/events. *)
(*                                                                         *)
(* A write handler (register, deregister) commits its change of the table  *)
(* first and emits the event afterwards, in a transaction of its own and   *)
(* without looking at the result.  The handler may be cancelled, the seed  *)
(* may stop, the append may fail, or another handler may write and report  *)
(* the same node between the two.  One append is one step here: EventLog   *)
(* shows that the transactions behave like that.                           *)
(***************************************************************************)
EXTENDS Naturals, Sequences

CONSTANTS
    Nodes,          \* node ids
    Endpoints,      \* what a REGISTER payload says of a node
    Absent,         \* no row for this node; the payload of other events
    Handlers,       \* requests the seed handles at the same time
    Idle,           \* a handler with nothing left to emit
    ReplicaId,      \* the replica_id the seed gave the replica
    SigningKeys, NoSig,
    MaxEvents,      \* bound on the length of the log
    MaxRotations,   \* bound on the times the operator changes the key
    MaxLost         \* bound on the events that are never emitted

ASSUME SeedAssumption ==
    /\ Absent \notin Endpoints
    /\ MaxEvents \in Nat /\ MaxRotations \in Nat /\ MaxLost \in Nat

(***************************************************************************)
(* NeutralTypes stand for every event whose handler leaves the replica's   *)
(* nodes table alone: EVICT, REACTIVATE, REPUTATION_UPDATE, REACHABILITY   *)
(* and the replica registry events.                                        *)
(***************************************************************************)
NodeTypes == {"REGISTER", "DEREGISTER"}
NeutralTypes == {"EVICT", "REPLICA_REGISTERED"}
EventBodies == [type : NodeTypes \cup NeutralTypes,
                node : Nodes \cup {ReplicaId},
                endpoint : Endpoints \cup {Absent}]

ASSUME IdleAssumption == Idle \notin EventBodies \cup Handlers

VARIABLES
    events,         \* the committed rows of node_events
    nodes,          \* nodes[n]: the endpoint in n's row, or Absent
    pending,        \* pending[h]: the event handler h has yet to emit
    signingKey,     \* the key this seed process was started with
    rotations, lost,\* how often the bounded faults have happened
    latest,         \* history: the handler that has yet to report n's row, or Idle
    astray          \* history: nodes whose last event does not report their row

Log == INSTANCE SignedLog WITH Bodies <- EventBodies

ASSUME NoSigAssumption == NoSig \notin Log!Sigs

seedVars == <<events, nodes, pending, signingKey, rotations, lost, latest, astray>>

Body(type, n, endpoint) == [type |-> type, node |-> n, endpoint |-> endpoint]

SeedInit ==
    /\ events = << >>
    /\ nodes = [n \in Nodes |-> Absent]
    /\ pending = [h \in Handlers |-> Idle]
    /\ signingKey \in SigningKeys
    /\ rotations = 0
    /\ lost = 0
    /\ latest = [n \in Nodes |-> Idle]
    /\ astray = {}

-----------------------------------------------------------------------------

(***************************************************************************)
(* Handlers of one node overlap.  Handler h has written the row of n: the  *)
(* events other handlers still hold for n are out of date.                 *)
(***************************************************************************)
RowWritten(h, n) ==
    /\ latest' = [latest EXCEPT ![n] = h]
    /\ astray' = astray \ {n}

(***************************************************************************)
(* The event of the last write is on the log, or an older one comes after  *)
(* it.  An older one that comes before it does no harm.                    *)
(***************************************************************************)
RowReported(h, n) ==
    /\ latest' = [latest EXCEPT ![n] = IF @ = h THEN Idle ELSE @]
    /\ astray' = IF latest[n] = Idle THEN astray \cup {n} ELSE astray

(* The events of these handlers are lost: it matters if they wrote last. *)
RowsUnreported(gone) ==
    /\ latest' = [n \in Nodes |-> IF latest[n] \in gone THEN Idle ELSE latest[n]]
    /\ astray' = astray \cup {n \in Nodes : latest[n] \in gone}

(***************************************************************************)
(* commit_registration: repo.register upserts the row; the REGISTER event  *)
(* is emitted after it.                                                    *)
(***************************************************************************)
Register(h, n, e) ==
    /\ pending[h] = Idle
    /\ nodes' = [nodes EXCEPT ![n] = e]
    /\ pending' = [pending EXCEPT ![h] = Body("REGISTER", n, e)]
    /\ RowWritten(h, n)
    /\ UNCHANGED <<events, signingKey, rotations, lost>>

(* Faulty variant: the removal is not reported on the log. *)
DeregisterSilently(h, n) ==
    /\ pending[h] = Idle
    /\ nodes[n] # Absent
    /\ nodes' = [nodes EXCEPT ![n] = Absent]
    /\ UNCHANGED <<events, pending, signingKey, rotations, lost, latest, astray>>

(***************************************************************************)
(* deregister: a node whose row is gone has no token to verify (401), and  *)
(* only a handler that deleted the row emits DEREGISTER.                   *)
(***************************************************************************)
Deregister(h, n) ==
    /\ pending[h] = Idle
    /\ nodes[n] # Absent
    /\ nodes' = [nodes EXCEPT ![n] = Absent]
    /\ pending' = [pending EXCEPT ![h] = Body("DEREGISTER", n, Absent)]
    /\ RowWritten(h, n)
    /\ UNCHANGED <<events, signingKey, rotations, lost>>

Emit(h) ==
    /\ pending[h] # Idle
    /\ Len(events) < MaxEvents
    /\ Log!AppendEvent(signingKey, pending[h])
    /\ pending' = [pending EXCEPT ![h] = Idle]
    /\ RowReported(h, pending[h].node)
    /\ UNCHANGED <<nodes, signingKey, rotations, lost>>

(***************************************************************************)
(* The append returned None and emit_event drops the result, or the        *)
(* client went away and the handler's future was dropped.                  *)
(***************************************************************************)
EmitFails(h) ==
    /\ pending[h] # Idle
    /\ lost < MaxLost
    /\ lost' = lost + 1
    /\ pending' = [pending EXCEPT ![h] = Idle]
    /\ RowsUnreported({h})
    /\ UNCHANGED <<events, nodes, signingKey, rotations>>

(***************************************************************************)
(* The background loops and repository transactions log events that leave  *)
(* the nodes a replica serves unchanged (run_expire_nodes_loop: EVICT).    *)
(***************************************************************************)
EmitNeutral(n) ==
    /\ Len(events) < MaxEvents
    /\ Log!AppendEvent(signingKey, Body("EVICT", n, Absent))
    /\ UNCHANGED <<nodes, pending, signingKey, rotations, lost, latest, astray>>

(***************************************************************************)
(* The seed is stopped and started with another signing key.  Handlers in  *)
(* flight are gone; the database keeps what they committed.                *)
(***************************************************************************)
RestartSeed(key) ==
    LET inFlight == {h \in Handlers : pending[h] # Idle} IN
    /\ key # signingKey
    /\ rotations < MaxRotations
    /\ inFlight = {} \/ lost < MaxLost
    /\ signingKey' = key
    /\ rotations' = rotations + 1
    /\ lost' = IF inFlight = {} THEN lost ELSE lost + 1
    /\ pending' = [h \in Handlers |-> Idle]
    /\ RowsUnreported(inFlight)
    /\ UNCHANGED <<events, nodes>>

SeedNext ==
    \/ \E h \in Handlers, n \in Nodes :
          \/ \E e \in Endpoints : Register(h, n, e)
          \/ Deregister(h, n)
    \/ \E h \in Handlers : Emit(h) \/ EmitFails(h)
    \/ \E n \in Nodes : EmitNeutral(n)
    \/ \E key \in SigningKeys : RestartSeed(key)

SeedSpec == SeedInit /\ [][SeedNext]_seedVars

-----------------------------------------------------------------------------

Quiet == \A h \in Handlers : pending[h] = Idle

(***************************************************************************)
(* NodeEvent(log, i, n): event i changes the row of n, to its endpoint.    *)
(***************************************************************************)
NodeEvent(log, i, n) ==
    log[i].body.type \in NodeTypes /\ log[i].body.node = n

(***************************************************************************)
(* Overlaid(log, from, to, before, n, v): v is what node n has once the    *)
(* events after from and up to to are applied, in order, on top of before. *)
(***************************************************************************)
Overlaid(log, from, to, before, n, v) ==
    \/ /\ \A i \in from + 1..to : ~NodeEvent(log, i, n)
       /\ v = before
    \/ \E i \in from + 1..to :
          /\ NodeEvent(log, i, n)
          /\ \A j \in i + 1..to : ~NodeEvent(log, j, n)
          /\ v = log[i].body.endpoint

SeedTypeOK ==
    /\ events \in Seq(Log!Rows)
    /\ nodes \in [Nodes -> Endpoints \cup {Absent}]
    /\ pending \in [Handlers -> EventBodies \cup {Idle}]
    /\ signingKey \in SigningKeys
    /\ rotations \in 0..MaxRotations
    /\ lost \in 0..MaxLost
    /\ latest \in [Nodes -> Handlers \cup {Idle}]
    /\ astray \in SUBSET (Nodes \cup {ReplicaId})
=============================================================================
