-------------------------- MODULE Federation_proofs ---------------------------
(***************************************************************************)
(* The replica's mirror is the snapshot overlaid with the accepted events, *)
(* for any number of nodes, keys, handlers and events, any page size and   *)
(* any interleaving with the seed, as long as the replica's own database   *)
(* does not fail.                                                          *)
(*                                                                         *)
(* MirrorFold is not inductive: applying the next row of the page is right *)
(* only because that row follows the cursor.  The invariant says so        *)
(* (DrainOK), together with what keeps it so: the log is one chain, and    *)
(* prev_sig is the signature of the event under the cursor, so that the    *)
(* chain check never refuses an event of the seed.                         *)
(***************************************************************************)
EXTENDS Federation, TLAPS

(* The locals of a drain agree with the cursor and with the log. *)
DrainOK ==
    /\ pc \notin {"draining", "applying"} => prev_sig = NoSig
    /\ prev_sig # NoSig => since_seq > 0 /\ prev_sig = events[since_seq].sig
    /\ pc = "applying" => pos = since_seq + 1

TInv == TypeOK /\ Log!ChainIntact
IInv == TInv /\ DrainOK /\ MirrorFold

-----------------------------------------------------------------------------
(* The log.                                                                *)

(***************************************************************************)
(* The last element of a non-empty sequence is one of its elements.        *)
(***************************************************************************)
LEMMA LastElement ==
    ASSUME NEW S, NEW s \in Seq(S), s # << >>
    PROVE  Len(s) \in 1..Len(s) /\ s[Len(s)] \in S
  OBVIOUS

(***************************************************************************)
(* The row an append writes is a row of the log.                           *)
(***************************************************************************)
LEMMA NewRowType ==
    ASSUME NEW log \in Seq(Log!Rows), NEW k \in SigningKeys,
           NEW body \in EventBodies
    PROVE  Log!EventRow(k, body, Len(log) + 1, Log!LastSig(log)) \in Log!Rows
  <1>1. Log!LastSig(log) \in Log!Sigs \cup {NoSig}
    <2>1. CASE log = << >>
      BY <2>1 DEF Log!LastSig
    <2>2. CASE log # << >>
      <3>1. log[Len(log)] \in Log!Rows
        BY <2>2, LastElement
      <3> QED BY <2>2, <3>1 DEF Log!LastSig, Log!Rows
    <2> QED BY <2>1, <2>2
  <1>2. Log!prev_hash_from(Log!LastSig(log)) \in Log!Hashes
    BY <1>1 DEF Log!prev_hash_from, Log!Hashes
  <1>3. Len(log) + 1 \in Nat
    OBVIOUS
  <1>4. Log!sign_event(k, body, Len(log) + 1) \in Log!Sigs
    BY <1>3 DEF Log!sign_event, Log!Sigs
  <1> QED BY <1>2, <1>3, <1>4 DEF Log!EventRow, Log!Rows

(* The log keeps every row it has. *)
LogExtended ==
    /\ Len(events') >= Len(events)
    /\ \A i \in 1..Len(events) : events'[i] = events[i]

(***************************************************************************)
(* An append extends the log by one row and keeps the chain intact.        *)
(***************************************************************************)
LEMMA AppendExtends ==
    ASSUME events \in Seq(Log!Rows), signingKey \in SigningKeys, Log!ChainIntact,
           NEW body \in EventBodies, Log!AppendEvent(signingKey, body)
    PROVE  /\ events' \in Seq(Log!Rows)
           /\ Len(events') = Len(events) + 1
           /\ LogExtended
           /\ Log!ChainIntact'
  <1> DEFINE row == Log!EventRow(signingKey, body, Len(events) + 1,
                                 Log!LastSig(events))
  <1>1. row \in Log!Rows
    BY NewRowType
  <1>2. events' = Append(events, row)
    BY DEF Log!AppendEvent, Log!AppendTo
  <1>3. /\ events' \in Seq(Log!Rows)
        /\ Len(events') = Len(events) + 1
        /\ events'[Len(events) + 1] = row
        /\ \A i \in 1..Len(events) : events'[i] = events[i]
    <2> HIDE DEF row
    <2> QED BY <1>1, <1>2
  <1>4. Log!Linked(events', Len(events) + 1)
    <2>1. /\ row.seq = Len(events) + 1
          /\ row.prev_hash = Log!prev_hash_from(Log!LastSig(events))
      BY DEF Log!EventRow
    <2>2. CASE Len(events) = 0
      BY <2>1, <2>2, <1>3 DEF Log!Linked, Log!LastSig
    <2>3. CASE Len(events) # 0
      BY <2>1, <2>3, <1>3 DEF Log!Linked, Log!LastSig
    <2> QED BY <2>2, <2>3
  <1>5. ASSUME NEW i \in 1..Len(events) PROVE Log!Linked(events', i)
    BY <1>3 DEF Log!Linked, Log!ChainIntact
  <1>6. Len(events) \in Nat
    OBVIOUS
  <1> HIDE DEF row
  <1>7. Log!ChainIntact'
    <2> SUFFICES ASSUME NEW i \in 1..Len(events') PROVE Log!Linked(events', i)
      BY DEF Log!ChainIntact, Log!Linked
    <2> QED BY <1>3, <1>4, <1>5, <1>6
  <1> QED BY <1>3, <1>6, <1>7 DEF LogExtended

-----------------------------------------------------------------------------
(* The seed.                                                               *)

(***************************************************************************)
(* A step of the seed keeps its types and the chain, and only extends the  *)
(* log.                                                                    *)
(***************************************************************************)
LEMMA SeedStep ==
    ASSUME SeedTypeOK, Log!ChainIntact, SeedNext
    PROVE  SeedTypeOK' /\ LogExtended /\ Log!ChainIntact'
  <1>0. Len(events) \in Nat
    BY DEF SeedTypeOK
  <1>a. UNCHANGED events => events' \in Seq(Log!Rows) /\ LogExtended /\ Log!ChainIntact'
    BY <1>0 DEF SeedTypeOK, LogExtended, Log!ChainIntact, Log!Linked
  <1>1. ASSUME NEW h \in Handlers, NEW n \in Nodes, NEW e \in Endpoints,
               Register(h, n, e)
        PROVE  SeedTypeOK' /\ LogExtended /\ Log!ChainIntact'
    <2>1. Body("REGISTER", n, e) \in EventBodies
      BY DEF Body, EventBodies, NodeTypes
    <2>2. UNCHANGED events
      BY <1>1 DEF Register
    <2> QED BY <1>1, <1>a, <2>1, <2>2 DEF Register, RowWritten, SeedTypeOK
  <1>2. ASSUME NEW h \in Handlers, NEW n \in Nodes, Deregister(h, n)
        PROVE  SeedTypeOK' /\ LogExtended /\ Log!ChainIntact'
    <2>1. Body("DEREGISTER", n, Absent) \in EventBodies
      BY DEF Body, EventBodies, NodeTypes
    <2>2. UNCHANGED events
      BY <1>2 DEF Deregister
    <2> QED BY <1>2, <1>a, <2>1, <2>2 DEF Deregister, RowWritten, SeedTypeOK
  <1>3. ASSUME NEW h \in Handlers, Emit(h)
        PROVE  SeedTypeOK' /\ LogExtended /\ Log!ChainIntact'
    <2>1. pending[h] \in EventBodies
      BY <1>3 DEF Emit, SeedTypeOK
    <2>2. events' \in Seq(Log!Rows) /\ LogExtended /\ Log!ChainIntact'
      BY <1>3, <2>1, AppendExtends DEF Emit, SeedTypeOK
    <2>3. latest' \in [Nodes -> Handlers \cup {Idle}]
      BY <1>3 DEF Emit, RowReported, SeedTypeOK
    <2>4. astray' \in SUBSET (Nodes \cup {ReplicaId})
      <3>1. pending[h].node \in Nodes \cup {ReplicaId}
        BY <2>1 DEF EventBodies
      <3> QED BY <1>3, <3>1 DEF Emit, RowReported, SeedTypeOK
    <2> QED BY <1>3, <2>2, <2>3, <2>4 DEF Emit, SeedTypeOK
  <1>4. ASSUME NEW h \in Handlers, EmitFails(h)
        PROVE  SeedTypeOK' /\ LogExtended /\ Log!ChainIntact'
    <2>1. UNCHANGED events
      BY <1>4 DEF EmitFails
    <2> QED BY <1>4, <1>a, <2>1, SeedAssumption DEF EmitFails, RowsUnreported, SeedTypeOK
  <1>5. ASSUME NEW n \in Nodes, EmitNeutral(n)
        PROVE  SeedTypeOK' /\ LogExtended /\ Log!ChainIntact'
    <2>1. Body("EVICT", n, Absent) \in EventBodies
      BY DEF Body, EventBodies, NeutralTypes
    <2>2. events' \in Seq(Log!Rows) /\ LogExtended /\ Log!ChainIntact'
      BY <1>5, <2>1, AppendExtends DEF EmitNeutral, SeedTypeOK
    <2> QED BY <1>5, <2>2 DEF EmitNeutral, SeedTypeOK
  <1>6. ASSUME NEW k \in SigningKeys, RestartSeed(k)
        PROVE  SeedTypeOK' /\ LogExtended /\ Log!ChainIntact'
    <2>1. UNCHANGED events
      BY <1>6 DEF RestartSeed
    <2> QED BY <1>6, <1>a, <2>1, SeedAssumption DEF RestartSeed, RowsUnreported, SeedTypeOK
  <1> QED BY <1>1, <1>2, <1>3, <1>4, <1>5, <1>6 DEF SeedNext
-----------------------------------------------------------------------------
(* The types of the replica.                                               *)

(***************************************************************************)
(* A row of the log at position i has seq i, and applying it to a mirror   *)
(* gives a mirror.                                                         *)
(***************************************************************************)
LEMMA RowFacts ==
    ASSUME TInv, NEW i \in 1..Len(events)
    PROVE  /\ events[i] \in Log!Rows
           /\ events[i].seq = i
           /\ events[i].sig \in Log!Sigs
           /\ events[i].body \in EventBodies
           /\ apply_event(rnodes, events[i]) \in Mirror
  <1>1. events[i] \in Log!Rows
    BY DEF TInv, TypeOK, SeedTypeOK
  <1>2. events[i].seq = i
    BY DEF TInv, Log!ChainIntact, Log!Linked
  <1>3. events[i].sig \in Log!Sigs /\ events[i].body \in EventBodies
    BY <1>1 DEF Log!Rows
  <1>4. events[i].body.endpoint \in Endpoints \cup {Absent}
    BY <1>3 DEF EventBodies
  <1>5. rnodes \in Mirror
    BY DEF TInv, TypeOK
  <1> QED BY <1>1, <1>2, <1>3, <1>4, <1>5 DEF apply_event, Mirror

(***************************************************************************)
(* Every step keeps the types and the chain, and only extends the log,     *)
(* whether the databases fail or not.                                      *)
(***************************************************************************)
LEMMA NextTInv ==
    ASSUME TInv, [Next]_vars
    PROVE  TInv' /\ LogExtended
  <1> USE FederationAssumption
  <1>0. Len(events) \in Nat
    BY DEF TInv, TypeOK, SeedTypeOK
  <1>a. UNCHANGED events => LogExtended
    BY <1>0 DEF LogExtended
  <1>b. UNCHANGED seedVars => SeedTypeOK' /\ LogExtended /\ Log!ChainIntact'
    <2> SUFFICES ASSUME UNCHANGED seedVars
                 PROVE  SeedTypeOK' /\ LogExtended /\ Log!ChainIntact'
      OBVIOUS
    <2>1. UNCHANGED events
      BY DEF seedVars
    <2>2. SeedTypeOK'
      BY DEF seedVars, TInv, TypeOK, SeedTypeOK
    <2>3. Log!ChainIntact'
      BY <2>1 DEF TInv, Log!ChainIntact, Log!Linked
    <2> QED BY <1>a, <2>1, <2>2, <2>3
  <1>c. NoNodes \in Mirror /\ NoSig \in Log!Sigs \cup {NoSig}
    BY DEF NoNodes, Mirror
  <1>d. EndDrain => /\ prev_sig' \in Log!Sigs \cup {NoSig}
                    /\ pos' \in Nat \ {0} /\ last' \in Nat
                    /\ last' <= Len(events)
                    /\ has_more' \in BOOLEAN
                    /\ served' \in Nat
    <2> SUFFICES ASSUME EndDrain
                 PROVE  /\ prev_sig' \in Log!Sigs \cup {NoSig}
                        /\ pos' \in Nat \ {0} /\ last' \in Nat
                        /\ last' <= Len(events)
                        /\ has_more' \in BOOLEAN
                        /\ served' \in Nat
      OBVIOUS
    <2>1. has_more' \in BOOLEAN
      BY Zenon DEF EndDrain
    <2>2. prev_sig' = NoSig /\ pos' = 1 /\ last' = 0 /\ served' = 0
      BY Zenon DEF EndDrain
    <2> QED BY <1>0, <2>1, <2>2
  <1>1. CASE SeedNext /\ UNCHANGED replicaVars
    <2>1. SeedTypeOK' /\ LogExtended /\ Log!ChainIntact'
      BY <1>1, SeedStep DEF TInv, TypeOK
    <2>2. Len(events') \in Nat /\ Len(events') >= Len(events)
      BY <2>1 DEF SeedTypeOK, LogExtended
    <2>3. TypeOK'
      BY <1>0, <1>1, <2>1, <2>2 DEF TInv, TypeOK, replicaVars
    <2> QED BY <2>1, <2>3 DEF TInv
  <1>2. CASE VerifySeed
    <2>1. signingKey \in SigningKeys
      BY DEF TInv, TypeOK, SeedTypeOK
    <2>2. UNCHANGED seedVars
      BY <1>2 DEF VerifySeed
    <2>3. UNCHANGED events
      BY <2>2 DEF seedVars
    <2> QED BY <1>2, <1>b, <2>1, <2>2, <2>3 DEF VerifySeed, TInv, TypeOK, Phases
  <1>3. CASE JoinHandshake
    <2>1. SeedTypeOK' /\ LogExtended /\ Log!ChainIntact'
      <3>1. CASE UNCHANGED events
        <4>1. UNCHANGED seedVars
          BY <1>3, <3>1 DEF JoinHandshake, seedVars
        <4> QED BY <4>1, <1>b
      <3>2. CASE Log!AppendEvent(signingKey,
                                 Body("REPLICA_REGISTERED", ReplicaId, Absent))
        <4>1. Body("REPLICA_REGISTERED", ReplicaId, Absent) \in EventBodies
          BY DEF Body, EventBodies, NeutralTypes
        <4>2. events' \in Seq(Log!Rows) /\ LogExtended /\ Log!ChainIntact'
          BY <3>2, <4>1, AppendExtends DEF TInv, TypeOK, SeedTypeOK
        <4> QED BY <1>3, <4>2 DEF JoinHandshake, TInv, TypeOK, SeedTypeOK
      <3> QED BY <1>3, <3>1, <3>2 DEF JoinHandshake
    <2>2. Len(events') \in Nat /\ Len(events') >= Len(events)
      BY <2>1 DEF SeedTypeOK, LogExtended
    <2>3. TypeOK'
      BY <1>0, <1>3, <2>1, <2>2 DEF JoinHandshake, TInv, TypeOK, Phases
    <2> QED BY <2>1, <2>3 DEF TInv
  <1>4. CASE SnapshotRecords
    <2>1. nodes \in Mirror
      BY DEF TInv, TypeOK, SeedTypeOK, Mirror
    <2>2. UNCHANGED seedVars
      BY <1>4 DEF SnapshotRecords
    <2>3. UNCHANGED events
      BY <2>2 DEF seedVars
    <2> QED BY <1>4, <1>b, <1>c, <2>1, <2>2, <2>3
            DEF SnapshotRecords, TInv, TypeOK, Phases
  <1>5. CASE ApplySnapshot
    <2>1. UNCHANGED seedVars
      BY <1>5 DEF ApplySnapshot
    <2>2. UNCHANGED events
      BY <2>1 DEF seedVars
    <2>3. rnodes' \in Mirror
      BY <1>5 DEF ApplySnapshot, TInv, TypeOK, Mirror
    <2>4. /\ snapshot_seq' \in Nat /\ since_seq' = snapshot_seq'
          /\ since_seq' <= Len(events)
      BY <1>5, <1>0 DEF ApplySnapshot
    <2>5. boots' \in 0..MaxBoots
      BY <1>5 DEF ApplySnapshot, TInv, TypeOK
    <2> QED BY <1>5, <1>b, <1>c, <2>1, <2>2, <2>3, <2>4, <2>5
            DEF ApplySnapshot, TInv, TypeOK, Phases
  <1>6. CASE SnapshotFails
    <2>1. UNCHANGED seedVars
      BY <1>6 DEF SnapshotFails
    <2>2. UNCHANGED events
      BY <2>1 DEF seedVars
    <2> QED BY <1>6, <1>b, <1>c, <2>1, <2>2
            DEF SnapshotFails, TInv, TypeOK, Phases
  <1>7. CASE Tick
    <2>1. signingKey \in SigningKeys
      BY DEF TInv, TypeOK, SeedTypeOK
    <2>2. UNCHANGED seedVars
      BY <1>7 DEF Tick
    <2>3. UNCHANGED events
      BY <2>2 DEF seedVars
    <2> QED BY <1>7, <1>b, <2>1, <2>2, <2>3 DEF Tick, TInv, TypeOK, Phases
  <1>8. CASE FetchEvents
    <2>1. UNCHANGED seedVars
      BY <1>8 DEF FetchEvents
    <2>2. UNCHANGED events
      BY <2>1 DEF seedVars
    <2>3. PICK to \in {Least(since_seq + PageLimit, Len(events))} \cup
                      (IF SeedDbFails THEN {since_seq} ELSE {}) :
             \/ /\ pc' = "waiting" /\ ready' = TRUE /\ EndDrain
             \/ /\ pc' = "applying" /\ pos' = since_seq + 1 /\ last' = to
                /\ has_more' = HasMore(to) /\ served' = Len(events)
                /\ UNCHANGED <<ready, prev_sig>>
      BY <1>8 DEF FetchEvents
    <2>4. to \in Nat /\ to <= Len(events)
      BY <1>0 DEF Least, TInv, TypeOK
    <2>5. HasMore(to) \in BOOLEAN
      BY DEF HasMore
    <2>6. /\ pc' \in Phases /\ ready' \in BOOLEAN /\ has_more' \in BOOLEAN
          /\ prev_sig' \in Log!Sigs \cup {NoSig}
          /\ pos' \in Nat \ {0} /\ last' \in Nat /\ last' <= Len(events)
          /\ served' \in Nat
      <3>1. CASE pc' = "waiting" /\ ready' = TRUE /\ EndDrain
        <4>1. ready' \in BOOLEAN
          BY <3>1, Zenon
        <4> QED BY <3>1, <4>1, <1>d DEF Phases
      <3>2. CASE /\ pc' = "applying" /\ pos' = since_seq + 1 /\ last' = to
                 /\ has_more' = HasMore(to) /\ served' = Len(events)
                 /\ UNCHANGED <<ready, prev_sig>>
        <4>1. has_more' \in BOOLEAN
          BY <3>2, <2>5, Zenon
        <4>2. ready' \in BOOLEAN
          BY <3>2, Zenon DEF TInv, TypeOK
        <4>3. since_seq \in Nat /\ prev_sig \in Log!Sigs \cup {NoSig}
          BY DEF TInv, TypeOK
        <4> QED BY <1>0, <2>4, <3>2, <4>1, <4>2, <4>3 DEF Phases
      <3> QED BY <2>3, <3>1, <3>2
    <2> QED BY <1>8, <1>b, <2>1, <2>2, <2>6 DEF FetchEvents, TInv, TypeOK
  <1>9. CASE FetchFails
    <2>1. UNCHANGED seedVars
      BY <1>9 DEF FetchFails
    <2>2. UNCHANGED events
      BY <2>1 DEF seedVars
    <2> QED BY <1>9, <1>b, <1>d, <2>1, <2>2
            DEF FetchFails, TInv, TypeOK, Phases
  <1>10. CASE SnapshotRequired
    <2>1. UNCHANGED seedVars
      BY <1>10 DEF SnapshotRequired
    <2>2. UNCHANGED events
      BY <2>1 DEF seedVars
    <2>3. ready' \in BOOLEAN
      BY <1>10, Zenon DEF SnapshotRequired
    <2> QED BY <1>10, <1>b, <1>d, <2>1, <2>2, <2>3
            DEF SnapshotRequired, TInv, TypeOK, Phases
  <1>11. CASE ApplyEvent
    <2>1. UNCHANGED seedVars
      BY <1>11 DEF ApplyEvent
    <2>2. UNCHANGED events
      BY <2>1 DEF seedVars
    <2>3. pos \in 1..Len(events)
      BY <1>0, <1>11 DEF ApplyEvent, TInv, TypeOK
    <2>4. rnodes' \in Mirror
      BY <1>11, <2>3, RowFacts DEF ApplyEvent, TInv, TypeOK
    <2>5. Verdict(events[pos]) = "verified" => events[pos].seq > since_seq
      BY <2>3, RowFacts DEF Verdict, TInv, TypeOK
    <2>6. /\ since_seq' \in Nat
          /\ since_seq' >= since_seq /\ since_seq' <= Len(events)
      BY <1>0, <1>11, <2>3, <2>5, RowFacts DEF ApplyEvent, TInv, TypeOK
    <2>7. prev_sig' \in Log!Sigs \cup {NoSig}
      BY <1>11, <2>3, RowFacts DEF ApplyEvent, TInv, TypeOK
    <2>8. pos' \in Nat \ {0}
      BY <1>11, <2>3 DEF ApplyEvent
    <2>9. missed' \in SUBSET (Nodes \cup {ReplicaId})
      <3>1. events[pos].body.node \in Nodes \cup {ReplicaId}
        BY <2>3, RowFacts DEF EventBodies
      <3> QED BY <1>11, <3>1 DEF ApplyEvent, TInv, TypeOK
    <2> QED BY <1>11, <1>b, <2>1, <2>2, <2>4, <2>6, <2>7, <2>8, <2>9
            DEF ApplyEvent, TInv, TypeOK
  <1>12. CASE RejectBrokenChain
    <2>1. UNCHANGED seedVars
      BY <1>12 DEF RejectBrokenChain
    <2>2. UNCHANGED events
      BY <2>1 DEF seedVars
    <2>3. pos \in 1..Len(events)
      <3>1. pos <= last
        BY <1>12 DEF RejectBrokenChain
      <3> QED BY <1>0, <3>1 DEF TInv, TypeOK
    <2>4. pos' \in Nat \ {0}
      <3>1. pos' = pos + 1
        BY <1>12 DEF RejectBrokenChain
      <3> QED BY <1>0, <2>3, <3>1
    <2> QED BY <1>12, <1>b, <2>1, <2>2, <2>4
            DEF RejectBrokenChain, TInv, TypeOK
  <1>13. CASE RejectSignature
    <2>1. UNCHANGED seedVars
      BY <1>13 DEF RejectSignature
    <2>2. UNCHANGED events
      BY <2>1 DEF seedVars
    <2> QED BY <1>13, <1>b, <1>d, <2>1, <2>2
            DEF RejectSignature, TInv, TypeOK, Phases
  <1>14. CASE RefreshKey
    <2>1. signingKey \in SigningKeys
      BY DEF TInv, TypeOK, SeedTypeOK
    <2>2. UNCHANGED seedVars
      BY <1>14 DEF RefreshKey
    <2>3. UNCHANGED events
      BY <2>2 DEF seedVars
    <2> QED BY <1>14, <1>b, <2>1, <2>2, <2>3 DEF RefreshKey, TInv, TypeOK, Phases
  <1>15. CASE EndPage
    <2>1. UNCHANGED seedVars
      BY <1>15 DEF EndPage
    <2>2. UNCHANGED events
      BY <2>1 DEF seedVars
    <2>3. /\ pc' \in Phases /\ ready' \in BOOLEAN /\ has_more' \in BOOLEAN
          /\ prev_sig' \in Log!Sigs \cup {NoSig}
          /\ pos' \in Nat \ {0} /\ last' \in Nat /\ last' <= Len(events)
          /\ served' \in Nat
      <3>1. CASE /\ has_more /\ pc' = "draining"
                 /\ UNCHANGED <<ready, prev_sig, pos, last, has_more, served>>
        <4>1. ready' \in BOOLEAN /\ has_more' \in BOOLEAN
          BY <3>1, Zenon DEF TInv, TypeOK
        <4> QED BY <3>1, <4>1 DEF TInv, TypeOK, Phases
      <3>2. CASE pc' = "waiting" /\ ready' = TRUE /\ EndDrain
        <4>1. ready' \in BOOLEAN
          BY <3>2, Zenon
        <4> QED BY <3>2, <4>1, <1>d DEF Phases
      <3> QED BY <1>15, <3>1, <3>2 DEF EndPage
    <2> QED BY <1>15, <1>b, <2>1, <2>2, <2>3 DEF EndPage, TInv, TypeOK
  <1>16. CASE RestartReplica
    <2>1. UNCHANGED seedVars
      BY <1>16 DEF RestartReplica
    <2>2. UNCHANGED events
      BY <2>1 DEF seedVars
    <2>3. boots' \in 0..MaxBoots
      BY <1>16 DEF RestartReplica, TInv, TypeOK
    <2>4. ready' \in BOOLEAN
      BY <1>16, Zenon DEF RestartReplica
    <2> QED BY <1>0, <1>16, <1>b, <1>c, <1>d, <2>1, <2>2, <2>3, <2>4
            DEF RestartReplica, TInv, TypeOK, Phases
  <1>17. CASE UNCHANGED vars
    <2>1. UNCHANGED seedVars /\ UNCHANGED events
      BY <1>17 DEF vars, seedVars
    <2> QED BY <1>17, <1>b, <2>1 DEF vars, replicaVars, TInv, TypeOK
  <1> QED
    BY <1>1, <1>2, <1>3, <1>4, <1>5, <1>6, <1>7, <1>8, <1>9, <1>10, <1>11,
       <1>12, <1>13, <1>14, <1>15, <1>16, <1>17 DEF Next, ReplicaNext

-----------------------------------------------------------------------------
(* The mirror.                                                             *)

(***************************************************************************)
(* Overlaid looks only at rows the log already has, so it does not change  *)
(* when the log grows.                                                     *)
(***************************************************************************)
LEMMA OverlaidStable ==
    ASSUME NEW old, NEW new, NEW n, NEW v, NEW before,
           NEW from \in Nat, NEW to \in Nat, NEW len \in Nat, to <= len,
           \A i \in 1..len : new[i] = old[i],
           Overlaid(old, from, to, before, n, v)
    PROVE  Overlaid(new, from, to, before, n, v)
  <1>1. \A i \in from + 1..to : new[i] = old[i]
    OBVIOUS
  <1>2. \A i \in from + 1..to : NodeEvent(new, i, n) <=> NodeEvent(old, i, n)
    BY <1>1 DEF NodeEvent
  <1> QED BY <1>1, <1>2 DEF Overlaid

(***************************************************************************)
(* Applying the row after the cursor overlays one event more.              *)
(***************************************************************************)
LEMMA OverlaidNext ==
    ASSUME NEW log, NEW n \in Nodes, NEW mirror \in Mirror, NEW before,
           NEW from \in Nat, NEW to \in Nat, from <= to,
           Overlaid(log, from, to, before, n, mirror[n])
    PROVE  Overlaid(log, from, to + 1, before, n,
                    apply_event(mirror, log[to + 1])[n])
  <1> DEFINE new == apply_event(mirror, log[to + 1])
  <1> SUFFICES Overlaid(log, from, to + 1, before, n, new[n])
    OBVIOUS
  <1>1. \A i : i \in from + 1..to + 1 <=> i \in from + 1..to \/ i = to + 1
    OBVIOUS
  <1>2. CASE NodeEvent(log, to + 1, n)
    <2>1. new[n] = log[to + 1].body.endpoint
      BY <1>2 DEF NodeEvent, apply_event, Mirror
    <2>2. \A j \in (to + 1) + 1..to + 1 : ~NodeEvent(log, j, n)
      OBVIOUS
    <2>3. to + 1 \in from + 1..to + 1
      OBVIOUS
    <2> HIDE DEF new
    <2> QED BY <1>2, <2>1, <2>2, <2>3 DEF Overlaid
  <1>3. CASE ~NodeEvent(log, to + 1, n)
    <2>1. new[n] = mirror[n]
      BY <1>3 DEF NodeEvent, apply_event, Mirror
    <2> HIDE DEF new
    <2>2. CASE /\ \A i \in from + 1..to : ~NodeEvent(log, i, n)
               /\ mirror[n] = before
      BY <1>1, <1>3, <2>1, <2>2 DEF Overlaid
    <2>3. CASE \E i \in from + 1..to :
                  /\ NodeEvent(log, i, n)
                  /\ \A j \in i + 1..to : ~NodeEvent(log, j, n)
                  /\ mirror[n] = log[i].body.endpoint
      <3>1. PICK i \in from + 1..to :
                  /\ NodeEvent(log, i, n)
                  /\ \A j \in i + 1..to : ~NodeEvent(log, j, n)
                  /\ mirror[n] = log[i].body.endpoint
        BY <2>3
      <3>2. \A j \in i + 1..to + 1 : ~NodeEvent(log, j, n)
        <4> SUFFICES ASSUME NEW j \in i + 1..to + 1 PROVE ~NodeEvent(log, j, n)
          OBVIOUS
        <4>1. j \in i + 1..to \/ j = to + 1
          OBVIOUS
        <4> QED BY <1>3, <3>1, <4>1
      <3>3. i \in from + 1..to + 1
        OBVIOUS
      <3> QED BY <2>1, <3>1, <3>2, <3>3 DEF Overlaid
    <2> QED BY <2>2, <2>3 DEF Overlaid
  <1> QED BY <1>2, <1>3

(***************************************************************************)
(* The next row of the page follows the cursor, so the seq check and the   *)
(* chain check let it pass: it is verified or badly signed.                *)
(***************************************************************************)
LEMMA NextRowPasses ==
    ASSUME IInv, pc = "applying", pos <= last
    PROVE  /\ since_seq \in Nat /\ since_seq + 1 \in 1..Len(events)
           /\ pos = since_seq + 1
           /\ Verdict(events[pos]) \in {"verified", "bad signature"}
  <1>1. /\ since_seq \in Nat /\ last \in Nat /\ last <= Len(events)
        /\ Len(events) \in Nat
    BY DEF IInv, TInv, TypeOK, SeedTypeOK
  <1>2. pos = since_seq + 1
    BY DEF IInv, DrainOK
  <1>3. since_seq + 1 \in 1..Len(events)
    BY <1>1, <1>2
  <1>4. events[pos].seq = pos
    BY <1>2, <1>3, RowFacts DEF IInv
  <1>5. prev_sig # NoSig => events[pos].prev_hash = Log!prev_hash_from(prev_sig)
    <2> SUFFICES ASSUME prev_sig # NoSig
                 PROVE  events[pos].prev_hash = Log!prev_hash_from(prev_sig)
      OBVIOUS
    <2>1. since_seq > 0 /\ prev_sig = events[since_seq].sig
      BY DEF IInv, DrainOK
    <2>2. events[pos].prev_hash =
             Log!prev_hash_from(IF pos = 1 THEN NoSig ELSE events[pos - 1].sig)
      BY <1>2, <1>3 DEF IInv, TInv, Log!ChainIntact, Log!Linked
    <2>3. pos # 1 /\ pos - 1 = since_seq
      BY <1>1, <1>2, <2>1
    <2> QED BY <2>1, <2>2, <2>3
  <1>6. ~(events[pos].seq <= since_seq)
    BY <1>1, <1>2, <1>4
  <1> QED BY <1>1, <1>2, <1>3, <1>5, <1>6 DEF Verdict

(* The step leaves the mirror and the positions it is explained by alone. *)
Kept == UNCHANGED <<rnodes, base, since_seq, snapshot_seq>>

(***************************************************************************)
(* When the log only grows, a mirror that is kept stays explained.         *)
(***************************************************************************)
LEMMA KeptMirrorFold ==
    ASSUME IInv, LogExtended, Kept
    PROVE  MirrorFold'
  <1>1. /\ snapshot_seq \in Nat /\ since_seq \in Nat
        /\ since_seq <= Len(events) /\ Len(events) \in Nat
    BY DEF IInv, TInv, TypeOK, SeedTypeOK
  <1> SUFFICES ASSUME NEW n \in Nodes
               PROVE  Overlaid(events', snapshot_seq, since_seq, base[n], n,
                               rnodes[n])
    BY DEF MirrorFold, Kept
  <1>2. Overlaid(events, snapshot_seq, since_seq, base[n], n, rnodes[n])
    BY DEF IInv, MirrorFold
  <1> QED BY <1>1, <1>2, OverlaidStable DEF LogExtended

(***************************************************************************)
(* A step that starts from a fresh base explains the mirror by no event.   *)
(***************************************************************************)
LEMMA FreshMirrorFold ==
    ASSUME base' = rnodes', since_seq' = snapshot_seq', snapshot_seq' \in Nat
    PROVE  MirrorFold'
  <1>1. \A i : i \notin snapshot_seq' + 1..since_seq'
    OBVIOUS
  <1> QED BY <1>1 DEF MirrorFold, Overlaid

(***************************************************************************)
(* Outside a drain, and at the end of one, there is nothing to relate.     *)
(***************************************************************************)
LEMMA IdleDrainOK ==
    ASSUME prev_sig' = NoSig, pc' # "applying"
    PROVE  DrainOK'
  BY DEF DrainOK

(***************************************************************************)
(* The whole invariant is inductive when the replica's writes succeed.     *)
(***************************************************************************)
LEMMA NextIInv ==
    ASSUME ~ReplicaDbFails, IInv, [Next]_vars
    PROVE  IInv'
  <1>0. TInv' /\ LogExtended
    BY NextTInv DEF IInv
  <1>a. /\ since_seq \in Nat /\ since_seq <= Len(events) /\ Len(events) \in Nat
        /\ rnodes \in Mirror
    BY DEF IInv, TInv, TypeOK, SeedTypeOK
  <1>b. pc \notin {"draining", "applying"} => prev_sig = NoSig
    BY DEF IInv, DrainOK
  <1>c. UNCHANGED <<prev_sig, since_seq>> =>
          (prev_sig' # NoSig => since_seq' > 0 /\ prev_sig' = events'[since_seq'].sig)
    BY <1>0, <1>a DEF IInv, DrainOK, LogExtended
  <1> SUFFICES DrainOK' /\ MirrorFold'
    BY <1>0 DEF IInv
  <1>1. CASE SeedNext /\ UNCHANGED replicaVars
    <2>1. Kept /\ UNCHANGED <<prev_sig, since_seq, pc, pos>>
      BY <1>1 DEF replicaVars, Kept
    <2>2. DrainOK'
      BY <1>c, <2>1 DEF IInv, DrainOK
    <2> QED BY <1>0, <2>1, <2>2, KeptMirrorFold
  <1>2. CASE VerifySeed \/ JoinHandshake \/ SnapshotRecords \/ SnapshotFails
             \/ Tick \/ RefreshKey
    <2>1. /\ Kept /\ prev_sig' = prev_sig /\ pc \notin {"draining", "applying"}
          /\ pc' # "applying"
      BY <1>2 DEF VerifySeed, JoinHandshake, SnapshotRecords, SnapshotFails, Tick,
                  RefreshKey, Kept
    <2> QED BY <1>0, <1>b, <2>1, KeptMirrorFold, IdleDrainOK
  <1>3. CASE ApplySnapshot
    <2>1. /\ base' = rnodes' /\ since_seq' = snapshot_seq' /\ snapshot_seq' \in Nat
          /\ pc = "snapshot_read" /\ pc' = "waiting" /\ prev_sig' = prev_sig
      BY <1>3, <1>a DEF ApplySnapshot
    <2> QED BY <1>b, <2>1, FreshMirrorFold, IdleDrainOK
  <1>4. CASE FetchEvents
    <2>1. Kept
      BY <1>4 DEF FetchEvents, Kept
    <2>2. \/ pc' = "waiting" /\ prev_sig' = NoSig
          \/ pc' = "applying" /\ pos' = since_seq + 1 /\ prev_sig' = prev_sig
      BY <1>4 DEF FetchEvents, EndDrain
    <2>3. CASE pc' = "waiting" /\ prev_sig' = NoSig
      BY <1>0, <2>1, <2>3, KeptMirrorFold, IdleDrainOK
    <2>4. CASE pc' = "applying" /\ pos' = since_seq + 1 /\ prev_sig' = prev_sig
      <3>1. DrainOK'
        BY <1>c, <2>1, <2>4 DEF Kept, DrainOK
      <3> QED BY <1>0, <2>1, <3>1, KeptMirrorFold
    <2> QED BY <2>2, <2>3, <2>4
  <1>5. CASE FetchFails \/ SnapshotRequired \/ RejectSignature
    <2>1. Kept /\ prev_sig' = NoSig /\ pc' # "applying"
      BY <1>5 DEF FetchFails, SnapshotRequired, RejectSignature, EndDrain, Kept
    <2> QED BY <1>0, <2>1, KeptMirrorFold, IdleDrainOK
  <1>6. CASE ApplyEvent
    <2>1. pc = "applying" /\ pos <= last
      BY <1>6 DEF ApplyEvent
    <2>2. /\ since_seq + 1 \in 1..Len(events) /\ pos = since_seq + 1
          /\ Verdict(events[pos]) \in {"verified", "bad signature"}
      BY <2>1, NextRowPasses
    <2>3. Verdict(events[pos]) = "verified"
      BY <1>6, <2>2 DEF ApplyEvent
    <2>4. events[pos].seq = since_seq + 1
      BY <2>2, RowFacts DEF IInv
    <2>5. /\ rnodes' = apply_event(rnodes, events[pos])
          /\ since_seq' = since_seq + 1
          /\ prev_sig' = events[pos].sig
          /\ pos' = pos + 1
          /\ UNCHANGED <<events, pc, snapshot_seq, base>>
      BY <1>6, <2>3, <2>4 DEF ApplyEvent, Writes, seedVars
    <2>6. DrainOK'
      <3>1. since_seq' > 0 /\ prev_sig' = events'[since_seq'].sig
        <4>0. pos = since_seq + 1 /\ since_seq' = since_seq + 1
          BY <2>2, <2>5
        <4>1. since_seq' = pos /\ since_seq' > 0
          BY <1>a, <4>0
        <4>2. prev_sig' = events[pos].sig /\ events' = events
          BY <2>5
        <4> QED BY <4>1, <4>2
      <3>2. pc' = "applying" /\ pos' = since_seq' + 1
        BY <2>1, <2>2, <2>5
      <3> QED BY <3>1, <3>2 DEF DrainOK
    <2>7. ASSUME NEW n \in Nodes
          PROVE  Overlaid(events', snapshot_seq', since_seq', base'[n], n, rnodes'[n])
      <3>1. snapshot_seq \in Nat /\ snapshot_seq <= since_seq
        BY DEF IInv, TInv, TypeOK
      <3>2. Overlaid(events, snapshot_seq, since_seq, base[n], n, rnodes[n])
        BY DEF IInv, MirrorFold
      <3>3. Overlaid(events, snapshot_seq, since_seq + 1, base[n], n,
                     apply_event(rnodes, events[since_seq + 1])[n])
        BY <1>a, <3>1, <3>2, OverlaidNext
      <3> QED BY <2>2, <2>5, <3>3
    <2> QED BY <2>6, <2>7 DEF MirrorFold
  <1>7. CASE RejectBrokenChain
    <2>1. /\ pc = "applying" /\ pos <= last
          /\ Verdict(events[pos]) = "broken hash-chain"
      BY <1>7 DEF RejectBrokenChain
    <2> QED BY <2>1, NextRowPasses
  <1>8. CASE EndPage
    <2>1. Kept
      BY <1>8 DEF EndPage, Kept
    <2>2. \/ pc' = "waiting" /\ prev_sig' = NoSig
          \/ pc' = "draining" /\ prev_sig' = prev_sig
      BY <1>8 DEF EndPage, EndDrain
    <2>3. DrainOK'
      BY <1>c, <2>1, <2>2 DEF Kept, DrainOK
    <2> QED BY <1>0, <2>1, <2>3, KeptMirrorFold
  <1>9. CASE RestartReplica
    <2>1. /\ base' = rnodes' /\ since_seq' = snapshot_seq' /\ snapshot_seq' \in Nat
          /\ pc' = "verifying" /\ prev_sig' = NoSig
      BY <1>9 DEF RestartReplica, EndDrain
    <2> QED BY <2>1, FreshMirrorFold, IdleDrainOK
  <1>10. CASE UNCHANGED vars
    <2>1. Kept /\ UNCHANGED <<prev_sig, since_seq, pc, pos>>
      BY <1>10 DEF vars, replicaVars, Kept
    <2>2. DrainOK'
      BY <1>c, <2>1 DEF IInv, DrainOK
    <2> QED BY <1>0, <2>1, <2>2, KeptMirrorFold
  <1> QED
    BY <1>1, <1>2, <1>3, <1>4, <1>5, <1>6, <1>7, <1>8, <1>9, <1>10
       DEF Next, ReplicaNext

(***************************************************************************)
(* The initial states satisfy the invariant.                               *)
(***************************************************************************)
LEMMA InitIInv ==
    ASSUME Init
    PROVE  IInv
  <1> USE SeedAssumption, FederationAssumption
  <1>1. Len(events) = 0 /\ events \in Seq(Log!Rows)
    BY DEF Init, SeedInit
  <1>2. SeedTypeOK
    BY <1>1 DEF Init, SeedInit, SeedTypeOK
  <1>3. ready \in BOOLEAN /\ has_more \in BOOLEAN
    BY Zenon DEF Init
  <1>4. TypeOK
    BY <1>1, <1>2, <1>3 DEF Init, TypeOK, Phases, Mirror
  <1>5. Log!ChainIntact
    BY <1>1 DEF Log!ChainIntact
  <1>6. DrainOK
    BY DEF Init, DrainOK
  <1>7. MirrorFold
    <2>1. snapshot_seq = 0 /\ since_seq = 0 /\ base = rnodes
      BY DEF Init
    <2>2. \A i : i \notin 0 + 1..0
      OBVIOUS
    <2> QED BY <2>1, <2>2 DEF MirrorFold, Overlaid
  <1> QED BY <1>4, <1>5, <1>6, <1>7 DEF IInv, TInv

-----------------------------------------------------------------------------
(* The theorems.                                                           *)

(***************************************************************************)
(* Every variable keeps its type, and neither the cursor nor a page is     *)
(* ever ahead of the seed's log, whatever fails.                           *)
(***************************************************************************)
THEOREM FederationTypeCorrect == Spec => []TypeOK
  <1>1. Init => TInv
    BY InitIInv DEF IInv
  <1>2. TInv /\ [Next]_vars => TInv'
    BY NextTInv
  <1>3. TInv => TypeOK
    BY DEF TInv
  <1> QED BY <1>1, <1>2, <1>3, PTL DEF Spec

(***************************************************************************)
(* run_replica_sync keeps the mirror equal to its snapshot overlaid with   *)
(* the accepted events, when the replica's database does not fail: through *)
(* key rotations, failed requests, pages, new snapshots and restarts, and  *)
(* whatever the seed's handlers do meanwhile.                              *)
(***************************************************************************)
THEOREM MirrorIsFold ==
    ASSUME ~ReplicaDbFails
    PROVE  Spec => []MirrorFold
  <1>1. Init => IInv
    BY InitIInv
  <1>2. IInv /\ [Next]_vars => IInv'
    BY NextIInv
  <1>3. IInv => MirrorFold
    BY DEF IInv
  <1> QED BY <1>1, <1>2, <1>3, PTL DEF Spec
-----------------------------------------------------------------------------
(* What an append leaves, for the theorems below.                          *)

(***************************************************************************)
(* The log changes only by an append under the seed's current key.         *)
(***************************************************************************)
LEMMA LogStep ==
    ASSUME SeedTypeOK, [Next]_vars
    PROVE  \/ UNCHANGED events
           \/ \E body \in EventBodies : Log!AppendEvent(signingKey, body)
  <1>1. CASE SeedNext
    <2>1. ASSUME NEW h \in Handlers, Emit(h)
          PROVE  \E body \in EventBodies : Log!AppendEvent(signingKey, body)
      <3>1. pending[h] \in EventBodies
        BY <2>1 DEF Emit, SeedTypeOK
      <3> QED BY <2>1, <3>1 DEF Emit
    <2>2. ASSUME NEW n \in Nodes, EmitNeutral(n)
          PROVE  \E body \in EventBodies : Log!AppendEvent(signingKey, body)
      <3>1. Body("EVICT", n, Absent) \in EventBodies
        BY DEF Body, EventBodies, NeutralTypes
      <3> QED BY <2>2, <3>1 DEF EmitNeutral
    <2>3. ASSUME NEW h \in Handlers, EmitFails(h)
          PROVE  UNCHANGED events
      BY <2>3 DEF EmitFails
    <2>4. ASSUME NEW k \in SigningKeys, RestartSeed(k)
          PROVE  UNCHANGED events
      BY <2>4 DEF RestartSeed
    <2>5. ASSUME NEW h \in Handlers, NEW n \in Nodes,
                 (\E e \in Endpoints : Register(h, n, e)) \/ Deregister(h, n)
          PROVE  UNCHANGED events
      BY <2>5 DEF Register, Deregister
    <2> QED BY <1>1, <2>1, <2>2, <2>3, <2>4, <2>5 DEF SeedNext
  <1>2. CASE JoinHandshake
    <2>1. Body("REPLICA_REGISTERED", ReplicaId, Absent) \in EventBodies
      BY DEF Body, EventBodies, NeutralTypes
    <2> QED BY <1>2, <2>1 DEF JoinHandshake
  <1>3. CASE ReplicaNext /\ ~JoinHandshake
    <2>1. UNCHANGED seedVars
      BY <1>3 DEF ReplicaNext, VerifySeed, SnapshotRecords, ApplySnapshot,
            SnapshotFails, Tick, FetchEvents, FetchFails, SnapshotRequired,
            ApplyEvent, RejectBrokenChain, RejectSignature, RefreshKey, EndPage,
            RestartReplica
    <2> QED BY <2>1 DEF seedVars
  <1>4. CASE UNCHANGED vars
    BY <1>4 DEF vars, seedVars
  <1> QED BY <1>1, <1>2, <1>3, <1>4 DEF Next

(***************************************************************************)
(* A step of the replica leaves nodes, pending and the seed's key alone.   *)
(***************************************************************************)
LEMMA ReplicaKeepsSeed ==
    ASSUME ReplicaNext
    PROVE  UNCHANGED <<nodes, pending, signingKey, rotations, lost, latest, astray>>
  BY DEF ReplicaNext, VerifySeed, JoinHandshake, SnapshotRecords, ApplySnapshot,
         SnapshotFails, Tick, FetchEvents, FetchFails, SnapshotRequired,
         ApplyEvent, RejectBrokenChain, RejectSignature, RefreshKey, EndPage,
         RestartReplica, seedVars

-----------------------------------------------------------------------------
(* Keys.                                                                   *)

(***************************************************************************)
(* A replica that must verify holds a key wherever it may change a node:   *)
(* only between a refresh and the next tick can it be without one.         *)
(***************************************************************************)
KeyHeld ==
    VerificationRequired /\ pc \notin {"verifying", "waiting", "refreshing"}
        => pubkey # NoKey

(***************************************************************************)
(* Every step keeps the key where it is needed.                            *)
(***************************************************************************)
LEMMA NextKeyHeld ==
    ASSUME TypeOK, KeyHeld, [Next]_vars
    PROVE  KeyHeld'
  <1>0. signingKey # NoKey
    BY FederationAssumption DEF TypeOK, SeedTypeOK
  <1>1. CASE SeedNext /\ UNCHANGED replicaVars
    BY <1>1 DEF replicaVars, KeyHeld
  <1>2. CASE ReplicaNext
    <2>1. CASE VerifySeed \/ Tick
      BY <1>0, <2>1 DEF VerifySeed, Tick, KeyHeld
    <2>2. CASE RefreshKey \/ RestartReplica
      BY <2>2 DEF RefreshKey, RestartReplica, KeyHeld
    <2>3. CASE ~(VerifySeed \/ Tick \/ RefreshKey \/ RestartReplica)
      <3>1. pubkey' = pubkey
        BY <1>2, <2>3
           DEF ReplicaNext, JoinHandshake, SnapshotRecords, ApplySnapshot,
            SnapshotFails, FetchEvents, FetchFails, SnapshotRequired,
            ApplyEvent, RejectBrokenChain, RejectSignature, EndPage
      <3>2. \/ pc \notin {"verifying", "waiting", "refreshing"}
            \/ pc' \in {"verifying", "waiting", "refreshing"}
        BY <1>2, <2>3
           DEF ReplicaNext, JoinHandshake, SnapshotRecords, ApplySnapshot,
            SnapshotFails, FetchEvents, FetchFails, SnapshotRequired,
            ApplyEvent, RejectBrokenChain, RejectSignature, EndPage
      <3> QED BY <3>1, <3>2 DEF KeyHeld
    <2> QED BY <2>1, <2>2, <2>3
  <1>3. CASE UNCHANGED vars
    BY <1>3 DEF vars, replicaVars, KeyHeld
  <1> QED BY <1>1, <1>2, <1>3 DEF Next

(***************************************************************************)
(* run_replica_sync with verification required changes the nodes it serves *)
(* only while it holds a seed key, through rotations, refreshes that lose  *)
(* the key, restarts and failing databases.                                *)
(***************************************************************************)
THEOREM ChangesNeedKey == Spec => OnlyVerifiedChanges
  <1> DEFINE Kinv == TInv /\ KeyHeld
  <1>1. Init => Kinv
    BY InitIInv DEF Init, IInv, KeyHeld
  <1>2. Kinv /\ [Next]_vars => Kinv'
    BY NextTInv, NextKeyHeld DEF TInv
  <1>3. Kinv /\ [Next]_vars =>
          [VerificationRequired /\ rnodes' # rnodes => pubkey # NoKey]_vars
    <2> SUFFICES ASSUME Kinv, Next, VerificationRequired, rnodes' # rnodes
                 PROVE  pubkey # NoKey
      OBVIOUS
    <2>1. ApplySnapshot \/ ApplyEvent
      BY DEF Next, replicaVars, ReplicaNext, VerifySeed, JoinHandshake,
            SnapshotRecords, SnapshotFails, Tick, FetchEvents, FetchFails,
            SnapshotRequired, RejectBrokenChain, RejectSignature, RefreshKey,
            EndPage, RestartReplica
    <2>2. pc \in {"snapshot_read", "applying"}
      BY <2>1 DEF ApplySnapshot, ApplyEvent
    <2> QED BY <2>2 DEF KeyHeld
  <1> QED BY <1>1, <1>2, <1>3, PTL DEF Spec, OnlyVerifiedChanges

-----------------------------------------------------------------------------
(* The cursor.                                                             *)

(***************************************************************************)
(* Short of a restart no step of run_replica_sync moves the cursor back,   *)
(* not even onto a new snapshot, when the seed's reads do not fail.        *)
(***************************************************************************)
THEOREM CursorMovesForward ==
    ASSUME ~SeedDbFails
    PROVE  Spec => CursorNeverRegresses
  <1>1. Init => TInv
    BY InitIInv DEF IInv
  <1>2. TInv /\ [Next]_vars => TInv'
    BY NextTInv
  <1>3. TInv /\ [Next]_vars =>
          [pc' # "verifying" => since_seq' >= since_seq]_vars
    <2> SUFFICES ASSUME TInv, Next, pc' # "verifying"
                 PROVE  since_seq' >= since_seq
      OBVIOUS
    <2>0. since_seq \in Nat /\ since_seq <= Len(events) /\ Len(events) \in Nat
      BY DEF TInv, TypeOK, SeedTypeOK
    <2>1. CASE ApplySnapshot
      BY <2>0, <2>1 DEF ApplySnapshot
    <2>2. CASE ApplyEvent
      <3>1. /\ pos \in 1..Len(events)
        BY <2>2, <2>0 DEF ApplyEvent, TInv, TypeOK
      <3>2. events[pos].seq = pos
        BY <3>1, RowFacts
      <3>3. Verdict(events[pos]) = "verified" => ~(events[pos].seq <= since_seq)
        BY DEF Verdict
      <3>4. \/ since_seq' = since_seq
            \/ /\ Verdict(events[pos]) = "verified"
               /\ since_seq' = events[pos].seq
        BY <2>2 DEF ApplyEvent
      <3> QED BY <2>0, <3>1, <3>2, <3>3, <3>4
    <2>3. CASE ~ApplySnapshot /\ ~ApplyEvent
      <3>1. since_seq' = since_seq
        BY <2>3 DEF Next, replicaVars, ReplicaNext, VerifySeed, JoinHandshake,
            SnapshotRecords, SnapshotFails, Tick, FetchEvents, FetchFails,
            SnapshotRequired, RejectBrokenChain, RejectSignature, RefreshKey,
            EndPage, RestartReplica
      <3> QED BY <2>0, <3>1
    <2> QED BY <2>1, <2>2, <2>3
  <1> QED BY <1>1, <1>2, <1>3, PTL DEF Spec, CursorNeverRegresses
-----------------------------------------------------------------------------
(* Readiness.                                                              *)

(***************************************************************************)
(* A page that is not full reaches to the end of the log as it was read.   *)
(***************************************************************************)
ShortPageIsLast == pc = "applying" /\ ~has_more => last = served

(***************************************************************************)
(* Every step keeps that when the seed's reads do not fail.                *)
(***************************************************************************)
LEMMA NextShortPage ==
    ASSUME ~SeedDbFails, TypeOK, ShortPageIsLast, [Next]_vars
    PROVE  ShortPageIsLast'
  <1>1. CASE FetchEvents
    <2>1. Len(events) \in Nat /\ since_seq \in Nat /\ PageLimit \in Nat
      BY FederationAssumption DEF TypeOK, SeedTypeOK
    <2>2. \/ pc' = "waiting"
          \/ LET to == Least(since_seq + PageLimit, Len(events))
             IN  /\ last' = to /\ has_more' = HasMore(to) /\ served' = Len(events)
      BY <1>1 DEF FetchEvents
    <2> QED BY <2>1, <2>2 DEF Least, HasMore, ShortPageIsLast
  <1>2. CASE Next /\ ~FetchEvents
    <2>1. \/ pc' # "applying"
          \/ pc = "applying" /\ UNCHANGED <<has_more, last, served>>
          \/ UNCHANGED <<pc, has_more, last, served>>
      BY <1>2 DEF Next, replicaVars, ReplicaNext, VerifySeed, JoinHandshake,
            SnapshotRecords, ApplySnapshot, SnapshotFails, Tick, FetchFails,
            SnapshotRequired, ApplyEvent, RejectBrokenChain, RejectSignature,
            RefreshKey, EndPage, RestartReplica
    <2> QED BY <2>1 DEF ShortPageIsLast
  <1>3. CASE UNCHANGED vars
    BY <1>3 DEF vars, replicaVars, ShortPageIsLast
  <1> QED BY <1>1, <1>2, <1>3

(***************************************************************************)
(* run_replica_sync raises ready only when it has accepted every event the *)
(* log held as the last page was read, unless a database fails.            *)
(***************************************************************************)
THEOREM ReadyWhenCaughtUp ==
    ASSUME ~SeedDbFails, ~ReplicaDbFails
    PROVE  Spec => ReadyCaughtUp
  <1> DEFINE RInv == IInv /\ ShortPageIsLast
  <1>1. Init => RInv
    BY InitIInv DEF Init, ShortPageIsLast
  <1>2. RInv /\ [Next]_vars => RInv'
    BY NextIInv, NextShortPage DEF IInv, TInv
  <1>3. RInv /\ [Next]_vars =>
          [~ready /\ ready' =>
              since_seq' >= IF pc = "applying" THEN served ELSE Len(events)]_vars
    <2> SUFFICES ASSUME RInv, Next, ~ready, ready'
                 PROVE  since_seq' >= IF pc = "applying" THEN served ELSE Len(events)
      OBVIOUS
    <2>0. /\ since_seq \in Nat /\ since_seq <= Len(events) /\ Len(events) \in Nat
          /\ pos \in Nat /\ last \in Nat /\ PageLimit \in Nat \ {0}
      BY FederationAssumption DEF IInv, TInv, TypeOK, SeedTypeOK
    <2>1. ready' # ready
      OBVIOUS
    <2>2. FetchEvents \/ EndPage
      <3>1. CASE SnapshotRequired \/ RestartReplica
        BY <3>1, Zenon DEF SnapshotRequired, RestartReplica
      <3>2. CASE ~(SnapshotRequired \/ RestartReplica)
        BY <2>1, <3>2
         DEF Next, replicaVars, ReplicaNext, VerifySeed, JoinHandshake,
            SnapshotRecords, ApplySnapshot, SnapshotFails, Tick, FetchFails,
            ApplyEvent, RejectBrokenChain, RejectSignature, RefreshKey
      <3> QED BY <3>1, <3>2
    <2>3. CASE FetchEvents
      <3>1. /\ pc = "draining" /\ since_seq' = since_seq
            /\ \/ Least(since_seq + PageLimit, Len(events)) = since_seq
               \/ ready' = ready
        BY <2>3 DEF FetchEvents
      <3>2. Least(since_seq + PageLimit, Len(events)) = since_seq
        BY <2>1, <3>1
      <3>3. since_seq >= Len(events)
        BY <2>0, <3>2 DEF Least
      <3> QED BY <3>1, <3>3
    <2>4. CASE EndPage
      <3>1. /\ pc = "applying" /\ pos > last /\ since_seq' = since_seq
            /\ ~has_more \/ ready' = ready
        BY <2>4 DEF EndPage
      <3>2. last = served
        BY <2>1, <3>1 DEF ShortPageIsLast
      <3>3. pos = since_seq + 1
        BY <3>1 DEF IInv, DrainOK
      <3> QED BY <2>0, <3>1, <3>2, <3>3
    <2> QED BY <2>2, <2>3, <2>4
  <1> QED BY <1>1, <1>2, <1>3, PTL DEF Spec, ReadyCaughtUp

-----------------------------------------------------------------------------
(* What the chain check buys when writes of the replica fail.              *)

(* A signature binds the position it was made for. *)
SigsBindSeq == \A i \in 1..Len(events) : events[i].sig.seq = i

(***************************************************************************)
(* DrainOK without its last part: a refused REGISTER leaves the cursor     *)
(* behind the page.                                                        *)
(***************************************************************************)
LinkOK ==
    /\ pc \notin {"draining", "applying"} => prev_sig = NoSig
    /\ prev_sig # NoSig => since_seq > 0 /\ prev_sig = events[since_seq].sig
    /\ pc = "applying" => pos > since_seq

(***************************************************************************)
(* An append signs the position it writes.                                 *)
(***************************************************************************)
LEMMA NextSigsBindSeq ==
    ASSUME TInv, SigsBindSeq, [Next]_vars
    PROVE  SigsBindSeq'
  <1>0. events \in Seq(Log!Rows) /\ Len(events) \in Nat /\ signingKey \in SigningKeys
    BY DEF TInv, TypeOK, SeedTypeOK
  <1>1. CASE UNCHANGED events
    BY <1>1 DEF SigsBindSeq
  <1>2. ASSUME NEW body \in EventBodies, Log!AppendEvent(signingKey, body)
        PROVE  SigsBindSeq'
    <2> DEFINE row == Log!EventRow(signingKey, body, Len(events) + 1,
                                   Log!LastSig(events))
    <2>1. row.sig.seq = Len(events) + 1
      BY DEF Log!EventRow, Log!sign_event
    <2>2. row \in Log!Rows
      BY <1>0, NewRowType
    <2>3. events' = Append(events, row)
      BY <1>2 DEF Log!AppendEvent, Log!AppendTo
    <2> HIDE DEF row
    <2>4. /\ Len(events') = Len(events) + 1
          /\ events'[Len(events) + 1] = row
          /\ \A i \in 1..Len(events) : events'[i] = events[i]
      BY <1>0, <2>2, <2>3
    <2> QED BY <1>0, <2>1, <2>4 DEF SigsBindSeq
  <1> QED BY <1>1, <1>2, LogStep DEF TInv, TypeOK

(***************************************************************************)
(* Every step keeps the links of a drain, whether the databases fail or    *)
(* not.                                                                    *)
(***************************************************************************)
LEMMA NextLinkOK ==
    ASSUME TInv, LinkOK, [Next]_vars
    PROVE  LinkOK'
  <1>0. TInv' /\ LogExtended
    BY NextTInv
  <1>a. /\ since_seq \in Nat /\ since_seq <= Len(events) /\ Len(events) \in Nat
        /\ pos \in Nat
    BY DEF TInv, TypeOK, SeedTypeOK
  <1>c. UNCHANGED <<prev_sig, since_seq>> =>
          (prev_sig' # NoSig => since_seq' > 0 /\ prev_sig' = events'[since_seq'].sig)
    BY <1>0, <1>a DEF LinkOK, LogExtended
  <1>1. CASE (SeedNext /\ UNCHANGED replicaVars) \/ UNCHANGED vars
    <2>1. UNCHANGED <<prev_sig, since_seq, pc, pos>>
      BY <1>1 DEF replicaVars, vars
    <2> QED BY <1>c, <2>1 DEF LinkOK
  <1>2. CASE VerifySeed \/ JoinHandshake \/ SnapshotRecords \/ SnapshotFails
             \/ Tick \/ RefreshKey \/ ApplySnapshot
    <2>1. /\ prev_sig' = prev_sig /\ pc \notin {"draining", "applying"}
          /\ pc' # "applying"
      BY <1>2 DEF VerifySeed, JoinHandshake, SnapshotRecords, SnapshotFails, Tick,
                  RefreshKey, ApplySnapshot
    <2> QED BY <2>1 DEF LinkOK
  <1>3. CASE FetchEvents
    <2>1. /\ since_seq' = since_seq
          /\ \/ pc' = "waiting" /\ prev_sig' = NoSig
             \/ pc' = "applying" /\ pos' = since_seq + 1 /\ prev_sig' = prev_sig
      BY <1>3 DEF FetchEvents, EndDrain
    <2> QED BY <1>a, <1>c, <2>1 DEF LinkOK
  <1>4. CASE FetchFails \/ SnapshotRequired \/ RejectSignature \/ RestartReplica
    <2>1. prev_sig' = NoSig /\ pc' # "applying"
      BY <1>4 DEF FetchFails, SnapshotRequired, RejectSignature, RestartReplica,
                  EndDrain
    <2> QED BY <2>1 DEF LinkOK
  <1>5. CASE ApplyEvent
    <2>1. /\ pc = "applying" /\ pos <= last /\ pos' = pos + 1
          /\ UNCHANGED <<events, pc>>
      BY <1>5 DEF ApplyEvent, seedVars
    <2>2. pos > since_seq /\ pos \in 1..Len(events)
      BY <1>a, <2>1 DEF LinkOK, TInv, TypeOK
    <2>3. events[pos].seq = pos
      BY <2>2, RowFacts
    <2>4. Verdict(events[pos]) # "replayed"
      BY <1>a, <2>2, <2>3 DEF Verdict
    <2>5. \/ since_seq' = pos /\ prev_sig' = events[pos].sig
          \/ since_seq' = since_seq /\ prev_sig' = prev_sig
      BY <1>5, <2>3, <2>4 DEF ApplyEvent
    <2>6. CASE since_seq' = pos /\ prev_sig' = events[pos].sig
      BY <1>a, <2>1, <2>2, <2>6 DEF LinkOK
    <2>7. CASE since_seq' = since_seq /\ prev_sig' = prev_sig
      BY <1>a, <1>c, <2>1, <2>2, <2>7 DEF LinkOK
    <2> QED BY <2>5, <2>6, <2>7
  <1>6. CASE RejectBrokenChain
    <2>1. /\ pc = "applying" /\ pos' = pos + 1
          /\ UNCHANGED <<pc, prev_sig, since_seq>>
      BY <1>6 DEF RejectBrokenChain
    <2> QED BY <1>a, <1>c, <2>1 DEF LinkOK
  <1>7. CASE EndPage
    <2>1. /\ since_seq' = since_seq
          /\ \/ pc' = "waiting" /\ prev_sig' = NoSig
             \/ pc' = "draining" /\ prev_sig' = prev_sig
      BY <1>7 DEF EndPage, EndDrain
    <2> QED BY <1>c, <2>1 DEF LinkOK
  <1> QED
    BY <1>1, <1>2, <1>3, <1>4, <1>5, <1>6, <1>7 DEF Next, ReplicaNext

(***************************************************************************)
(* Under a key, the event after an accepted one is the next of the log: a  *)
(* refused one in between would break the chain.                           *)
(***************************************************************************)
LEMMA LinkedNext ==
    ASSUME TInv, SigsBindSeq, LinkOK, pc = "applying", pos <= last,
           pubkey # NoKey, prev_sig # NoSig, Verdict(events[pos]) = "verified"
    PROVE  pos = since_seq + 1
  <1>0. /\ since_seq \in Nat /\ since_seq <= Len(events) /\ Len(events) \in Nat
        /\ pos \in Nat /\ last \in Nat /\ last <= Len(events)
    BY DEF TInv, TypeOK, SeedTypeOK
  <1>1. pos > since_seq /\ since_seq > 0 /\ prev_sig = events[since_seq].sig
    BY DEF LinkOK
  <1>2. pos \in 1..Len(events) /\ pos - 1 \in 1..Len(events) /\ pos # 1
        /\ since_seq \in 1..Len(events)
    BY <1>0, <1>1
  <1>3. events[pos].prev_hash = Log!prev_hash_from(prev_sig)
    BY DEF Verdict
  <1>4. events[pos].prev_hash = Log!prev_hash_from(events[pos - 1].sig)
    BY <1>2 DEF TInv, Log!ChainIntact, Log!Linked
  <1>5. events[pos - 1].sig # NoSig
    BY <1>2, RowFacts, NoSigAssumption
  <1>6. events[pos - 1].sig = prev_sig
    BY <1>3, <1>4, <1>5 DEF Log!prev_hash_from
  <1>7. pos - 1 = since_seq
    BY <1>1, <1>2, <1>6 DEF SigsBindSeq
  <1> QED BY <1>0, <1>7

(***************************************************************************)
(* Once verify_and_apply has accepted an event of a drain under a key, the *)
(* hash chain lets it accept only the next one: the rest of the drain      *)
(* never steps over an event that was refused, whatever fails.             *)
(***************************************************************************)
THEOREM ChainPreventsGaps == Spec => NoGapWithinDrain
  <1> DEFINE GInv == TInv /\ SigsBindSeq /\ LinkOK
  <1>1. Init => GInv
    <2> SUFFICES ASSUME Init PROVE SigsBindSeq /\ LinkOK
      BY InitIInv DEF IInv
    <2>1. Len(events) = 0
      BY DEF Init, SeedInit
    <2> QED BY <2>1 DEF Init, SigsBindSeq, LinkOK
  <1>2. GInv /\ [Next]_vars => GInv'
    BY NextTInv, NextSigsBindSeq, NextLinkOK
  <1>3. GInv /\ [Next]_vars =>
          [/\ pc = "applying" /\ pubkey # NoKey /\ prev_sig # NoSig
           /\ since_seq' # since_seq
           /\ pc' = "applying"
           => since_seq' = since_seq + 1]_vars
    <2> SUFFICES ASSUME GInv, Next, pc = "applying", pubkey # NoKey,
                        prev_sig # NoSig, since_seq' # since_seq, pc' = "applying"
                 PROVE  since_seq' = since_seq + 1
      OBVIOUS
    <2>0. /\ since_seq \in Nat /\ since_seq <= Len(events) /\ Len(events) \in Nat
          /\ pos \in Nat /\ last \in Nat /\ last <= Len(events)
      BY DEF TInv, TypeOK, SeedTypeOK
    <2>1. ApplyEvent
      BY DEF Next, replicaVars, ReplicaNext, VerifySeed, JoinHandshake,
            SnapshotRecords, ApplySnapshot, SnapshotFails, Tick, FetchEvents,
            FetchFails, SnapshotRequired, RejectBrokenChain, RejectSignature,
            RefreshKey, EndPage, RestartReplica
    <2>2. pos > since_seq /\ pos <= last
      BY <2>1 DEF ApplyEvent, LinkOK
    <2>3. pos \in 1..Len(events)
      BY <2>0, <2>2
    <2>4. events[pos].seq = pos
      BY <2>3, RowFacts
    <2>5. Verdict(events[pos]) = "verified" /\ since_seq' = pos
      <3>1. Verdict(events[pos]) # "replayed"
        BY <2>0, <2>2, <2>4 DEF Verdict
      <3> QED BY <2>1, <2>4, <3>1 DEF ApplyEvent
    <2> QED BY <2>2, <2>5, LinkedNext
  <1> QED BY <1>1, <1>2, <1>3, PTL DEF Spec, NoGapWithinDrain
-----------------------------------------------------------------------------
(* The replica implements EventTail.                                       *)

(***************************************************************************)
(* A step that appends to the log and leaves the replica alone is a step   *)
(* Grow of the abstract tail.                                              *)
(***************************************************************************)
LEMMA AppendGrows ==
    ASSUME SeedTypeOK, NEW body \in EventBodies, Log!AppendEvent(signingKey, body),
           UNCHANGED <<rnodes, since_seq, boots>>
    PROVE  Tailing!Grow
  <1> DEFINE row == Log!EventRow(signingKey, body, Len(events) + 1,
                                 Log!LastSig(events))
  <1>0. events \in Seq(Log!Rows) /\ signingKey \in SigningKeys
    BY DEF SeedTypeOK
  <1>1. row \in Log!Rows
    BY <1>0, NewRowType
  <1>2. events' = Append(events, row)
    BY DEF Log!AppendEvent, Log!AppendTo
  <1> HIDE DEF row
  <1>3. Len(events') = Len(events) + 1
    BY <1>0, <1>1, <1>2
  <1>4. SubSeq(events', 1, Len(events)) = events
    BY <1>0, <1>1, <1>2
  <1> QED BY <1>3, <1>4 DEF Tailing!Grow

(***************************************************************************)
(* Every step is a step of the abstract tail or leaves it alone.           *)
(***************************************************************************)
LEMMA StepTails ==
    ASSUME ~ReplicaDbFails, IInv, [Next]_vars
    PROVE  [Tailing!Next]_<<events, rnodes, since_seq, boots>>
  <1>0. SeedTypeOK /\ Len(events) \in Nat /\ since_seq \in Nat
    BY DEF IInv, TInv, TypeOK, SeedTypeOK
  <1>a. TypeOK'
    BY NextTInv DEF IInv, TInv
  <1>1. CASE (SeedNext /\ UNCHANGED replicaVars) \/ JoinHandshake \/ UNCHANGED vars
    <2>1. UNCHANGED <<rnodes, since_seq, boots>>
      BY <1>1 DEF replicaVars, JoinHandshake, vars
    <2>2. CASE UNCHANGED events
      BY <2>1, <2>2
    <2>3. ASSUME NEW body \in EventBodies, Log!AppendEvent(signingKey, body)
          PROVE  Tailing!Next
      BY <1>0, <2>1, <2>3, AppendGrows DEF Tailing!Next
    <2> QED BY <1>0, <2>2, <2>3, LogStep
  <1>2. CASE ApplySnapshot \/ RestartReplica
    <2>1. /\ rnodes' \in Mirror /\ since_seq' \in Nat
      BY <1>a DEF TypeOK
    <2>2. since_seq' <= Len(events) /\ boots' = boots + 1 /\ events' = events
      BY <1>0, <1>2 DEF ApplySnapshot, RestartReplica, seedVars
    <2>3. since_seq' \in 0..Len(events)
      BY <1>0, <2>1, <2>2
    <2> QED BY <2>1, <2>2, <2>3 DEF Tailing!Next, Tailing!Start
  <1>3. CASE ApplyEvent
    <2>1. pc = "applying" /\ pos <= last
      BY <1>3 DEF ApplyEvent
    <2>2. /\ since_seq + 1 \in 1..Len(events) /\ pos = since_seq + 1
          /\ Verdict(events[pos]) \in {"verified", "bad signature"}
      BY <2>1, NextRowPasses
    <2>3. Verdict(events[pos]) = "verified"
      BY <1>3, <2>2 DEF ApplyEvent
    <2>4. events[pos].seq = since_seq + 1
      BY <2>2, RowFacts DEF IInv
    <2>5. /\ rnodes' = apply_event(rnodes, events[since_seq + 1])
          /\ since_seq' = since_seq + 1
          /\ UNCHANGED <<events, boots>>
      BY <1>3, <2>2, <2>3, <2>4 DEF ApplyEvent, Writes, seedVars
    <2>6. since_seq < Len(events)
      <3>1. since_seq + 1 \in 1..Len(events)
        BY <2>2
      <3>2. Len(events) \in Nat /\ since_seq \in Nat
        BY <1>0
      <3> QED BY <3>1, <3>2
    <2> QED BY <2>5, <2>6 DEF Tailing!Next, Tailing!Take
  <1>4. CASE VerifySeed \/ SnapshotRecords \/ SnapshotFails \/ Tick \/ FetchEvents
             \/ FetchFails \/ SnapshotRequired \/ RejectBrokenChain
             \/ RejectSignature \/ RefreshKey \/ EndPage
    BY <1>4 DEF VerifySeed, SnapshotRecords, SnapshotFails, Tick, FetchEvents,
            FetchFails, SnapshotRequired, RejectBrokenChain, RejectSignature,
            RefreshKey, EndPage, seedVars
  <1> QED BY <1>1, <1>2, <1>3, <1>4 DEF Next, ReplicaNext

(***************************************************************************)
(* run_replica_sync is a tail of the seed's log: from one bootstrap to the *)
(* next it takes every event once and in order, and nothing else changes   *)
(* the mirror, when the replica's own writes do not fail.                  *)
(***************************************************************************)
THEOREM ReplicaImplementsEventTail ==
    ASSUME ~ReplicaDbFails
    PROVE  Spec => ImplementsEventTail
  <1>1. Init => IInv
    BY InitIInv
  <1>2. IInv /\ [Next]_vars => IInv'
    BY NextIInv
  <1>3. Init => Tailing!Init
    <2> SUFFICES ASSUME Init PROVE Tailing!Init
      OBVIOUS
    <2>1. rnodes \in Mirror
      BY InitIInv DEF IInv, TInv, TypeOK
    <2> QED BY <2>1 DEF Init, SeedInit, Tailing!Init
  <1>4. IInv /\ [Next]_vars => [Tailing!Next]_<<events, rnodes, since_seq, boots>>
    BY StepTails
  <1> QED BY <1>1, <1>2, <1>3, <1>4, PTL DEF Spec, ImplementsEventTail, Tailing!Spec

-----------------------------------------------------------------------------
(* End to end: the table of the seed and the table of the replica.         *)

(***************************************************************************)
(* The last event of a node tells what the seed's table has of it, save    *)
(* while its last change is not reported or when an older report came      *)
(* after it.                                                               *)
(***************************************************************************)
LogTellsTable ==
    \A n \in Nodes \ astray, i \in 1..Len(events) :
        /\ NodeEvent(events, i, n)
        /\ \A j \in i + 1..Len(events) : ~NodeEvent(events, j, n)
        /\ latest[n] = Idle
        => nodes[n] = events[i].body.endpoint

(***************************************************************************)
(* The handler that has yet to report a row holds the event of its last    *)
(* change.                                                                 *)
(***************************************************************************)
LatestTellsTable ==
    /\ \A h \in Handlers : pending[h] # Idle =>
          pending[h].type \in NodeTypes /\ pending[h].node \in Nodes
    /\ \A n \in Nodes : latest[n] # Idle =>
          /\ pending[latest[n]] # Idle
          /\ pending[latest[n]].node = n
          /\ pending[latest[n]].endpoint = nodes[n]

(***************************************************************************)
(* Both are kept by every step, though handlers overlap and events are     *)
(* lost.                                                                   *)
(***************************************************************************)
LEMMA NextTable ==
    ASSUME TInv, LogTellsTable, LatestTellsTable, [Next]_vars
    PROVE  LogTellsTable' /\ LatestTellsTable'
  <1>0. /\ events \in Seq(Log!Rows) /\ Len(events) \in Nat
        /\ signingKey \in SigningKeys
        /\ nodes \in [Nodes -> Endpoints \cup {Absent}]
        /\ pending \in [Handlers -> EventBodies \cup {Idle}]
        /\ latest \in [Nodes -> Handlers \cup {Idle}]
    BY DEF TInv, TypeOK, SeedTypeOK
  <1>a. ASSUME NEW body \in EventBodies, Log!AppendEvent(signingKey, body)
        PROVE  /\ Len(events') = Len(events) + 1
               /\ events'[Len(events) + 1].body = body
               /\ \A i \in 1..Len(events) : events'[i] = events[i]
    <2> DEFINE row == Log!EventRow(signingKey, body, Len(events) + 1,
                                   Log!LastSig(events))
    <2>1. row.body = body
      BY DEF Log!EventRow
    <2>2. row \in Log!Rows
      BY <1>0, NewRowType
    <2>3. events' = Append(events, row)
      BY <1>a DEF Log!AppendEvent, Log!AppendTo
    <2> HIDE DEF row
    <2> QED BY <1>0, <2>1, <2>2, <2>3
  <1>b. ASSUME NEW body \in EventBodies, Log!AppendEvent(signingKey, body),
               NEW n \in Nodes, ~(body.type \in NodeTypes /\ body.node = n),
               nodes'[n] = nodes[n], n \notin astray, latest[n] = Idle,
               NEW i \in 1..Len(events'), NodeEvent(events', i, n),
               \A j \in i + 1..Len(events') : ~NodeEvent(events', j, n)
        PROVE  nodes'[n] = events'[i].body.endpoint
    <2>1. i \in 1..Len(events)
      BY <1>0, <1>a, <1>b DEF NodeEvent
    <2>2. NodeEvent(events, i, n) /\ events'[i] = events[i]
      BY <1>a, <1>b, <2>1 DEF NodeEvent
    <2>3. \A j \in i + 1..Len(events) : ~NodeEvent(events, j, n)
      BY <1>0, <1>a, <1>b, <2>1 DEF NodeEvent
    <2> QED BY <1>b, <2>1, <2>2, <2>3 DEF LogTellsTable
  <1>c. ASSUME NEW body \in EventBodies, Log!AppendEvent(signingKey, body),
               body.type \notin NodeTypes, UNCHANGED <<nodes, pending, latest, astray>>
        PROVE  LogTellsTable' /\ LatestTellsTable'
    <2>1. LatestTellsTable'
      BY <1>c DEF LatestTellsTable
    <2>2. LogTellsTable'
      BY <1>b, <1>c DEF LogTellsTable
    <2> QED BY <2>1, <2>2
  <1>1. ASSUME NEW h \in Handlers, NEW n \in Nodes, NEW v \in Endpoints \cup {Absent},
               NEW type \in NodeTypes, pending[h] = Idle,
               nodes' = [nodes EXCEPT ![n] = v],
               pending' = [pending EXCEPT ![h] = Body(type, n, v)],
               RowWritten(h, n), UNCHANGED events
        PROVE  LogTellsTable' /\ LatestTellsTable'
    <2>1. /\ Body(type, n, v).type = type /\ Body(type, n, v).node = n
          /\ Body(type, n, v).endpoint = v
          /\ Body(type, n, v) \in EventBodies
      BY DEF Body, EventBodies
    <2>2. Body(type, n, v) # Idle
      BY <2>1, IdleAssumption
    <2>3. /\ pending'[h] = Body(type, n, v) /\ nodes'[n] = v /\ latest'[n] = h
          /\ \A g \in Handlers : g # h => pending'[g] = pending[g]
          /\ \A m \in Nodes : m # n => nodes'[m] = nodes[m] /\ latest'[m] = latest[m]
      BY <1>0, <1>1 DEF RowWritten
    <2>4. \A g \in Handlers : pending'[g] # Idle =>
             pending'[g].type \in NodeTypes /\ pending'[g].node \in Nodes
      BY <2>1, <2>3 DEF LatestTellsTable
    <2>5. ASSUME NEW m \in Nodes, latest'[m] # Idle
          PROVE  /\ pending'[latest'[m]] # Idle
                 /\ pending'[latest'[m]].node = m
                 /\ pending'[latest'[m]].endpoint = nodes'[m]
      <3>1. CASE m = n
        BY <2>1, <2>2, <2>3, <3>1
      <3>2. CASE m # n
        <4>1. latest'[m] = latest[m] /\ latest[m] \in Handlers /\ latest[m] # h
          BY <1>0, <1>1, <2>3, <2>5, <3>2 DEF LatestTellsTable
        <4> QED BY <2>3, <2>5, <3>2, <4>1 DEF LatestTellsTable
      <3> QED BY <3>1, <3>2
    <2>6. LatestTellsTable'
      BY <2>4, <2>5 DEF LatestTellsTable
    <2>7. ASSUME NEW m \in Nodes \ astray', NEW i \in 1..Len(events), latest'[m] = Idle,
                 NodeEvent(events, i, m),
                 \A j \in i + 1..Len(events) : ~NodeEvent(events, j, m)
          PROVE  nodes'[m] = events[i].body.endpoint
      <3>1. m # n /\ m \notin astray
        BY <1>1, <2>3, <2>7, IdleAssumption DEF RowWritten
      <3> QED BY <2>3, <2>7, <3>1 DEF LogTellsTable
    <2>8. LogTellsTable'
      BY <1>1, <2>7 DEF LogTellsTable
    <2> QED BY <2>6, <2>8
  <1>2. ASSUME NEW gone \in SUBSET Handlers, RowsUnreported(gone),
               UNCHANGED <<events, nodes>>,
               pending' = [h \in Handlers |-> IF h \in gone THEN Idle ELSE pending[h]]
        PROVE  LogTellsTable' /\ LatestTellsTable'
    <2>1. \A n \in Nodes : IF latest[n] \in gone THEN latest'[n] = Idle /\ n \in astray'
                           ELSE latest'[n] = latest[n]
      BY <1>2 DEF RowsUnreported
    <2>2. astray \subseteq astray'
      BY <1>2 DEF RowsUnreported
    <2>3. \A h \in Handlers : IF h \in gone THEN pending'[h] = Idle
                              ELSE pending'[h] = pending[h]
      BY <1>2
    <2>4. LogTellsTable'
      BY <1>2, <2>1, <2>2 DEF LogTellsTable
    <2>5. ASSUME NEW n \in Nodes, latest'[n] # Idle
          PROVE  /\ pending'[latest'[n]] # Idle
                 /\ pending'[latest'[n]].node = n
                 /\ pending'[latest'[n]].endpoint = nodes'[n]
      <3>1. latest'[n] = latest[n] /\ latest[n] \in Handlers /\ latest[n] \notin gone
        BY <1>0, <2>1, <2>5
      <3> QED BY <1>2, <2>3, <2>5, <3>1 DEF LatestTellsTable
    <2>6. LatestTellsTable'
      BY <2>3, <2>5 DEF LatestTellsTable
    <2> QED BY <2>4, <2>6
  <1>3. CASE SeedNext
    <2>1. ASSUME NEW h \in Handlers, NEW n \in Nodes, NEW e \in Endpoints,
                 Register(h, n, e)
          PROVE  LogTellsTable' /\ LatestTellsTable'
      BY <1>1, <2>1 DEF Register, NodeTypes
    <2>2. ASSUME NEW h \in Handlers, NEW n \in Nodes, Deregister(h, n)
          PROVE  LogTellsTable' /\ LatestTellsTable'
      BY <1>1, <2>2 DEF Deregister, NodeTypes
    <2>3. ASSUME NEW h \in Handlers, Emit(h)
          PROVE  LogTellsTable' /\ LatestTellsTable'
      <3> DEFINE body == pending[h]
      <3>1. /\ body \in EventBodies /\ Log!AppendEvent(signingKey, body)
            /\ pending' = [pending EXCEPT ![h] = Idle] /\ nodes' = nodes
            /\ body.type \in NodeTypes /\ body.node \in Nodes
        BY <1>0, <2>3 DEF Emit, LatestTellsTable
      <3>2. /\ Len(events') = Len(events) + 1
            /\ events'[Len(events) + 1].body = body
            /\ \A i \in 1..Len(events) : events'[i] = events[i]
        BY <1>a, <3>1
      <3>3. /\ pending'[h] = Idle
            /\ \A g \in Handlers : g # h => pending'[g] = pending[g]
        BY <1>0, <3>1
      <3>4. /\ \A m \in Nodes : m # body.node => latest'[m] = latest[m]
            /\ latest'[body.node] = IF latest[body.node] = h THEN Idle
                                    ELSE latest[body.node]
            /\ astray' = IF latest[body.node] = Idle THEN astray \cup {body.node}
                         ELSE astray
        BY <1>0, <2>3, <3>1 DEF Emit, RowReported
      <3>5. \A m \in Nodes : latest'[m] # h
        <4> SUFFICES ASSUME NEW m \in Nodes, latest'[m] = h PROVE FALSE
          OBVIOUS
        <4>1. h # Idle
          BY IdleAssumption
        <4>2. m # body.node /\ latest[m] = h
          BY <3>4, <4>1
        <4> QED BY <4>1, <4>2 DEF LatestTellsTable
      <3>6. ASSUME NEW m \in Nodes, latest'[m] # Idle
            PROVE  /\ pending'[latest'[m]] # Idle
                   /\ pending'[latest'[m]].node = m
                   /\ pending'[latest'[m]].endpoint = nodes'[m]
        <4>1. latest'[m] = latest[m] /\ latest[m] \in Handlers /\ latest[m] # h
          BY <1>0, <3>4, <3>5, <3>6
        <4> QED BY <3>1, <3>3, <3>6, <4>1 DEF LatestTellsTable
      <3>7. LatestTellsTable'
        BY <3>3, <3>6 DEF LatestTellsTable
      <3>8. ASSUME NEW n \in Nodes \ astray', NEW i \in 1..Len(events'), latest'[n] = Idle,
                   NodeEvent(events', i, n),
                   \A j \in i + 1..Len(events') : ~NodeEvent(events', j, n)
            PROVE  nodes'[n] = events'[i].body.endpoint
        <4>1. CASE n = body.node
          <5>1. latest[n] = h
            BY <3>4, <3>8, <4>1
          <5>2. nodes[n] = body.endpoint
            BY <5>1, IdleAssumption DEF LatestTellsTable
          <5>3. NodeEvent(events', Len(events) + 1, n)
            BY <3>1, <3>2, <4>1 DEF NodeEvent
          <5>4. i = Len(events) + 1
            BY <1>0, <3>2, <3>8, <5>3
          <5> QED BY <3>1, <3>2, <5>2, <5>4
        <4>2. CASE n # body.node
          <5>1. n \notin astray /\ latest[n] = Idle
            BY <3>4, <3>8, <4>2
          <5> HIDE DEF body
          <5> QED BY <1>b, <3>1, <3>8, <4>2, <5>1
        <4> QED BY <4>1, <4>2
      <3>9. LogTellsTable'
        BY <3>8 DEF LogTellsTable
      <3> QED BY <3>7, <3>9
    <2>4. ASSUME NEW h \in Handlers, EmitFails(h)
          PROVE  LogTellsTable' /\ LatestTellsTable'
      <3>1. pending' = [g \in Handlers |-> IF g \in {h} THEN Idle ELSE pending[g]]
        BY <1>0, <2>4 DEF EmitFails
      <3>2. {h} \in SUBSET Handlers
        OBVIOUS
      <3> QED BY <1>2, <2>4, <3>1, <3>2 DEF EmitFails
    <2>5. ASSUME NEW n \in Nodes, EmitNeutral(n)
          PROVE  LogTellsTable' /\ LatestTellsTable'
      <3>1. /\ Body("EVICT", n, Absent) \in EventBodies
            /\ Body("EVICT", n, Absent).type \notin NodeTypes
        BY DEF Body, EventBodies, NeutralTypes, NodeTypes
      <3> QED BY <1>c, <2>5, <3>1 DEF EmitNeutral
    <2>6. ASSUME NEW k \in SigningKeys, RestartSeed(k)
          PROVE  LogTellsTable' /\ LatestTellsTable'
      <3> DEFINE gone == {h \in Handlers : pending[h] # Idle}
      <3>1. RowsUnreported(gone) /\ UNCHANGED <<events, nodes>>
            /\ pending' = [h \in Handlers |-> Idle]
        BY <2>6 DEF RestartSeed
      <3>2. pending' = [h \in Handlers |-> IF h \in gone THEN Idle ELSE pending[h]]
        BY <3>1
      <3>3. gone \in SUBSET Handlers
        OBVIOUS
      <3> HIDE DEF gone
      <3> QED BY <1>2, <3>1, <3>2, <3>3
    <2> QED BY <1>3, <2>1, <2>2, <2>3, <2>4, <2>5, <2>6 DEF SeedNext
  <1>4. CASE ReplicaNext
    <2>1. UNCHANGED <<nodes, pending, latest, astray>>
      BY <1>4, ReplicaKeepsSeed
    <2>2. CASE UNCHANGED events
      BY <2>1, <2>2 DEF LogTellsTable, LatestTellsTable
    <2>3. CASE ~UNCHANGED events
      <3>1. Log!AppendEvent(signingKey, Body("REPLICA_REGISTERED", ReplicaId, Absent))
        BY <1>4, <2>3 DEF ReplicaNext, VerifySeed, JoinHandshake, SnapshotRecords,
            ApplySnapshot, SnapshotFails, Tick, FetchEvents, FetchFails,
            SnapshotRequired, ApplyEvent, RejectBrokenChain, RejectSignature,
            RefreshKey, EndPage, RestartReplica, seedVars
      <3>2. /\ Body("REPLICA_REGISTERED", ReplicaId, Absent) \in EventBodies
            /\ Body("REPLICA_REGISTERED", ReplicaId, Absent).type \notin NodeTypes
        BY DEF Body, EventBodies, NeutralTypes, NodeTypes
      <3> QED BY <1>c, <2>1, <3>1, <3>2
    <2> QED BY <2>2, <2>3
  <1>5. CASE UNCHANGED vars
    BY <1>5 DEF vars, seedVars, LogTellsTable, LatestTellsTable
  <1> QED BY <1>3, <1>4, <1>5 DEF Next

(***************************************************************************)
(* MirrorFold for the nodes whose last event here was written: true also   *)
(* when writes of the replica fail.                                        *)
(***************************************************************************)
WrittenFold ==
    \A n \in Nodes \ missed :
        Overlaid(events, snapshot_seq, since_seq, base[n], n, rnodes[n])

(* Event k is a REGISTER of one of these nodes. *)
SteppedOver(rowsOf, k, of) ==
    rowsOf[k].body.type = "REGISTER" /\ rowsOf[k].body.node \in of

(***************************************************************************)
(* While a drain has no link to check, the events it has stepped over are  *)
(* REGISTERs whose write failed.                                           *)
(***************************************************************************)
SteppedOverMissed ==
    pc = "applying" =>
        /\ pos <= last + 1
        /\ prev_sig = NoSig \/ pubkey = NoKey =>
              \A k \in since_seq + 1..pos - 1 : SteppedOver(events, k, missed)

(***************************************************************************)
(* Moving the cursor to a later event overlays it, if the events between   *)
(* are not of the node.                                                    *)
(***************************************************************************)
LEMMA OverlaidJump ==
    ASSUME NEW rowsOf, NEW n, NEW before, NEW v, NEW w,
           NEW from \in Nat, NEW to \in Nat, NEW at \in Nat, from <= to, to < at,
           Overlaid(rowsOf, from, to, before, n, v) \/ NodeEvent(rowsOf, at, n),
           \/ NodeEvent(rowsOf, at, n) /\ w = rowsOf[at].body.endpoint
           \/ /\ \A k \in to + 1..at : ~NodeEvent(rowsOf, k, n)
              /\ w = v
    PROVE  Overlaid(rowsOf, from, at, before, n, w)
  <1>1. CASE NodeEvent(rowsOf, at, n) /\ w = rowsOf[at].body.endpoint
    <2>1. at \in from + 1..at /\ \A j \in at + 1..at : ~NodeEvent(rowsOf, j, n)
      OBVIOUS
    <2> QED BY <1>1, <2>1 DEF Overlaid
  <1>2. CASE (\A k \in to + 1..at : ~NodeEvent(rowsOf, k, n)) /\ w = v
    <2>1. ~NodeEvent(rowsOf, at, n)
      BY <1>2
    <2>2. \A k : k \in from + 1..at => k \in from + 1..to \/ k \in to + 1..at
      OBVIOUS
    <2>3. CASE (\A k \in from + 1..to : ~NodeEvent(rowsOf, k, n)) /\ v = before
      BY <1>2, <2>2, <2>3 DEF Overlaid
    <2>4. ASSUME NEW i \in from + 1..to, NodeEvent(rowsOf, i, n),
                 \A j \in i + 1..to : ~NodeEvent(rowsOf, j, n),
                 v = rowsOf[i].body.endpoint
          PROVE  Overlaid(rowsOf, from, at, before, n, w)
      <3>1. i \in from + 1..at
        OBVIOUS
      <3>2. \A j \in i + 1..at : ~NodeEvent(rowsOf, j, n)
        <4> SUFFICES ASSUME NEW j \in i + 1..at PROVE ~NodeEvent(rowsOf, j, n)
          OBVIOUS
        <4>1. j \in i + 1..to \/ j \in to + 1..at
          OBVIOUS
        <4> QED BY <1>2, <2>4, <4>1
      <3> QED BY <1>2, <2>4, <3>1, <3>2 DEF Overlaid
    <2> QED BY <2>1, <2>3, <2>4 DEF Overlaid
  <1> QED BY <1>1, <1>2

(***************************************************************************)
(* Every step keeps both, whatever fails.                                  *)
(***************************************************************************)
LEMMA NextWrittenFold ==
    ASSUME TInv, SigsBindSeq, LinkOK, WrittenFold, SteppedOverMissed, [Next]_vars
    PROVE  WrittenFold' /\ SteppedOverMissed'
  <1>0. TInv' /\ LogExtended
    BY NextTInv
  <1>a. /\ since_seq \in Nat /\ since_seq <= Len(events) /\ Len(events) \in Nat
        /\ snapshot_seq \in Nat /\ snapshot_seq <= since_seq
        /\ pos \in Nat /\ last \in Nat /\ last <= Len(events) /\ rnodes \in Mirror
    BY DEF TInv, TypeOK, SeedTypeOK
  <1>b. ASSUME Kept, missed' = missed
        PROVE  WrittenFold'
    <2> SUFFICES ASSUME NEW n \in Nodes \ missed
                 PROVE  Overlaid(events', snapshot_seq, since_seq, base[n], n,
                                 rnodes[n])
      BY <1>b DEF WrittenFold, Kept
    <2>1. Overlaid(events, snapshot_seq, since_seq, base[n], n, rnodes[n])
      BY DEF WrittenFold
    <2> QED BY <1>0, <1>a, <2>1, OverlaidStable DEF LogExtended
  <1>1. CASE (SeedNext /\ UNCHANGED replicaVars) \/ UNCHANGED vars
    <2>1. Kept /\ missed' = missed /\ UNCHANGED <<pc, prev_sig, pubkey, pos>>
      BY <1>1 DEF replicaVars, vars, Kept
    <2>2. last' = last
      BY <1>1 DEF replicaVars, vars
    <2>3. ASSUME pc = "applying", prev_sig = NoSig \/ pubkey = NoKey,
                 NEW k \in since_seq + 1..pos - 1
          PROVE  SteppedOver(events', k, missed)
      <3>1. SteppedOver(events, k, missed) /\ pos <= last + 1
        BY <2>3 DEF SteppedOverMissed
      <3>2. k \in 1..Len(events)
        BY <1>a, <3>1
      <3>3. events'[k] = events[k]
        BY <1>0, <3>2 DEF LogExtended
      <3> QED BY <3>1, <3>3 DEF SteppedOver
    <2>4. SteppedOverMissed'
      BY <2>1, <2>2, <2>3 DEF SteppedOverMissed, Kept
    <2> QED BY <1>b, <2>1, <2>4
  <1>2. CASE VerifySeed \/ JoinHandshake \/ SnapshotRecords \/ SnapshotFails
             \/ Tick \/ RefreshKey \/ FetchFails \/ SnapshotRequired
             \/ RejectSignature \/ EndPage
    <2>1. Kept /\ missed' = missed /\ pc' # "applying"
      BY <1>2 DEF VerifySeed, JoinHandshake, SnapshotRecords, SnapshotFails, Tick,
            RefreshKey, FetchFails, SnapshotRequired, RejectSignature, EndPage, Kept
    <2> QED BY <1>b, <2>1 DEF SteppedOverMissed
  <1>3. CASE ApplySnapshot \/ RestartReplica
    <2>1. /\ base' = rnodes' /\ since_seq' = snapshot_seq' /\ snapshot_seq' \in Nat
          /\ pc' # "applying"
      BY <1>3, <1>a DEF ApplySnapshot, RestartReplica
    <2>2. \A i : i \notin snapshot_seq' + 1..since_seq'
      BY <2>1
    <2> QED BY <2>1, <2>2 DEF WrittenFold, Overlaid, SteppedOverMissed
  <1>4. CASE FetchEvents
    <2>1. Kept /\ missed' = missed
      BY <1>4 DEF FetchEvents, Kept
    <2>2. \/ pc' = "waiting"
          \/ pos' = since_seq + 1 /\ last' > since_seq
      BY <1>4 DEF FetchEvents
    <2>3. last' \in Nat
      BY <1>0 DEF TInv, TypeOK
    <2>4. \A k : k \notin since_seq + 1..(since_seq + 1) - 1
      BY <1>a
    <2>5. CASE pc' = "waiting"
      BY <1>b, <2>1, <2>5 DEF SteppedOverMissed
    <2>6. CASE pos' = since_seq + 1 /\ last' > since_seq
      <3>a. since_seq \in Nat /\ pos' = since_seq + 1 /\ last' > since_seq
        BY <1>a, <2>6
      <3>b. \A a, b \in Nat : b > a => a + 1 <= b + 1
        OBVIOUS
      <3>1. pos' <= last' + 1
        <4>1. since_seq + 1 <= last' + 1
          BY <2>3, <3>a, <3>b
        <4> QED BY <3>a, <4>1
      <3>2. since_seq' = since_seq
        BY <2>1 DEF Kept
      <3>3. \A k : k \notin since_seq' + 1..pos' - 1
        BY <2>4, <2>6, <3>2
      <3> QED BY <1>b, <2>1, <3>1, <3>3 DEF SteppedOverMissed
    <2> QED BY <2>2, <2>5, <2>6
  <1>5. CASE RejectBrokenChain
    <2>1. /\ pc = "applying" /\ pos <= last /\ pos' = pos + 1
          /\ Verdict(events[pos]) = "broken hash-chain"
          /\ Kept /\ missed' = missed /\ UNCHANGED <<last, prev_sig, pubkey>>
      BY <1>5 DEF RejectBrokenChain, Kept
    <2>2. prev_sig # NoSig /\ pubkey # NoKey
      BY <2>1 DEF Verdict
    <2>a. pos' = pos + 1 /\ last' = last /\ pos <= last
      BY <2>1
    <2>3. pos' <= last' + 1
      BY <1>a, <2>a
    <2>4. prev_sig' # NoSig /\ pubkey' # NoKey
      BY <2>1, <2>2
    <2>5. SteppedOverMissed'
      BY <2>3, <2>4 DEF SteppedOverMissed
    <2> QED BY <1>b, <2>1, <2>5
  <1>6. CASE ApplyEvent
    <2> DEFINE row == events[pos]
    <2>1. /\ pc = "applying" /\ pos <= last /\ pos' = pos + 1
          /\ UNCHANGED <<events, pc, last, pubkey, snapshot_seq, base>>
          /\ Verdict(row) \in {"verified", "replayed"}
      BY <1>6 DEF ApplyEvent, seedVars
    <2>2. pos > since_seq /\ pos \in 1..Len(events)
      BY <1>a, <2>1 DEF LinkOK
    <2>3. row.seq = pos
      BY <2>2, RowFacts
    <2>4. Verdict(row) = "verified"
      BY <1>a, <2>1, <2>2, <2>3 DEF Verdict
    <2>5. PICK written \in Writes :
            LET accepted == written \/ row.body.type # "REGISTER" IN
            /\ rnodes' = IF written THEN apply_event(rnodes, row) ELSE rnodes
            /\ since_seq' = IF accepted THEN pos ELSE since_seq
            /\ prev_sig' = IF accepted THEN row.sig ELSE prev_sig
            /\ missed' = IF row.body.type \notin NodeTypes THEN missed
                         ELSE IF written THEN missed \ {row.body.node}
                         ELSE missed \cup {row.body.node}
      BY <1>6, <2>3, <2>4 DEF ApplyEvent
    <2>6. \A k \in since_seq + 1..pos - 1 : SteppedOver(events, k, missed)
      <3>1. CASE prev_sig = NoSig \/ pubkey = NoKey
        BY <2>1, <3>1 DEF SteppedOverMissed
      <3>2. CASE prev_sig # NoSig /\ pubkey # NoKey
        <4>1. pos = since_seq + 1
          BY <2>1, <2>4, <3>2, LinkedNext
        <4> QED BY <1>a, <4>1
      <3> QED BY <3>1, <3>2
    <2>7. CASE ~written /\ row.body.type = "REGISTER"
      <3>1. /\ rnodes' = rnodes /\ since_seq' = since_seq
            /\ missed' = missed \cup {row.body.node}
        BY <2>5, <2>7 DEF NodeTypes
      <3>2. WrittenFold'
        BY <2>1, <3>1 DEF WrittenFold
      <3>3. \A k \in since_seq + 1..pos : SteppedOver(events, k, missed')
        <4> SUFFICES ASSUME NEW k \in since_seq + 1..pos
                     PROVE  SteppedOver(events, k, missed')
          OBVIOUS
        <4>1. CASE k = pos
          BY <2>7, <3>1, <4>1 DEF SteppedOver
        <4>2. CASE k # pos
          BY <1>a, <2>6, <3>1, <4>2 DEF SteppedOver
        <4> QED BY <4>1, <4>2
      <3>4. pos' <= last' + 1 /\ pos' - 1 = pos
        BY <1>a, <2>1
      <3>5. SteppedOverMissed'
        BY <2>1, <3>1, <3>3, <3>4 DEF SteppedOverMissed
      <3> QED BY <3>2, <3>5
    <2>8. CASE written \/ row.body.type # "REGISTER"
      <3>1. since_seq' = pos
        BY <2>5, <2>8
      <3>2. SteppedOverMissed'
        <4>1. pos' <= last' + 1 /\ \A k : k \notin since_seq' + 1..pos' - 1
          BY <1>a, <2>1, <3>1
        <4> QED BY <4>1 DEF SteppedOverMissed
      <3>3. ASSUME NEW n \in Nodes \ missed'
            PROVE  Overlaid(events, snapshot_seq, pos, base[n], n, rnodes'[n])
        <4>1. CASE NodeEvent(events, pos, n)
          <5>1. written
            BY <2>5, <3>3, <4>1 DEF NodeEvent
          <5>2. rnodes'[n] = row.body.endpoint
            BY <1>a, <2>5, <4>1, <5>1 DEF NodeEvent, apply_event, Mirror
          <5> QED BY <1>a, <2>2, <4>1, <5>2, OverlaidJump
        <4>2. CASE ~NodeEvent(events, pos, n)
          <5>1. rnodes'[n] = rnodes[n]
            BY <1>a, <2>5, <4>2 DEF NodeEvent, apply_event, Mirror
          <5>2. n \notin missed
            BY <2>5, <3>3, <4>2 DEF NodeEvent
          <5>3. \A k \in since_seq + 1..pos : ~NodeEvent(events, k, n)
            <6> SUFFICES ASSUME NEW k \in since_seq + 1..pos, k # pos
                         PROVE  ~NodeEvent(events, k, n)
              BY <4>2
            <6>1. SteppedOver(events, k, missed)
              BY <1>a, <2>6
            <6> QED BY <5>2, <6>1 DEF SteppedOver, NodeEvent
          <5>4. Overlaid(events, snapshot_seq, since_seq, base[n], n, rnodes[n])
            BY <5>2 DEF WrittenFold
          <5> QED BY <1>a, <2>2, <5>1, <5>3, <5>4, OverlaidJump
        <4> QED BY <4>1, <4>2
      <3>4. WrittenFold'
        BY <2>1, <3>1, <3>3 DEF WrittenFold
      <3> QED BY <3>2, <3>4
    <2> QED BY <2>7, <2>8
  <1> QED BY <1>1, <1>2, <1>3, <1>4, <1>5, <1>6 DEF Next, ReplicaNext

(***************************************************************************)
(* End to end, for any number of overlapping handlers, with lost events,   *)
(* failing databases, key rotations and restarts: once run_replica_sync    *)
(* has taken the whole log, a node that changed since the snapshot is in   *)
(* the replica as in the seed, unless its last change is not reported yet, *)
(* was reported out of order or never, or could not be written here.       *)
(***************************************************************************)
THEOREM TailedNodesAreMirrored == Spec => []TailedNodesMirrored
  <1> DEFINE EInv == /\ TInv /\ SigsBindSeq /\ LinkOK
                     /\ LogTellsTable /\ LatestTellsTable
                     /\ WrittenFold /\ SteppedOverMissed
  <1>1. Init => EInv
    <2> SUFFICES ASSUME Init PROVE EInv
      OBVIOUS
    <2>1. IInv
      BY InitIInv
    <2>2. /\ Len(events) = 0 /\ \A h \in Handlers : pending[h] = Idle
          /\ \A n \in Nodes : latest[n] = Idle
          /\ pc = "verifying" /\ prev_sig = NoSig
      BY DEF Init, SeedInit
    <2>3. SigsBindSeq /\ LinkOK /\ LogTellsTable /\ LatestTellsTable /\ SteppedOverMissed
      BY <2>2 DEF SigsBindSeq, LinkOK, LogTellsTable, LatestTellsTable, SteppedOverMissed
    <2> QED BY <2>1, <2>3 DEF IInv, MirrorFold, WrittenFold
  <1>2. EInv /\ [Next]_vars => EInv'
    BY NextTInv, NextSigsBindSeq, NextLinkOK, NextTable, NextWrittenFold
  <1>3. EInv => TailedNodesMirrored
    <2> SUFFICES ASSUME EInv, since_seq = Len(events),
                        NEW n \in Nodes \ (astray \cup missed), latest[n] = Idle,
                        NEW k \in snapshot_seq + 1..since_seq, NodeEvent(events, k, n)
                 PROVE  rnodes[n] = nodes[n]
      BY DEF TailedNodesMirrored
    <2>0. snapshot_seq \in Nat /\ Len(events) \in Nat
      BY DEF TInv, TypeOK, SeedTypeOK
    <2>1. PICK i \in snapshot_seq + 1..since_seq :
             /\ NodeEvent(events, i, n)
             /\ \A j \in i + 1..since_seq : ~NodeEvent(events, j, n)
             /\ rnodes[n] = events[i].body.endpoint
      BY DEF WrittenFold, Overlaid
    <2>2. i \in 1..Len(events)
      BY <2>0
    <2> QED BY <2>1, <2>2 DEF LogTellsTable
  <1> QED BY <1>1, <1>2, <1>3, PTL DEF Spec
=============================================================================
