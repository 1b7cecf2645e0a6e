--------------------------- MODULE EventLog_proofs ---------------------------
(***************************************************************************)
(* The append transactions keep the hash chain intact and implement the    *)
(* abstract log, for any number of concurrent calls, keys and attempts.    *)
(*                                                                         *)
(* ChainIntact is not inductive: a commit writes the seq and the prev_sig  *)
(* that the transaction read earlier.  What makes them still right is that *)
(* the head row is locked from the read to the commit, so the invariant    *)
(* says that only the lock's holder is past the read, that what it read is *)
(* still the head, and that the head is the end of the log.                *)
(***************************************************************************)
EXTENDS EventLog, TLAPS

(* The chain-head row agrees with the last committed event. *)
HeadIsLast ==
    /\ head.last_seq = Len(events)
    /\ head.last_signature = Log!LastSig(events)

(* Past the read, a transaction holds the lock and knows the current head. *)
LockProtectsHead ==
    \A c \in Calls : pc[c] = "locked" => lock = c /\ read[c] = head

(* The event of a call is committed in the step that ends the call. *)
CommittedIsDone == \A i \in 1..Len(events) : pc[events[i].body] = "done"

IInv ==
    /\ TypeOK
    /\ LockProtectsHead
    /\ HeadIsLast
    /\ ChainIntact
    /\ CommittedIsDone
    /\ AppendedAtMostOnce
    /\ ReturnedSeqIsCommitted

(***************************************************************************)
(* The last element of a non-empty sequence is one of its elements.        *)
(***************************************************************************)
LEMMA LastElement ==
    ASSUME NEW S, NEW s \in Seq(S), s # << >>
    PROVE  Len(s) \in 1..Len(s) /\ s[Len(s)] \in S
  OBVIOUS

(***************************************************************************)
(* A row the transactions write is a row of the log.                       *)
(***************************************************************************)
LEMMA RowType ==
    ASSUME NEW k \in SigningKeys, NEW c \in Calls, NEW seq \in Nat,
           NEW prev \in Log!Sigs \cup {NoSig}
    PROVE  /\ Log!EventRow(k, c, seq, prev) \in Log!Rows
           /\ Log!sign_event(k, c, seq) \in Log!Sigs
  <1>1. Log!sign_event(k, c, seq) \in Log!Sigs
    BY DEF Log!sign_event, Log!Sigs
  <1>2. Log!prev_hash_from(prev) \in Log!Hashes
    BY DEF Log!prev_hash_from, Log!Hashes
  <1> QED
    BY <1>1, <1>2 DEF Log!EventRow, Log!Rows

(***************************************************************************)
(* Appending the row that continues the chain keeps the chain intact.      *)
(***************************************************************************)
LEMMA AppendKeepsChain ==
    ASSUME NEW log \in Seq(Log!Rows), NEW k \in SigningKeys, NEW c \in Calls,
           \A i \in 1..Len(log) : Log!Linked(log, i),
           NEW new, new = Log!AppendTo(log, k, c)
    PROVE  /\ new \in Seq(Log!Rows)
           /\ Len(new) = Len(log) + 1
           /\ new[Len(new)].sig = Log!sign_event(k, c, Len(log) + 1)
           /\ \A i \in 1..Len(new) : Log!Linked(new, i)
  <1> DEFINE row == Log!EventRow(k, c, Len(log) + 1, Log!LastSig(log))
  <1>1. Log!LastSig(log) \in Log!Sigs \cup {NoSig}
    <2>1. CASE log = << >>
      BY <2>1 DEF Log!LastSig
    <2>2. CASE log # << >>
      <3>1. log[Len(log)] \in Log!Rows
        BY <2>2, LastElement
      <3> QED BY <2>2, <3>1 DEF Log!LastSig, Log!Rows
    <2> QED BY <2>1, <2>2
  <1>2. row \in Log!Rows
    BY <1>1, RowType
  <1>3. new = Append(log, row)
    BY DEF Log!AppendTo
  <1>4. /\ new \in Seq(Log!Rows)
        /\ Len(new) = Len(log) + 1
        /\ new[Len(log) + 1] = row
        /\ \A i \in 1..Len(log) : new[i] = log[i]
    <2> HIDE DEF row
    <2> QED BY <1>2, <1>3
  <1>5. Log!Linked(new, Len(log) + 1)
    <2>1. row.seq = Len(log) + 1 /\ row.prev_hash = Log!prev_hash_from(Log!LastSig(log))
      BY DEF Log!EventRow
    <2>2. CASE Len(log) = 0
      BY <2>1, <2>2, <1>4 DEF Log!Linked, Log!LastSig
    <2>3. CASE Len(log) # 0
      BY <2>1, <2>3, <1>4 DEF Log!Linked, Log!LastSig
    <2> QED BY <2>2, <2>3
  <1>6. ASSUME NEW i \in 1..Len(log) PROVE Log!Linked(new, i)
    BY <1>4 DEF Log!Linked
  <1>7. row.sig = Log!sign_event(k, c, Len(log) + 1)
    BY DEF Log!EventRow
  <1> HIDE DEF row
  <1> QED
    BY <1>4, <1>5, <1>6, <1>7

(***************************************************************************)
(* A commit by the holder of the lock is an append of the abstract log.    *)
(***************************************************************************)
LEMMA CommitAppends ==
    ASSUME IInv, NEW c \in Calls, pc[c] = "locked", CommitRows(c)
    PROVE  /\ events' = Log!AppendTo(events, key[c], c)
           /\ key[c] \in SigningKeys
           /\ events' \in Seq(Log!Rows)
           /\ Len(events') = Len(events) + 1
           /\ read[c].last_seq = Len(events)
           /\ \A i \in 1..Len(events) : events'[i] = events[i]
           /\ events'[Len(events) + 1].body = c
           /\ head' = [last_seq |-> Len(events'),
                       last_signature |-> Log!LastSig(events')]
           /\ head' \in Heads
           /\ lock = c /\ lock' = NoCall
           /\ ChainIntact'
  <1> DEFINE row == Log!EventRow(key[c], c, Len(events) + 1, Log!LastSig(events))
  <1>1. /\ lock = c
        /\ key[c] \in SigningKeys
        /\ read[c].last_seq = Len(events)
        /\ read[c].last_signature = Log!LastSig(events)
    BY DEF IInv, LockProtectsHead, HeadIsLast, TypeOK
  <1>2. events' = Log!AppendTo(events, key[c], c) /\ events' = Append(events, row)
    BY <1>1 DEF CommitRows, Log!AppendTo
  <1>3. events \in Seq(Log!Rows) /\ \A i \in 1..Len(events) : Log!Linked(events, i)
    BY DEF IInv, TypeOK, ChainIntact, Log!ChainIntact
  <1>4. /\ events' \in Seq(Log!Rows)
        /\ Len(events') = Len(events) + 1
        /\ events'[Len(events')].sig = Log!sign_event(key[c], c, Len(events) + 1)
        /\ \A i \in 1..Len(events') : Log!Linked(events', i)
    BY <1>1, <1>2, <1>3, AppendKeepsChain
  <1>5. events' # << >> /\ Len(events) \in Nat
    BY <1>3, <1>4
  <1>6. head' = [last_seq |-> Len(events'), last_signature |-> Log!LastSig(events')]
    BY <1>1, <1>4, <1>5 DEF CommitRows, Log!LastSig
  <1>7. Log!LastSig(events') \in Log!Sigs
    <2>1. events'[Len(events')] \in Log!Rows
      BY <1>4, <1>5, LastElement
    <2> QED BY <2>1, <1>5 DEF Log!LastSig, Log!Rows
  <1>8. row.body = c
    BY DEF Log!EventRow
  <1>9. /\ \A i \in 1..Len(events) : events'[i] = events[i]
        /\ events'[Len(events) + 1] = row
    <2> HIDE DEF row
    <2> QED BY <1>2, <1>3
  <1>10. head' \in Heads
    BY <1>4, <1>5, <1>6, <1>7 DEF Heads
  <1>11. lock' = NoCall /\ ChainIntact'
    BY <1>1, <1>4 DEF CommitRows, Unlock, ChainIntact, Log!ChainIntact
  <1> QED
    BY <1>1, <1>2, <1>4, <1>6, <1>8, <1>9, <1>10, <1>11

(* Every committed row is the event of some call. *)
LEMMA BodiesAreCalls ==
    ASSUME NEW log \in Seq(Log!Rows)
    PROVE  Len(log) \in Nat /\ \A i \in 1..Len(log) : log[i].body \in Calls
  <1>1. Len(log) \in Nat /\ \A i \in 1..Len(log) : log[i] \in Log!Rows
    OBVIOUS
  <1> QED
    BY <1>1 DEF Log!Rows

(* The invariant holds initially. *)
LEMMA InitIInv == Init => IInv
  BY AttemptsAssumption
  DEF Init, IInv, TypeOK, LockProtectsHead, HeadIsLast, ChainIntact, CommittedIsDone,
      AppendedAtMostOnce, ReturnedSeqIsCommitted, GenesisHead, Heads,
      Log!ChainIntact, Log!LastSig

(* A step that commits nothing preserves the invariant. *)
LEMMA QuietIInv ==
    ASSUME IInv, UNCHANGED <<events, head, key>>,
           TypeOK', LockProtectsHead',
           \A c \in Calls : pc[c] = "done" => pc'[c] = "done",
           \A c \in Calls : returned'[c] \in {0, returned[c]}
    PROVE  IInv'
  <1>1. ChainIntact' /\ HeadIsLast' /\ AppendedAtMostOnce'
    BY DEF IInv, ChainIntact, HeadIsLast, AppendedAtMostOnce, Log!ChainIntact, Log!LastSig, Log!Linked
  <1>2. \A i \in 1..Len(events) : events[i].body \in Calls
    BY BodiesAreCalls DEF IInv, TypeOK
  <1>3. CommittedIsDone'
    BY <1>2 DEF IInv, CommittedIsDone
  <1>4. ReturnedSeqIsCommitted'
    BY DEF IInv, ReturnedSeqIsCommitted
  <1> QED
    BY <1>1, <1>3, <1>4 DEF IInv

(* Every step preserves the invariant. *)
LEMMA NextIInv == IInv /\ [Next]_vars => IInv'
  <1> SUFFICES ASSUME IInv, [Next]_vars PROVE IInv'
    OBVIOUS
  <1>0. TypeOK /\ LockProtectsHead
    BY DEF IInv
  <1>1. ASSUME NEW c \in Calls, Call(c) PROVE IInv'
    <2>1. TypeOK' /\ LockProtectsHead'
      BY <1>0, <1>1 DEF Call, TypeOK, LockProtectsHead
    <2> QED BY <1>0, <1>1, <2>1, QuietIInv DEF Call, TypeOK
  <1>2. ASSUME NEW c \in Calls, BeginFails(c) PROVE IInv'
    <2>1. TypeOK' /\ LockProtectsHead'
      BY <1>0, <1>2 DEF BeginFails, Return, TypeOK, LockProtectsHead
    <2> QED BY <1>0, <1>2, <2>1, QuietIInv DEF BeginFails, Return, TypeOK
  <1>3. ASSUME NEW c \in Calls, LockHead(c) PROVE IInv'
    <2>1. TypeOK' /\ LockProtectsHead'
      BY <1>0, <1>3, NoCallAssumption DEF LockHead, TypeOK, LockProtectsHead
    <2> QED BY <1>0, <1>3, <2>1, QuietIInv DEF LockHead, TypeOK
  <1>4. ASSUME NEW c \in Calls, pc[c] \in {"begin", "locked"}, Retry(c) PROVE IInv'
    <2>1. TypeOK'
      BY <1>0, <1>4, AttemptsAssumption DEF Retry, Unlock, TypeOK
    <2>2. LockProtectsHead'
      BY <1>0, <1>4, NoCallAssumption DEF Retry, Unlock, TypeOK, LockProtectsHead
    <2> QED BY <1>0, <1>4, <2>1, <2>2, QuietIInv DEF Retry, TypeOK
  <1>5. ASSUME NEW c \in Calls, pc[c] \in {"begin", "locked"}, GiveUp(c) PROVE IInv'
    <2>1. TypeOK'
      BY <1>0, <1>5 DEF GiveUp, Return, Unlock, TypeOK
    <2>2. LockProtectsHead'
      BY <1>0, <1>5, NoCallAssumption DEF GiveUp, Return, Unlock, TypeOK, LockProtectsHead
    <2> QED BY <1>0, <1>5, <2>1, <2>2, QuietIInv DEF GiveUp, Return, TypeOK
  <1>6. ASSUME NEW c \in Calls, pc[c] = "locked", CommitRows(c),
               NEW r \in {0, read[c].last_seq + 1}, Return(c, r),
               UNCHANGED <<attempt, key, read>>
        PROVE  IInv'
    <2>1. /\ events' \in Seq(Log!Rows)
          /\ Len(events') = Len(events) + 1
          /\ read[c].last_seq = Len(events)
          /\ \A i \in 1..Len(events) : events'[i] = events[i]
          /\ events'[Len(events) + 1].body = c
          /\ head' = [last_seq |-> Len(events'), last_signature |-> Log!LastSig(events')]
          /\ head' \in Heads
          /\ lock = c /\ lock' = NoCall
          /\ ChainIntact'
      BY <1>6, CommitAppends
    <2>2. Len(events) \in Nat /\ \A i \in 1..Len(events) : events[i].body \in Calls
      BY <1>0, BodiesAreCalls DEF TypeOK
    <2>3. TypeOK'
      BY <1>0, <1>6, <2>1, <2>2 DEF TypeOK, Return
    <2>4. LockProtectsHead'
      BY <1>0, <1>6, <2>1 DEF LockProtectsHead, Return, TypeOK
    <2>5. HeadIsLast'
      BY <2>1 DEF HeadIsLast, Log!LastSig
    <2>6. CommittedIsDone'
      <3>1. pc' = [pc EXCEPT ![c] = "done"] /\ pc \in [Calls -> {"idle", "begin", "locked", "done"}]
        BY <1>0, <1>6 DEF Return, TypeOK
      <3>2. ASSUME NEW i \in 1..Len(events) PROVE pc'[events'[i].body] = "done"
        BY <3>1, <2>1, <2>2 DEF IInv, CommittedIsDone
      <3>3. pc'[events'[Len(events) + 1].body] = "done"
        BY <3>1, <2>1
      <3> QED BY <3>2, <3>3, <2>1, <2>2 DEF CommittedIsDone
    <2>7. \A i \in 1..Len(events) : events[i].body # c
      BY <1>6 DEF IInv, CommittedIsDone
    <2>8. AppendedAtMostOnce'
      BY <2>1, <2>2, <2>7 DEF IInv, AppendedAtMostOnce
    <2>9. ReturnedSeqIsCommitted'
      <3>1. returned' = [returned EXCEPT ![c] = r] /\ returned \in [Calls -> Nat]
        BY <1>0, <1>6 DEF Return, TypeOK
      <3>2. ASSUME NEW d \in Calls, returned'[d] # 0
            PROVE  returned'[d] \in 1..Len(events') /\ events'[returned'[d]].body = d
        <4>1. CASE d = c
          BY <4>1, <3>1, <3>2, <1>6, <2>1, <2>2
        <4>2. CASE d # c
          <5>1. returned[d] \in 1..Len(events) /\ events[returned[d]].body = d
            BY <4>2, <3>1, <3>2 DEF IInv, ReturnedSeqIsCommitted
          <5> QED BY <5>1, <4>2, <3>1, <2>1, <2>2
        <4> QED BY <4>1, <4>2
      <3> QED BY <3>2 DEF ReturnedSeqIsCommitted
    <2> QED BY <2>1, <2>3, <2>4, <2>5, <2>6, <2>8, <2>9 DEF IInv
  <1>7. ASSUME NEW c \in Calls, Step(c) PROVE IInv'
    <2>1. CASE StatementFails(c)
      BY <2>1, <1>4, <1>5 DEF StatementFails
    <2>2. CASE Commit(c)
      BY <2>2, <1>6 DEF Commit
    <2>3. CASE CommitFails(c)
      BY <2>3, <1>4, <1>5, <1>6 DEF CommitFails
    <2> QED BY <1>7, <1>2, <1>3, <2>1, <2>2, <2>3 DEF Step
  <1>8. CASE UNCHANGED vars
    <2>1. TypeOK' /\ LockProtectsHead'
      BY <1>0, <1>8 DEF vars, TypeOK, LockProtectsHead
    <2> QED BY <1>8, <2>1, QuietIInv DEF vars
  <1> QED
    BY <1>1, <1>7, <1>8 DEF Next

(***************************************************************************)
(* In every behaviour of the append transactions the committed log is one  *)
(* unbroken, contiguous hash chain.                                        *)
(***************************************************************************)
THEOREM LogChainIntact == Spec => []ChainIntact
  <1>1. IInv => ChainIntact
    BY DEF IInv
  <1> QED
    BY <1>1, InitIInv, NextIInv, PTL DEF Spec

(***************************************************************************)
(* append_signed_event commits its event at most once, and the seq it      *)
(* returns is that event's position.                                       *)
(***************************************************************************)
THEOREM AppendOnceAndReported ==
    Spec => []AppendedOnceAsReported
  <1>1. IInv => AppendedOnceAsReported
    BY DEF IInv, AppendedOnceAsReported
  <1> QED
    BY <1>1, InitIInv, NextIInv, PTL DEF Spec

(***************************************************************************)
(* The transactions implement the abstract signed log: each step of an     *)
(* append is one AppendEvent or leaves the committed events unchanged.     *)
(***************************************************************************)
THEOREM EventLogImplementsSignedLog == Spec => ImplementsSignedLog
  <1>1. Init => Log!Init
    BY DEF Init, Log!Init
  <1>2. IInv /\ [Next]_vars => [Log!Next]_events
    <2> SUFFICES ASSUME IInv, [Next]_vars, events' # events PROVE Log!Next
      OBVIOUS
    <2>1. PICK c \in Calls : pc[c] = "locked" /\ CommitRows(c)
      BY DEF Next, vars, Call, Step, BeginFails, LockHead, StatementFails, Retry, GiveUp,
             Commit, CommitFails
    <2>2. events' = Log!AppendTo(events, key[c], c) /\ key[c] \in SigningKeys
      BY <2>1, CommitAppends
    <2> QED
      BY <2>2 DEF Log!Next, Log!AppendEvent
  <1> QED
    BY <1>1, <1>2, InitIInv, NextIInv, PTL DEF Spec, ImplementsSignedLog, Log!Spec
=============================================================================
