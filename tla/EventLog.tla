------------------------------ MODULE EventLog -------------------------------
(***************************************************************************)
(* The seed's event log as the MySQL repository appends to it              *)
(* (append_signed_event and append_signed_event_in_tx in db.rs).  Many     *)
(* request handlers append at once; each runs a transaction that locks the *)
(* single chain-head row, derives the next seq and prev_hash from it,      *)
(* inserts the event, moves the head and commits.  A transaction may fail  *)
(* at any of those points, is retried when the failure is transient, and a *)
(* failed COMMIT may or may not have been applied.                         *)
(*                                                                         *)
(* A call is one invocation of append_signed_event and is made once.       *)
(***************************************************************************)
EXTENDS Naturals, Sequences

CONSTANTS
    Calls,          \* invocations of append_signed_event
    SigningKeys,    \* the keys a call may sign with
    NoSig,          \* NULL
    NoCall,         \* nobody holds the lock on the chain-head row
    ATTEMPTS        \* transactions a call tries: 3 in the code

ASSUME NoCallAssumption == NoCall \notin Calls
ASSUME AttemptsAssumption == ATTEMPTS \in Nat \ {0}

VARIABLES
    events,         \* committed rows of node_events
    head,           \* the committed row of node_event_chain_heads
    lock,           \* the call whose transaction holds FOR UPDATE on it
    pc,             \* pc[c]: where call c is
    attempt,        \* attempt[c]: the transaction it is in, from 0
    key,            \* key[c]: the key it signs with
    read,           \* read[c]: the head its transaction read under the lock
    returned        \* returned[c]: 0 for None, the seq for Some(seq)

vars == <<events, head, lock, pc, attempt, key, read, returned>>

Log == INSTANCE SignedLog WITH Bodies <- Calls

-----------------------------------------------------------------------------

GenesisHead == [last_seq |-> 0, last_signature |-> NoSig]

Init ==
    /\ events = << >>
    /\ head = GenesisHead
    /\ lock = NoCall
    /\ pc = [c \in Calls |-> "idle"]
    /\ attempt = [c \in Calls |-> 0]
    /\ key \in [Calls -> SigningKeys]
    /\ read = [c \in Calls |-> GenesisHead]
    /\ returned = [c \in Calls |-> 0]

(***************************************************************************)
(* A handler calls append_signed_event.                                    *)
(***************************************************************************)
Call(c) ==
    /\ pc[c] = "idle"
    /\ pc' = [pc EXCEPT ![c] = "begin"]
    /\ UNCHANGED <<events, head, lock, attempt, key, read, returned>>

Unlock(c) == IF lock = c THEN NoCall ELSE lock

Return(c, result) ==
    /\ pc' = [pc EXCEPT ![c] = "done"]
    /\ returned' = [returned EXCEPT ![c] = result]

(***************************************************************************)
(* pool.begin() fails: no retry, the call returns None.                    *)
(***************************************************************************)
BeginFails(c) ==
    /\ pc[c] = "begin"
    /\ Return(c, 0)
    /\ UNCHANGED <<events, head, lock, attempt, key, read>>

(***************************************************************************)
(* Faulty variant: a plain SELECT of the head, without FOR UPDATE.         *)
(***************************************************************************)
ReadHeadUnlocked(c) ==
    /\ pc[c] = "begin"
    /\ pc' = [pc EXCEPT ![c] = "locked"]
    /\ read' = [read EXCEPT ![c] = head]
    /\ UNCHANGED <<events, head, lock, attempt, key, returned>>

(***************************************************************************)
(* SELECT ... FOR UPDATE: waits for the row lock, then reads the head.     *)
(***************************************************************************)
LockHead(c) ==
    /\ pc[c] = "begin"
    /\ lock = NoCall
    /\ lock' = c
    /\ pc' = [pc EXCEPT ![c] = "locked"]
    /\ read' = [read EXCEPT ![c] = head]
    /\ UNCHANGED <<events, head, attempt, key, returned>>

(* Faulty variant: the attempts of a call are not counted. *)
RetryUncounted(c) ==
    /\ pc' = [pc EXCEPT ![c] = "begin"]
    /\ lock' = Unlock(c)
    /\ UNCHANGED <<events, head, attempt, key, read, returned>>

(***************************************************************************)
(* The transaction is rolled back.  A transient error (lock wait timeout,  *)
(* deadlock) starts the next attempt while one is left; any other error    *)
(* ends the call with None.                                                *)
(***************************************************************************)
Retry(c) ==
    /\ attempt[c] + 1 < ATTEMPTS
    /\ pc' = [pc EXCEPT ![c] = "begin"]
    /\ attempt' = [attempt EXCEPT ![c] = @ + 1]
    /\ lock' = Unlock(c)
    /\ UNCHANGED <<events, head, key, read, returned>>

GiveUp(c) ==
    /\ Return(c, 0)
    /\ lock' = Unlock(c)
    /\ UNCHANGED <<events, head, attempt, key, read>>

StatementFails(c) ==
    /\ pc[c] \in {"begin", "locked"}
    /\ Retry(c) \/ GiveUp(c)

(***************************************************************************)
(* The rows the transaction wrote become visible and its lock is released. *)
(***************************************************************************)
CommitRows(c) ==
    LET seq == read[c].last_seq + 1 IN
    /\ events' = Append(events,
                        Log!EventRow(key[c], c, seq, read[c].last_signature))
    /\ head' = [last_seq |-> seq,
                last_signature |-> Log!sign_event(key[c], c, seq)]
    /\ lock' = Unlock(c)

Commit(c) ==
    /\ pc[c] = "locked"
    /\ CommitRows(c)
    /\ Return(c, read[c].last_seq + 1)
    /\ UNCHANGED <<attempt, key, read>>

(***************************************************************************)
(* Faulty variant: an ambiguous COMMIT is retried although it was applied. *)
(***************************************************************************)
RetryCommitted(c) ==
    /\ pc[c] = "locked"
    /\ \/ Retry(c)
       \/ GiveUp(c)
       \/ /\ CommitRows(c)
          /\ attempt[c] + 1 < ATTEMPTS
          /\ pc' = [pc EXCEPT ![c] = "begin"]
          /\ attempt' = [attempt EXCEPT ![c] = @ + 1]
          /\ UNCHANGED <<key, read, returned>>

(***************************************************************************)
(* COMMIT returns an error.  A transient one says the transaction was      *)
(* rolled back and is retried; after any other (a lost connection) the     *)
(* rows may be committed all the same, and the call returns None.          *)
(***************************************************************************)
CommitFails(c) ==
    /\ pc[c] = "locked"
    /\ \/ Retry(c)
       \/ GiveUp(c)
       \/ /\ CommitRows(c)
          /\ Return(c, 0)
          /\ UNCHANGED <<attempt, key, read>>

Step(c) ==
    \/ BeginFails(c)
    \/ LockHead(c)
    \/ StatementFails(c)
    \/ Commit(c)
    \/ CommitFails(c)

Done == \A c \in Calls : pc[c] = "done"

Next ==
    \/ \E c \in Calls : Call(c) \/ Step(c)
    \/ Done /\ UNCHANGED vars

(***************************************************************************)
(* The database answers every statement, with success or with an error, so *)
(* a transaction never stays where it is: weak fairness of Step.           *)
(***************************************************************************)
Fairness == \A c \in Calls : WF_vars(Step(c))

Spec == Init /\ [][Next]_vars
FairSpec == Spec /\ Fairness

-----------------------------------------------------------------------------

Heads == [last_seq : Nat, last_signature : Log!Sigs \cup {NoSig}]

TypeOK ==
    /\ events \in Seq(Log!Rows)
    /\ head \in Heads
    /\ lock \in Calls \cup {NoCall}
    /\ pc \in [Calls -> {"idle", "begin", "locked", "done"}]
    /\ attempt \in [Calls -> 0..ATTEMPTS - 1]
    /\ key \in [Calls -> SigningKeys]
    /\ read \in [Calls -> Heads]
    /\ returned \in [Calls -> Nat]

(***************************************************************************)
(* Whatever the interleaving of appends, failures and retries, the         *)
(* committed rows form one unbroken chain: seq is the position and         *)
(* prev_hash links to the predecessor's signature.  This is what a tailing *)
(* replica checks event by event.                                          *)
(***************************************************************************)
ChainIntact == Log!ChainIntact

(***************************************************************************)
(* append_signed_event commits its event at most once, although it tries   *)
(* up to ATTEMPTS transactions and a COMMIT may fail after being applied.  *)
(***************************************************************************)
AppendedAtMostOnce ==
    \A i, j \in 1..Len(events) : events[i].body = events[j].body => i = j

(***************************************************************************)
(* A seq that append_signed_event returned is the position of the caller's *)
(* own event in the log.                                                   *)
(***************************************************************************)
ReturnedSeqIsCommitted ==
    \A c \in Calls : returned[c] # 0 =>
        /\ returned[c] \in 1..Len(events)
        /\ events[returned[c]].body = c

(***************************************************************************)
(* append_signed_event appends its event at most once and reports the seq  *)
(* it committed, however its attempts fail and other calls come between.   *)
(***************************************************************************)
AppendedOnceAsReported == AppendedAtMostOnce /\ ReturnedSeqIsCommitted

(***************************************************************************)
(* The transactions implement the abstract log: every step appends one     *)
(* signed, linked event or leaves the log alone.                           *)
(***************************************************************************)
ImplementsSignedLog == Log!Spec

(***************************************************************************)
(* No append is stuck behind the chain-head lock or retried for ever:      *)
(* every call of append_signed_event returns to its handler.               *)
(***************************************************************************)
EveryCallReturns == \A c \in Calls : pc[c] = "begin" ~> pc[c] = "done"
=============================================================================
