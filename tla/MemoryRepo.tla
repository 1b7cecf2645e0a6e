---------------------------- MODULE MemoryRepo ----------------------------
(***************************************************************************)
(* The in-memory repository of a directory without a database (src/repo.rs *)
(* InMemoryRepo): every table has a mutex of its own, and a call that needs*)
(* two tables takes their locks one after the other, so that other calls   *)
(* come between what is one transaction in MySQL.                          *)
(*                                                                         *)
(* Each action is what a call does while it holds a lock; a call that goes *)
(* on is kept in call[c].  The three parts, operators with their nodes,    *)
(* replicas, and heartbeats, share no table.                               *)
(***************************************************************************)
EXTENDS Integers, Sequences, FiniteSets

CONSTANTS Calls,          \* concurrent calls
          Keys, Nodes,    \* operators and their nodes
          Replicas,       \* replica ids, one for each DID
          MaxLines,       \* bound on operators that are not successors
          MaxTokens,      \* bound on replica tokens
          MaxEvents,      \* bound on the event log
          MaxBatches,     \* bound on heartbeats with metrics, and on challenges
          None

VARIABLES
  call,       \* what each call has yet to do
  operators, records, lines,            \* operators, nodes, operator rows inserted so far
  replicas, tombs, hashes, held,        \* replicas, decommissioned_replicas, token hashes, and who
                                        \* keeps the first two of these locked between its steps
  events, tokens,                       \* the event log, replica tokens issued so far
  node, challenge, issued, batch, sent, \* a node's HMAC key and tasks, its challenge, the challenges
                                        \* issued, the last batch, and the client's batch
  overtaken,  \* history: keys that another call changed between two locks of a call
  late,       \* history: nodes that were bound to a key when its identity had ended
  forgotten,  \* history: keys anonymized and not used since
  doomed,     \* history: tokens stored before a decommission that has completed
  mixed,      \* history: replicas of which two calls were under way at once
  answered,   \* history: how often each challenge was answered with success
  reported    \* history: batches first reported since the node registered

identityVars == <<operators, records, lines, overtaken, late, forgotten>>
replicaVars == <<replicas, tombs, hashes, held, events, tokens, doomed, mixed>>
beatVars == <<node, challenge, issued, batch, sent, answered, reported>>
vars == <<call, identityVars, replicaVars, beatVars>>

OperatorRows == [status : {"active", "rotated", "revoked"}, line : 1..MaxLines, named : BOOLEAN, accepted : BOOLEAN]
NodeRecords == [operator : Keys \cup {None}, verified : BOOLEAN, available : BOOLEAN, manifest : BOOLEAN]
Locks == {"replicas", "decommissioned"}

Init ==
  /\ call = [c \in Calls |-> None]
  /\ operators = [k \in Keys |-> None] /\ records = [n \in Nodes |-> None] /\ lines = 0
  /\ replicas = {} /\ tombs = {} /\ hashes = [r \in Replicas |-> None] /\ held = [l \in Locks |-> None]
  /\ events = <<>> /\ tokens = 0
  /\ node = None /\ challenge = None /\ issued = 0 /\ batch = None /\ sent = 0
  /\ overtaken = {} /\ late = {} /\ forgotten = {} /\ doomed = {} /\ mixed = {}
  /\ answered = [i \in 1..MaxBatches |-> 0] /\ reported = 0

Goes(c, next) == call' = [call EXCEPT ![c] = next]
Is(c, pc) == call[c] # None /\ call[c].pc = pc
Active(k) == operators[k] # None /\ operators[k].status = "active"

---------------------------------------------------------------------------
\* Operators and their nodes.

\* Calls between two locks that will write key k, or that are forgetting it.
Binding(k) == \E c \in Calls, pc \in {"rebind", "register", "operator"} : Is(c, pc) /\ call[c].to = k
Forgetting(k) == \E c \in Calls : call[c] # None /\ call[c].pc \in {"clear", "nodes", "remove", "insert"} /\ call[c].key = k
Overtaking(k, yes) == overtaken' = IF yes THEN overtaken \cup {k} ELSE overtaken
\* Nodes are bound to key k, whose identity may have ended.
Ended(k) == k # None /\ operators[k] # None /\ ~Active(k)
Bound(nodes, k) == late' = IF Ended(k) THEN late \cup nodes ELSE late \ nodes

\* The handler of a registration, which may come without an operator: the identity is found
\* active or unknown, then the record is written, whatever has become of the identity, and
\* then the operator's row, of which an existing one only takes the name, if there is one.
CheckIdentity(c, n, k) ==
  /\ call[c] = None
  /\ k # None => operators[k] = None \/ Active(k)
  /\ forgotten' = forgotten \ {k}
  /\ Overtaking(k, k # None /\ Forgetting(k))
  /\ Goes(c, [pc |-> "register", node |-> n, to |-> k])
  /\ UNCHANGED <<operators, records, lines, late, replicaVars, beatVars>>
Register(c) ==
  /\ Is(c, "register")
  /\ LET n == call[c].node  k == call[c].to
     IN /\ records' = [records EXCEPT ![n] = [operator |-> k, verified |-> k # None, available |-> TRUE, manifest |-> TRUE]]
        /\ Bound({n}, k)
        /\ Goes(c, IF k = None THEN None ELSE [pc |-> "operator", to |-> k])
  /\ UNCHANGED <<operators, lines, overtaken, forgotten, replicaVars, beatVars>>
upsert_operator(c, name) ==
  /\ Is(c, "operator")
  /\ LET k == call[c].to
     IN IF operators[k] = None
        THEN /\ lines < MaxLines
             /\ lines' = lines + 1
             /\ operators' = [operators EXCEPT ![k] = [status |-> "active", line |-> lines + 1, named |-> name, accepted |-> FALSE]]
        ELSE operators' = [operators EXCEPT ![k].named = name \/ @] /\ UNCHANGED lines
  /\ Goes(c, None)
  /\ UNCHANGED <<records, overtaken, late, forgotten, replicaVars, beatVars>>
Deregister(n) ==
  /\ records[n] # None
  /\ records' = [records EXCEPT ![n] = None]
  /\ late' = late \ {n}
  /\ UNCHANGED <<call, operators, lines, overtaken, forgotten, replicaVars, beatVars>>
rename_operator(k) ==
  /\ Active(k) /\ ~operators[k].named
  /\ operators' = [operators EXCEPT ![k].named = TRUE]
  /\ UNCHANGED <<call, records, lines, overtaken, late, forgotten, replicaVars, beatVars>>
accept_operator_governance(k) ==
  /\ Active(k) /\ ~operators[k].accepted
  /\ operators' = [operators EXCEPT ![k].accepted = TRUE]
  /\ UNCHANGED <<call, records, lines, overtaken, late, forgotten, replicaVars, beatVars>>

\* rotate_operator_identity: the operators, and then the nodes.
Succeeded(k, s) == [operators EXCEPT ![s] = operators[k], ![k].status = "rotated"]
Rotate(c, k, s) ==
  /\ call[c] = None /\ k # s /\ Active(k) /\ operators[s] = None
  /\ operators' = Succeeded(k, s)
  /\ forgotten' = forgotten \ {s}
  /\ overtaken' = overtaken \cup {x \in {k} : Binding(x)} \cup {x \in {s} : Forgetting(x)}
  /\ Goes(c, [pc |-> "rebind", from |-> k, to |-> s])
  /\ UNCHANGED <<records, lines, late, replicaVars, beatVars>>
Linked(n, k) == records[n] # None /\ records[n].operator = k
Rebind(c) ==
  /\ Is(c, "rebind")
  /\ records' = [n \in Nodes |-> IF Linked(n, call[c].from)
                                 THEN [records[n] EXCEPT !.operator = call[c].to, !.verified = TRUE, !.manifest = FALSE]
                                 ELSE records[n]]
  /\ Bound({n \in Nodes : Linked(n, call[c].from)}, call[c].to)
  /\ Goes(c, None)
  /\ UNCHANGED <<operators, lines, overtaken, forgotten, replicaVars, beatVars>>

\* revoke_operator_identity, likewise.
Revoke(c, k) ==
  /\ call[c] = None /\ Active(k)
  /\ operators' = [operators EXCEPT ![k].status = "revoked"]
  /\ Overtaking(k, Binding(k))
  /\ Goes(c, [pc |-> "unverify", key |-> k])
  /\ UNCHANGED <<records, lines, late, forgotten, replicaVars, beatVars>>
Unverified(r) == [r EXCEPT !.verified = FALSE, !.manifest = FALSE]
Unverify(c) ==
  /\ Is(c, "unverify")
  /\ records' = [n \in Nodes |-> IF Linked(n, call[c].key) THEN Unverified(records[n]) ELSE records[n]]
  /\ Goes(c, None)
  /\ UNCHANGED <<operators, lines, overtaken, late, forgotten, replicaVars, beatVars>>

\* operator_dsr: the operator is looked up and its nodes listed; an export ends there.
Dsr(c, k, action) ==
  /\ call[c] = None /\ Active(k)
  /\ Goes(c, [pc |-> "clear", key |-> k, action |-> action, row |-> None])
  /\ UNCHANGED <<identityVars, replicaVars, beatVars>>
\* clear_in_memory_operator_subject: an operator that has gone meanwhile is an error.
ClearOperator(c) ==
  /\ Is(c, "clear")
  /\ IF operators[call[c].key] = None
     THEN UNCHANGED operators /\ Goes(c, None)
     ELSE /\ operators' = [operators EXCEPT ![call[c].key].named = FALSE, ![call[c].key].accepted = FALSE]
          /\ Goes(c, [call[c] EXCEPT !.pc = "nodes"])
  /\ UNCHANGED <<records, lines, overtaken, late, forgotten, replicaVars, beatVars>>
\* clear_in_memory_node_subjects
Cleared(r, action) == IF action = "anonymize" THEN [r EXCEPT !.available = FALSE, !.operator = None, !.verified = FALSE]
                                              ELSE [r EXCEPT !.available = FALSE]
ClearNodes(c) ==
  /\ Is(c, "nodes")
  /\ records' = [n \in Nodes |-> IF Linked(n, call[c].key) THEN Cleared(records[n], call[c].action) ELSE records[n]]
  /\ Goes(c, IF call[c].action = "anonymize" THEN [call[c] EXCEPT !.pc = "remove"] ELSE None)
  /\ Overtaking(call[c].key, Binding(call[c].key))
  /\ UNCHANGED <<operators, lines, late, forgotten, replicaVars, beatVars>>
\* anonymize_in_memory_operator: the row is taken out, and put back, restricted, under a
\* name derived from the request, by which no call will find it.
RemoveOperator(c) ==
  /\ Is(c, "remove")
  /\ operators' = [operators EXCEPT ![call[c].key] = None]
  /\ Goes(c, IF operators[call[c].key] = None THEN None ELSE [call[c] EXCEPT !.pc = "insert"])
  /\ UNCHANGED <<records, lines, overtaken, late, forgotten, replicaVars, beatVars>>
InsertAnonymized(c) ==
  /\ Is(c, "insert")
  /\ forgotten' = forgotten \cup {call[c].key}
  /\ Goes(c, None)
  /\ UNCHANGED <<operators, records, lines, overtaken, late, replicaVars, beatVars>>

IdentityNext ==
  \/ \E n \in Nodes : Deregister(n) \/ \E c \in Calls, k \in Keys \cup {None} : CheckIdentity(c, n, k)
  \/ \E k \in Keys : rename_operator(k) \/ accept_operator_governance(k)
  \/ \E c \in Calls : \/ Register(c) \/ (\E name \in BOOLEAN : upsert_operator(c, name))
                      \/ Rebind(c) \/ Unverify(c) \/ ClearOperator(c) \/ ClearNodes(c)
                      \/ RemoveOperator(c) \/ InsertAnonymized(c)
                      \/ \E k \in Keys : \/ Revoke(c, k) \/ \E s \in Keys : Rotate(c, k, s)
                                         \/ \E a \in {"restrict", "anonymize"} : Dsr(c, k, a)

---------------------------------------------------------------------------
\* Replicas, as the federation handlers use them.

Free(l) == held[l] = None
About(c, r) == call[c] # None /\ call[c].pc \in {"untomb", "check", "hash", "unhash", "tomb", "log"} /\ call[c].replica = r
Mixing(r) == mixed' = IF \E c \in Calls : About(c, r) THEN mixed \cup {r} ELSE mixed
Step(pc, r) == [pc |-> pc, replica |-> r]

\* upsert_replica keeps the replicas locked while it waits for the tombstones.
UpsertRow(c, r) ==
  /\ call[c] = None /\ Free("replicas") /\ Len(events) < MaxEvents
  /\ replicas' = replicas \cup {r}
  /\ held' = [held EXCEPT !["replicas"] = c]
  /\ Mixing(r)
  /\ Goes(c, Step("untomb", r))
  /\ UNCHANGED <<identityVars, tombs, hashes, events, tokens, doomed, beatVars>>
Released(l) == [held EXCEPT ![l] = None]
Untomb(c) ==
  /\ Is(c, "untomb") /\ Free("decommissioned")
  /\ tombs' = tombs \ {call[c].replica}
  /\ held' = Released("replicas")
  /\ Goes(c, Step("check", call[c].replica))
  /\ UNCHANGED <<identityVars, replicas, hashes, events, tokens, doomed, mixed, beatVars>>
\* set_replica_token_hash: the row, and then the hash of a new token.
CheckRow(c) ==
  /\ Is(c, "check") /\ Free("replicas")
  /\ Goes(c, IF call[c].replica \in replicas THEN Step("hash", call[c].replica) ELSE None)
  /\ UNCHANGED <<identityVars, replicaVars, beatVars>>
SetHash(c) ==
  /\ Is(c, "hash") /\ tokens < MaxTokens
  /\ tokens' = tokens + 1
  /\ hashes' = [hashes EXCEPT ![call[c].replica] = tokens + 1]
  /\ Goes(c, [pc |-> "log", replica |-> call[c].replica, kind |-> "REPLICA_REGISTERED"])
  /\ UNCHANGED <<identityVars, replicas, tombs, held, events, doomed, mixed, beatVars>>

\* decommission_replica_with_event: the row, the hash, the tombstone, the event.
Decommission(c, r) ==
  /\ call[c] = None /\ Free("replicas") /\ r \in replicas /\ Len(events) < MaxEvents
  /\ Mixing(r)
  /\ Goes(c, [pc |-> "unhash", replica |-> r, token |-> hashes[r]])
  /\ UNCHANGED <<identityVars, replicas, tombs, hashes, held, events, tokens, doomed, beatVars>>
M_Unhashed(r) == hashes
Unhashed(r) == [hashes EXCEPT ![r] = None]
RemoveHash(c) ==
  /\ Is(c, "unhash")
  /\ hashes' = Unhashed(call[c].replica)
  /\ Goes(c, [call[c] EXCEPT !.pc = "tomb"])
  /\ UNCHANGED <<identityVars, replicas, tombs, held, events, tokens, doomed, mixed, beatVars>>
Tombstone(c) ==
  /\ Is(c, "tomb") /\ Free("decommissioned")
  /\ tombs' = tombs \cup {call[c].replica}
  /\ doomed' = doomed \cup ({call[c].token} \ {None})
  /\ Goes(c, [pc |-> "log", replica |-> call[c].replica, kind |-> "REPLICA_DEREGISTERED"])
  /\ UNCHANGED <<identityVars, replicas, hashes, held, events, tokens, mixed, beatVars>>
\* append_signed_event numbers an event by the length of the log.
Appended(e) == Append(events, e)
AppendEvent(c) ==
  /\ Is(c, "log") /\ Len(events) < MaxEvents
  /\ events' = Appended([replica |-> call[c].replica, kind |-> call[c].kind])
  /\ Goes(c, None)
  /\ UNCHANGED <<identityVars, replicas, tombs, hashes, held, tokens, doomed, mixed, beatVars>>

\* all_replicas keeps the tombstones locked while it waits for the replicas.
List(c) ==
  /\ call[c] = None /\ Free("decommissioned")
  /\ held' = [held EXCEPT !["decommissioned"] = c]
  /\ Goes(c, [pc |-> "list"])
  /\ UNCHANGED <<identityVars, replicas, tombs, hashes, events, tokens, doomed, mixed, beatVars>>
ListRows(c) ==
  /\ Is(c, "list") /\ Free("replicas")
  /\ held' = Released("decommissioned")
  /\ Goes(c, None)
  /\ UNCHANGED <<identityVars, replicas, tombs, hashes, events, tokens, doomed, mixed, beatVars>>

\* replica_is_active looks at the replicas, and then, with that lock released, at the tombstones.
LookForRow(c, r) ==
  /\ call[c] = None /\ Free("replicas") /\ r \in replicas
  /\ Goes(c, [pc |-> "look"])
  /\ UNCHANGED <<identityVars, replicaVars, beatVars>>
LookForTomb(c) ==
  /\ Is(c, "look") /\ Free("decommissioned")
  /\ Goes(c, None)
  /\ UNCHANGED <<identityVars, replicaVars, beatVars>>

\* A token is accepted: replica_is_active and replica_token_hash.
Accepted(r, token) == r \in replicas /\ r \notin tombs /\ hashes[r] = token

GoesOn(c) == Untomb(c) \/ CheckRow(c) \/ SetHash(c) \/ RemoveHash(c) \/ Tombstone(c) \/ AppendEvent(c) \/ ListRows(c)
             \/ LookForTomb(c)
ReplicaNext == \E c \in Calls : GoesOn(c) \/ List(c) \/ \E r \in Replicas : UpsertRow(c, r) \/ Decommission(c, r) \/ LookForRow(c, r)

---------------------------------------------------------------------------
\* Heartbeats of one node, which registers with one of two HMAC keys.

HmacKeys == 0..1
Enroll(k) ==
  /\ node' = [key |-> k, tasks |-> 0]
  /\ reported' = 0
  /\ UNCHANGED <<call, identityVars, replicaVars, challenge, issued, batch, sent, answered>>
Withdraw ==
  /\ node # None
  /\ node' = None
  /\ UNCHANGED <<call, identityVars, replicaVars, challenge, issued, batch, sent, answered, reported>>

\* heartbeat with the client's batch, or the next one: the last batch is remembered.
Counts(b) == batch # b
Heartbeat(b) ==
  /\ node # None /\ b \in {sent, sent + 1} /\ b \in 1..MaxBatches
  /\ node' = IF Counts(b) THEN [node EXCEPT !.tasks = @ + 1] ELSE node
  /\ batch' = b /\ sent' = b
  /\ reported' = IF b > sent \/ reported = 0 THEN reported + 1 ELSE reported
  /\ UNCHANGED <<call, identityVars, replicaVars, challenge, issued, answered>>

\* verify_and_rotate_liveness_challenge: the node's key is read, and then the challenge
\* checked and replaced.  A response is made of a key and a challenge.
ReadKey(c, response) ==
  /\ call[c] = None /\ node # None
  /\ Goes(c, [pc |-> "verify", key |-> node.key, response |-> response])
  /\ UNCHANGED <<identityVars, replicaVars, beatVars>>
Verified(c) == challenge # None /\ call[c].response = <<call[c].key, challenge>>
NextChallenge(c) == issued + 1
RotateChallenge(c) ==
  /\ Is(c, "verify") /\ issued < MaxBatches
  /\ challenge' = NextChallenge(c)
  /\ issued' = issued + 1
  /\ answered' = IF Verified(c) THEN [answered EXCEPT ![challenge] = @ + 1] ELSE answered
  /\ Goes(c, None)
  /\ UNCHANGED <<identityVars, replicaVars, node, batch, sent, reported>>

BeatNext == \/ Withdraw \/ (\E k \in HmacKeys : Enroll(k)) \/ \E b \in 1..MaxBatches : Heartbeat(b)
            \/ \E c \in Calls : RotateChallenge(c) \/ \E r \in HmacKeys \X (1..MaxBatches) : ReadKey(c, r)

Next == IdentityNext \/ ReplicaNext \/ BeatNext
Spec == Init /\ [][Next]_vars

---------------------------------------------------------------------------
\* What a call keeps between two locks.
IdentityCalls ==
  [pc : {"register"}, node : Nodes, to : Keys \cup {None}] \cup [pc : {"operator"}, to : Keys]
    \cup [pc : {"rebind"}, from : Keys, to : Keys] \cup [pc : {"unverify"}, key : Keys]
    \cup [pc : {"clear", "nodes", "remove", "insert"}, key : Keys, action : {"restrict", "anonymize"}, row : {None}]
ReplicaCalls ==
  [pc : {"untomb", "check", "hash"}, replica : Replicas] \cup [pc : {"list", "look"}]
    \cup [pc : {"unhash", "tomb"}, replica : Replicas, token : 1..MaxTokens \cup {None}]
    \cup [pc : {"log"}, replica : Replicas, kind : {"REPLICA_REGISTERED", "REPLICA_DEREGISTERED"}]
BeatCalls == [pc : {"verify"}, key : HmacKeys, response : HmacKeys \X (1..MaxBatches)]

TypeOK ==
  /\ call \in [Calls -> IdentityCalls \cup ReplicaCalls \cup BeatCalls \cup {None}]
  /\ \A k \in Keys : operators[k] # None => operators[k] \in OperatorRows
  /\ \A n \in Nodes : records[n] # None => records[n] \in NodeRecords
  /\ lines \in 0..MaxLines /\ tokens \in 0..MaxTokens /\ issued \in 0..MaxBatches /\ sent \in 0..MaxBatches
  /\ replicas \subseteq Replicas /\ tombs \subseteq replicas /\ hashes \in [Replicas -> 1..MaxTokens \cup {None}]
  /\ held \in [Locks -> Calls \cup {None}] /\ Len(events) \in 0..MaxEvents
  /\ events \in Seq([replica : Replicas, kind : {"REPLICA_REGISTERED", "REPLICA_DEREGISTERED"}])
  /\ node # None => node \in [key : HmacKeys, tasks : 0..MaxBatches]

\* Once the call that ended an identity has returned, no node is shown as verified by it,
\* except the nodes that a registration or a rotation bound to it later, having found it
\* in force before: the ending of an identity reaches every other node, whatever is under
\* way, and an ended identity is refused to every call that begins later
\* (operator_identity_active, rotate_operator_identity, revoke_operator_identity).
NotVerifiedByEnded ==
  \A n \in Nodes : records[n] # None /\ records[n].verified /\ Ended(records[n].operator) =>
    LET k == records[n].operator
    IN \/ n \in late /\ k \in overtaken
       \/ \E c \in Calls : (Is(c, "rebind") /\ call[c].from = k) \/ (Is(c, "unverify") /\ call[c].key = k)

\* No identity has two active keys, however rotations, revocations and anonymizations of
\* it interleave (rotate_operator_identity: "Atomically rotate").
OneActiveKey == \A k, l \in Keys : Active(k) /\ Active(l) /\ operators[k].line = operators[l].line => k = l

\* Once an anonymization has returned nothing carries the key, unless it was used again or
\* a call that binds nodes to it was under way (apply_in_memory_dsr).
ForgottenIsGone ==
  \A k \in forgotten \ overtaken : operators[k] = None /\ \A n \in Nodes : records[n] # None => records[n].operator # k

\* A token that was stored when a decommission began is never accepted after it, also
\* when the replica registers again meanwhile (decommission_replica).
DoomedStayDoomed == \A r \in Replicas, t \in doomed : ~Accepted(r, t)

\* When no call is under way the last event of a replica tells whether it is active,
\* unless two calls about it overlapped (decommission_replica_with_event).
LastEvent(r, kind) ==
  \E i \in 1..Len(events) : /\ events[i].replica = r /\ events[i].kind = kind
                            /\ \A j \in (i + 1)..Len(events) : events[j].replica # r
LogTellsReplicas ==
  (\A c \in Calls : call[c] = None) =>
    \A r \in replicas \ mixed : LastEvent(r, IF r \in tombs THEN "REPLICA_DEREGISTERED" ELSE "REPLICA_REGISTERED")

\* Not every call about replicas waits for a lock, except when a listing and a
\* registration have each taken the lock the other waits for, which the code does not
\* prevent (all_replicas, upsert_replica).
Entangled == \E c, d \in Calls : Is(c, "list") /\ Is(d, "untomb")
Waits(c) ==
  \/ (Is(c, "untomb") \/ Is(c, "tomb") \/ Is(c, "look")) /\ ~Free("decommissioned")
  \/ (Is(c, "check") \/ Is(c, "list")) /\ ~Free("replicas")
DeadlockOnlyByListing ==
  (\E c \in Calls : Waits(c)) => Entangled \/ \E d \in Calls : call[d] # None /\ ~Waits(d)

\* A challenge is answered with success at most once ("A response can succeed at most
\* once", verify_and_rotate_liveness_challenge).
AnsweredOnce == \A i \in 1..MaxBatches : answered[i] <= 1

\* The tasks of a batch that is reported again are not counted again (heartbeat).
BatchCountedOnce == node # None => node.tasks <= reported

\* What the mutexes of the in-memory repository keep without transactions: identities that
\* ended verify only nodes that were bound too late, one key is active, forgotten keys and
\* decommissioned tokens are gone, the log tells which replicas are active, challenges and
\* batches count once, and calls wait for each other for ever only through a listing and a
\* registration (InMemoryRepo).
Safety == /\ TypeOK
          /\ NotVerifiedByEnded /\ OneActiveKey /\ ForgottenIsGone
          /\ DoomedStayDoomed /\ LogTellsReplicas /\ DeadlockOnlyByListing
          /\ AnsweredOnce /\ BatchCountedOnce
=============================================================================
