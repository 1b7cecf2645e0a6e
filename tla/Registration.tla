---------------------------- MODULE Registration ----------------------------
(***************************************************************************)
(* POST /v1/register as the steps of a handler (src/node_lifecycle.rs,     *)
(* src/registration.rs, src/registration_store.rs, src/delegation.rs):     *)
(* every repository call of the handler is a step, so that another         *)
(* registration, a deregistration, a heartbeat or an operator's            *)
(* self-service request may come between a check and the write it guards.  *)
(*                                                                         *)
(* A request that fails validation, the routability check, the dial-back   *)
(* probe or the rate limit is never started and is no step.                *)
(***************************************************************************)
EXTENDS OperatorIdentity

CONSTANTS Asks,          \* what registrations ask for
          StrictSecured, \* strict_e050_secured
          ReadsFail      \* whether reads may fail

AskRecords == [node : Nodes, endpoint : Endpoints, cx : CxKeys \cup {None}, key : Keys \cup {None},
               manifest : Keys \cup {None}, name : Names \cup {None}]

ASSUME RegistrationConstants ==
  Asks \subseteq AskRecords /\ StrictSecured \in BOOLEAN /\ ReadsFail \in BOOLEAN
ASSUME HandlersFinite == IsFiniteSet(Handlers)

Pcs == {"policy", "existing", "decide", "identity", "name", "persist", "upsert", "write"}
\* existing: the row the handler read; own: the token it was given verified;
\* dead: the old endpoint did not answer; found: upsert_operator saw a row.
\* History: since, the tokens issued when it read the row; blind, that read failed.
RegRequests == [pc : Pcs, ask : AskRecords, token : 0..MaxTokens, existing : NodeRows \cup {None},
                own : BOOLEAN, dead : BOOLEAN, found : BOOLEAN, since : 0..MaxTokens, blind : BOOLEAN]

Init ==
  /\ operators = [k \in Keys |-> None]
  /\ nodes = [n \in Nodes |-> None]
  /\ policyKey = [k \in Keys |-> "none"]
  /\ challenges = [c \in 1..MaxChallenges |-> None]
  /\ issued = 0
  /\ ledger = [t \in Tracking |-> None]
  /\ desk = [d \in Desks |-> Idle]
  /\ reg = [h \in Handlers |-> Idle]
  /\ tokens = 0
  /\ lines = 0
  /\ spent = [c \in 1..MaxChallenges |-> 0]
  /\ disturbed = {}
  /\ contended = {}

---------------------------------------------------------------------------
rest == <<policyKey, challenges, issued, ledger, desk, spent>>
tables == <<operators, nodes, tokens, lines, disturbed, contended, rest>>

\* A handler that has read nothing, or no longer uses what it read.
Asking(pc, ask, token) == [pc |-> pc, ask |-> ask, token |-> token, existing |-> None,
                           own |-> FALSE, dead |-> FALSE, found |-> FALSE, since |-> 0, blind |-> FALSE]

\* The handler of h goes on at pc, or ends.
Goto(h, pc) == reg' = [reg EXCEPT ![h].pc = pc]
End(h) == reg' = [reg EXCEPT ![h] = Idle]

\* register, up to the first repository call.  The client sends no token (0) or
\* one it was once given.
StartRegister(h, ask, token) ==
  /\ reg[h] = Idle
  /\ tokens < MaxTokens
  /\ reg' = [reg EXCEPT ![h] = Asking("policy", ask, token)]
  /\ UNCHANGED tables

\* policy_manifest_lifecycle_rejection: a key with a lifecycle record is not active.
CheckPolicyKey(h) ==
  LET k == reg[h].ask.manifest
  IN /\ reg[h].pc = "policy"
     /\ IF k = None \/ policyKey[k] = "none" THEN Goto(h, "existing") ELSE End(h)
     /\ UNCHANGED tables
\* registration_ownership_rejection reads the row; with no row there is nothing to own.
ReadExisting(h) ==
  /\ reg[h].pc = "existing"
  /\ LET row == nodes[reg[h].ask.node]
     IN reg' = [reg EXCEPT ![h].existing = row, ![h].pc = IF row = None THEN "identity" ELSE "decide",
                           ![h].token = IF row = None THEN 0 ELSE @, ![h].since = tokens]
  /\ UNCHANGED tables

\* verify_node_token, against the row as it is now.
verify_node_token(n, token) == nodes[n] # None /\ token # 0 /\ nodes[n].token = token

\* routing_change_allowed.  get does not select the stored cx_public_key, so a
\* node is secured by its operator only, and every request with a key changes it.
\* A changed transport or relay endpoint decides nothing and is left out.
endpoint_change_allowed(changed, own, alive) == ~changed \/ own \/ ~alive
M_routing_change_allowed(secured, changed, own, alive) == own \/ ~(StrictSecured /\ secured)
routing_change_allowed(secured, changed, own, alive) ==
  \/ own
  \/ ~(StrictSecured /\ secured) /\ endpoint_change_allowed(changed, own, alive)
\* The rest of registration_ownership_rejection: token, key and endpoint.  The old
\* endpoint is probed only if the answer matters.
DecideOwnership(h) ==
  LET q == reg[h]
      own == verify_node_token(q.ask.node, q.token)
      changed == q.existing.endpoint # q.ask.endpoint
      secured == q.existing.operator # None
      probed == changed /\ ~own /\ ~(StrictSecured /\ secured)
  IN /\ q.pc = "decide"
     /\ \E alive \in (IF probed THEN BOOLEAN ELSE {FALSE}) :
          IF (q.ask.cx = None \/ own) /\ routing_change_allowed(secured, changed, own, alive)
          THEN reg' = [reg EXCEPT ![h].pc = "identity", ![h].own = own, ![h].dead = probed /\ ~alive, ![h].token = 0]
          ELSE End(h)
     /\ UNCHANGED tables

\* delegation::evaluate has bound the key; an unknown operator passes, an inactive
\* one does not.
CheckIdentity(h) ==
  LET k == reg[h].ask.key
  IN /\ reg[h].pc = "identity"
     /\ IF k = None \/ operators[k] = None \/ Active(k) THEN Goto(h, "name") ELSE End(h)
     /\ UNCHANGED tables
\* operator_display_name_claimed_by_other: only active identities reserve a name.
claimed_by_other(k, name) == \E o \in Keys \ {k} : Active(o) /\ operators[o].name = name
CheckName(h) ==
  LET ask == reg[h].ask
  IN /\ reg[h].pc = "name"
     /\ IF ask.key # None /\ ask.name # None /\ claimed_by_other(ask.key, ask.name)
        THEN End(h) ELSE Goto(h, "persist")
     /\ UNCHANGED tables
\* upsert_node: every column but the reputation is replaced, with a fresh token.
UpsertNode(ask, token) ==
  [endpoint |-> ask.endpoint, token |-> token, cx |-> ask.cx, operator |-> ask.key,
   verified |-> ask.key # None, manifest |-> ask.manifest, public |-> TRUE]

\* commit_registration: the transaction, after which the token is the client's.
Persist(h) ==
  LET ask == reg[h].ask
  IN /\ reg[h].pc = "persist"
     /\ tokens < MaxTokens
     /\ tokens' = tokens + 1
     /\ nodes' = [nodes EXCEPT ![ask.node] = UpsertNode(ask, tokens + 1)]
     /\ reg' = [reg EXCEPT ![h] = IF ask.key = None THEN Idle ELSE Asking("upsert", ask, 0)]
     /\ UNCHANGED <<operators, lines, disturbed, contended, rest>>

\* upsert_operator: SELECT 1, and then UPDATE or INSERT in a second statement.  An
\* INSERT that meets a row fails, and the error is swallowed.
LookUpOperator(h) ==
  /\ reg[h].pc = "upsert"
  /\ reg' = [reg EXCEPT ![h].pc = "write", ![h].found = operators[reg[h].ask.key] # None]
  /\ UNCHANGED tables

\* A name that other registrations have checked as well is contended.
NamePending(h, name) ==
  \E g \in Handlers \ {h} : /\ reg[g].pc \in {"persist", "upsert", "write"}
                            /\ reg[g].ask.name = name /\ reg[g].ask.key # reg[h].ask.key
InsertOperator(name) == [status |-> "active", name |-> name, first_seen |-> lines + 1, accepted |-> FALSE]
WriteOperator(h) ==
  LET k == reg[h].ask.key
      name == reg[h].ask.name
      row == operators[k]
  IN /\ reg[h].pc = "write"
     /\ operators' = [operators EXCEPT ![k] = IF reg[h].found /\ row # None /\ name # None
                                               THEN [row EXCEPT !.name = name]
                                              ELSE IF ~reg[h].found /\ row = None THEN InsertOperator(name)
                                              ELSE row]
     /\ lines' = IF ~reg[h].found /\ row = None THEN lines + 1 ELSE lines
     /\ contended' = IF NamePending(h, name) THEN contended \cup {name} ELSE contended
     /\ End(h)
     /\ UNCHANGED <<nodes, tokens, disturbed, rest>>

\* A failing SELECT looks like an absent row to every check above, which then lets the
\* request pass; for upsert_operator it leads to an INSERT.
ReadFails(h) ==
  LET q == reg[h]
  IN /\ ReadsFail
     /\ \/ q.pc = "policy" /\ q.ask.manifest # None /\ Goto(h, "existing")
           /\ disturbed' = disturbed \cup {q.ask.manifest} /\ UNCHANGED contended
        \/ q.pc = "existing" /\ reg' = [reg EXCEPT ![h].pc = "identity", ![h].token = 0, ![h].blind = TRUE]
           /\ UNCHANGED <<disturbed, contended>>
        \/ q.pc = "identity" /\ q.ask.key # None /\ Goto(h, "name")
           /\ disturbed' = disturbed \cup {q.ask.key} /\ UNCHANGED contended
        \/ q.pc = "name" /\ q.ask.key # None /\ q.ask.name # None /\ Goto(h, "persist")
           /\ contended' = contended \cup {q.ask.name} /\ UNCHANGED disturbed
        \/ q.pc = "upsert" /\ reg' = [reg EXCEPT ![h].pc = "write"] /\ UNCHANGED <<disturbed, contended>>
     /\ UNCHANGED <<operators, nodes, tokens, lines, rest>>

\* A repository call fails or the client is gone.  A failed upsert_operator is
\* swallowed and leaves a verified node without its operator's row.
RegistrationFails(h) ==
  /\ reg[h] # Idle
  /\ End(h)
  /\ disturbed' = IF reg[h].pc \in {"upsert", "write"} THEN disturbed \cup {reg[h].ask.key} ELSE disturbed
  /\ UNCHANGED <<operators, nodes, tokens, lines, contended, rest>>

\* DELETE /v1/register by the holder of the token.
Deregister(n) ==
  /\ nodes[n] # None /\ nodes[n].token # 0
  /\ nodes' = [nodes EXCEPT ![n] = None]
  /\ UNCHANGED <<operators, reg, tokens, lines, disturbed, contended, rest>>

\* heartbeat_once makes a node that holds its token available again.
Heartbeat(n) ==
  /\ nodes[n] # None /\ nodes[n].token # 0 /\ ~nodes[n].public
  /\ nodes' = [nodes EXCEPT ![n].public = TRUE]
  /\ UNCHANGED <<operators, reg, tokens, lines, disturbed, contended, rest>>

Next ==
  \/ DeskStep
  \/ \E h \in Handlers : \/ \E ask \in Asks, token \in 0..tokens : StartRegister(h, ask, token)
                         \/ CheckPolicyKey(h) \/ ReadExisting(h) \/ DecideOwnership(h) \/ CheckIdentity(h)
                         \/ CheckName(h) \/ Persist(h) \/ LookUpOperator(h) \/ WriteOperator(h)
                         \/ ReadFails(h) \/ RegistrationFails(h)
  \/ \E n \in Nodes : Deregister(n) \/ Heartbeat(n)

Spec == Init /\ [][Next]_vars

---------------------------------------------------------------------------
TypeOK ==
  /\ operators \in [Keys -> Operators \cup {None}]
  /\ nodes \in [Nodes -> NodeRows \cup {None}]
  /\ policyKey \in [Keys -> {"none", "superseded", "revoked"}]
  /\ challenges \in [1..MaxChallenges -> Keys \cup {None}]
  /\ issued \in 0..MaxChallenges
  /\ ledger \in [Tracking -> LedgerRows \cup {None}]
  /\ desk \in [Desks -> DeskRequests \cup {Idle}]
  /\ reg \in [Handlers -> RegRequests \cup {Idle}]
  /\ tokens \in 0..MaxTokens
  /\ lines \in 0..MaxTokens
  /\ spent \in [1..MaxChallenges -> Nat]
  /\ disturbed \subseteq Keys
  /\ contended \subseteq Names \cup {None}

\* A chain of rotations has at most one active identity: concurrent rotations of a
\* key, or a rotation that races a registration of the successor, never leave two
\* rows active for what was first seen once (rotate_operator_identity).
OneActivePerLine ==
  \A k, o \in Keys : Active(k) /\ Active(o) /\ operators[k].first_seen = operators[o].first_seen => k = o

\* A challenge authorises at most one request, however many requests present it
\* (consume_operator_challenge).
ChallengeOnce == \A c \in 1..MaxChallenges : spent[c] <= 1

\* A node is shown as verified only under an identity that is known and was neither
\* rotated nor revoked, save while its registration has yet to write the operator's
\* row, and for keys that ended under a request that had checked them (register,
\* operator_identity_active).  A restricted operator's nodes stay verified.
VerifiedUnderLiving ==
  \A n \in Nodes : nodes[n] # None /\ nodes[n].verified =>
    LET k == nodes[n].operator
    IN \/ operators[k] # None /\ operators[k].status \in {"active", "restricted"}
       \/ k \in disturbed
       \/ \E h \in Handlers : reg[h].pc \in {"upsert", "write"} /\ reg[h].ask.key = k

\* A key that was rotated away or revoked is not an active identity again, not even
\* after data-subject actions have removed its row, unless requests overlapped.
DeadKeysInactive == \A k \in Keys : policyKey[k] # "none" /\ Active(k) => k \in disturbed

\* No node of an operator carries a policy manifest that the operator signed with a key
\* that was superseded or revoked, unless a registration had passed its check when the
\* key ended (rotate_operator_identity, revoke_operator_identity).
StaleManifestsGone ==
  \A n \in Nodes : nodes[n] # None /\ nodes[n].manifest # None /\ nodes[n].manifest = nodes[n].operator =>
    policyKey[nodes[n].manifest] = "none" \/ nodes[n].manifest \in disturbed

\* A restricted operator shows no name: no rename or registration brings it back
\* unless it was under way at the restriction.
RestrictedNameless ==
  \A k \in Keys : operators[k] # None /\ operators[k].status = "restricted" =>
    operators[k].name = None \/ k \in disturbed

\* A restriction stands in the table only with its record in the ledger of
\* data-subject actions: a reused tracking id rolls the whole action back.
RestrictionRecorded ==
  \A k \in Keys : operators[k] # None /\ operators[k].status = "restricted" =>
    \E t \in Tracking : ledger[t] # None /\ ledger[t].key = k

\* Two active identities share a display name only if the name was taken by a rename,
\* which checks nothing, or by registrations that had checked it at the same time, or by
\* a successor while a registration of the old key had checked it (claimed_by_other).
HandlesDistinct ==
  \A k, o \in Keys : Active(k) /\ Active(o) /\ k # o /\ operators[k].name # None =>
    operators[k].name # operators[o].name \/ operators[k].name \in contended

\* The row of n was written, or anonymized, after q had read it.
Overtaken(n, q) ==
  \/ nodes[n].token > q.since
  \/ nodes[n].token = 0 /\ (q.existing = None \/ q.existing.token # 0)

Taken(n, h) ==
  LET q == reg[h]
  IN /\ q.pc = "persist" /\ q.ask.node = n
     /\ \/ q.own
        \/ q.blind \/ Overtaken(n, q)
        \/ /\ q.ask.cx = None
           /\ nodes[n].endpoint = q.ask.endpoint \/ q.dead
           /\ ~(StrictSecured /\ nodes[n].operator # None)

\* A node that stands when a registration reads its row is moved to another endpoint,
\* or given a key, only if the request proved ownership or found the old endpoint dead,
\* and in strict mode only with proof if an operator secures it
\* (registration_ownership_rejection).  Two kinds of request write without it: one that
\* another registration or an anonymization overtook between its read and its write,
\* like the second of two first registrations, and one whose read of the row failed,
\* which the code takes for a node that does not exist.
TakeoverNeedsProof ==
  [][\A n \in Nodes : nodes[n] # None /\ tokens' # tokens /\ nodes'[n] # nodes[n] =>
       \E h \in Handlers : Taken(n, h)]_vars

\* Identities, challenges, handles, restrictions and manifests stay consistent under
\* overlapping registrations, rotations, revocations and data-subject actions, except for
\* keys and names of a request that acted on what it had checked before, or whose check
\* could not read the table and passed: those are disturbed or contended (register,
\* rotate_operator_identity, revoke_operator_identity, mutate_mysql_dsr).
Safety == /\ TypeOK
          /\ OneActivePerLine /\ ChallengeOnce /\ DeadKeysInactive
          /\ VerifiedUnderLiving /\ StaleManifestsGone
          /\ RestrictedNameless /\ RestrictionRecorded /\ HandlesDistinct
=============================================================================
