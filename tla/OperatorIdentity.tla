-------------------------- MODULE OperatorIdentity --------------------------
(***************************************************************************)
(* The operators table and the signed self-service actions on it: the      *)
(* one-use challenge, key rotation, revocation, acceptance of terms,       *)
(* rename, and the data-subject actions export, restrict and anonymize     *)
(* (src/operator.rs, src/db.rs, src/delegation.rs).                        *)
(*                                                                         *)
(* An action that the code runs in one transaction is one step here.  What *)
(* a request read before its transaction is kept in desk[d]: a data-subject *)
(* request lists the operator's nodes first and changes rows later, and a  *)
(* rename looks for an active row and writes by key.                       *)
(*                                                                         *)
(* Registration, which extends this module, has the requests that create   *)
(* operators and nodes.  Signatures are ideal: a request is signed by the  *)
(* key it names or it is not.                                              *)
(***************************************************************************)
EXTENDS Integers, FiniteSets

CONSTANTS Keys,          \* operator public keys
          Nodes,         \* node ids
          Names,         \* display names, after normalize_operator_display_name
          Endpoints,     \* node endpoints
          CxKeys,        \* consumer-exchange public keys of nodes
          Tracking,      \* tracking ids of data-subject actions
          Desks,         \* concurrent self-service requests
          Handlers,      \* concurrent registrations
          None,          \* a NULL column, an absent row or field
          MaxChallenges, \* bound on the challenges issued
          MaxTokens      \* bound on the registrations that persist

ASSUME IdentityConstants ==
  /\ None \notin Keys \cup Nodes \cup Names \cup Endpoints \cup CxKeys \cup Tracking
  /\ MaxChallenges \in Nat /\ MaxTokens \in Nat

VARIABLES
  operators,  \* the operators table
  nodes,      \* the nodes table, the columns that operators and registrations own
  policyKey,  \* policy_key_lifecycle_records
  challenges, \* OPERATOR_CHALLENGES: open challenges, by number
  issued,     \* challenges issued so far
  ledger,     \* data_subject_actions
  desk,       \* per self-service request: what it is and what it read
  reg,        \* per registration: what it asks and what it read
  tokens,     \* node tokens minted so far
  lines,      \* operator rows inserted so far: first_seen_ms
  spent,      \* history: how often each challenge authorised a request
  disturbed,  \* history: keys whose identity ended while a request relied on it,
              \* or whose row a registration failed to write
  contended   \* history: names that were taken without a check that still held

history == <<spent, disturbed, contended>>
vars == <<operators, nodes, policyKey, challenges, issued, ledger, desk, reg, tokens, lines, history>>

Statuses == {"active", "rotated", "revoked", "restricted"}
Operators == [status : Statuses, name : Names \cup {None}, first_seen : 1..MaxTokens,
              accepted : BOOLEAN]
NodeRows == [endpoint : Endpoints \cup {None}, token : 0..MaxTokens, cx : CxKeys \cup {None},
             operator : Keys \cup {None}, verified : BOOLEAN,
             manifest : Keys \cup {None}, public : BOOLEAN]
LedgerRows == [key : Keys, action : {"restrict", "anonymize"}, nodes : SUBSET Nodes]
\* A row is never NULL.
ASSUME NoneIsNoRow == None \notin Operators \cup NodeRows \cup LedgerRows

Idle == [pc |-> "idle"]
Kinds == {"rotate", "revoke", "accept", "export", "restrict", "anonymize"}
DeskRequests == [pc : Kinds \cup {"dsr"}, kind : Kinds, key : Keys,
                 arg : Keys \cup Tracking \cup {None}, subject : SUBSET Nodes]
                \cup [pc : {"rename"}, key : Keys, arg : Names]

Active(k) == operators[k] # None /\ operators[k].status = "active"
Of(k) == {n \in Nodes : nodes[n] # None /\ nodes[n].operator = k}

---------------------------------------------------------------------------
\* Requests that passed a check of key k and have yet to act on it.
RegistrationRelies(k) ==
  \E h \in Handlers : \/ reg[h].pc \in {"existing", "decide", "identity"} /\ reg[h].ask.manifest = k
                      \/ reg[h].pc \in {"name", "persist", "upsert", "write"} /\ k \in {reg[h].ask.key, reg[h].ask.manifest}
DeskRelies(k, d) == \E c \in Desks \ {d} : desk[c].pc \in {"dsr", "rename"} /\ desk[c].key = k
Overtake(k, d) == disturbed' = IF RegistrationRelies(k) \/ DeskRelies(k, d) THEN disturbed \cup {k} ELSE disturbed

Finish(d) == desk' = [desk EXCEPT ![d] = Idle]

\* operator_challenge: a challenge for an active identity.
Challenge(k) ==
  /\ Active(k)
  /\ issued < MaxChallenges
  /\ issued' = issued + 1
  /\ challenges' = [challenges EXCEPT ![issued + 1] = k]
  /\ UNCHANGED <<operators, nodes, policyKey, ledger, desk, reg, tokens, lines, history>>

\* A challenge expires, or the process that holds it restarts.
ForgetChallenge(c) ==
  /\ challenges[c] # None
  /\ challenges' = [challenges EXCEPT ![c] = None]
  /\ UNCHANGED <<operators, nodes, policyKey, issued, ledger, desk, reg, tokens, lines, history>>

\* consume_operator_challenge: takes the challenge out of the map.
ConsumeChallenge(k, c) == /\ challenges[c] = k
                          /\ challenges' = [challenges EXCEPT ![c] = None]
\* What a request carries: a rotation names a successor, which has signed as well, a
\* data-subject request its tracking id.
Arguments(kind, k) == CASE kind = "rotate" -> Keys \ {k}
                        [] kind \in {"export", "restrict", "anonymize"} -> Tracking
                        [] OTHER -> {None}

\* validate_operator_key_request: active identity, challenge, signature, in this
\* order, so that a request with a bad signature uses its challenge up.
Submit(d, kind, k, c, arg, signed) ==
  /\ desk[d] = Idle
  /\ Active(k)
  /\ arg \in Arguments(kind, k)
  /\ ConsumeChallenge(k, c)
  /\ desk' = IF signed THEN [desk EXCEPT ![d] = [pc |-> kind, kind |-> kind, key |-> k, arg |-> arg, subject |-> {}]]
                       ELSE desk
  /\ spent' = IF signed THEN [spent EXCEPT ![c] = @ + 1] ELSE spent
  /\ UNCHANGED <<operators, nodes, policyKey, issued, ledger, reg, tokens, lines, disturbed, contended>>

\* rotate_operator_identity: the successor takes over the row and the nodes.
\* The acceptance of terms stays with the old row.
RotateRows(k, s) ==
  /\ operators' = [operators EXCEPT ![s] = [operators[k] EXCEPT !.accepted = FALSE],
                                    ![k] = [operators[k] EXCEPT !.status = "rotated"]]
  /\ nodes' = [n \in Nodes |-> IF n \in Of(k)
                               THEN [nodes[n] EXCEPT !.operator = s, !.verified = TRUE, !.manifest = None]
                               ELSE nodes[n]]
\* The name that a successor takes although a registration of the old key has checked it
\* and has yet to write it.
NameMoves(k) ==
  {name \in {operators[k].name} :
     \E h \in Handlers : reg[h].pc \in {"persist", "upsert", "write"} /\ reg[h].ask.key = k /\ reg[h].ask.name = name}
M_SuccessorFree(s) == s \in Keys
SuccessorFree(s) == operators[s] = None
Rotate(d) ==
  LET k == desk[d].key
      s == desk[d].arg
  IN /\ desk[d].pc = "rotate"
     /\ IF Active(k) /\ SuccessorFree(s)
        THEN /\ RotateRows(k, s)
             /\ policyKey' = [policyKey EXCEPT ![k] = "superseded"]
             /\ Overtake(k, d)
             /\ contended' = contended \cup NameMoves(k)
        ELSE UNCHANGED <<operators, nodes, policyKey, disturbed, contended>>
     /\ Finish(d)
     /\ UNCHANGED <<challenges, issued, ledger, reg, tokens, lines, spent>>

\* revoke_operator_identity: the nodes stay, no longer verified.
RevokedNode(row) == [row EXCEPT !.verified = FALSE, !.manifest = None]
Revoke(d) ==
  LET k == desk[d].key
  IN /\ desk[d].pc = "revoke"
     /\ IF Active(k)
        THEN /\ operators' = [operators EXCEPT ![k].status = "revoked"]
             /\ nodes' = [n \in Nodes |-> IF n \in Of(k) THEN RevokedNode(nodes[n]) ELSE nodes[n]]
             /\ policyKey' = [policyKey EXCEPT ![k] = "revoked"]
             /\ Overtake(k, d)
        ELSE UNCHANGED <<operators, nodes, policyKey, disturbed>>
     /\ Finish(d)
     /\ UNCHANGED <<challenges, issued, ledger, reg, tokens, lines, spent, contended>>

\* accept_operator_governance: one UPDATE of an active row.
Accept(d) ==
  /\ desk[d].pc = "accept"
  /\ operators' = IF Active(desk[d].key) THEN [operators EXCEPT ![desk[d].key].accepted = TRUE] ELSE operators
  /\ Finish(d)
  /\ UNCHANGED <<nodes, policyKey, challenges, issued, ledger, reg, tokens, lines, history>>

\* load_mysql_dsr_subject: outside any transaction, the active row and its nodes.
\* An export then reads on and changes nothing.
LoadSubject(d) ==
  LET k == desk[d].key
  IN /\ desk[d].pc \in {"export", "restrict", "anonymize"}
     /\ desk' = [desk EXCEPT ![d] = IF Active(k) /\ desk[d].kind # "export"
                                    THEN [@ EXCEPT !.pc = "dsr", !.subject = Of(k)] ELSE Idle]
     /\ UNCHANGED <<operators, nodes, policyKey, challenges, issued, ledger, reg, tokens, lines, history>>

\* apply_mysql_dsr_restriction, by key and whatever the status is.
Restricted(row) == [row EXCEPT !.status = "restricted", !.name = None, !.accepted = FALSE]
HiddenNode(row) == [row EXCEPT !.public = FALSE]

\* apply_mysql_dsr_anonymization: the node forgets its operator and its tokens.
AnonymousNode(row) ==
  [row EXCEPT !.public = FALSE, !.endpoint = None, !.operator = None, !.verified = FALSE,
              !.manifest = None, !.cx = None, !.token = 0]

TrackingFree(t) == ledger[t] = None

\* mutate_mysql_dsr: one transaction, rolled back when the tracking id is taken.
\* An anonymized operator row moves to a key that nobody holds.
MutateDsr(d) ==
  LET q == desk[d]
      k == q.key
  IN /\ q.pc = "dsr"
     /\ IF TrackingFree(q.arg)
        THEN /\ nodes' = [n \in Nodes |-> IF n \notin Of(k) THEN nodes[n]
                                          ELSE IF q.kind = "anonymize" THEN AnonymousNode(nodes[n])
                                          ELSE HiddenNode(nodes[n])]
             /\ operators' = [operators EXCEPT ![k] = IF @ = None \/ q.kind = "anonymize" THEN None
                                                      ELSE Restricted(@)]
             /\ ledger' = [ledger EXCEPT ![q.arg] = [key |-> k, action |-> q.kind, nodes |-> q.subject]]
             /\ Overtake(k, d)
        ELSE UNCHANGED <<nodes, operators, ledger, disturbed>>
     /\ Finish(d)
     /\ UNCHANGED <<policyKey, challenges, issued, reg, tokens, lines, spent, contended>>

\* operator_rename: a signature over the name and the time is the authentication.
StartRename(d, k, name) ==
  /\ desk[d] = Idle
  /\ Active(k)
  /\ desk' = [desk EXCEPT ![d] = [pc |-> "rename", key |-> k, arg |-> name]]
  /\ UNCHANGED <<operators, nodes, policyKey, challenges, issued, ledger, reg, tokens, lines, history>>

\* rename_operator: the UPDATE, by key and whatever the status is by now.
WriteName(k, name) == operators' = [operators EXCEPT ![k] = IF @ = None THEN None ELSE [@ EXCEPT !.name = name]]
Rename(d) ==
  /\ desk[d].pc = "rename"
  /\ WriteName(desk[d].key, desk[d].arg)
  /\ Finish(d)
  /\ contended' = contended \cup {desk[d].arg}
  /\ UNCHANGED <<nodes, policyKey, challenges, issued, ledger, reg, tokens, lines, spent, disturbed>>

\* A statement or COMMIT fails: the transaction is rolled back and the client
\* gets an error; a challenge that was used stays used.
DeskFails(d) ==
  /\ desk[d] # Idle
  /\ Finish(d)
  /\ UNCHANGED <<operators, nodes, policyKey, challenges, issued, ledger, reg, tokens, lines, history>>

DeskStep ==
  \/ \E k \in Keys : Challenge(k)
  \/ \E c \in 1..MaxChallenges : ForgetChallenge(c)
  \/ \E d \in Desks : \/ \E kind \in Kinds, k \in Keys, c \in 1..MaxChallenges,
                            signed \in BOOLEAN : \E arg \in Arguments(kind, k) :
                           Submit(d, kind, k, c, arg, signed)
                      \/ \E k \in Keys, name \in Names : StartRename(d, k, name)
                      \/ Rotate(d) \/ Revoke(d) \/ Accept(d) \/ LoadSubject(d)
                      \/ MutateDsr(d) \/ Rename(d) \/ DeskFails(d)
=============================================================================
