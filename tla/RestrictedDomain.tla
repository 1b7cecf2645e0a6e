-------------------------- MODULE RestrictedDomain --------------------------
(***************************************************************************)
(* Memberships of a restricted trust domain (src/restricted_domain_auth.rs,*)
(* src/restricted_domain_membership.rs): the administrator's commands      *)
(* issue, with or without a signed assertion, and revoke, each a process   *)
(* of its own beside the directory; the gate that admits requests with a   *)
(* membership token; and the assertions that bootstrap hands to peers.     *)
(*                                                                         *)
(* One domain; a subject stands for its kind and id.                       *)
(***************************************************************************)
EXTENDS Integers

CONSTANTS Subjects,      \* node ids
          Issuers,       \* issue commands that may run at the same time
          Requests,      \* requests that are in the gate at the same time
          Grants,        \* the sets of scopes that are asked for
          None,          \* an absent row, a NULL column
          MaxTtl,        \* max_credential_ttl_seconds, in ticks
          MaxTokens,     \* bound on the credentials issued
          MaxEpoch,      \* bound on the membership epoch
          MaxNow         \* bound on the clock

Scopes == {"*", "discovery", "bootstrap"}

VARIABLES
  members,  \* trust_domain_memberships
  epoch,    \* membership_epoch, of the configuration
  issuing,  \* per issue command
  inGate,   \* per request: admitted, with the decision it will be answered with
  tokens,   \* credentials issued
  now,
  retired,  \* history: tokens that were replaced or revoked
  bare      \* history: subjects whose last credential has no assertion of its own

vars == <<members, epoch, issuing, inGate, tokens, now, retired, bare>>

Generations == 1..(MaxEpoch + MaxTokens)
Times == 0..(MaxNow + MaxTtl)
SomeScopes == (SUBSET Scopes) \ {{}}
Assertions == [generation : Generations, until : Times, scopes : SomeScopes]
Rows == [token : 1..MaxTokens, scopes : SomeScopes, generation : Generations, until : Times,
         revoked : BOOLEAN, envelope : Assertions \cup {None}]
Idle == [pc |-> "idle"]
Issues == [pc : {"persist"}, subject : Subjects, scopes : SomeScopes, ttl : 1..MaxTtl, asserted : BOOLEAN, at : 0..MaxNow]
          \cup [pc : {"store"}, subject : Subjects, assertion : Assertions]
Decisions == [pc : {"run"}, subject : Subjects, operation : Scopes \ {"*"}, generation : Generations, until : Times]

Init ==
  /\ members = [s \in Subjects |-> None]
  /\ epoch = 1
  /\ issuing = [i \in Issuers |-> Idle]
  /\ inGate = [r \in Requests |-> Idle]
  /\ tokens = 0
  /\ now = 0
  /\ retired = {}
  /\ bare = {}

Tick ==
  /\ now < MaxNow
  /\ now' = now + 1
  /\ UNCHANGED <<members, epoch, issuing, inGate, tokens, retired, bare>>

---------------------------------------------------------------------------
\* is_peer_scope, of the scopes in the model; "*" is none.
is_peer_scope(scope) == scope = "bootstrap"

\* What authorize, bootstrap_memberships and current_node_members ask of a row.
Current(row) == row # None /\ ~row.revoked /\ row.until > now /\ row.generation >= epoch

\* issue or issue_with_assertion, up to the transaction: the time of issue is taken
\* before it.  An assertion needs a scope that peers check.
Assertable(scopes, asserted) == scopes # {} /\ (asserted => \E scope \in scopes : is_peer_scope(scope))
StartIssue(i, s, scopes, ttl, asserted) ==
  /\ issuing[i] = Idle
  /\ tokens < MaxTokens
  /\ Assertable(scopes, asserted)
  /\ issuing' = [issuing EXCEPT ![i] = [pc |-> "persist", subject |-> s, scopes |-> scopes, ttl |-> ttl,
                                        asserted |-> asserted, at |-> now]]
  /\ UNCHANGED <<members, epoch, inGate, tokens, now, retired, bare>>

\* issue_record's transaction.  An envelope that the row has stays in it.
NextGeneration(row) ==
  IF row = None \/ row.generation + 1 < epoch THEN epoch ELSE row.generation + 1
Issued(row, q, token) ==
  [token |-> token, scopes |-> q.scopes, generation |-> NextGeneration(row), until |-> now + q.ttl,
   revoked |-> FALSE, envelope |-> IF row = None THEN None ELSE row.envelope]
\* restricted_domain_membership::sign: the assertion for the record just written.
Signed(q, generation) == [generation |-> generation, until |-> q.at + q.ttl,
                          scopes |-> {scope \in q.scopes : is_peer_scope(scope)}]
Persist(i) ==
  LET q == issuing[i]
      s == q.subject
      row == Issued(members[s], q, tokens + 1)
  IN /\ q.pc = "persist"
     /\ tokens < MaxTokens
     /\ tokens' = tokens + 1
     /\ members' = [members EXCEPT ![s] = row]
     /\ issuing' = [issuing EXCEPT ![i] = IF q.asserted
                      THEN [pc |-> "store", subject |-> s, assertion |-> Signed(q, row.generation)] ELSE Idle]
     /\ retired' = IF members[s] = None THEN retired ELSE retired \cup {members[s].token}
     /\ bare' = bare \cup {s}
     /\ UNCHANGED <<epoch, inGate, now>>

\* issue_with_assertion's second statement: WHERE generation = the one it was issued for.
M_StoresIn(row, assertion) == row # None
StoresIn(row, assertion) == row # None /\ row.generation = assertion.generation
StoreAssertion(i) ==
  LET q == issuing[i]
      stored == StoresIn(members[q.subject], q.assertion)
  IN /\ q.pc = "store"
     /\ members' = IF stored THEN [members EXCEPT ![q.subject].envelope = q.assertion] ELSE members
     /\ bare' = IF stored THEN bare \ {q.subject} ELSE bare
     /\ issuing' = [issuing EXCEPT ![i] = Idle]
     /\ UNCHANGED <<epoch, inGate, tokens, now, retired>>

\* The command fails before or after its transaction.
IssueFails(i) ==
  /\ issuing[i] # Idle
  /\ issuing' = [issuing EXCEPT ![i] = Idle]
  /\ UNCHANGED <<members, epoch, inGate, tokens, now, retired, bare>>

\* revoke
Revoke(s) ==
  /\ members[s] # None /\ ~members[s].revoked
  /\ members' = [members EXCEPT ![s].revoked = TRUE]
  /\ retired' = retired \cup {members[s].token}
  /\ UNCHANGED <<epoch, issuing, inGate, tokens, now, bare>>

\* The directory is configured with a higher epoch and restarted; what is in its gate
\* is lost.
RaiseEpoch ==
  /\ epoch < MaxEpoch
  /\ epoch' = epoch + 1
  /\ inGate' = [r \in Requests |-> Idle]
  /\ UNCHANGED <<members, issuing, tokens, now, retired, bare>>

\* authorize: the row of the token, for this subject and with the scope.
Authorizes(token, s, operation) ==
  /\ Current(members[s]) /\ members[s].token = token
  /\ {"*", operation} \cap members[s].scopes # {}

\* restricted_domain_gate, before the handler.
Admit(r, token, s, operation) ==
  /\ inGate[r] = Idle
  /\ Authorizes(token, s, operation)
  /\ inGate' = [inGate EXCEPT ![r] = [pc |-> "run", subject |-> s, operation |-> operation,
                                      generation |-> members[s].generation, until |-> members[s].until]]
  /\ UNCHANGED <<members, epoch, issuing, tokens, now, retired, bare>>

\* The handler has run; project_decision adds the decision to the answer.
Answer(r) ==
  /\ inGate[r] # Idle
  /\ inGate' = [inGate EXCEPT ![r] = Idle]
  /\ UNCHANGED <<members, epoch, issuing, tokens, now, retired, bare>>

\* bootstrap_memberships: the subjects whose assertion is handed to peers.
bootstrap_memberships ==
  {s \in Subjects : /\ Current(members[s])
                    /\ members[s].envelope # None
                    /\ "bootstrap" \in members[s].envelope.scopes}

\* current_node_members
current_node_members == {s \in Subjects : Current(members[s])}

Next ==
  \/ Tick \/ RaiseEpoch
  \/ \E i \in Issuers : \/ \E s \in Subjects, scopes \in Grants, ttl \in 1..MaxTtl, asserted \in BOOLEAN :
                             StartIssue(i, s, scopes, ttl, asserted)
                        \/ Persist(i) \/ StoreAssertion(i) \/ IssueFails(i)
  \/ \E s \in Subjects : Revoke(s)
  \/ \E r \in Requests : \/ \E token \in 1..tokens, s \in Subjects, operation \in Scopes \ {"*"} :
                              Admit(r, token, s, operation)
                         \/ Answer(r)

Spec == Init /\ [][Next]_vars

---------------------------------------------------------------------------
TypeOK ==
  /\ members \in [Subjects -> Rows \cup {None}]
  /\ epoch \in 1..MaxEpoch
  /\ issuing \in [Issuers -> Issues \cup {Idle}]
  /\ inGate \in [Requests -> Decisions \cup {Idle}]
  /\ tokens \in 0..MaxTokens
  /\ now \in 0..MaxNow
  /\ retired \subseteq 1..MaxTokens
  /\ bare \subseteq Subjects

\* A credential that was rotated or revoked never admits a request again, whatever is
\* issued later for its subject and however the epoch moves (issue_record, authorize).
RetiredRefused ==
  \A t \in retired, s \in Subjects, operation \in Scopes \ {"*"} : ~Authorizes(t, s, operation)

\* An assertion that bootstrap hands out is the one of the member's current generation:
\* a slow issue command never puts its assertion over that of a later one.  The exception
\* is a member whose last credential was issued without an assertion, or whose command
\* has not stored it: the row then still has the one before.
ServedAssertionCurrent ==
  \A s \in bootstrap_memberships \ bare : members[s].envelope.generation = members[s].generation

\* The assertion of the current generation never outlives the membership, and grants
\* peers only what the membership grants, although time passes between the two.
AssertionWithinMembership ==
  \A s \in Subjects :
    members[s] # None /\ members[s].envelope # None /\ members[s].envelope.generation = members[s].generation =>
      /\ members[s].envelope.until <= members[s].until
      /\ members[s].envelope.scopes \subseteq members[s].scopes

\* An admitted request is answered with a decision that was true of the member when it was
\* admitted, and is so still unless the member was rotated or revoked or has expired since.
DecisionHeld ==
  \A r \in Requests : inGate[r] # Idle =>
    LET row == members[inGate[r].subject]
    IN \/ Current(row) /\ row.generation = inGate[r].generation /\ row.until = inGate[r].until
       \/ row.revoked \/ row.generation > inGate[r].generation \/ inGate[r].until <= now

\* Whatever issue, rotation, revocation, expiry and epoch come between the steps of a
\* command or of a request, the gate admits no retired credential, and peers are served
\* the assertions of current memberships (authorize, restricted_domain_gate,
\* issue_with_assertion).
Safety == TypeOK /\ RetiredRefused /\ ServedAssertionCurrent /\ AssertionWithinMembership /\ DecisionHeld
=============================================================================
