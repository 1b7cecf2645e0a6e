-------------------------- MODULE Services_proofs --------------------------
(***************************************************************************)
(* What holds of the services of a directory that share no state, for      *)
(* every set of subjects, commands, requests, mirrors and calls:           *)
(* restricted domains, discovery and dispatch tickets, mesh health, and    *)
(* the in-memory repository.                                               *)
(*                                                                         *)
(* The invariants say what a request or a call has learnt when it is       *)
(* between two of its steps, and why the steps of others leave that true.  *)
(***************************************************************************)
EXTENDS MCServices, NaturalsInduction, FiniteSetTheorems, TLAPS

---------------------------------------------------------------------------
(* Restricted domains *)

\* Credentials are numbered in the order of issue, and the generation of a membership
\* cannot run ahead of the epoch by more than the credentials issued.
CredentialsCounted ==
  /\ domainRetired \subseteq 1..tokens
  /\ \A s \in Subjects : members[s] # None =>
       members[s].token <= tokens /\ members[s].generation <= epoch + tokens
CredentialsDiffer ==
  \A s, u \in Subjects : s # u /\ members[s] # None /\ members[u] # None => members[s].token # members[u].token
\* A row has a retired credential only because it was revoked.
RetiredIsRevoked == \A s \in Subjects : members[s] # None /\ members[s].token \in domainRetired => members[s].revoked

\* What an assertion may say beside a row, stored in it or about to be.
Fits(assertion, row) ==
  /\ assertion.generation <= row.generation
  /\ assertion.generation = row.generation => assertion.until <= row.until /\ assertion.scopes \subseteq row.scopes
EnvelopesFit == \A s \in Subjects : members[s] # None /\ members[s].envelope # None => Fits(members[s].envelope, members[s])
EnvelopeOfOwn ==
  \A s \in Subjects \ bare : members[s] # None =>
    members[s].envelope # None /\ members[s].envelope.generation = members[s].generation
\* What the two halves of an issue command know.
PersistKnows ==
  \A i \in Issuers : issuing[i].pc = "persist" =>
    issuing[i].at <= domainNow /\ (issuing[i].asserted => "bootstrap" \in issuing[i].scopes)
StoreKnows ==
  \A i \in Issuers : issuing[i].pc = "store" =>
    members[issuing[i].subject] # None /\ Fits(issuing[i].assertion, members[issuing[i].subject])
\* What a request in the gate was admitted with.
GateKnows ==
  \A r \in Requests : inGate[r] # Domain!Idle =>
    LET row == members[inGate[r].subject]
    IN /\ row # None /\ epoch <= inGate[r].generation /\ inGate[r].generation <= row.generation
       /\ inGate[r].generation = row.generation => inGate[r].until = row.until

DomainInv ==
  /\ Domain!TypeOK /\ CredentialsCounted /\ CredentialsDiffer /\ RetiredIsRevoked /\ EnvelopesFit /\ EnvelopeOfOwn
  /\ PersistKnows /\ StoreKnows /\ GateKnows

\* An issue command is idle, before its transaction, or after it.
LEMMA IssueCases ==
  ASSUME NEW q \in Domain!Issues \cup {Domain!Idle}
  PROVE  /\ q.pc = "persist" => q \in [pc : {"persist"}, subject : Subjects, scopes : Domain!SomeScopes, ttl : 1..MaxTtl,
                                       asserted : BOOLEAN, at : 0..MaxNow]
         /\ q.pc = "store" => q \in [pc : {"store"}, subject : Subjects, assertion : Domain!Assertions]
         /\ q.pc \in {"idle", "persist", "store"}
  BY DEF Domain!Issues, Domain!Idle

LEMMA GateCases ==
  ASSUME NEW q \in Domain!Decisions \cup {Domain!Idle}, q # Domain!Idle
  PROVE  q \in Domain!Decisions
  OBVIOUS

\* A new credential is of a later generation than the one it replaces.
LEMMA IssuedRow ==
  ASSUME DomainInv, tokens < MaxTokens, NEW s \in Subjects,
         NEW q \in [pc : {"persist"}, subject : Subjects, scopes : Domain!SomeScopes, ttl : 1..MaxTtl, asserted : BOOLEAN, at : 0..MaxNow]
  PROVE  LET old == members[s]
             new == Domain!Issued(old, q, tokens + 1)
         IN /\ new \in Domain!Rows /\ new # None /\ new.token = tokens + 1 /\ new.generation <= epoch + tokens + 1
            /\ old # None => new.generation > old.generation
            /\ new.generation >= epoch
            /\ new.envelope = IF old = None THEN None ELSE old.envelope
            /\ new.until = domainNow + q.ttl /\ new.scopes = q.scopes
  <1> DEFINE old == members[s]
             gen == Domain!NextGeneration(old)
             env == IF old = None THEN None ELSE old.envelope
             new == Domain!Issued(old, q, tokens + 1)
  <1>0. /\ old \in Domain!Rows \cup {None} /\ epoch \in 1..MaxEpoch /\ tokens \in 0..MaxTokens /\ domainNow \in 0..MaxNow
        /\ old # None => old.generation <= epoch + tokens
    BY DEF DomainInv, Domain!TypeOK, CredentialsCounted
  <1>1. old # None => old.generation \in Nat /\ old.envelope \in Domain!Assertions \cup {None}
    BY <1>0, DomainAssumption, RegistryConstants DEF Domain!Rows, Domain!Generations
  <1>2. /\ gen \in Nat /\ gen >= 1 /\ gen <= epoch + tokens + 1 /\ gen >= epoch
        /\ old # None => gen > old.generation
    BY <1>0, <1>1, DomainAssumption, RegistryConstants DEF Domain!NextGeneration
  <1>3. env \in Domain!Assertions \cup {None}
    BY <1>1
  <1>4. new = [token |-> tokens + 1, scopes |-> q.scopes, generation |-> gen, until |-> domainNow + q.ttl,
               revoked |-> FALSE, envelope |-> env]
    BY DEF Domain!Issued
  <1> HIDE DEF gen, env, new
  <1>5. gen \in Domain!Generations
    BY <1>0, <1>2, DomainAssumption, RegistryConstants DEF Domain!Generations
  <1>6. domainNow + q.ttl \in Domain!Times
    BY <1>0, DomainAssumption, RegistryConstants DEF Domain!Times
  <1>7. tokens + 1 \in 1..MaxTokens
    BY <1>0, RegistryConstants
  <1>8. new \in Domain!Rows
    BY <1>3, <1>4, <1>5, <1>6, <1>7 DEF Domain!Rows
  <1>9. new # None
    BY <1>8, NoneIsNoMembership
  <1> QED
    BY <1>2, <1>4, <1>8, <1>9 DEF env, gen, new

\* The assertion that is signed for a new row is an assertion, and fits the row: time has
\* only passed since the command began.
LEMMA SignedFits ==
  ASSUME DomainInv, NEW i \in Issuers, issuing[i].pc = "persist", issuing[i].asserted, NEW row \in Domain!Rows,
         row.until = domainNow + issuing[i].ttl, row.scopes = issuing[i].scopes
  PROVE  LET a == Domain!Signed(issuing[i], row.generation) IN a \in Domain!Assertions /\ Fits(a, row)
  <1> DEFINE q == issuing[i]
             sc == {scope \in q.scopes : Domain!is_peer_scope(scope)}
             a == Domain!Signed(q, row.generation)
  <1>1. q \in [pc : {"persist"}, subject : Subjects, scopes : Domain!SomeScopes, ttl : 1..MaxTtl, asserted : BOOLEAN, at : 0..MaxNow]
    BY IssueCases DEF DomainInv, Domain!TypeOK
  <1>2. q.at <= domainNow /\ "bootstrap" \in q.scopes /\ domainNow \in 0..MaxNow
    BY DEF DomainInv, PersistKnows, Domain!TypeOK
  <1>3. sc \in Domain!SomeScopes /\ sc \subseteq q.scopes
    <2>1. "bootstrap" \in sc
      BY <1>2 DEF Domain!is_peer_scope
    <2>2. q.scopes \in SUBSET Domain!Scopes
      BY <1>1 DEF Domain!SomeScopes
    <2> QED
      BY <2>1, <2>2 DEF Domain!SomeScopes
  <1>4. row.generation \in Domain!Generations /\ row.generation \in Nat
    BY DomainAssumption, RegistryConstants DEF Domain!Rows, Domain!Generations
  <1>5. q.at + q.ttl \in Domain!Times /\ q.at + q.ttl <= domainNow + q.ttl
    BY <1>1, <1>2, DomainAssumption, RegistryConstants DEF Domain!Times
  <1>6. a = [generation |-> row.generation, until |-> q.at + q.ttl, scopes |-> sc]
    BY DEF Domain!Signed
  <1> HIDE DEF sc, a
  <1>7. a \in Domain!Assertions
    BY <1>3, <1>4, <1>5, <1>6 DEF Domain!Assertions
  <1>8. Fits(a, row)
    BY <1>3, <1>4, <1>5, <1>6 DEF Fits
  <1> QED
    BY <1>7, <1>8 DEF a

\* issue_record's transaction.
LEMMA PersistKeeps ==
  ASSUME DomainInv, NEW i \in Issuers, Domain!Persist(i)
  PROVE  DomainInv'
  <1> DEFINE q == issuing[i]
             s == q.subject
             old == members[s]
             new == Domain!Issued(old, q, tokens + 1)
             a == Domain!Signed(q, new.generation)
             next == IF q.asserted THEN [pc |-> "store", subject |-> s, assertion |-> a] ELSE Domain!Idle
  <1>1. /\ q.pc = "persist" /\ tokens < MaxTokens /\ tokens' = tokens + 1
        /\ members' = [members EXCEPT ![s] = new]
        /\ issuing' = [issuing EXCEPT ![i] = next]
        /\ domainRetired' = IF old = None THEN domainRetired ELSE domainRetired \cup {old.token}
        /\ bare' = bare \cup {s}
        /\ epoch' = epoch /\ inGate' = inGate /\ domainNow' = domainNow
    BY DEF Domain!Persist
  <1>2. q \in [pc : {"persist"}, subject : Subjects, scopes : Domain!SomeScopes, ttl : 1..MaxTtl, asserted : BOOLEAN, at : 0..MaxNow]
    BY <1>1, IssueCases DEF DomainInv, Domain!TypeOK
  <1>3. s \in Subjects
    BY <1>2
  <1>4. /\ new \in Domain!Rows /\ new # None /\ new.token = tokens + 1 /\ new.generation <= epoch + tokens + 1
        /\ old # None => new.generation > old.generation
        /\ new.generation >= epoch
        /\ new.envelope = IF old = None THEN None ELSE old.envelope
        /\ new.until = domainNow + q.ttl /\ new.scopes = q.scopes
    BY <1>1, <1>2, <1>3, IssuedRow
  <1>5. q.asserted => a \in Domain!Assertions /\ Fits(a, new)
    BY <1>1, <1>4, SignedFits
  <1>6. /\ members \in [Subjects -> Domain!Rows \cup {None}] /\ epoch \in 1..MaxEpoch /\ tokens \in 0..MaxTokens
        /\ issuing \in [Issuers -> Domain!Issues \cup {Domain!Idle}] /\ inGate \in [Requests -> Domain!Decisions \cup {Domain!Idle}]
        /\ domainNow \in 0..MaxNow /\ domainRetired \subseteq 1..tokens /\ bare \subseteq Subjects
    BY DEF DomainInv, Domain!TypeOK, CredentialsCounted
  <1>7. next \in Domain!Issues \cup {Domain!Idle} /\ next.pc # "persist"
        /\ (next.pc = "store" => next.subject = s /\ Fits(next.assertion, new))
    BY <1>3, <1>5 DEF Domain!Issues, Domain!Idle
  <1>8. /\ members'[s] = new
        /\ \A u \in Subjects : u # s => members'[u] = members[u]
        /\ issuing'[i] = next
        /\ \A j \in Issuers : j # i => issuing'[j] = issuing[j]
    BY <1>1, <1>3, <1>6
  <1>9. \A u \in Subjects : members[u] # None =>
          /\ members[u].token \in 1..MaxTokens /\ members[u].generation \in Nat
          /\ members[u].envelope # None => members[u].envelope.generation \in Nat
    BY <1>6, DomainAssumption, RegistryConstants DEF Domain!Rows, Domain!Generations, Domain!Assertions
  <1>10. new.generation \in Nat
    BY <1>4, DomainAssumption, RegistryConstants DEF Domain!Rows, Domain!Generations
  <1>11. old # None => old.token \in 1..tokens /\ old.generation \in Nat /\ old.token <= tokens
    <2>1. old # None => old.token <= tokens
      BY <1>3 DEF DomainInv, CredentialsCounted
    <2> QED
      BY <1>3, <1>6, <1>9, <2>1
  <1> HIDE DEF next, new, a, old
  <1>12. domainRetired' \subseteq 1..(tokens + 1)
    <2>1. domainRetired' \subseteq domainRetired \cup 1..tokens
      BY <1>1, <1>11
    <2>2. 1..tokens \subseteq 1..(tokens + 1)
      BY <1>6
    <2> QED
      BY <2>1, <2>2, <1>6
  <1>13. Domain!TypeOK'
    <2>1. members' \in [Subjects -> Domain!Rows \cup {None}]
      BY <1>1, <1>3, <1>4, <1>6
    <2>2. issuing' \in [Issuers -> Domain!Issues \cup {Domain!Idle}]
      BY <1>1, <1>6, <1>7
    <2>3. tokens' \in 0..MaxTokens /\ domainRetired' \subseteq 1..MaxTokens
      BY <1>1, <1>6, <1>12, RegistryConstants
    <2> QED
      BY <1>1, <1>3, <1>6, <2>1, <2>2, <2>3 DEF Domain!TypeOK
  <1>14. CredentialsCounted'
    <2>1. ASSUME NEW u \in Subjects, members'[u] # None
          PROVE  members'[u].token <= tokens + 1 /\ members'[u].generation <= epoch + (tokens + 1)
      <3>1. CASE u = s
        BY <3>1, <1>4, <1>6, <1>8, <1>10
      <3>2. CASE u # s
        <4>1. members[u] # None /\ members'[u] = members[u]
          BY <2>1, <3>2, <1>8
        <4>2. members[u].token <= tokens /\ members[u].generation <= epoch + tokens
          BY <4>1 DEF DomainInv, CredentialsCounted
        <4>3. members[u].token \in Nat /\ members[u].generation \in Nat /\ epoch \in Nat /\ tokens \in Nat
          BY <4>1, <1>6, <1>9
        <4> QED
          BY <4>1, <4>2, <4>3
      <3> QED
        BY <3>1, <3>2
    <2> QED
      BY <1>1, <1>12, <2>1 DEF CredentialsCounted
  <1>15. CredentialsDiffer'
    BY <1>4, <1>6, <1>8, <1>9 DEF DomainInv, CredentialsDiffer, CredentialsCounted
  <1>16. RetiredIsRevoked'
    <2> SUFFICES ASSUME NEW u \in Subjects, members'[u] # None, members'[u].token \in domainRetired'
                 PROVE  members'[u].revoked
      BY DEF RetiredIsRevoked
    <2>1. u # s
      BY <1>4, <1>6, <1>8, <1>1, <1>11
    <2>2. members[u].token \in domainRetired
      BY <2>1, <1>1, <1>3, <1>8 DEF DomainInv, CredentialsDiffer, old
    <2> QED
      BY <2>1, <2>2, <1>8 DEF DomainInv, RetiredIsRevoked
  <1>17. EnvelopesFit'
    <2> SUFFICES ASSUME NEW u \in Subjects, members'[u] # None, members'[u].envelope # None
                 PROVE  Fits(members'[u].envelope, members'[u])
      BY DEF EnvelopesFit
    <2>1. CASE u = s
      <3>1. old # None /\ new.envelope = old.envelope /\ new.envelope # None
        BY <2>1, <1>4, <1>8
      <3>2. old.envelope.generation <= old.generation
        BY <3>1, <1>3 DEF DomainInv, EnvelopesFit, Fits, old
      <3>3. new.envelope.generation < new.generation /\ new.envelope.generation \in Nat
        <4>1. old.envelope.generation \in Nat
          BY <3>1, <1>3, <1>9 DEF old
        <4> QED
          BY <3>1, <3>2, <4>1, <1>4, <1>10, <1>11
      <3> QED
        BY <2>1, <3>3, <1>8, <1>10 DEF Fits
    <2>2. CASE u # s
      BY <2>2, <1>8 DEF DomainInv, EnvelopesFit
    <2> QED
      BY <2>1, <2>2
  <1>18. EnvelopeOfOwn'
    BY <1>1, <1>8 DEF DomainInv, EnvelopeOfOwn
  <1>19. PersistKnows'
    BY <1>1, <1>7, <1>8 DEF DomainInv, PersistKnows
  <1>20. StoreKnows'
    <2> SUFFICES ASSUME NEW j \in Issuers, issuing'[j].pc = "store"
                 PROVE  members'[issuing'[j].subject] # None /\ Fits(issuing'[j].assertion, members'[issuing'[j].subject])
      BY DEF StoreKnows
    <2>1. CASE j = i
      BY <2>1, <1>4, <1>7, <1>8
    <2>2. CASE j # i
      <3>1. /\ issuing[j].pc = "store" /\ issuing'[j] = issuing[j]
            /\ members[issuing[j].subject] # None /\ Fits(issuing[j].assertion, members[issuing[j].subject])
        BY <2>2, <1>8 DEF DomainInv, StoreKnows
      <3>2. issuing[j].subject \in Subjects /\ issuing[j].assertion.generation \in Nat
        BY <3>1, <1>6, IssueCases, DomainAssumption, RegistryConstants DEF Domain!Assertions, Domain!Generations
      <3>3. CASE issuing[j].subject = s
        <4>1. old # None /\ issuing[j].assertion.generation <= old.generation
          BY <3>1, <3>3 DEF Fits, old
        <4>2. issuing[j].assertion.generation < new.generation
          BY <4>1, <3>2, <1>4, <1>10, <1>11
        <4> QED
          BY <3>1, <3>2, <3>3, <4>2, <1>4, <1>8, <1>10 DEF Fits
      <3>4. CASE issuing[j].subject # s
        BY <3>1, <3>2, <3>4, <1>8
      <3> QED
        BY <3>3, <3>4
    <2> QED
      BY <2>1, <2>2
  <1>21. GateKnows'
    <2> SUFFICES ASSUME NEW r \in Requests, inGate[r] # Domain!Idle
                 PROVE  /\ members'[inGate[r].subject] # None /\ epoch <= inGate[r].generation
                        /\ inGate[r].generation <= members'[inGate[r].subject].generation
                        /\ inGate[r].generation = members'[inGate[r].subject].generation
                             => inGate[r].until = members'[inGate[r].subject].until
      BY <1>1 DEF GateKnows
    <2>1. inGate[r].subject \in Subjects /\ inGate[r].generation \in Nat
      BY <1>6, DomainAssumption, RegistryConstants DEF Domain!Decisions, Domain!Generations
    <2>2. /\ members[inGate[r].subject] # None /\ epoch <= inGate[r].generation
          /\ inGate[r].generation <= members[inGate[r].subject].generation
          /\ inGate[r].generation = members[inGate[r].subject].generation
               => inGate[r].until = members[inGate[r].subject].until
      BY DEF DomainInv, GateKnows
    <2>3. CASE inGate[r].subject = s
      <3>1. old # None /\ inGate[r].generation <= old.generation
        BY <2>2, <2>3 DEF old
      <3>2. inGate[r].generation < new.generation
        BY <3>1, <2>1, <1>4, <1>10, <1>11
      <3> QED
        BY <2>1, <2>2, <2>3, <3>2, <1>4, <1>8, <1>10
    <2>4. CASE inGate[r].subject # s
      BY <2>1, <2>2, <2>4, <1>8
    <2> QED
      BY <2>3, <2>4
  <1> QED
    BY <1>13, <1>14, <1>15, <1>16, <1>17, <1>18, <1>19, <1>20, <1>21 DEF DomainInv

\* issue_with_assertion's second statement: it meets the row it was issued for, or none.
LEMMA StoreKeeps ==
  ASSUME DomainInv, NEW i \in Issuers, Domain!StoreAssertion(i)
  PROVE  DomainInv'
  <1> DEFINE q == issuing[i]
             s == q.subject
             stored == Domain!StoresIn(members[s], q.assertion)
  <1>1. /\ q.pc = "store"
        /\ members' = IF stored THEN [members EXCEPT ![s].envelope = q.assertion] ELSE members
        /\ bare' = IF stored THEN bare \ {s} ELSE bare
        /\ issuing' = [issuing EXCEPT ![i] = Domain!Idle]
        /\ epoch' = epoch /\ inGate' = inGate /\ tokens' = tokens /\ domainNow' = domainNow /\ domainRetired' = domainRetired
    BY DEF Domain!StoreAssertion
  <1>2. q \in [pc : {"store"}, subject : Subjects, assertion : Domain!Assertions]
    BY <1>1, IssueCases DEF DomainInv, Domain!TypeOK
  <1>3. s \in Subjects /\ q.assertion \in Domain!Assertions /\ q.assertion # None
    BY <1>2, NoneIsNoMembership
  <1>4. /\ members \in [Subjects -> Domain!Rows \cup {None}]
        /\ issuing \in [Issuers -> Domain!Issues \cup {Domain!Idle}]
    BY DEF DomainInv, Domain!TypeOK
  <1>5. issuing' \in [Issuers -> Domain!Issues \cup {Domain!Idle}]
        /\ \A j \in Issuers : issuing'[j] = IF j = i THEN Domain!Idle ELSE issuing[j]
    BY <1>1, <1>4
  <1>6. Domain!Idle.pc = "idle"
    BY DEF Domain!Idle
  <1>7. CASE ~stored
    <2>1. members' = members /\ bare' = bare
      BY <1>1, <1>7
    <2>2. Domain!TypeOK'
      BY <2>1, <1>1, <1>5 DEF DomainInv, Domain!TypeOK
    <2>3. CredentialsCounted' /\ CredentialsDiffer' /\ RetiredIsRevoked' /\ EnvelopesFit' /\ EnvelopeOfOwn' /\ GateKnows'
      BY <2>1, <1>1 DEF DomainInv, CredentialsCounted, CredentialsDiffer, RetiredIsRevoked, EnvelopesFit, EnvelopeOfOwn,
                        GateKnows, Fits
    <2>4. PersistKnows' /\ StoreKnows'
      BY <2>1, <1>1, <1>5, <1>6 DEF DomainInv, PersistKnows, StoreKnows, Fits
    <2> QED
      BY <2>2, <2>3, <2>4 DEF DomainInv
  <1>8. CASE stored
    <2> DEFINE row == members[s]
               new == [row EXCEPT !.envelope = q.assertion]
    <2>1. row # None /\ row.generation = q.assertion.generation /\ row \in Domain!Rows
      BY <1>3, <1>4, <1>8 DEF Domain!StoresIn
    <2>2. /\ members' = [members EXCEPT ![s] = new] /\ bare' = bare \ {s}
      BY <1>1, <1>8
    <2>3. /\ new \in Domain!Rows /\ new.envelope = q.assertion /\ new.token = row.token /\ new.generation = row.generation
          /\ new.until = row.until /\ new.scopes = row.scopes /\ new.revoked = row.revoked
      BY <1>3, <2>1 DEF Domain!Rows
    <2>4. new # None
      BY <2>3, NoneIsNoMembership
    <2>5. Fits(q.assertion, row)
      BY <1>1 DEF DomainInv, StoreKnows
    <2> HIDE DEF new
    <2>6. members'[s] = new /\ \A u \in Subjects : u # s => members'[u] = members[u]
      BY <1>3, <1>4, <2>2
    <2>7. \A u \in Subjects : /\ members'[u] # None <=> members[u] # None
                              /\ members[u] # None =>
                                   /\ members'[u].token = members[u].token /\ members'[u].generation = members[u].generation
                                   /\ members'[u].until = members[u].until /\ members'[u].scopes = members[u].scopes
                                   /\ members'[u].revoked = members[u].revoked
      BY <2>1, <2>3, <2>4, <2>6
    <2>8. Domain!TypeOK'
      <3>1. members' \in [Subjects -> Domain!Rows \cup {None}]
        BY <1>3, <1>4, <2>2, <2>3
      <3> QED
        BY <3>1, <2>2, <1>1, <1>5 DEF DomainInv, Domain!TypeOK
    <2>9. CredentialsCounted' /\ CredentialsDiffer' /\ RetiredIsRevoked'
      BY <1>1, <2>7 DEF DomainInv, CredentialsCounted, CredentialsDiffer, RetiredIsRevoked
    <2>10. EnvelopesFit' /\ EnvelopeOfOwn'
      BY <1>3, <2>1, <2>2, <2>3, <2>5, <2>6 DEF DomainInv, EnvelopesFit, EnvelopeOfOwn, Fits
    <2>11. PersistKnows'
      BY <1>1, <1>5, <1>6 DEF DomainInv, PersistKnows
    <2>12. StoreKnows'
      <3> SUFFICES ASSUME NEW j \in Issuers, issuing'[j].pc = "store"
                   PROVE  members'[issuing'[j].subject] # None /\ Fits(issuing'[j].assertion, members'[issuing'[j].subject])
        BY DEF StoreKnows
      <3>1. issuing'[j] = issuing[j]
        BY <1>5, <1>6
      <3>2. issuing[j].subject \in Subjects
        BY <1>4, <3>1, IssueCases
      <3>3. members[issuing[j].subject] # None /\ Fits(issuing[j].assertion, members[issuing[j].subject])
        BY <3>1 DEF DomainInv, StoreKnows
      <3> QED
        BY <2>7, <3>1, <3>2, <3>3 DEF Fits
    <2>13. GateKnows'
      <3> SUFFICES ASSUME NEW r \in Requests, inGate[r] # Domain!Idle
                   PROVE  LET u == members'[inGate[r].subject]
                          IN /\ u # None /\ epoch <= inGate[r].generation /\ inGate[r].generation <= u.generation
                             /\ inGate[r].generation = u.generation => inGate[r].until = u.until
        BY <1>1 DEF GateKnows
      <3>1. inGate[r].subject \in Subjects
        BY DEF DomainInv, Domain!TypeOK, Domain!Decisions
      <3> QED
        BY <2>7, <3>1 DEF DomainInv, GateKnows
    <2> QED
      BY <2>8, <2>9, <2>10, <2>11, <2>12, <2>13 DEF DomainInv
  <1> QED
    BY <1>7, <1>8

\* revoke
LEMMA RevokeKeeps ==
  ASSUME DomainInv, NEW s \in Subjects, Domain!Revoke(s)
  PROVE  DomainInv'
  <1> DEFINE row == members[s]
             new == [row EXCEPT !.revoked = TRUE]
  <1>1. /\ row # None /\ members' = [members EXCEPT ![s] = new]
        /\ domainRetired' = domainRetired \cup {row.token}
        /\ epoch' = epoch /\ issuing' = issuing /\ inGate' = inGate /\ tokens' = tokens /\ domainNow' = domainNow /\ bare' = bare
    BY DEF Domain!Revoke
  <1>2. members \in [Subjects -> Domain!Rows \cup {None}] /\ tokens \in 0..MaxTokens
    BY DEF DomainInv, Domain!TypeOK
  <1>3. row \in Domain!Rows
    BY <1>1, <1>2
  <1>4. /\ new \in Domain!Rows /\ new.envelope = row.envelope /\ new.token = row.token /\ new.generation = row.generation
        /\ new.until = row.until /\ new.scopes = row.scopes /\ new.revoked
    BY <1>3 DEF Domain!Rows
  <1>5. new # None
    BY <1>4, NoneIsNoMembership
  <1>6. row.token \in 1..tokens /\ row.token \in 1..MaxTokens
    <2>1. row.token \in 1..MaxTokens
      BY <1>3 DEF Domain!Rows
    <2>2. row.token <= tokens
      BY <1>1 DEF DomainInv, CredentialsCounted
    <2> QED
      BY <2>1, <2>2, <1>2, RegistryConstants
  <1> HIDE DEF new
  <1>7. members'[s] = new /\ \A u \in Subjects : u # s => members'[u] = members[u]
    BY <1>1, <1>2
  <1>8. \A u \in Subjects : /\ members'[u] # None <=> members[u] # None
                            /\ members[u] # None =>
                                 /\ members'[u].token = members[u].token /\ members'[u].generation = members[u].generation
                                 /\ members'[u].until = members[u].until /\ members'[u].scopes = members[u].scopes
                                 /\ members'[u].envelope = members[u].envelope
    BY <1>1, <1>4, <1>5, <1>7
  <1>9. Domain!TypeOK'
    <2>1. members' \in [Subjects -> Domain!Rows \cup {None}]
      BY <1>1, <1>2, <1>4
    <2> QED
      BY <2>1, <1>1, <1>6 DEF DomainInv, Domain!TypeOK
  <1>10. CredentialsCounted' /\ CredentialsDiffer'
    <2>1. domainRetired' \subseteq 1..tokens
      BY <1>1, <1>6 DEF DomainInv, CredentialsCounted
    <2>2. \A u \in Subjects : members'[u] # None => members'[u].token <= tokens /\ members'[u].generation <= epoch + tokens
      BY <1>8 DEF DomainInv, CredentialsCounted
    <2>3. CredentialsDiffer'
      BY <1>8 DEF DomainInv, CredentialsDiffer
    <2> QED
      BY <1>1, <2>1, <2>2, <2>3 DEF CredentialsCounted
  <1>11. RetiredIsRevoked'
    BY <1>1, <1>4, <1>7 DEF DomainInv, RetiredIsRevoked, CredentialsDiffer
  <1>12. EnvelopesFit' /\ EnvelopeOfOwn'
    BY <1>1, <1>8 DEF DomainInv, EnvelopesFit, EnvelopeOfOwn, Fits
  <1>13. PersistKnows'
    BY <1>1 DEF DomainInv, PersistKnows
  <1>14. StoreKnows'
    <2> SUFFICES ASSUME NEW j \in Issuers, issuing[j].pc = "store"
                 PROVE  members'[issuing[j].subject] # None /\ Fits(issuing[j].assertion, members'[issuing[j].subject])
      BY <1>1 DEF StoreKnows, Fits
    <2>1. issuing[j].subject \in Subjects
      BY IssueCases DEF DomainInv, Domain!TypeOK
    <2> QED
      BY <1>8, <2>1 DEF DomainInv, StoreKnows, Fits
  <1>15. GateKnows'
    <2> SUFFICES ASSUME NEW r \in Requests, inGate[r] # Domain!Idle
                 PROVE  LET u == members'[inGate[r].subject]
                        IN /\ u # None /\ epoch <= inGate[r].generation /\ inGate[r].generation <= u.generation
                           /\ inGate[r].generation = u.generation => inGate[r].until = u.until
      BY <1>1 DEF GateKnows
    <2>1. inGate[r].subject \in Subjects
      BY DEF DomainInv, Domain!TypeOK, Domain!Decisions
    <2> QED
      BY <1>8, <2>1 DEF DomainInv, GateKnows
  <1> QED
    BY <1>9, <1>10, <1>11, <1>12, <1>13, <1>14, <1>15 DEF DomainInv

\* The steps that leave the table alone.
LEMMA OtherDomainSteps ==
  ASSUME DomainInv,
         \/ Domain!Tick \/ Domain!RaiseEpoch
         \/ \E i \in Issuers : \/ \E s \in Subjects, scopes \in {{"discovery", "bootstrap"}, {"*"}}, ttl \in 1..MaxTtl, asserted \in BOOLEAN :
                                    Domain!StartIssue(i, s, scopes, ttl, asserted)
                               \/ Domain!IssueFails(i)
         \/ \E r \in Requests : \/ \E token \in 1..tokens, s \in Subjects, operation \in Domain!Scopes \ {"*"} :
                                     Domain!Admit(r, token, s, operation)
                                \/ Domain!Answer(r)
  PROVE  DomainInv'
  <1>0. /\ members \in [Subjects -> Domain!Rows \cup {None}] /\ epoch \in 1..MaxEpoch /\ tokens \in 0..MaxTokens
        /\ issuing \in [Issuers -> Domain!Issues \cup {Domain!Idle}] /\ inGate \in [Requests -> Domain!Decisions \cup {Domain!Idle}]
        /\ domainNow \in 0..MaxNow /\ domainRetired \subseteq 1..MaxTokens /\ bare \subseteq Subjects
    BY DEF DomainInv, Domain!TypeOK
  <1>1. members' = members /\ tokens' = tokens /\ domainRetired' = domainRetired /\ bare' = bare
    BY DEF Domain!Tick, Domain!RaiseEpoch, Domain!StartIssue, Domain!IssueFails, Domain!Admit, Domain!Answer
  <1>2. CredentialsDiffer' /\ RetiredIsRevoked' /\ EnvelopesFit' /\ EnvelopeOfOwn'
    BY <1>1 DEF DomainInv, CredentialsDiffer, RetiredIsRevoked, EnvelopesFit, EnvelopeOfOwn, Fits
  <1>3. ASSUME epoch' \in 1..MaxEpoch, epoch <= epoch' PROVE CredentialsCounted'
    <2>1. \A s \in Subjects : members[s] # None => members[s].generation \in Nat
      BY <1>0, DomainAssumption, RegistryConstants DEF Domain!Rows, Domain!Generations
    <2>2. \A s \in Subjects : members[s] # None => members[s].generation <= epoch' + tokens
      BY <1>0, <1>3, <2>1 DEF DomainInv, CredentialsCounted
    <2> QED
      BY <1>1, <2>2 DEF DomainInv, CredentialsCounted
  <1>4. Domain!Idle.pc = "idle"
    BY DEF Domain!Idle
  <1>5. CASE Domain!Tick
    <2>1. epoch' = epoch /\ issuing' = issuing /\ inGate' = inGate /\ domainNow' = domainNow + 1 /\ domainNow' \in 0..MaxNow
      BY <1>5, <1>0, RegistryConstants DEF Domain!Tick
    <2>2. Domain!TypeOK'
      BY <1>0, <1>1, <2>1 DEF Domain!TypeOK
    <2>3. PersistKnows'
      <3>1. \A i \in Issuers : issuing[i].pc = "persist" => issuing[i].at \in Nat
        BY <1>0, IssueCases
      <3> QED
        BY <3>1, <2>1, <1>0 DEF DomainInv, PersistKnows
    <2>4. StoreKnows' /\ GateKnows'
      BY <1>1, <2>1 DEF DomainInv, StoreKnows, GateKnows, Fits
    <2> QED
      BY <1>0, <1>2, <1>3, <2>1, <2>2, <2>3, <2>4 DEF DomainInv
  <1>6. CASE Domain!RaiseEpoch
    <2>1. /\ epoch' = epoch + 1 /\ epoch' \in 1..MaxEpoch /\ epoch <= epoch' /\ issuing' = issuing /\ domainNow' = domainNow
          /\ inGate' = [r \in Requests |-> Domain!Idle]
      BY <1>6, <1>0, DomainAssumption DEF Domain!RaiseEpoch
    <2>2. Domain!TypeOK'
      BY <1>0, <1>1, <2>1 DEF Domain!TypeOK
    <2>3. PersistKnows' /\ StoreKnows' /\ GateKnows'
      BY <1>1, <2>1 DEF DomainInv, PersistKnows, StoreKnows, GateKnows, Fits
    <2> QED
      BY <1>2, <1>3, <2>1, <2>2, <2>3 DEF DomainInv
  <1>7. ASSUME NEW i \in Issuers, NEW q \in Domain!Issues \cup {Domain!Idle}, issuing' = [issuing EXCEPT ![i] = q],
               q = Domain!Idle \/ (q.pc = "persist" /\ q.at <= domainNow /\ (q.asserted => "bootstrap" \in q.scopes)),
               epoch' = epoch, inGate' = inGate, domainNow' = domainNow
        PROVE  DomainInv'
    <2>1. Domain!TypeOK'
      BY <1>0, <1>1, <1>7 DEF Domain!TypeOK
    <2>2. \A j \in Issuers : issuing'[j] = IF j = i THEN q ELSE issuing[j]
      BY <1>0, <1>7
    <2>3. PersistKnows'
      BY <2>2, <1>4, <1>7 DEF DomainInv, PersistKnows
    <2>4. StoreKnows'
      <3>1. q.pc # "store"
        BY <1>4, <1>7
      <3> QED
        BY <2>2, <3>1, <1>1 DEF DomainInv, StoreKnows, Fits
    <2>5. GateKnows'
      BY <1>1, <1>7 DEF DomainInv, GateKnows
    <2> QED
      BY <1>0, <1>2, <1>3, <1>7, <2>1, <2>3, <2>4, <2>5 DEF DomainInv
  <1>8. ASSUME NEW i \in Issuers, NEW s \in Subjects, NEW scopes \in {{"discovery", "bootstrap"}, {"*"}}, NEW ttl \in 1..MaxTtl,
               NEW asserted \in BOOLEAN, Domain!StartIssue(i, s, scopes, ttl, asserted)
        PROVE  DomainInv'
    <2> DEFINE q == [pc |-> "persist", subject |-> s, scopes |-> scopes, ttl |-> ttl, asserted |-> asserted, at |-> domainNow]
    <2>1. scopes \in Domain!SomeScopes
      BY DEF Domain!SomeScopes, Domain!Scopes
    <2>2. q \in Domain!Issues
      BY <2>1, <1>0 DEF Domain!Issues
    <2>3. q.asserted => "bootstrap" \in q.scopes
      BY <1>8 DEF Domain!StartIssue, Domain!Assertable, Domain!is_peer_scope
    <2>4. /\ issuing' = [issuing EXCEPT ![i] = q] /\ epoch' = epoch /\ inGate' = inGate /\ domainNow' = domainNow
      BY <1>8 DEF Domain!StartIssue
    <2>5. q.pc = "persist" /\ q.at <= domainNow
      BY <1>0
    <2> QED
      BY <1>7, <2>2, <2>3, <2>4, <2>5
  <1>9. ASSUME NEW i \in Issuers, Domain!IssueFails(i) PROVE DomainInv'
    BY <1>7, <1>9 DEF Domain!IssueFails
  <1>10. ASSUME NEW r \in Requests, NEW q \in Domain!Decisions \cup {Domain!Idle}, inGate' = [inGate EXCEPT ![r] = q],
               q # Domain!Idle => /\ members[q.subject] # None /\ epoch <= q.generation
                                  /\ q.generation = members[q.subject].generation /\ q.until = members[q.subject].until,
               epoch' = epoch, issuing' = issuing, domainNow' = domainNow
        PROVE  DomainInv'
    <2>1. Domain!TypeOK'
      BY <1>0, <1>1, <1>10 DEF Domain!TypeOK
    <2>2. \A p \in Requests : inGate'[p] = IF p = r THEN q ELSE inGate[p]
      BY <1>0, <1>10
    <2>3. PersistKnows' /\ StoreKnows'
      BY <1>1, <1>10 DEF DomainInv, PersistKnows, StoreKnows, Fits
    <2>4. GateKnows'
      <3>1. q # Domain!Idle => q.generation \in Nat
        BY <1>10, DomainAssumption, RegistryConstants DEF Domain!Decisions, Domain!Generations
      <3> QED
        BY <2>2, <3>1, <1>1, <1>10 DEF DomainInv, GateKnows
    <2> QED
      BY <1>0, <1>2, <1>3, <1>10, <2>1, <2>3, <2>4 DEF DomainInv
  <1>11. ASSUME NEW r \in Requests, NEW token \in 1..tokens, NEW s \in Subjects, NEW operation \in Domain!Scopes \ {"*"},
               Domain!Admit(r, token, s, operation)
        PROVE  DomainInv'
    <2> DEFINE q == [pc |-> "run", subject |-> s, operation |-> operation,
                     generation |-> members[s].generation, until |-> members[s].until]
    <2>1. members[s] # None /\ epoch <= members[s].generation
      <3>1. members[s] # None /\ members[s].generation >= epoch
        BY <1>11 DEF Domain!Admit, Domain!Authorizes, Domain!Current
      <3>2. members[s].generation \in Nat
        BY <3>1, <1>0, DomainAssumption, RegistryConstants DEF Domain!Rows, Domain!Generations
      <3> QED
        BY <3>1, <3>2, <1>0
    <2>2. q \in Domain!Decisions
      BY <2>1, <1>0 DEF Domain!Decisions, Domain!Rows
    <2>3. inGate' = [inGate EXCEPT ![r] = q] /\ epoch' = epoch /\ issuing' = issuing /\ domainNow' = domainNow
      BY <1>11 DEF Domain!Admit
    <2>4. q.subject = s /\ q.generation = members[s].generation /\ q.until = members[s].until
      OBVIOUS
    <2> HIDE DEF q
    <2> QED
      BY <1>10, <2>1, <2>2, <2>3, <2>4
  <1>12. ASSUME NEW r \in Requests, Domain!Answer(r) PROVE DomainInv'
    BY <1>10, <1>12 DEF Domain!Answer
  <1> QED
    BY <1>5, <1>6, <1>8, <1>9, <1>11, <1>12

LEMMA DomainInitial == Domain!Init => DomainInv
  <1> SUFFICES ASSUME Domain!Init PROVE DomainInv
    OBVIOUS
  <1>1. Domain!TypeOK
    BY DomainAssumption, RegistryConstants DEF Domain!Init, Domain!TypeOK
  <1>2. CredentialsCounted /\ CredentialsDiffer /\ RetiredIsRevoked /\ EnvelopesFit /\ EnvelopeOfOwn
    BY DEF Domain!Init, CredentialsCounted, CredentialsDiffer, RetiredIsRevoked, EnvelopesFit, EnvelopeOfOwn
  <1>3. PersistKnows /\ StoreKnows /\ GateKnows
    BY DEF Domain!Init, PersistKnows, StoreKnows, GateKnows, Domain!Idle
  <1> QED
    BY <1>1, <1>2, <1>3 DEF DomainInv

LEMMA DomainKept == DomainInv /\ [Domain!Next]_domainVars => DomainInv'
  <1> SUFFICES ASSUME DomainInv, [Domain!Next]_domainVars PROVE DomainInv'
    OBVIOUS
  <1>1. CASE UNCHANGED domainVars
    BY <1>1 DEF domainVars, DomainInv, Domain!TypeOK, CredentialsCounted, CredentialsDiffer, RetiredIsRevoked, EnvelopesFit,
                EnvelopeOfOwn, PersistKnows, StoreKnows, GateKnows, Fits
  <1>2. ASSUME Domain!Next PROVE DomainInv'
    BY <1>2, PersistKeeps, StoreKeeps, RevokeKeeps, OtherDomainSteps DEF Domain!Next
  <1> QED
    BY <1>1, <1>2

LEMMA DomainInvSafe == DomainInv => Domain!Safety
  <1> SUFFICES ASSUME DomainInv PROVE Domain!Safety
    OBVIOUS
  <1>0. /\ members \in [Subjects -> Domain!Rows \cup {None}] /\ inGate \in [Requests -> Domain!Decisions \cup {Domain!Idle}]
        /\ epoch \in 1..MaxEpoch /\ domainNow \in 0..MaxNow
    BY DEF DomainInv, Domain!TypeOK
  <1>1. Domain!RetiredRefused
    BY DEF DomainInv, RetiredIsRevoked, Domain!RetiredRefused, Domain!Authorizes, Domain!Current
  <1>2. Domain!ServedAssertionCurrent
    BY DEF DomainInv, EnvelopeOfOwn, Domain!ServedAssertionCurrent, Domain!bootstrap_memberships, Domain!Current
  <1>3. Domain!AssertionWithinMembership
    BY DEF DomainInv, EnvelopesFit, Fits, Domain!AssertionWithinMembership
  <1>4. Domain!DecisionHeld
    <2> SUFFICES ASSUME NEW r \in Requests, inGate[r] # Domain!Idle
                 PROVE  LET row == members[inGate[r].subject]
                        IN \/ Domain!Current(row) /\ row.generation = inGate[r].generation /\ row.until = inGate[r].until
                           \/ row.revoked \/ row.generation > inGate[r].generation \/ inGate[r].until <= domainNow
      BY DEF Domain!DecisionHeld
    <2> DEFINE row == members[inGate[r].subject]
    <2>1. /\ row # None /\ epoch <= inGate[r].generation /\ inGate[r].generation <= row.generation
          /\ inGate[r].generation = row.generation => inGate[r].until = row.until
      BY DEF DomainInv, GateKnows
    <2>2. inGate[r].subject \in Subjects /\ inGate[r].generation \in Nat /\ inGate[r].until \in Nat
      BY <1>0, DomainAssumption, RegistryConstants DEF Domain!Decisions, Domain!Generations, Domain!Times
    <2>3. row.generation \in Nat
      BY <1>0, <2>1, <2>2, DomainAssumption, RegistryConstants DEF Domain!Rows, Domain!Generations
    <2> QED
      BY <1>0, <2>1, <2>2, <2>3 DEF Domain!Current
  <1> QED
    BY <1>1, <1>2, <1>3, <1>4 DEF DomainInv, Domain!Safety

\* Whatever issue, rotation, revocation, expiry and change of epoch come between the steps
\* of a command or of a request, the gate refuses retired credentials, peers are served
\* assertions of the current generation that stay within the membership, and a decision
\* under way was true when it was made (authorize, issue_record, issue_with_assertion).
THEOREM MembershipIsSafe == MCSpec => []DomainSafe
  <1>1. MCInit => DomainInv
    BY DomainInitial DEF MCInit
  <1>2. DomainInv /\ [MCNext]_all => DomainInv'
    <2>1. [MCNext]_all => [Domain!Next]_domainVars
      BY DEF MCNext, all, domainVars
    <2> QED
      BY <2>1, DomainKept
  <1>3. DomainInv => DomainSafe
    BY DomainInvSafe DEF DomainSafe
  <1> QED
    BY <1>1, <1>2, <1>3, PTL DEF MCSpec

---------------------------------------------------------------------------
(* Discovery: the ranking *)

Entries == [id : 1..N, at : Nat, row : Disco!RowTypes]
OneRowEach(list) == \A x, y \in list : x.id = y.id => x = y

LEMMA DiscoCardinality == \A S : Disco!Cardinality(S) = Cardinality(S)
  <1> SUFFICES ASSUME NEW S
               PROVE  Disco!Cardinality(S) = Cardinality(S)
    OBVIOUS
  <1> QED
    BY DEF Disco!Cardinality, Cardinality

\* A row's parts are percentages.
LEMMA RowParts ==
  ASSUME NEW row \in Disco!RowTypes
  PROVE  /\ row.availability \in Nat /\ row.availability <= 100 /\ row.load \in Nat /\ row.load <= 100
         /\ row.capacity \in Nat /\ row.reputation \in Nat /\ row.price \in Nat /\ row.tasks \in Nat
         /\ row.sdk_current \in BOOLEAN /\ row.cx_key \in BOOLEAN
  BY DEF Disco!RowTypes, Disco!Percent

LEMMA Products ==
  ASSUME NEW a \in Nat, NEW b \in Nat, NEW c \in Nat, NEW d \in Nat
  PROVE  a * c \in Nat /\ (a > b /\ c >= d /\ d > 0 => a * c > b * d)
  <1>1. a * c \in Nat /\ a * d \in Nat /\ b * d \in Nat
    OBVIOUS
  <1>2. ASSUME a > b, c >= d, d > 0 PROVE a * c > b * d
    <2>1. a * c >= a * d
      BY <1>2, SMT
    <2>2. a * d > b * d
      BY <1>2, SMT
    <2> QED
      BY <1>1, <2>1, <2>2
  <1> QED
    BY <1>1, <1>2

LEMMA ScoreIsNat ==
  ASSUME NEW row \in Disco!RowTypes
  PROVE  /\ Disco!Weighted(row) \in Nat /\ Disco!Readiness(row) \in Nat /\ Disco!Readiness(row) > 0
         /\ Disco!ranking_score(row) \in Nat
  <1>1. Disco!Weighted(row) \in Nat
    <2> DEFINE region == IF query.region = None THEN 50 ELSE IF query.region = row.region THEN 100 ELSE 0
               match == IF query.model \in Disco!LiveModels(row) THEN 100 ELSE 0
    <2>1. region \in Nat /\ match \in Nat
      OBVIOUS
    <2>2. PICK room \in Nat : room = 100 - row.load
      BY RowParts
    <2>3. Disco!Weighted(row) =
            IF query.model = None
            THEN 35 * row.availability + 28 * room + 18 * row.capacity + 9 * region + 10 * row.reputation
            ELSE 25 * row.availability + 20 * room + 15 * row.capacity + 10 * region
                 + 10 * row.reputation + 10 * row.price + 10 * match
      BY <2>2 DEF Disco!Weighted
    <2>4. row.availability \in Nat /\ row.capacity \in Nat /\ row.reputation \in Nat /\ row.price \in Nat
      BY RowParts
    <2> HIDE DEF region, match
    <2> QED
      BY <2>1, <2>2, <2>3, <2>4
  <1>2. Disco!Readiness(row) \in Nat /\ Disco!Readiness(row) > 0
    BY DEF Disco!Readiness
  <1> QED
    BY <1>1, <1>2, Products DEF Disco!ranking_score

\* The entries of a list with one row for each node are ordered by Before.
LEMMA BeforeOrders ==
  ASSUME NEW list \in SUBSET Entries, OneRowEach(list)
  PROVE  /\ \A x \in list : ~Disco!Before(x, x)
         /\ \A x, y \in list : x # y => Disco!Before(x, y) \/ Disco!Before(y, x)
         /\ \A x, y, z \in list : Disco!Before(x, y) /\ Disco!Before(y, z) => Disco!Before(x, z)
  <1>1. \A x \in list : x.id \in Nat /\ x.row \in Disco!RowTypes
    BY DiscoveryAssumption DEF Entries
  <1>2. \A x \in list : Disco!ranking_score(x.row) \in Nat
    BY <1>1, ScoreIsNat
  <1>3. \A x, y \in list : x # y => x.id # y.id
    BY DEF OneRowEach
  <1> QED
    BY <1>1, <1>2, <1>3 DEF Disco!Before

\* Every entry has a place of its own, in the order of the ranking.
LEMMA PlacesInOrder ==
  ASSUME NEW list \in SUBSET Entries, OneRowEach(list), IsFiniteSet(list)
  PROVE  /\ Cardinality(list) \in Nat
         /\ \A x \in list : Disco!Place(list, x) \in 1..Cardinality(list)
         /\ \A x, y \in list : Disco!Before(x, y) => Disco!Place(list, x) < Disco!Place(list, y)
         /\ \A x, y \in list : Disco!Place(list, x) = Disco!Place(list, y) => x = y
         /\ \A i \in 1..Cardinality(list) : \E x \in list : Disco!Place(list, x) = i
  <1> DEFINE Ahead(x) == {y \in list : Disco!Before(y, x)}
             n == Cardinality(list)
             P(x) == Disco!Place(list, x)
  <1>1. n \in Nat
    BY FS_CardinalityType
  <1>2. \A x \in list : P(x) = Cardinality(Ahead(x)) + 1
    BY DiscoCardinality DEF Disco!Place
  <1>3. \A x \in list : Ahead(x) \in SUBSET list /\ x \notin Ahead(x)
    BY BeforeOrders
  <1>4. \A x, y \in list : Disco!Before(x, y) => Ahead(x) \in SUBSET Ahead(y) /\ x \in Ahead(y)
    BY BeforeOrders
  <1> HIDE DEF Ahead, P
  <1>5. \A x \in list : IsFiniteSet(Ahead(x)) /\ Cardinality(Ahead(x)) \in Nat /\ Cardinality(Ahead(x)) <= n /\ Cardinality(Ahead(x)) # n
    <2> SUFFICES ASSUME NEW x \in list
                 PROVE  IsFiniteSet(Ahead(x)) /\ Cardinality(Ahead(x)) \in Nat /\ Cardinality(Ahead(x)) <= n /\ Cardinality(Ahead(x)) # n
      OBVIOUS
    <2>1. Ahead(x) \in SUBSET list /\ Ahead(x) # list
      BY <1>3
    <2> QED
      BY <2>1, FS_Subset, FS_CardinalityType
  <1>6. \A x \in list : P(x) \in 1..n
    BY <1>1, <1>2, <1>5
  <1>7. \A x, y \in list : Disco!Before(x, y) => P(x) < P(y)
    <2> SUFFICES ASSUME NEW x \in list, NEW y \in list, Disco!Before(x, y) PROVE P(x) < P(y)
      OBVIOUS
    <2>1. Ahead(x) \in SUBSET Ahead(y) /\ Ahead(x) # Ahead(y)
      BY <1>3, <1>4
    <2>2. Cardinality(Ahead(x)) <= Cardinality(Ahead(y)) /\ Cardinality(Ahead(x)) # Cardinality(Ahead(y))
      BY <1>5, <2>1, FS_Subset
    <2> QED
      BY <1>2, <1>5, <2>2
  <1>8. \A x, y \in list : P(x) = P(y) => x = y
    <2> SUFFICES ASSUME NEW x \in list, NEW y \in list, P(x) = P(y), x # y PROVE FALSE
      OBVIOUS
    <2>1. Disco!Before(x, y) \/ Disco!Before(y, x)
      BY BeforeOrders
    <2>2. P(x) \in Int /\ P(y) \in Int
      BY <1>1, <1>6
    <2> QED
      BY <1>7, <2>1, <2>2
  <1>9. \A i \in 1..n : \E x \in list : P(x) = i
    <2> DEFINE f == [x \in list |-> P(x)]
    <2>1. f \in Injection(list, 1..n)
      BY <1>6, <1>8 DEF Injection, IsInjective
    <2>2. IsFiniteSet(1..n) /\ Cardinality(1..n) = n
      BY <1>1, FS_Interval
    <2>3. f \in Surjection(list, 1..n)
      <3> HIDE DEF f
      <3> QED
        BY <2>1, <2>2, FS_Injection
    <2> QED
      BY <2>3 DEF Surjection
  <1> QED
    BY <1>1, <1>6, <1>7, <1>8, <1>9 DEF P

\* A sorted list, cut at a limit, has the entries whose places are within the limit.
LEMMA SortedIs ==
  ASSUME NEW list \in SUBSET Entries, OneRowEach(list), IsFiniteSet(list), NEW limit \in Nat
  PROVE  LET s == Disco!Sorted(list, limit)
             size == Disco!Size(list, limit)
         IN /\ size \in Nat /\ size <= limit /\ size <= Cardinality(list) /\ (size = limit \/ size = Cardinality(list))
            /\ DOMAIN s = 1..size
            /\ \A i \in 1..size : s[i] \in list /\ Disco!Place(list, s[i]) = i
            /\ \A x \in list : Disco!Place(list, x) <= limit =>
                 Disco!Place(list, x) \in 1..size /\ s[Disco!Place(list, x)] = x
  <1> DEFINE n == Cardinality(list)
             P(x) == Disco!Place(list, x)
             size == Disco!Size(list, limit)
             s == Disco!Sorted(list, limit)
  <1>1. /\ n \in Nat
        /\ \A x \in list : P(x) \in 1..n
        /\ \A x, y \in list : P(x) = P(y) => x = y
        /\ \A i \in 1..n : \E x \in list : P(x) = i
    BY PlacesInOrder
  <1>2. size \in Nat /\ size <= limit /\ size <= n /\ (size = limit \/ size = n)
    BY <1>1, DiscoCardinality DEF Disco!Size
  <1>3. s = [i \in 1..size |-> CHOOSE x \in list : P(x) = i]
    BY DEF Disco!Sorted
  <1> HIDE DEF n, size, P, s
  <1>4. DOMAIN s = 1..size
    BY <1>3
  <1>5. ASSUME NEW i \in 1..size PROVE s[i] \in list /\ P(s[i]) = i
    <2>1. i \in 1..n
      BY <1>1, <1>2
    <2>2. PICK x \in list : P(x) = i
      BY <1>1, <2>1
    <2>3. s[i] = CHOOSE y \in list : P(y) = i
      BY <1>3
    <2> QED
      BY <2>2, <2>3
  <1>6. ASSUME NEW x \in list, P(x) <= limit PROVE P(x) \in 1..size /\ s[P(x)] = x
    <2>1. P(x) \in 1..size
      BY <1>1, <1>2, <1>6
    <2> QED
      BY <1>1, <1>5, <2>1
  <1> QED
    BY <1>2, <1>4, <1>5, <1>6 DEF n, size, P, s

---------------------------------------------------------------------------
(* Discovery: what a request has read *)

\* A row as From<NodeRow> for Node and the second query leave it.
AsRead(row) == [row EXCEPT !.availability = IF @ = 0 THEN 100 ELSE @]

LEMMA ReadTypes ==
  ASSUME NEW row \in Disco!RowTypes
  PROVE  /\ Disco!AsNode(row) \in Disco!RowTypes /\ AsRead(row) \in Disco!RowTypes
         /\ [Disco!AsNode(row) EXCEPT !.models = row.models] = AsRead(row)
  <1>2. AsRead(row) \in Disco!RowTypes
    BY DEF Disco!RowTypes, Disco!Percent, AsRead
  <1>1. Disco!AsNode(row) \in Disco!RowTypes
    <2>1. Disco!AsNode(row) = [AsRead(row) EXCEPT !.models = {}]
      BY DEF Disco!AsNode, AsRead, Disco!RowTypes
    <2>2. ASSUME NEW r \in Disco!RowTypes PROVE [r EXCEPT !.models = {}] \in Disco!RowTypes
      BY DEF Disco!RowTypes
    <2> QED
      BY <1>2, <2>1, <2>2
  <1>3. [Disco!AsNode(row) EXCEPT !.models = row.models] = AsRead(row)
    BY DEF Disco!RowTypes, Disco!AsNode, AsRead
  <1> QED
    BY <1>1, <1>2, <1>3

\* Only the availability differs from the row that is stored.
LEMMA ReadParts ==
  ASSUME NEW row \in Disco!RowTypes
  PROVE  /\ AsRead(row).availability = Disco!AsNode(row).availability
         /\ AsRead(row).load = row.load /\ AsRead(row).capacity = row.capacity /\ AsRead(row).region = row.region
         /\ AsRead(row).reputation = row.reputation /\ AsRead(row).tasks = row.tasks /\ AsRead(row).price = row.price
         /\ AsRead(row).models = row.models /\ AsRead(row).health_models = row.health_models
         /\ AsRead(row).backend = row.backend /\ AsRead(row).sdk_current = row.sdk_current
         /\ AsRead(row).cx_key = row.cx_key /\ AsRead(row).relay = row.relay
  BY DEF Disco!RowTypes, Disco!AsNode, AsRead

LEMMA CapabilitiesAdded ==
  ASSUME NEW x \in Entries, NEW models \in SUBSET Disco!Models
  PROVE  LET y == [x EXCEPT !.row.models = models]
         IN y \in Entries /\ y.id = x.id /\ y.row = [x.row EXCEPT !.models = models]
  <1>1. x.row \in Disco!RowTypes
    BY DEF Entries
  <1>2. [x.row EXCEPT !.models = models] \in Disco!RowTypes
    BY <1>1 DEF Disco!RowTypes
  <1> QED
    BY <1>2 DEF Entries

LEMMA ListsAreFinite ==
  ASSUME NEW list \in SUBSET Entries, OneRowEach(list)
  PROVE  IsFiniteSet(list)
  <1> DEFINE f == [x \in list |-> x.id]
  <1>1. f \in Injection(list, 1..N)
    BY DEF Injection, IsInjective, Entries, OneRowEach
  <1>2. IsFiniteSet(1..N)
    BY DiscoveryAssumption, FS_Interval
  <1> HIDE DEF f
  <1> QED
    BY <1>1, <1>2, FS_Injection

DiscoveryTypes ==
  /\ rows \in [1..N -> Disco!RowTypes]
  /\ roster \subseteq 1..N
  /\ query \in Queries
  /\ pc \in {"admit", "rows", "capabilities", "members", "select", "done"}
  /\ found \subseteq Entries /\ OneRowEach(found)
  /\ writes \in 0..MaxWrites
  /\ outside \subseteq 1..N /\ steady \subseteq 1..N /\ crowded \in BOOLEAN
\* Nothing is answered or counted before the end, and nothing found before it is read.
NothingYet ==
  /\ pc # "done" => answer = <<>> /\ usage = [k \in Disco!Modes |-> 0]
  /\ pc \in {"admit", "rows"} => found = {}
\* Only an admitted request reads.
ReadersAdmitted ==
  /\ pc \in {"rows", "capabilities", "members"} \/ found # {} => Disco!Admitted
  /\ pc = "members" => Restricted /\ ~Disco!IsTicket
OutsideAreNoMembers ==
  /\ outside \cap roster = {}
  /\ pc \in {"select", "done"} /\ Restricted /\ ~Disco!IsTicket => \A x \in found : x.id \notin outside
\* What was read of a node that did not change is so.
ReadOf(n) == IF pc = "capabilities" THEN Disco!AsNode(rows[n]) ELSE AsRead(rows[n])
FoundIsCurrent == \A x \in found : x.id \in steady => Disco!Matches(x.id) /\ x.row = ReadOf(x.id)
\* No node that did not change is missed by a request whose queries return all that match.
Wanted(n) == Disco!Matches(n) /\ (pc \in {"select", "done"} /\ ~Disco!IsTicket => Disco!IsPermitted(n))
NoneMissed ==
  /\ pc \in {"capabilities", "members", "select", "done"} /\ Disco!Admitted
  /\ ~crowded /\ (Disco!IsTicket => query.selector # None)
  => \A n \in steady : Wanted(n) => \E x \in found : x.id = n
\* The answer has nodes that were found and chosen, each behind whoever is before it; and the
\* one route a ticket selected.
AnswersAreFound ==
  \A i \in DOMAIN answer : \E x \in found :
    x.id = answer[i] /\ IF Disco!IsTicket THEN Disco!Dispatchable(x) ELSE Disco!Chosen(x)
AnswersInOrder ==
  ~Disco!IsTicket =>
    \A x, y \in found, i \in DOMAIN answer :
      Disco!Chosen(x) /\ Disco!Before(x, y) /\ y.id = answer[i] => \E j \in 1..(i - 1) : answer[j] = x.id
IsRoute(x) == Disco!Dispatchable(x) /\ x.id \in query.selector
OnlyRoute(x) == x \in found /\ IsRoute(x) /\ \A y \in found : IsRoute(y) => y = x
AnswerIsRoute ==
  Disco!IsTicket /\ query.signing_key /\ query.selector # None =>
    /\ \A x \in found : OnlyRoute(x) => answer = <<x.id>>
    /\ (\A x \in found : ~OnlyRoute(x)) => answer = <<>>
AnswerIsChoice ==
  pc = "done" =>
    /\ answer \in Seq(1..N) /\ usage \in [Disco!Modes -> 0..1]
    /\ AnswersAreFound /\ AnswersInOrder /\ AnswerIsRoute
DiscoveryInv ==
  /\ DiscoveryTypes /\ NothingYet /\ ReadersAdmitted /\ OutsideAreNoMembers /\ FoundIsCurrent /\ NoneMissed
  /\ AnswerIsChoice

\* The nodes that a query returns are different, match, and are all that do if the limit allows.
LEMMA QueryReturns ==
  ASSUME DiscoveryTypes, NEW s \in Disco!Selections
  PROVE  LET matching == {n \in 1..N : Disco!Matches(n)}
         IN /\ \A i \in DOMAIN s : i \in Nat /\ s[i] \in 1..N /\ Disco!Matches(s[i])
            /\ \A i, j \in DOMAIN s : s[i] = s[j] => i = j
            /\ Cardinality(matching) <= Disco!DatabaseLimit => \A n \in matching : \E i \in DOMAIN s : s[i] = n
  <1> DEFINE matching == {n \in 1..N : Disco!Matches(n)}
             top == Disco!DatabaseLimit
             size == Disco!Size(matching, top)
  <1>1. IsFiniteSet(matching) /\ Cardinality(matching) \in Nat
    <2>1. IsFiniteSet(1..N)
      BY DiscoveryAssumption, FS_Interval
    <2> QED
      BY <2>1, FS_Subset, FS_CardinalityType
  <1>2. top \in Nat
    <2>1. query \in Disco!QueryTypes
      BY DiscoveryAssumption DEF DiscoveryTypes
    <2>2. query.limit \in 1..MaxLimit
      BY <2>1 DEF Disco!QueryTypes
    <2> QED
      BY <2>2, DiscoveryAssumption DEF Disco!DatabaseLimit
  <1>3. s \in [1..size -> matching] /\ \A i, j \in 1..size : i # j => s[i] # s[j]
    BY DEF Disco!Selections, Disco!Nodes
  <1>4. size = IF Cardinality(matching) < top THEN Cardinality(matching) ELSE top
    BY DiscoCardinality DEF Disco!Size
  <1>5. \A n \in matching : n \in 1..N /\ Disco!Matches(n)
    OBVIOUS
  <1> HIDE DEF matching, top, size
  <1>6. ASSUME Cardinality(matching) <= top PROVE \A n \in matching : \E i \in DOMAIN s : s[i] = n
    <2>1. size = Cardinality(matching)
      BY <1>1, <1>2, <1>4, <1>6
    <2>2. s \in Injection(1..size, matching)
      BY <1>3 DEF Injection, IsInjective
    <2>3. Cardinality(1..size) = Cardinality(matching)
      BY <1>1, <2>1, FS_Interval
    <2>4. s \in Surjection(1..size, matching)
      BY <1>1, <2>2, <2>3, FS_Injection
    <2> QED
      BY <1>3, <2>4 DEF Surjection
  <1>7. size \in Nat
    BY <1>1, <1>2, <1>4
  <1>8. \A i \in DOMAIN s : i \in Nat /\ s[i] \in matching
    BY <1>3, <1>7
  <1>9. \A i \in DOMAIN s : i \in Nat /\ s[i] \in 1..N /\ Disco!Matches(s[i])
    BY <1>5, <1>8
  <1>10. \A i, j \in DOMAIN s : s[i] = s[j] => i = j
    BY <1>3
  <1> QED
    BY <1>6, <1>9, <1>10 DEF matching, top

LEMMA QueryIs ==
  ASSUME query \in Queries
  PROVE  /\ query \in Disco!QueryTypes /\ query.mode \in Disco!Modes /\ query.limit \in Nat
         /\ ~Disco!IsTicket => query.exclude = {}
  <1>1. query \in Disco!QueryTypes /\ (query.mode # "ticketed_dispatch" => query.exclude = {})
    BY DiscoveryAssumption
  <1>2. query.mode \in Disco!Modes /\ query.limit \in 1..MaxLimit
    BY <1>1 DEF Disco!QueryTypes
  <1> QED
    BY <1>1, <1>2, DiscoveryAssumption DEF Disco!IsTicket

LEMMA BoundsAreNat == N \in Nat /\ MaxLimit \in Nat /\ MaxWrites \in Nat
  BY DiscoveryAssumption

LEMMA DiscoveryInitial == Disco!Init => DiscoveryInv
  <1> SUFFICES ASSUME Disco!Init PROVE DiscoveryInv
    OBVIOUS
  <1>1. DiscoveryTypes
    <2>1. rows \in [1..N -> Disco!RowTypes]
      BY DiscoveryAssumption DEF Disco!Init, Disco!Nodes
    <2>2. roster \subseteq 1..N
      BY DiscoveryAssumption DEF Disco!Init, Disco!Nodes
    <2>3. writes \in 0..MaxWrites
      BY BoundsAreNat DEF Disco!Init
    <2>4. crowded \in BOOLEAN
      BY DEF Disco!Init
    <2> QED
      BY <2>1, <2>2, <2>3, <2>4 DEF Disco!Init, DiscoveryTypes, Disco!Nodes, OneRowEach
  <1> QED
    BY <1>1 DEF Disco!Init, DiscoveryInv, NothingYet, ReadersAdmitted, OutsideAreNoMembers, FoundIsCurrent,
                NoneMissed, AnswerIsChoice

\* The changes of others.
LEMMA ChangesKeepDiscovery ==
  ASSUME DiscoveryInv, NEW n \in Disco!Nodes, Disco!ChangeMember(n) \/ \E row \in NodeRows : Disco!Write(n, row)
  PROVE  DiscoveryInv'
  <1>1. /\ pc \in {"capabilities", "members"} /\ pc' = pc /\ query' = query /\ found' = found
        /\ answer' = answer /\ usage' = usage /\ crowded' = crowded /\ steady' = steady \ {n}
        /\ writes < MaxWrites /\ writes' = writes + 1
    BY DEF Disco!ChangeMember, Disco!Write
  <1>2. rows' \in [1..N -> Disco!RowTypes] /\ \A m \in 1..N : m # n => rows'[m] = rows[m]
    <2>1. CASE Disco!ChangeMember(n)
      BY <2>1 DEF Disco!ChangeMember, DiscoveryInv, DiscoveryTypes
    <2>2. ASSUME NEW row \in NodeRows, Disco!Write(n, row)
          PROVE  rows' \in [1..N -> Disco!RowTypes] /\ \A m \in 1..N : m # n => rows'[m] = rows[m]
      BY <2>2, DiscoveryAssumption DEF Disco!Write, DiscoveryInv, DiscoveryTypes
    <2> QED
      BY <2>1, <2>2
  <1>3. roster' \subseteq 1..N /\ outside' \subseteq 1..N /\ outside' \cap roster' = {}
    <2>1. CASE Disco!ChangeMember(n)
      BY <2>1 DEF Disco!ChangeMember, DiscoveryInv, DiscoveryTypes, Disco!Nodes
    <2>2. CASE \E row \in NodeRows : Disco!Write(n, row)
      BY <2>2 DEF Disco!Write, DiscoveryInv, DiscoveryTypes, OutsideAreNoMembers
    <2> QED
      BY <2>1, <2>2
  <1>4. DiscoveryTypes'
    <2>1. writes' \in 0..MaxWrites
      BY <1>1, BoundsAreNat DEF DiscoveryInv, DiscoveryTypes
    <2>2. crowded' \in BOOLEAN
      BY <1>1 DEF DiscoveryInv, DiscoveryTypes
    <2> QED
      BY <1>1, <1>2, <1>3, <2>1, <2>2 DEF DiscoveryInv, DiscoveryTypes, OneRowEach
  <1>5. NothingYet' /\ ReadersAdmitted' /\ AnswerIsChoice'
    BY <1>1 DEF DiscoveryInv, NothingYet, ReadersAdmitted, AnswerIsChoice, Disco!Admitted, Disco!IsTicket, Disco!dispatch_allowed
  <1>6. OutsideAreNoMembers'
    BY <1>1, <1>3 DEF OutsideAreNoMembers
  <1>7. \A m \in 1..N : m # n => (Disco!Matches(m)' <=> Disco!Matches(m)) /\ ReadOf(m)' = ReadOf(m)
    BY <1>1, <1>2 DEF Disco!Matches, ReadOf
  <1>8. FoundIsCurrent'
    <2> SUFFICES ASSUME NEW x \in found, x.id \in steady, x.id # n
                 PROVE  Disco!Matches(x.id)' /\ x.row = ReadOf(x.id)'
      BY <1>1 DEF FoundIsCurrent
    <2>1. x.id \in 1..N
      BY DEF DiscoveryInv, DiscoveryTypes, Entries
    <2> QED
      BY <1>7, <2>1 DEF DiscoveryInv, FoundIsCurrent
  <1>9. NoneMissed'
    <2> SUFFICES ASSUME Disco!Admitted', ~crowded, Disco!IsTicket' => query.selector # None,
                        NEW m \in steady, m # n, Disco!Matches(m)'
                 PROVE  \E x \in found : x.id = m
      BY <1>1 DEF NoneMissed, Wanted
    <2>1. Disco!Admitted /\ (Disco!IsTicket => query.selector # None)
      BY <1>1 DEF Disco!Admitted, Disco!IsTicket, Disco!dispatch_allowed
    <2>2. Disco!Matches(m)
      BY <1>7 DEF DiscoveryInv, DiscoveryTypes
    <2>3. Wanted(m)
      BY <1>1, <2>2 DEF Wanted
    <2> QED
      BY <1>1, <2>1, <2>3 DEF DiscoveryInv, NoneMissed
  <1> QED
    BY <1>4, <1>5, <1>6, <1>8, <1>9 DEF DiscoveryInv

\* The first query.
LEMMA ReadRowsKeeps ==
  ASSUME DiscoveryInv, Disco!ReadRows
  PROVE  DiscoveryInv'
  <1>1. /\ pc = "rows" /\ pc' = "capabilities" /\ rows' = rows /\ roster' = roster /\ query' = query
        /\ answer' = answer /\ usage' = usage /\ writes' = writes /\ outside' = outside /\ steady' = steady
    BY DEF Disco!ReadRows
  <1>2. PICK s \in Disco!Selections :
          found' = {[id |-> s[i], at |-> i, row |-> Disco!AsNode(rows[s[i]])] : i \in DOMAIN s}
    BY DEF Disco!ReadRows
  <1>3. DiscoveryTypes /\ Disco!Admitted
    BY <1>1 DEF DiscoveryInv, ReadersAdmitted
  <1> DEFINE matching == {n \in 1..N : Disco!Matches(n)}
  <1>4. /\ \A i \in DOMAIN s : i \in Nat /\ s[i] \in 1..N /\ Disco!Matches(s[i])
        /\ \A i, j \in DOMAIN s : s[i] = s[j] => i = j
        /\ Cardinality(matching) <= Disco!DatabaseLimit => \A n \in matching : \E i \in DOMAIN s : s[i] = n
    BY <1>3, QueryReturns
  <1>5. crowded' \in BOOLEAN /\ (~crowded' => ~(Cardinality(matching) > MaxLimit))
    <2>1. crowded' = (Disco!Cardinality(matching) > MaxLimit)
      BY DEF Disco!ReadRows, Disco!Nodes
    <2> HIDE DEF matching
    <2>2. Disco!Cardinality(matching) = Cardinality(matching)
      BY DiscoCardinality
    <2>3. CASE Cardinality(matching) > MaxLimit
      BY <2>1, <2>2, <2>3
    <2>4. CASE ~(Cardinality(matching) > MaxLimit)
      BY <2>1, <2>2, <2>4
    <2> QED
      BY <2>3, <2>4
  <1>6. Cardinality(matching) \in Nat
    <2>1. IsFiniteSet(1..N)
      BY DiscoveryAssumption, FS_Interval
    <2> QED
      BY <2>1, FS_Subset, FS_CardinalityType
  <1>7. \A n \in 1..N : n \in matching <=> Disco!Matches(n)
    OBVIOUS
  <1> HIDE DEF matching
  <1>8. \A i \in DOMAIN s : Disco!AsNode(rows[s[i]]) \in Disco!RowTypes
    BY <1>3, <1>4, ReadTypes DEF DiscoveryTypes
  <1>9. found' \subseteq Entries /\ OneRowEach(found')
    BY <1>2, <1>4, <1>8 DEF Entries, OneRowEach
  <1>10. DiscoveryTypes'
    BY <1>1, <1>3, <1>5, <1>9 DEF DiscoveryTypes
  <1>11. (Disco!Admitted' <=> Disco!Admitted) /\ (Disco!IsTicket' <=> Disco!IsTicket)
    BY <1>1 DEF Disco!Admitted, Disco!IsTicket, Disco!dispatch_allowed
  <1>12. NothingYet' /\ ReadersAdmitted' /\ OutsideAreNoMembers' /\ AnswerIsChoice'
    BY <1>1, <1>3, <1>11 DEF DiscoveryInv, NothingYet, ReadersAdmitted, OutsideAreNoMembers, AnswerIsChoice
  <1>13. \A n \in 1..N : (Disco!Matches(n)' <=> Disco!Matches(n)) /\ ReadOf(n)' = Disco!AsNode(rows[n])
    BY <1>1 DEF Disco!Matches, ReadOf
  <1>14. FoundIsCurrent'
    <2> SUFFICES ASSUME NEW x \in found' PROVE Disco!Matches(x.id)' /\ x.row = ReadOf(x.id)'
      BY DEF FoundIsCurrent
    <2>1. PICK i \in DOMAIN s : x = [id |-> s[i], at |-> i, row |-> Disco!AsNode(rows[s[i]])]
      BY <1>2
    <2>2. x.id = s[i] /\ x.row = Disco!AsNode(rows[s[i]])
      BY <2>1
    <2> QED
      BY <1>4, <1>13, <2>2
  <1>15. NoneMissed'
    <2> SUFFICES ASSUME ~crowded', Disco!IsTicket' => query.selector # None, NEW n \in steady, Disco!Matches(n)'
                 PROVE  \E x \in found' : x.id = n
      BY <1>1 DEF NoneMissed, Wanted
    <2>1. n \in matching
      BY <1>3, <1>7, <1>13 DEF DiscoveryTypes
    <2>2. Disco!DatabaseLimit = MaxLimit
      BY <1>11 DEF Disco!DatabaseLimit
    <2>3. Cardinality(matching) <= Disco!DatabaseLimit
      BY <1>5, <1>6, <2>2, DiscoveryAssumption
    <2>4. PICK i \in DOMAIN s : s[i] = n
      BY <1>4, <2>1, <2>3
    <2> DEFINE x == [id |-> s[i], at |-> i, row |-> Disco!AsNode(rows[s[i]])]
    <2>5. x \in found' /\ x.id = n
      BY <1>2, <2>4
    <2> QED
      BY <2>5
  <1> QED
    BY <1>10, <1>12, <1>14, <1>15 DEF DiscoveryInv

LEMMA AdmitKeeps ==
  ASSUME DiscoveryInv, Disco!Admit
  PROVE  DiscoveryInv'
  <1>1. /\ pc = "admit" /\ pc' = (IF Disco!Admitted THEN "rows" ELSE "done")
        /\ rows' = rows /\ roster' = roster /\ query' = query /\ found' = found /\ answer' = answer /\ usage' = usage
        /\ writes' = writes /\ outside' = outside /\ steady' = steady /\ crowded' = crowded
    BY DEF Disco!Admit, Disco!history
  <1>2. found = {} /\ answer = <<>> /\ usage = [k \in Disco!Modes |-> 0] /\ DiscoveryTypes
    BY <1>1 DEF DiscoveryInv, NothingYet
  <1>3. DiscoveryTypes'
    BY <1>1, <1>2 DEF DiscoveryTypes, OneRowEach
  <1>4. (Disco!Admitted' <=> Disco!Admitted) /\ (Disco!IsTicket' <=> Disco!IsTicket)
    BY <1>1 DEF Disco!Admitted, Disco!IsTicket, Disco!dispatch_allowed
  <1>5. NothingYet' /\ ReadersAdmitted' /\ FoundIsCurrent' /\ NoneMissed'
    BY <1>1, <1>2, <1>4 DEF NothingYet, ReadersAdmitted, FoundIsCurrent, NoneMissed
  <1>6. OutsideAreNoMembers'
    BY <1>1, <1>2 DEF DiscoveryInv, OutsideAreNoMembers
  <1>7. AnswerIsChoice'
    <2>1. answer' \in Seq(1..N) /\ usage' \in [Disco!Modes -> 0..1]
      BY <1>1, <1>2
    <2>2. AnswersAreFound' /\ AnswersInOrder' /\ AnswerIsRoute'
      BY <1>1, <1>2 DEF AnswersAreFound, AnswersInOrder, AnswerIsRoute
    <2> QED
      BY <2>1, <2>2 DEF AnswerIsChoice
  <1> QED
    BY <1>3, <1>5, <1>6, <1>7 DEF DiscoveryInv

\* The second query adds what the nodes that did not change have.
LEMMA ReadCapabilitiesKeeps ==
  ASSUME DiscoveryInv, Disco!ReadCapabilities
  PROVE  DiscoveryInv'
  <1> DEFINE Added(x) == [x EXCEPT !.row.models = rows[x.id].models]
  <1>1. /\ pc = "capabilities" /\ pc' = (IF Restricted /\ ~Disco!IsTicket THEN "members" ELSE "select")
        /\ rows' = rows /\ roster' = roster /\ query' = query /\ answer' = answer /\ usage' = usage
        /\ writes' = writes /\ outside' = outside /\ steady' = steady /\ crowded' = crowded
    BY DEF Disco!ReadCapabilities, Disco!history
  <1>2. DiscoveryTypes /\ Disco!Admitted /\ answer = <<>> /\ usage = [k \in Disco!Modes |-> 0]
    BY <1>1 DEF DiscoveryInv, ReadersAdmitted, NothingYet
  <1>3. \A x \in found : x \in Entries /\ x.id \in 1..N /\ rows[x.id] \in Disco!RowTypes
    BY <1>2 DEF DiscoveryTypes, Entries
  <1>4. found' = {Added(x) : x \in found}
    <2> DEFINE capabilities == Disco!capability_records_for_nodes({x.id : x \in found})
    <2>1. found' = {[x EXCEPT !.row.models = capabilities[x.id]] : x \in found}
      BY DEF Disco!ReadCapabilities
    <2>2. \A x \in found : capabilities[x.id] = rows[x.id].models
      BY DEF Disco!capability_records_for_nodes
    <2> HIDE DEF capabilities
    <2> QED
      BY <2>1, <2>2
  <1>5. \A x \in found : /\ Added(x) \in Entries /\ Added(x).id = x.id
                         /\ Added(x).row = [x.row EXCEPT !.models = rows[x.id].models]
    <2> SUFFICES ASSUME NEW x \in found
                 PROVE  /\ Added(x) \in Entries /\ Added(x).id = x.id
                        /\ Added(x).row = [x.row EXCEPT !.models = rows[x.id].models]
      OBVIOUS
    <2>1. rows[x.id].models \in SUBSET Disco!Models
      BY <1>3 DEF Disco!RowTypes
    <2> QED
      BY <1>3, <2>1, CapabilitiesAdded
  <1> HIDE DEF Added
  <1>6. found' \subseteq Entries /\ OneRowEach(found')
    <2>1. found' \subseteq Entries
      BY <1>4, <1>5
    <2>2. ASSUME NEW y \in found', NEW z \in found', y.id = z.id PROVE y = z
      <3>1. PICK x \in found : y = Added(x)
        BY <1>4
      <3>2. PICK w \in found : z = Added(w)
        BY <1>4
      <3>3. x.id = w.id
        BY <1>5, <2>2, <3>1, <3>2
      <3> QED
        BY <1>2, <3>1, <3>2, <3>3 DEF DiscoveryTypes, OneRowEach
    <2> QED
      BY <2>1, <2>2 DEF OneRowEach
  <1>7. DiscoveryTypes'
    BY <1>1, <1>2, <1>6 DEF DiscoveryTypes
  <1>8. (Disco!Admitted' <=> Disco!Admitted) /\ (Disco!IsTicket' <=> Disco!IsTicket)
    BY <1>1 DEF Disco!Admitted, Disco!IsTicket, Disco!dispatch_allowed
  <1>9. NothingYet' /\ ReadersAdmitted' /\ AnswerIsChoice'
    BY <1>1, <1>2, <1>8 DEF NothingYet, ReadersAdmitted, AnswerIsChoice
  <1>10. OutsideAreNoMembers'
    BY <1>1, <1>8 DEF DiscoveryInv, OutsideAreNoMembers
  <1>11. \A n \in 1..N : (Disco!Matches(n)' <=> Disco!Matches(n)) /\ ReadOf(n)' = AsRead(rows[n])
                         /\ ReadOf(n) = Disco!AsNode(rows[n])
    BY <1>1 DEF Disco!Matches, ReadOf
  <1>12. FoundIsCurrent'
    <2> SUFFICES ASSUME NEW y \in found', y.id \in steady PROVE Disco!Matches(y.id)' /\ y.row = ReadOf(y.id)'
      BY <1>1 DEF FoundIsCurrent
    <2>1. PICK x \in found : y = Added(x)
      BY <1>4
    <2>2. y.id = x.id /\ y.row = [x.row EXCEPT !.models = rows[x.id].models]
      BY <1>5, <2>1
    <2>3. Disco!Matches(x.id) /\ x.row = Disco!AsNode(rows[x.id])
      BY <1>3, <1>11, <2>2 DEF DiscoveryInv, FoundIsCurrent
    <2>4. y.row = AsRead(rows[x.id])
      BY <1>3, <2>2, <2>3, ReadTypes
    <2> QED
      BY <1>3, <1>11, <2>2, <2>3, <2>4
  <1>13. NoneMissed'
    <2> SUFFICES ASSUME ~crowded, Disco!IsTicket => query.selector # None, NEW n \in steady, Disco!Matches(n)'
                 PROVE  \E y \in found' : y.id = n
      BY <1>1, <1>8 DEF NoneMissed, Wanted
    <2>1. Wanted(n)
      BY <1>1, <1>2, <1>11 DEF Wanted, DiscoveryTypes
    <2>2. PICK x \in found : x.id = n
      BY <1>1, <1>2, <2>1 DEF DiscoveryInv, NoneMissed
    <2> QED
      BY <1>4, <1>5, <2>2
  <1> QED
    BY <1>7, <1>9, <1>10, <1>12, <1>13 DEF DiscoveryInv

LEMMA ReadFailsKeeps ==
  ASSUME DiscoveryInv, Disco!ReadFails
  PROVE  DiscoveryInv'
  <1>1. /\ pc # "done" /\ pc' = "select" /\ found' = {} /\ steady' = {}
        /\ rows' = rows /\ roster' = roster /\ query' = query /\ answer' = answer /\ usage' = usage
        /\ writes' = writes /\ outside' = outside /\ crowded' = crowded
    BY DEF Disco!ReadFails
  <1>2. DiscoveryTypes'
    BY <1>1 DEF DiscoveryInv, DiscoveryTypes, OneRowEach
  <1> QED
    BY <1>1, <1>2 DEF DiscoveryInv, NothingYet, ReadersAdmitted, OutsideAreNoMembers, FoundIsCurrent, NoneMissed,
                      AnswerIsChoice

LEMMA ReadMembersKeeps ==
  ASSUME DiscoveryInv, Disco!ReadMembers
  PROVE  DiscoveryInv'
  <1>1. /\ pc = "members" /\ pc' = "select" /\ found' = {x \in found : x.id \in roster}
        /\ rows' = rows /\ roster' = roster /\ query' = query /\ answer' = answer /\ usage' = usage
        /\ writes' = writes /\ outside' = outside /\ steady' = steady /\ crowded' = crowded
    BY DEF Disco!ReadMembers, Disco!history, Disco!Retained
  <1>2. DiscoveryTypes /\ Disco!Admitted /\ answer = <<>> /\ usage = [k \in Disco!Modes |-> 0]
    BY <1>1 DEF DiscoveryInv, ReadersAdmitted, NothingYet
  <1>3. DiscoveryTypes'
    BY <1>1, <1>2 DEF DiscoveryTypes, OneRowEach
  <1>4. (Disco!Admitted' <=> Disco!Admitted) /\ (Disco!IsTicket' <=> Disco!IsTicket)
    BY <1>1 DEF Disco!Admitted, Disco!IsTicket, Disco!dispatch_allowed
  <1>5. NothingYet' /\ ReadersAdmitted' /\ AnswerIsChoice'
    BY <1>1, <1>2, <1>4 DEF NothingYet, ReadersAdmitted, AnswerIsChoice
  <1>6. OutsideAreNoMembers'
    BY <1>1 DEF DiscoveryInv, OutsideAreNoMembers
  <1>7. \A n \in 1..N : (Disco!Matches(n)' <=> Disco!Matches(n)) /\ ReadOf(n)' = ReadOf(n)
    BY <1>1 DEF Disco!Matches, ReadOf
  <1>8. FoundIsCurrent'
    <2> SUFFICES ASSUME NEW x \in found, x.id \in steady PROVE Disco!Matches(x.id)' /\ x.row = ReadOf(x.id)'
      BY <1>1 DEF FoundIsCurrent
    <2>1. x.id \in 1..N
      BY <1>2 DEF DiscoveryTypes, Entries
    <2> QED
      BY <1>7, <2>1 DEF DiscoveryInv, FoundIsCurrent
  <1>9. NoneMissed'
    <2> SUFFICES ASSUME ~crowded, Disco!IsTicket => query.selector # None, NEW n \in steady, Wanted(n)'
                 PROVE  \E y \in found' : y.id = n
      BY <1>1, <1>4 DEF NoneMissed
    <2>3. Restricted /\ ~Disco!IsTicket
      BY <1>1 DEF DiscoveryInv, ReadersAdmitted
    <2>1. n \in roster /\ Disco!Matches(n)
      BY <1>1, <1>2, <1>4, <1>7, <2>3 DEF Wanted, DiscoveryTypes, Disco!IsPermitted
    <2>2. PICK x \in found : x.id = n
      BY <1>1, <1>2, <2>1 DEF DiscoveryInv, NoneMissed, Wanted
    <2> QED
      BY <1>1, <2>1, <2>2
  <1> QED
    BY <1>3, <1>5, <1>6, <1>8, <1>9 DEF DiscoveryInv

\* What is selected, and from what.
LEMMA SelectionIs ==
  ASSUME DiscoveryTypes, Disco!Select
  PROVE  \E size \in Nat : \E chosen \in [1..size -> found] :
           /\ answer' = [i \in 1..size |-> chosen[i].id]
           /\ usage' = [usage EXCEPT ![query.mode] = @ + Disco!Counted(chosen)]
           /\ \A i \in 1..size : IF Disco!IsTicket THEN Disco!Dispatchable(chosen[i]) ELSE Disco!Chosen(chosen[i])
           /\ ~Disco!IsTicket => \A x \in found, i \in 1..size :
                Disco!Chosen(x) /\ Disco!Before(x, chosen[i]) => \E j \in 1..(i - 1) : chosen[j] = x
           /\ Disco!IsTicket /\ query.signing_key /\ query.selector # None =>
                /\ \A x \in found : OnlyRoute(x) => size = 1 /\ chosen[1] = x
                /\ (\A x \in found : ~OnlyRoute(x)) => size = 0
  <1> DEFINE list == IF Disco!IsTicket THEN Disco!TicketFor(found) ELSE {x \in found : Disco!Chosen(x)}
             limit == IF Disco!IsTicket THEN 1 ELSE query.limit
             chosen == Disco!Sorted(list, limit)
             size == Disco!Size(list, limit)
  <1>1. limit \in Nat
    <2>1. query.limit \in Nat
      BY QueryIs DEF DiscoveryTypes
    <2> QED
      BY <2>1
  <1>2. list \subseteq found
    BY DEF Disco!TicketFor, Disco!select_dispatch_ticket_node
  <1>3. answer' = [i \in DOMAIN chosen |-> chosen[i].id] /\ usage' = [usage EXCEPT ![query.mode] = @ + Disco!Counted(chosen)]
    BY DEF Disco!Select, Disco!select_and_rank
  <1>4. \A x \in list : IF Disco!IsTicket THEN Disco!Dispatchable(x) ELSE Disco!Chosen(x)
    BY DEF Disco!TicketFor, Disco!select_dispatch_ticket_node
  <1>5. ~Disco!IsTicket => \A x \in found : Disco!Chosen(x) => x \in list
    OBVIOUS
  <1>6. ASSUME Disco!IsTicket, query.signing_key, query.selector # None
        PROVE  /\ \A x \in found : OnlyRoute(x) => list = {x}
               /\ (\A x \in found : ~OnlyRoute(x)) => list = {}
    <2> DEFINE fit == {x \in {y \in found : Disco!Dispatchable(y)} : x.id \in query.selector}
    <2>1. list = IF Disco!Cardinality(fit) = 1 THEN fit ELSE {}
      BY <1>6 DEF Disco!TicketFor, Disco!select_dispatch_ticket_node
    <2>2. \A x : x \in fit <=> x \in found /\ IsRoute(x)
      BY DEF IsRoute
    <2> HIDE DEF fit, list
    <2>3. IsFiniteSet(fit)
      <3>1. IsFiniteSet(found)
        BY ListsAreFinite DEF DiscoveryTypes
      <3> QED
        BY <2>2, <3>1, FS_Subset
    <2>4. Disco!Cardinality(fit) = 1 <=> \E x : fit = {x}
      BY <2>3, FS_Singleton, DiscoCardinality
    <2>5. ASSUME NEW x \in found, OnlyRoute(x) PROVE list = {x}
      <3>1. fit = {x}
        BY <2>2, <2>5 DEF OnlyRoute
      <3> QED
        BY <2>1, <2>4, <3>1
    <2>6. ASSUME \A x \in found : ~OnlyRoute(x) PROVE list = {}
      <3>1. ASSUME NEW x, fit = {x} PROVE FALSE
        BY <2>2, <2>6, <3>1 DEF OnlyRoute
      <3> QED
        BY <2>1, <2>4, <3>1
    <2> QED
      BY <2>5, <2>6
  <1>7. list \in SUBSET Entries /\ OneRowEach(list)
    <2> HIDE DEF list
    <2> QED
      BY <1>2 DEF DiscoveryTypes, OneRowEach
  <1> HIDE DEF list, limit, chosen, size
  <1>8. IsFiniteSet(list)
    BY <1>7, ListsAreFinite
  <1>9. /\ size \in Nat /\ size <= limit /\ size <= Cardinality(list) /\ (size = limit \/ size = Cardinality(list))
        /\ DOMAIN chosen = 1..size
        /\ \A i \in 1..size : chosen[i] \in list /\ Disco!Place(list, chosen[i]) = i
        /\ \A x \in list : Disco!Place(list, x) <= limit =>
             Disco!Place(list, x) \in 1..size /\ chosen[Disco!Place(list, x)] = x
    BY <1>1, <1>7, <1>8, SortedIs DEF chosen, size
  <1>10. chosen \in [1..size -> found]
    <2>1. chosen = [i \in 1..size |-> chosen[i]]
      BY DEF chosen, size, Disco!Sorted
    <2> QED
      BY <1>2, <1>9, <2>1
  <1>11. ASSUME ~Disco!IsTicket, NEW x \in found, NEW i \in 1..size, Disco!Chosen(x), Disco!Before(x, chosen[i])
         PROVE  \E j \in 1..(i - 1) : chosen[j] = x
    <2>1. x \in list /\ chosen[i] \in list /\ Disco!Place(list, chosen[i]) = i
      BY <1>5, <1>9, <1>11
    <2>2. Disco!Place(list, x) < i /\ Disco!Place(list, x) \in Nat /\ Disco!Place(list, x) >= 1
      BY <1>7, <1>8, <1>11, <2>1, PlacesInOrder
    <2>3. Disco!Place(list, x) <= limit
      BY <1>1, <1>9, <2>2
    <2> QED
      BY <1>9, <2>1, <2>2, <2>3
  <1>12. ASSUME Disco!IsTicket, query.signing_key, query.selector # None
         PROVE  /\ \A x \in found : OnlyRoute(x) => size = 1 /\ chosen[1] = x
                /\ (\A x \in found : ~OnlyRoute(x)) => size = 0
    <2>1. limit = 1
      BY <1>12 DEF limit
    <2>2. ASSUME NEW x \in found, OnlyRoute(x) PROVE size = 1 /\ chosen[1] = x
      <3>1. list = {x} /\ Cardinality(list) = 1
        BY <1>6, <1>12, <2>2, FS_Singleton
      <3> QED
        BY <1>9, <2>1, <3>1
    <2>3. ASSUME \A x \in found : ~OnlyRoute(x) PROVE size = 0
      <3>1. Cardinality(list) = 0
        BY <1>6, <1>12, <2>3, FS_EmptySet
      <3> QED
        BY <1>9, <3>1
    <2> QED
      BY <2>2, <2>3
  <1>13. answer' = [i \in 1..size |-> chosen[i].id]
    BY <1>3, <1>9
  <1>14. \A i \in 1..size : IF Disco!IsTicket THEN Disco!Dispatchable(chosen[i]) ELSE Disco!Chosen(chosen[i])
    BY <1>4, <1>9
  <1>15. ~Disco!IsTicket => \A x \in found, i \in 1..size :
           Disco!Chosen(x) /\ Disco!Before(x, chosen[i]) => \E j \in 1..(i - 1) : chosen[j] = x
    BY <1>11
  <1> size \in Nat /\ chosen \in [1..size -> found]
    BY <1>9, <1>10
  <1> WITNESS size \in Nat
  <1> WITNESS chosen \in [1..size -> found]
  <1> QED
    BY <1>3, <1>12, <1>13, <1>14, <1>15

LEMMA SelectKeeps ==
  ASSUME DiscoveryInv, Disco!Select
  PROVE  DiscoveryInv'
  <1>1. /\ pc = "select" /\ pc' = "done" /\ rows' = rows /\ roster' = roster /\ query' = query /\ found' = found
        /\ writes' = writes /\ outside' = outside /\ steady' = steady /\ crowded' = crowded
    BY DEF Disco!Select, Disco!history
  <1>2. DiscoveryTypes /\ usage = [k \in Disco!Modes |-> 0]
    BY <1>1 DEF DiscoveryInv, NothingYet
  <1>3. DiscoveryTypes'
    BY <1>1, <1>2 DEF DiscoveryTypes, OneRowEach
  <1>4. (Disco!Admitted' <=> Disco!Admitted) /\ (Disco!IsTicket' <=> Disco!IsTicket)
    BY <1>1 DEF Disco!Admitted, Disco!IsTicket, Disco!dispatch_allowed
  <1>5. NothingYet' /\ ReadersAdmitted' /\ OutsideAreNoMembers'
    BY <1>1, <1>4 DEF DiscoveryInv, NothingYet, ReadersAdmitted, OutsideAreNoMembers
  <1>6. \A n : (Disco!Matches(n)' <=> Disco!Matches(n)) /\ ReadOf(n)' = ReadOf(n) /\ (Wanted(n)' <=> Wanted(n))
    BY <1>1, <1>4 DEF Disco!Matches, ReadOf, Wanted, Disco!IsPermitted
  <1>7. FoundIsCurrent' /\ NoneMissed'
    BY <1>1, <1>4, <1>6 DEF DiscoveryInv, FoundIsCurrent, NoneMissed
  <1>8. PICK size \in Nat : \E chosen \in [1..size -> found] :
           /\ answer' = [i \in 1..size |-> chosen[i].id]
           /\ usage' = [usage EXCEPT ![query.mode] = @ + Disco!Counted(chosen)]
           /\ \A i \in 1..size : IF Disco!IsTicket THEN Disco!Dispatchable(chosen[i]) ELSE Disco!Chosen(chosen[i])
           /\ ~Disco!IsTicket => \A x \in found, i \in 1..size :
                Disco!Chosen(x) /\ Disco!Before(x, chosen[i]) => \E j \in 1..(i - 1) : chosen[j] = x
           /\ Disco!IsTicket /\ query.signing_key /\ query.selector # None =>
                /\ \A x \in found : OnlyRoute(x) => size = 1 /\ chosen[1] = x
                /\ (\A x \in found : ~OnlyRoute(x)) => size = 0
    BY <1>2, SelectionIs
  <1>9. PICK chosen \in [1..size -> found] :
           /\ answer' = [i \in 1..size |-> chosen[i].id]
           /\ usage' = [usage EXCEPT ![query.mode] = @ + Disco!Counted(chosen)]
           /\ \A i \in 1..size : IF Disco!IsTicket THEN Disco!Dispatchable(chosen[i]) ELSE Disco!Chosen(chosen[i])
           /\ ~Disco!IsTicket => \A x \in found, i \in 1..size :
                Disco!Chosen(x) /\ Disco!Before(x, chosen[i]) => \E j \in 1..(i - 1) : chosen[j] = x
           /\ Disco!IsTicket /\ query.signing_key /\ query.selector # None =>
                /\ \A x \in found : OnlyRoute(x) => size = 1 /\ chosen[1] = x
                /\ (\A x \in found : ~OnlyRoute(x)) => size = 0
    BY <1>8
  <1>10. answer' \in Seq(1..N) /\ DOMAIN answer' = 1..size /\ \A i \in 1..size : answer'[i] = chosen[i].id
    <2>1. \A x \in found : x.id \in 1..N
      BY <1>2 DEF DiscoveryTypes, Entries
    <2> QED
      BY <1>9, <2>1
  <1>11. usage' \in [Disco!Modes -> 0..1]
    <2>1. Disco!Counted(chosen) \in 0..1
      BY DEF Disco!Counted
    <2>2. query.mode \in Disco!Modes
      BY <1>2, QueryIs DEF DiscoveryTypes
    <2> QED
      BY <1>2, <1>9, <2>1, <2>2
  <1>12. \A x : (Disco!Dispatchable(x)' <=> Disco!Dispatchable(x)) /\ (Disco!Chosen(x)' <=> Disco!Chosen(x))
    BY <1>1 DEF Disco!Dispatchable, Disco!Chosen, Disco!eligible, Disco!LiveModels
  <1>13. \A x, y : Disco!Before(x, y)' <=> Disco!Before(x, y)
    BY <1>1 DEF Disco!Before, Disco!ranking_score, Disco!Weighted, Disco!Readiness, Disco!LiveModels
  <1>14. \A x : OnlyRoute(x)' <=> OnlyRoute(x)
    BY <1>1, <1>12 DEF OnlyRoute, IsRoute
  <1>15. AnswersAreFound'
    BY <1>1, <1>4, <1>9, <1>10, <1>12 DEF AnswersAreFound
  <1>16. AnswersInOrder'
    <2> SUFFICES ASSUME ~Disco!IsTicket, NEW x \in found, NEW y \in found, NEW i \in 1..size,
                        Disco!Chosen(x), Disco!Before(x, y), y.id = answer'[i]
                 PROVE  \E j \in 1..(i - 1) : answer'[j] = x.id
      BY <1>1, <1>4, <1>10, <1>12, <1>13 DEF AnswersInOrder
    <2>1. y = chosen[i]
      BY <1>2, <1>10 DEF DiscoveryTypes, OneRowEach
    <2>2. PICK j \in 1..(i - 1) : chosen[j] = x
      BY <1>9, <2>1
    <2> QED
      BY <1>10, <2>2
  <1>17. AnswerIsRoute'
    <2> SUFFICES ASSUME Disco!IsTicket, query.signing_key, query.selector # None
                 PROVE  /\ \A x \in found : OnlyRoute(x) => answer' = <<x.id>>
                        /\ (\A x \in found : ~OnlyRoute(x)) => answer' = <<>>
      BY <1>1, <1>4, <1>14 DEF AnswerIsRoute
    <2>1. ASSUME NEW x \in found, OnlyRoute(x) PROVE answer' = <<x.id>>
      <3>1. size = 1 /\ chosen[1] = x
        BY <1>9, <2>1
      <3> QED
        BY <1>9, <3>1
    <2>2. ASSUME \A x \in found : ~OnlyRoute(x) PROVE answer' = <<>>
      <3>1. size = 0
        BY <1>9, <2>2
      <3> QED
        BY <1>9, <3>1
    <2> QED
      BY <2>1, <2>2
  <1>18. AnswerIsChoice'
    BY <1>10, <1>11, <1>15, <1>16, <1>17 DEF AnswerIsChoice
  <1> QED
    BY <1>3, <1>5, <1>7, <1>18 DEF DiscoveryInv

LEMMA DiscoveryStays == DiscoveryInv /\ UNCHANGED discoveryVars => DiscoveryInv'
  <1> SUFFICES ASSUME DiscoveryInv, UNCHANGED discoveryVars PROVE DiscoveryInv'
    OBVIOUS
  <1>1. /\ pc' = pc /\ rows' = rows /\ roster' = roster /\ query' = query /\ found' = found /\ answer' = answer
        /\ usage' = usage /\ writes' = writes /\ outside' = outside /\ steady' = steady /\ crowded' = crowded
    BY DEF discoveryVars
  <1>2. DiscoveryTypes'
    BY <1>1 DEF DiscoveryInv, DiscoveryTypes, OneRowEach
  <1>3. (Disco!Admitted' <=> Disco!Admitted) /\ (Disco!IsTicket' <=> Disco!IsTicket)
    BY <1>1 DEF Disco!Admitted, Disco!IsTicket, Disco!dispatch_allowed
  <1>4. NothingYet' /\ ReadersAdmitted' /\ OutsideAreNoMembers'
    BY <1>1, <1>3 DEF DiscoveryInv, NothingYet, ReadersAdmitted, OutsideAreNoMembers
  <1>5. \A n : (Disco!Matches(n)' <=> Disco!Matches(n)) /\ ReadOf(n)' = ReadOf(n) /\ (Wanted(n)' <=> Wanted(n))
    BY <1>1, <1>3 DEF Disco!Matches, ReadOf, Wanted, Disco!IsPermitted
  <1>6. FoundIsCurrent' /\ NoneMissed'
    BY <1>1, <1>3, <1>5 DEF DiscoveryInv, FoundIsCurrent, NoneMissed
  <1>7. \A x : (Disco!Dispatchable(x)' <=> Disco!Dispatchable(x)) /\ (Disco!Chosen(x)' <=> Disco!Chosen(x))
    BY <1>1 DEF Disco!Dispatchable, Disco!Chosen, Disco!eligible, Disco!LiveModels
  <1>8. \A x, y : Disco!Before(x, y)' <=> Disco!Before(x, y)
    BY <1>1 DEF Disco!Before, Disco!ranking_score, Disco!Weighted, Disco!Readiness, Disco!LiveModels
  <1>9. \A x : OnlyRoute(x)' <=> OnlyRoute(x)
    BY <1>1, <1>7 DEF OnlyRoute, IsRoute
  <1>10. AnswerIsChoice'
    BY <1>1, <1>3, <1>7, <1>8, <1>9 DEF DiscoveryInv, AnswerIsChoice, AnswersAreFound, AnswersInOrder, AnswerIsRoute
  <1> QED
    BY <1>2, <1>4, <1>6, <1>10 DEF DiscoveryInv

LEMMA DiscoveryKept == DiscoveryInv /\ [Disco!Next]_discoveryVars => DiscoveryInv'
  <1> SUFFICES ASSUME DiscoveryInv, Disco!Next PROVE DiscoveryInv'
    BY DiscoveryStays
  <1> QED
    BY AdmitKeeps, ChangesKeepDiscovery, ReadRowsKeeps, ReadCapabilitiesKeeps, ReadFailsKeeps, ReadMembersKeeps, SelectKeeps
    DEF Disco!Next

\* Better in every signal, and strictly in one that always counts: a higher score.
LEMMA BetterScoresHigher ==
  ASSUME query \in Queries, NEW a \in Disco!RowTypes, NEW b \in Disco!RowTypes, Disco!StrictlyBetter(a, b)
  PROVE  Disco!ranking_score(AsRead(a)) > Disco!ranking_score(AsRead(b))
  <1> DEFINE ra == AsRead(a)
             rb == AsRead(b)
             Region(row) == IF query.region = None THEN 50 ELSE IF query.region = row.region THEN 100 ELSE 0
             Match(row) == IF query.model \in Disco!LiveModels(row) THEN 100 ELSE 0
  <1>1. ra \in Disco!RowTypes /\ rb \in Disco!RowTypes
    BY ReadTypes
  <1>2. /\ ra.availability >= rb.availability /\ ra.load <= rb.load /\ ra.capacity >= rb.capacity
        /\ ra.reputation >= rb.reputation /\ ra.price >= rb.price
        /\ (rb.sdk_current => ra.sdk_current) /\ (rb.cx_key => ra.cx_key)
        /\ ra.load < rb.load \/ ra.reputation > rb.reputation
    BY ReadParts DEF Disco!StrictlyBetter, Disco!AtLeastAsGood
  <1>3. Region(ra) \in Nat /\ Region(rb) \in Nat /\ Region(ra) >= Region(rb)
    <2>1. a.region = query.region \/ query.region = None \/ a.region = b.region
      BY DEF Disco!StrictlyBetter, Disco!AtLeastAsGood
    <2>2. ra.region = a.region /\ rb.region = b.region
      BY ReadParts
    <2> HIDE DEF ra, rb
    <2> QED
      BY <2>1, <2>2
  <1>4. Match(ra) \in Nat /\ Match(rb) \in Nat /\ (query.model # None => Match(ra) >= Match(rb))
    <2>1. query.model # None => query.model \in Disco!LiveModels(a)
      BY DEF Disco!StrictlyBetter, Disco!AtLeastAsGood, Disco!eligible
    <2>2. Disco!LiveModels(ra) = Disco!LiveModels(a)
      BY ReadParts DEF Disco!LiveModels
    <2> HIDE DEF ra, rb
    <2> QED
      BY <2>1, <2>2
  <1>5. \A row : Disco!Weighted(row) =
          IF query.model = None
          THEN 35 * row.availability + 28 * (100 - row.load) + 18 * row.capacity + 9 * Region(row) + 10 * row.reputation
          ELSE 25 * row.availability + 20 * (100 - row.load) + 15 * row.capacity + 10 * Region(row)
               + 10 * row.reputation + 10 * row.price + 10 * Match(row)
    BY DEF Disco!Weighted
  <1> HIDE DEF ra, rb, Region, Match
  <1>6. Disco!Weighted(ra) > Disco!Weighted(rb)
    <2>1. /\ ra.availability \in Nat /\ ra.load \in Nat /\ ra.capacity \in Nat /\ ra.reputation \in Nat /\ ra.price \in Nat
          /\ rb.availability \in Nat /\ rb.load \in Nat /\ rb.capacity \in Nat /\ rb.reputation \in Nat /\ rb.price \in Nat
      BY <1>1, RowParts
    <2>2. CASE query.model = None
      BY <1>2, <1>3, <1>5, <2>1, <2>2
    <2>3. CASE query.model # None
      BY <1>2, <1>3, <1>4, <1>5, <2>1, <2>3
    <2> QED
      BY <2>2, <2>3
  <1>7. Disco!Readiness(ra) >= Disco!Readiness(rb)
    <2>1. ra.sdk_current \in BOOLEAN /\ ra.cx_key \in BOOLEAN /\ rb.sdk_current \in BOOLEAN /\ rb.cx_key \in BOOLEAN
      BY <1>1, RowParts
    <2> QED
      BY <1>2, <2>1 DEF Disco!Readiness
  <1>8. /\ Disco!Weighted(ra) \in Nat /\ Disco!Readiness(ra) \in Nat
        /\ Disco!Weighted(rb) \in Nat /\ Disco!Readiness(rb) \in Nat /\ Disco!Readiness(rb) > 0
    BY <1>1, ScoreIsNat
  <1> QED
    BY <1>6, <1>7, <1>8, Products DEF Disco!ranking_score, ra, rb

\* What was read suits as the stored row does.
LEMMA ReadSuits ==
  ASSUME NEW row \in Disco!RowTypes
  PROVE  /\ Disco!eligible(AsRead(row)) <=> Disco!eligible(row)
         /\ Disco!LiveModels(AsRead(row)) = Disco!LiveModels(row)
  <1>1. Disco!LiveModels(AsRead(row)) = Disco!LiveModels(row)
    BY ReadParts DEF Disco!LiveModels
  <1> QED
    BY <1>1, ReadParts DEF Disco!eligible

LEMMA BetterStaysAhead == DiscoveryInv => Disco!BetterIsNotBehind
  <1> SUFFICES ASSUME DiscoveryInv, pc = "done", ~Disco!IsTicket, ~crowded,
                      NEW a \in steady, NEW i \in DOMAIN answer, answer[i] \in steady,
                      rows[a].routable, Disco!IsPermitted(a), Disco!StrictlyBetter(rows[a], rows[answer[i]])
               PROVE  \E j \in 1..(i - 1) : answer[j] = a
    BY DEF Disco!BetterIsNotBehind
  <1> DEFINE b == answer[i]
  <1>1. DiscoveryTypes /\ a \in 1..N /\ b \in 1..N /\ rows[a] \in Disco!RowTypes /\ rows[b] \in Disco!RowTypes
    BY DEF DiscoveryInv, DiscoveryTypes
  <1>2. PICK y \in found : y.id = b /\ Disco!Chosen(y)
    BY DEF DiscoveryInv, AnswerIsChoice, AnswersAreFound
  <1>3. Disco!Admitted
    BY <1>2 DEF DiscoveryInv, ReadersAdmitted
  <1>4. Disco!Matches(b) /\ y.row = AsRead(rows[b])
    BY <1>2 DEF DiscoveryInv, FoundIsCurrent, ReadOf
  <1>5. rows[a].reputation >= rows[b].reputation /\ Disco!eligible(rows[a])
    BY DEF Disco!StrictlyBetter, Disco!AtLeastAsGood
  <1>6. Disco!Matches(a)
    <2>1. rows[a].reputation \in Nat /\ rows[b].reputation \in Nat
      BY <1>1, RowParts
    <2>2. rows[a].reputation >= query.min_reputation
      BY <1>5 DEF Disco!eligible
    <2>3. rows[b].reputation >= Disco!MIN_SCORE
      BY <1>4 DEF Disco!Matches
    <2> QED
      BY <1>5, <2>1, <2>2, <2>3 DEF Disco!Matches, Disco!MIN_SCORE
  <1>7. PICK x \in found : x.id = a
    BY <1>3, <1>6 DEF DiscoveryInv, NoneMissed, Wanted
  <1>8. x.row = AsRead(rows[a])
    BY <1>7 DEF DiscoveryInv, FoundIsCurrent, ReadOf
  <1>9. Disco!Chosen(x)
    BY <1>1, <1>2, <1>5, <1>8, ReadSuits DEF Disco!Chosen
  <1>10. Disco!Before(x, y)
    <2>1. Disco!ranking_score(AsRead(rows[a])) > Disco!ranking_score(AsRead(rows[b]))
      BY <1>1, BetterScoresHigher DEF DiscoveryTypes
    <2> QED
      BY <1>4, <1>8, <2>1 DEF Disco!Before
  <1> QED
    BY <1>2, <1>7, <1>9, <1>10 DEF DiscoveryInv, AnswerIsChoice, AnswersInOrder

LEMMA AnsweredAreFound ==
  ASSUME DiscoveryInv, NEW n \in Disco!Answered
  PROVE  /\ pc = "done"
         /\ \E x \in found : x.id = n /\ IF Disco!IsTicket THEN Disco!Dispatchable(x) ELSE Disco!Chosen(x)
  <1>1. PICK i \in DOMAIN answer : answer[i] = n
    BY DEF Disco!Answered
  <1>2. pc = "done"
    BY <1>1 DEF DiscoveryInv, NothingYet
  <1> QED
    BY <1>1, <1>2 DEF DiscoveryInv, AnswerIsChoice, AnswersAreFound

LEMMA OffersSuit == DiscoveryInv => Disco!OfferedIsSuitable /\ Disco!OfferedWasMember
  <1> SUFFICES ASSUME DiscoveryInv PROVE Disco!OfferedIsSuitable /\ Disco!OfferedWasMember
    OBVIOUS
  <1>1. ASSUME NEW n \in Disco!Answered, n \in steady
        PROVE  /\ query.intent # "high_risk" /\ ~(Disco!IsTicket /\ (query.payload \/ query.intent = "malformed"))
               /\ rows[n].routable /\ rows[n].reputation >= query.min_reputation /\ n \notin query.exclude
               /\ query.model # None => query.model \in Disco!LiveModels(rows[n])
               /\ ~Disco!IsTicket /\ query.qos = "interactive" => rows[n].tasks >= 100
    <2>1. PICK x \in found : x.id = n /\ IF Disco!IsTicket THEN Disco!Dispatchable(x) ELSE Disco!Chosen(x)
      BY AnsweredAreFound
    <2>2. pc = "done"
      BY AnsweredAreFound
    <2>3. Disco!Admitted
      BY <2>1 DEF DiscoveryInv, ReadersAdmitted
    <2>4. Disco!Matches(n) /\ x.row = AsRead(rows[n])
      BY <1>1, <2>1, <2>2 DEF DiscoveryInv, FoundIsCurrent, ReadOf
    <2>5. rows[n] \in Disco!RowTypes
      BY <1>1 DEF DiscoveryInv, DiscoveryTypes
    <2>6. query.intent # "high_risk" /\ ~(Disco!IsTicket /\ (query.payload \/ query.intent = "malformed"))
      BY <2>3 DEF Disco!Admitted
    <2>7. rows[n].routable /\ rows[n].reputation >= query.min_reputation
      BY <2>4 DEF Disco!Matches
    <2>8. n \notin query.exclude
      <3>1. ~Disco!IsTicket => query.exclude = {}
        BY QueryIs DEF DiscoveryInv, DiscoveryTypes
      <3> QED
        BY <2>1, <3>1 DEF Disco!Dispatchable
    <2>9. query.model # None => query.model \in Disco!LiveModels(rows[n])
      <3>1. Disco!LiveModels(x.row) = Disco!LiveModels(rows[n])
        BY <2>4, <2>5, ReadSuits
      <3>2. query.model # None => query.model \in Disco!LiveModels(x.row)
        BY <2>1 DEF Disco!Dispatchable, Disco!Chosen, Disco!eligible
      <3> QED
        BY <3>1, <3>2
    <2>10. ~Disco!IsTicket /\ query.qos = "interactive" => rows[n].tasks >= 100
      <3>1. ~Disco!IsTicket => Disco!eligible(rows[n])
        BY <2>1, <2>4, <2>5, ReadSuits DEF Disco!Chosen
      <3> QED
        BY <3>1 DEF Disco!eligible
    <2> QED
      BY <2>6, <2>7, <2>8, <2>9, <2>10
  <1>2. ASSUME Restricted, ~Disco!IsTicket, NEW n \in Disco!Answered PROVE n \notin outside
    BY <1>2, AnsweredAreFound DEF DiscoveryInv, OutsideAreNoMembers
  <1> QED
    BY <1>1, <1>2 DEF Disco!OfferedIsSuitable, Disco!OfferedWasMember

LEMMA SelectedIsFound == DiscoveryInv => Disco!SelectedRouteFound
  <1> SUFFICES ASSUME DiscoveryInv, pc = "done", Disco!IsTicket, Disco!Admitted, query.signing_key,
                      query.selector # None, steady = 1..N, ~crowded
               PROVE  LET fit == {n \in query.selector : Disco!Matches(n) /\ Disco!Dispatchable([id |-> n, row |-> rows[n]])}
                      IN IF Disco!Cardinality(fit) = 1 THEN Disco!Answered = fit ELSE answer = <<>>
    BY DEF Disco!SelectedRouteFound, Disco!Nodes
  <1> DEFINE Goes(n) == Disco!Matches(n) /\ Disco!Dispatchable([id |-> n, row |-> rows[n]])
             fit == {n \in query.selector : Goes(n)}
  <1>1. query.selector \subseteq 1..N
    <2>1. query \in Disco!QueryTypes
      BY QueryIs DEF DiscoveryInv, DiscoveryTypes
    <2>2. query.selector \in (SUBSET (1..N)) \cup {None}
      BY <2>1 DEF Disco!QueryTypes, Disco!Nodes
    <2> QED
      BY <2>2
  <1>2. \A x \in found : x.id \in 1..N /\ Disco!Matches(x.id) /\ x.row = AsRead(rows[x.id]) /\ rows[x.id] \in Disco!RowTypes
    BY DEF DiscoveryInv, DiscoveryTypes, Entries, FoundIsCurrent, ReadOf
  <1>3. \A x \in found : Disco!Dispatchable(x) <=> Disco!Dispatchable([id |-> x.id, row |-> rows[x.id]])
    BY <1>2, ReadSuits, ReadParts DEF Disco!Dispatchable
  <1>4. \A n \in 1..N : Disco!Matches(n) => \E x \in found : x.id = n
    BY DEF DiscoveryInv, NoneMissed, Wanted
  <1>5. \A x \in found : IsRoute(x) <=> x.id \in fit
    BY <1>2, <1>3 DEF IsRoute
  <1>6. \A n \in fit : \E x \in found : x.id = n
    BY <1>1, <1>4
  <1>7. fit \subseteq 1..N
    BY <1>1
  <1> HIDE DEF fit, Goes
  <1>8. OneRowEach(found) /\ AnswerIsRoute
    BY DEF DiscoveryInv, DiscoveryTypes, AnswerIsChoice
  <1>9. Disco!Cardinality(fit) = 1 <=> \E n : fit = {n}
    <2>1. IsFiniteSet(fit)
      <3>1. IsFiniteSet(1..N)
        BY BoundsAreNat, FS_Interval
      <3> QED
        BY <1>7, <3>1, FS_Subset
    <2> QED
      BY <2>1, FS_Singleton, DiscoCardinality
  <1>10. ASSUME NEW n, fit = {n} PROVE Disco!Answered = fit
    <2>1. PICK x \in found : x.id = n
      BY <1>6, <1>10
    <2>2. OnlyRoute(x)
      BY <1>5, <1>8, <1>10, <2>1 DEF OnlyRoute, OneRowEach
    <2>3. answer = <<n>>
      BY <1>8, <2>1, <2>2 DEF AnswerIsRoute
    <2> QED
      BY <1>10, <2>3 DEF Disco!Answered
  <1>11. ASSUME ~ \E n : fit = {n} PROVE answer = <<>>
    <2>1. ASSUME NEW x \in found, OnlyRoute(x) PROVE FALSE
      <3>1. x.id \in fit
        BY <1>5, <2>1 DEF OnlyRoute
      <3>2. ASSUME NEW n \in fit PROVE n = x.id
        <4>1. PICK y \in found : y.id = n
          BY <1>6
        <4>2. IsRoute(y)
          BY <1>5, <4>1
        <4> QED
          BY <2>1, <4>1, <4>2 DEF OnlyRoute
      <3>3. fit = {x.id}
        BY <3>1, <3>2
      <3> QED
        BY <1>11, <3>3
    <2> QED
      BY <1>8, <2>1 DEF AnswerIsRoute
  <1> QED
    BY <1>9, <1>10, <1>11 DEF fit, Goes

\* Whatever the nodes and the roster do between the queries of a request, it offers members
\* only, that suit it, the better before the worse, and a ticket for the route it selected,
\* or none (discover, dispatch_ticket_issue).
THEOREM OffersAreSuitable == MCSpec => []DiscoverySafe
  <1>1. MCInit => DiscoveryInv
    BY DiscoveryInitial DEF MCInit
  <1>2. DiscoveryInv /\ [MCNext]_all => DiscoveryInv'
    <2>1. [MCNext]_all => [Disco!Next]_discoveryVars
      BY DEF MCNext, all, discoveryVars
    <2> QED
      BY <2>1, DiscoveryKept
  <1>3. DiscoveryInv => DiscoverySafe
    <2> SUFFICES ASSUME DiscoveryInv PROVE Disco!Safety
      BY DEF DiscoverySafe
    <2>1. Disco!TypeOK
      <3>1. query \in Disco!QueryTypes
        BY QueryIs DEF DiscoveryInv, DiscoveryTypes
      <3>2. answer \in Seq(1..N) /\ usage \in [Disco!Modes -> 0..1]
        <4>1. CASE pc = "done"
          BY <4>1 DEF DiscoveryInv, AnswerIsChoice
        <4>2. CASE pc # "done"
          BY <4>2 DEF DiscoveryInv, NothingYet
        <4> QED
          BY <4>1, <4>2
      <3>3. found \subseteq [id : 1..N, at : Nat, row : Disco!RowTypes]
        BY DEF DiscoveryInv, DiscoveryTypes, Entries
      <3>4. crowded \in BOOLEAN
        BY DEF DiscoveryInv, DiscoveryTypes
      <3> QED
        BY <3>1, <3>2, <3>3, <3>4 DEF DiscoveryInv, DiscoveryTypes, Disco!TypeOK, Disco!Nodes
    <2> QED
      BY <2>1, BetterStaysAhead, OffersSuit, SelectedIsFound DEF Disco!Safety
  <1> QED
    BY <1>1, <1>2, <1>3, PTL DEF MCSpec

---------------------------------------------------------------------------
(* Mesh health *)

SameSource(x, y) == x.node = y.node /\ x.evaluator = y.evaluator

MeshTypes ==
  /\ health \in Seq(Mesh!Events) /\ cursor \in [Mirrors -> Nat] /\ failed \in 0..MaxFailed
  /\ signals \in [1..N -> Mesh!SignalTypes \cup {None}]
  /\ table \in [Mirrors -> SUBSET Mesh!Events] /\ applied \in [Mirrors -> SUBSET Mesh!Events]
\* A mirror stores one of the evaluations it has upserted for each evaluator and node.
OneOfEach(kept, told) == kept \subseteq told /\ \A x, y \in kept : SameSource(x, y) => x = y
Newest(kept, told) == \A e \in told : \E x \in kept : SameSource(x, e) /\ x.at >= e.at
\* It has upserted only what is in the log.
ToldFromLog(told, pos, notes) == pos <= Len(notes) /\ \A e \in told : \E i \in 1..Len(notes) : notes[i] = e
MeshInv ==
  /\ MeshTypes
  /\ \A r \in Mirrors : /\ OneOfEach(table[r], applied[r]) /\ Newest(table[r], applied[r])
                        /\ ToldFromLog(applied[r], cursor[r], health)

\* The tables of mirrors that have upserted the same evaluations, unless two of a node have
\* the same time.
SameTables == \A r, s \in Mirrors : applied[r] = applied[s] /\ ~Mesh!Tied(applied[r]) => table[r] = table[s]

\* upsert_health_observation keeps the newest evaluation.
LEMMA UpsertKeepsNewest ==
  ASSUME NEW kept \in SUBSET Mesh!Events, NEW told \in SUBSET Mesh!Events, NEW e \in Mesh!Events, OneOfEach(kept, told), Newest(kept, told)
  PROVE  LET new == Mesh!Upserted(kept, e)
         IN new \in SUBSET Mesh!Events /\ OneOfEach(new, told \cup {e}) /\ Newest(new, told \cup {e})
  <1> DEFINE old == {x \in kept : x.node = e.node /\ x.evaluator = e.evaluator}
             new == Mesh!Upserted(kept, e)
  <1>0. e.at \in Nat /\ \A x \in kept \cup told : x.at \in Nat
    BY DEF Mesh!Events
  <1>1. CASE \A x \in old : e.at > x.at
    <2>1. new = (kept \ old) \cup {e}
      BY <1>1 DEF Mesh!Upserted, Mesh!Fresher
    <2>2. OneOfEach(new, told \cup {e}) /\ new \in SUBSET Mesh!Events
      BY <2>1 DEF OneOfEach, SameSource
    <2>3. ASSUME NEW d \in told \cup {e} PROVE \E x \in new : SameSource(x, d) /\ x.at >= d.at
      <3>1. CASE d = e
        BY <1>0, <2>1, <3>1 DEF SameSource
      <3>2. CASE d \in told
        <4>1. PICK x \in kept : SameSource(x, d) /\ x.at >= d.at
          BY <3>2 DEF Newest
        <4>2. CASE x \in old
          <5>1. e.at > x.at /\ d.at \in Nat
            BY <1>0, <1>1, <3>2, <4>2
          <5>2. SameSource(e, d) /\ e.at >= d.at
            BY <1>0, <4>1, <4>2, <5>1 DEF SameSource
          <5> QED
            BY <2>1, <5>2
        <4>3. CASE x \notin old
          BY <2>1, <4>1, <4>3
        <4> QED
          BY <4>2, <4>3
      <3> QED
        BY <3>1, <3>2
    <2> QED
      BY <2>2, <2>3 DEF Newest
  <1>2. CASE ~\A x \in old : e.at > x.at
    <2>1. new = kept
      BY <1>2 DEF Mesh!Upserted, Mesh!Fresher
    <2>2. PICK x \in old : ~(e.at > x.at)
      BY <1>2
    <2>3. SameSource(x, e) /\ x.at >= e.at /\ x \in kept
      BY <1>0, <2>2 DEF SameSource
    <2> QED
      BY <2>1, <2>3 DEF OneOfEach, Newest
  <1> QED
    BY <1>1, <1>2

LEMMA MeshInitial == Mesh!Init => MeshInv
  <1> SUFFICES ASSUME Mesh!Init PROVE MeshInv
    OBVIOUS
  <1>1. MeshTypes
    BY MeshAssumption DEF Mesh!Init, MeshTypes
  <1>2. Len(health) \in Nat
    BY <1>1 DEF MeshTypes
  <1> QED
    BY <1>1, <1>2 DEF Mesh!Init, MeshInv, OneOfEach, Newest, ToldFromLog

LEMMA MeshKept == MeshInv /\ [Mesh!Next]_meshVars => MeshInv'
  <1> SUFFICES ASSUME MeshInv, [Mesh!Next]_meshVars PROVE MeshInv'
    OBVIOUS
  <1>0. MeshTypes /\ Len(health) \in Nat
    BY DEF MeshInv, MeshTypes
  <1>1. CASE UNCHANGED meshVars
    BY <1>1 DEF MeshInv, MeshTypes, meshVars
  <1>5. ASSUME NEW n \in 1..N, NEW s \in Signals \cup {None}, Mesh!Measure(n, s) PROVE MeshInv'
    BY <1>5, MeshAssumption DEF Mesh!Measure, MeshInv, MeshTypes
  <1>2. ASSUME NEW e \in Evaluations, Mesh!Emit(e) PROVE MeshInv'
    <2>1. e \in Mesh!Events /\ health' = Append(health, e) /\ UNCHANGED <<signals, cursor, table, applied, failed>>
      BY <1>2, MeshAssumption DEF Mesh!Emit
    <2>2. health' \in Seq(Mesh!Events) /\ Len(health') = Len(health) + 1 /\ \A i \in 1..Len(health) : health'[i] = health[i]
      BY <1>0, <2>1 DEF MeshTypes
    <2>3. ASSUME NEW r \in Mirrors PROVE ToldFromLog(applied[r], cursor[r], health')
      <3>1. ToldFromLog(applied[r], cursor[r], health) /\ cursor[r] \in Nat
        BY <1>0 DEF MeshInv, MeshTypes
      <3>2. 1..Len(health) \subseteq 1..Len(health') /\ cursor[r] <= Len(health')
        BY <1>0, <2>2, <3>1 DEF ToldFromLog
      <3> QED
        BY <2>2, <3>1, <3>2 DEF ToldFromLog
    <2> QED
      BY <1>0, <2>1, <2>2, <2>3 DEF MeshInv, MeshTypes
  <1>3. ASSUME NEW r \in Mirrors, Mesh!ApplyHealth(r) PROVE MeshInv'
    <2>0. cursor[r] \in Nat /\ cursor[r] < Len(health)
      BY <1>0, <1>3 DEF MeshTypes, Mesh!ApplyHealth
    <2>1. /\ cursor' = [cursor EXCEPT ![r] = cursor[r] + 1] /\ health' = health /\ signals' = signals /\ failed' = failed
          /\ table' = [table EXCEPT ![r] = Mesh!Upserted(table[r], health[cursor'[r]])]
          /\ applied' = [applied EXCEPT ![r] = applied[r] \cup {health[cursor'[r]]}]
      BY <1>3 DEF Mesh!ApplyHealth
    <2>2. cursor'[r] = cursor[r] + 1
      BY <1>0, <2>1 DEF MeshTypes
    <2>3. PICK e : e = health[cursor[r] + 1]
      OBVIOUS
    <2>4. e \in Mesh!Events /\ cursor[r] + 1 \in 1..Len(health)
      BY <1>0, <2>0, <2>3 DEF MeshTypes
    <2>5. table' = [table EXCEPT ![r] = Mesh!Upserted(table[r], e)] /\ applied' = [applied EXCEPT ![r] = applied[r] \cup {e}]
      BY <2>1, <2>2, <2>3
    <2>6. /\ table[r] \in SUBSET Mesh!Events /\ applied[r] \in SUBSET Mesh!Events
          /\ OneOfEach(table[r], applied[r]) /\ Newest(table[r], applied[r]) /\ ToldFromLog(applied[r], cursor[r], health)
      BY <1>0 DEF MeshInv, MeshTypes
    <2> DEFINE new == Mesh!Upserted(table[r], e)
    <2>7. new \in SUBSET Mesh!Events /\ OneOfEach(new, applied[r] \cup {e}) /\ Newest(new, applied[r] \cup {e})
      BY <2>4, <2>6, UpsertKeepsNewest
    <2> HIDE DEF new
    <2>8. ToldFromLog(applied[r] \cup {e}, cursor[r] + 1, health)
      <3>1. cursor[r] + 1 <= Len(health)
        BY <2>4
      <3>2. \E i \in 1..Len(health) : health[i] = e
        BY <2>3, <2>4
      <3> QED
        BY <2>6, <3>1, <3>2 DEF ToldFromLog
    <2>9. MeshTypes'
      BY <1>0, <2>0, <2>1, <2>4, <2>5, <2>6, <2>7 DEF MeshTypes, new
    <2>10. ASSUME NEW s \in Mirrors
           PROVE  /\ OneOfEach(table'[s], applied'[s]) /\ Newest(table'[s], applied'[s])
                  /\ ToldFromLog(applied'[s], cursor'[s], health')
      <3>1. CASE s = r
        <4>1. table'[s] = new /\ applied'[s] = applied[r] \cup {e} /\ cursor'[s] = cursor[r] + 1
          BY <1>0, <2>1, <2>5, <3>1 DEF MeshTypes, new
        <4> QED
          BY <2>1, <2>7, <2>8, <4>1
      <3>2. CASE s # r
        <4>1. table'[s] = table[s] /\ applied'[s] = applied[s] /\ cursor'[s] = cursor[s]
          BY <1>0, <2>1, <2>5, <3>2 DEF MeshTypes
        <4> QED
          BY <2>1, <4>1 DEF MeshInv
      <3> QED
        BY <3>1, <3>2
    <2> QED
      BY <2>9, <2>10 DEF MeshInv
  <1>4. ASSUME NEW r \in Mirrors, Mesh!SkipFailed(r) PROVE MeshInv'
    <2>1. /\ cursor[r] < Len(health) /\ failed < MaxFailed /\ failed' = failed + 1
          /\ cursor' = [cursor EXCEPT ![r] = cursor[r] + 1] /\ UNCHANGED <<signals, health, table, applied>>
      BY <1>4 DEF Mesh!SkipFailed
    <2>2. /\ \A s \in Mirrors : cursor'[s] = IF s = r THEN cursor[r] + 1 ELSE cursor[s]
          /\ failed' \in 0..MaxFailed /\ cursor' \in [Mirrors -> Nat]
      BY <1>0, <2>1, MeshAssumption DEF MeshTypes
    <2>3. \A s \in Mirrors : ToldFromLog(applied[s], cursor'[s], health)
      BY <1>0, <2>1, <2>2 DEF MeshInv, MeshTypes, ToldFromLog
    <2> QED
      BY <1>0, <2>1, <2>2, <2>3 DEF MeshInv, MeshTypes
  <1>6. ASSUME NEW r \in Mirrors, Mesh!Bootstrap(r) PROVE MeshInv'
    <2>1. PICK seq \in {Len(health), 0} : cursor' = [cursor EXCEPT ![r] = seq]
      BY <1>6 DEF Mesh!Bootstrap, Mesh!SnapshotSeqs
    <2>2. UNCHANGED <<signals, health, table, applied, failed>>
      BY <1>6 DEF Mesh!Bootstrap
    <2>3. (\A s \in Mirrors : cursor'[s] = IF s = r THEN seq ELSE cursor[s]) /\ cursor' \in [Mirrors -> Nat]
      BY <1>0, <2>1 DEF MeshTypes
    <2>4. \A s \in Mirrors : ToldFromLog(applied[s], cursor'[s], health)
      BY <1>0, <2>1, <2>3 DEF MeshInv, ToldFromLog
    <2> QED
      BY <1>0, <2>2, <2>3, <2>4 DEF MeshInv, MeshTypes
  <1> QED
    BY <1>1, <1>2, <1>3, <1>4, <1>5, <1>6 DEF Mesh!Next, Mesh!LocalNext, Mesh!FederatedNext

\* Mirrors that have upserted the same agree, which is what their aggregates come from.
LEMMA SameToldSameTable == MeshInv => SameTables
  <1> SUFFICES ASSUME MeshInv PROVE SameTables
    OBVIOUS
  <1>1. ASSUME NEW r \in Mirrors, NEW s \in Mirrors, applied[r] = applied[s], ~Mesh!Tied(applied[r])
        PROVE  table[r] \subseteq table[s]
    <2>0. table[r] \in SUBSET Mesh!Events /\ table[s] \in SUBSET Mesh!Events
      BY DEF MeshInv, MeshTypes
    <2>1. /\ OneOfEach(table[r], applied[r]) /\ Newest(table[r], applied[r])
          /\ OneOfEach(table[s], applied[r]) /\ Newest(table[s], applied[r])
      BY <1>1 DEF MeshInv
    <2> SUFFICES ASSUME NEW x \in table[r] PROVE x \in table[s]
      OBVIOUS
    <2>3. PICK y \in table[s] : SameSource(y, x) /\ y.at >= x.at
      BY <2>1 DEF OneOfEach, Newest
    <2>4. PICK z \in table[r] : SameSource(z, y) /\ z.at >= y.at
      BY <2>1, <2>3 DEF OneOfEach, Newest
    <2>5. z = x
      BY <2>1, <2>3, <2>4 DEF OneOfEach, SameSource
    <2>6. x.at = y.at /\ x.node = y.node
      <3>1. x.at \in Nat /\ y.at \in Nat
        BY <2>0 DEF Mesh!Events
      <3> QED
        BY <2>3, <2>4, <2>5, <3>1 DEF SameSource
    <2>7. x \in applied[r] /\ y \in applied[r]
      BY <2>1, <2>3 DEF OneOfEach
    <2> QED
      BY <1>1, <2>3, <2>6, <2>7 DEF Mesh!Tied
  <1>2. ASSUME NEW r \in Mirrors, NEW s \in Mirrors, applied[r] = applied[s], ~Mesh!Tied(applied[r])
        PROVE  table[r] = table[s]
    BY <1>1, <1>2
  <1> QED
    BY <1>2 DEF SameTables
---------------------------------------------------------------------------
(* Percentiles *)

\* A nonempty set of naturals has a least element.
LEMMA LeastElement ==
  ASSUME NEW T, T \subseteq Nat, T # {}
  PROVE  \E x \in T : \A y \in T : x <= y
  <1>1. \E x \in T : \A y \in T : ~(<<y, x>> \in OpToRel(<, Nat))
    BY NatLessThanWellFounded, WFMin
  <1>2. ASSUME NEW x \in Nat, NEW y \in Nat, y < x
        PROVE  <<y, x>> \in OpToRel(<, Nat)
    <2>1. <<y, x>> \in Nat \X Nat
      OBVIOUS
    <2>2. <<y, x>>[1] < <<y, x>>[2]
      BY <1>2
    <2> QED
      BY <2>1, <2>2, Zenon DEF OpToRel
  <1>3. \A x \in T, y \in T : x <= y \/ y < x
    OBVIOUS
  <1> QED
    BY <1>1, <1>2, <1>3, Zenon

LEMMA MeshCardinality == \A S : Mesh!Cardinality(S) = Cardinality(S)
  <1> SUFFICES ASSUME NEW S
               PROVE  Mesh!Cardinality(S) = Cardinality(S)
    OBVIOUS
  <1> QED
    BY DEF Mesh!Cardinality, Cardinality

\* percentile finds a value of the rank it looks for: it is the least score that as many
\* values do not exceed as the rank says.
LEMMA PercentileFound ==
  ASSUME NEW S, IsFiniteSet(S), S # {}, NEW top \in Nat, NEW f \in [S -> 0..top], NEW p \in 1..100
  PROVE  LET n == Cardinality(S)
             index == (p * n + 99) \div 100
             v == Mesh!percentile(f, p)
         IN /\ n \in Nat \ {0} /\ index \in 1..n
            /\ v \in 0..top /\ \E x \in S : f[x] = v
            /\ Mesh!Below(f, v) \in Nat /\ Mesh!Below(f, v) < index
            /\ Mesh!AtMost(f, v) \in Nat /\ index <= Mesh!AtMost(f, v)
  <1> DEFINE n == Cardinality(S)
             index == (p * n + 99) \div 100
             Upto(k) == {x \in S : f[x] <= k}
             Count(k) == Cardinality(Upto(k))
             Enough == {k \in 0..top : Count(k) >= index}
  <1>1. n \in Nat /\ n # 0
    BY FS_CardinalityType, FS_EmptySet
  <1>2. index \in 1..n
    <2>1. p * n \in Nat
      BY <1>1
    <2>2. p * n <= 100 * n /\ p * n >= n
      BY <1>1, SMT
    <2>3. \A k \in Nat : k <= 100 * n /\ k >= n => (k + 99) \div 100 \in 1..n
      BY <1>1
    <2> QED
      BY <2>1, <2>2, <2>3
  <1> HIDE DEF index
  <1>3. \A k \in Int : Count(k) \in Nat
    BY FS_Subset, FS_CardinalityType
  <1>4. Count(top) = n
    <2>1. Upto(top) = S
      OBVIOUS
    <2> QED
      BY <2>1
  <1>5. Count(-1) = 0
    <2>1. Upto(-1) = {}
      OBVIOUS
    <2> QED
      BY <2>1, FS_EmptySet
  <1>6. PICK v \in 0..top : Count(v) >= index /\ Count(v - 1) < index
    <2> HIDE DEF Count, n
    <2>1. Enough \subseteq Nat /\ Enough # {}
      BY <1>1, <1>2, <1>4
    <2> HIDE DEF Enough
    <2>2. PICK v \in Enough : \A k \in Enough : v <= k
      BY <2>1, LeastElement
    <2>3. v \in 0..top /\ Count(v) >= index
      BY <2>2 DEF Enough
    <2>4. CASE v = 0
      BY <1>1, <1>2, <1>5, <2>3, <2>4
    <2>5. CASE v # 0
      <3>1. v - 1 \in 0..top /\ ~(v <= v - 1)
        BY <2>3, <2>5
      <3>2. v - 1 \notin Enough
        BY <2>2, <3>1
      <3>3. Count(v - 1) \in Nat /\ index \in Int
        BY <1>1, <1>2, <1>3, <3>1
      <3>4. ~(Count(v - 1) >= index)
        BY <3>1, <3>2 DEF Enough
      <3> QED
        BY <2>3, <3>3, <3>4
    <2> QED
      BY <2>3, <2>4, <2>5
  <1>7. PICK x \in S : f[x] = v
    <2>1. Upto(v) # Upto(v - 1)
      <3>1. Count(v) # Count(v - 1)
        <4> HIDE DEF Count
        <4>1. Count(v) \in Nat /\ Count(v - 1) \in Nat /\ index \in Int
          BY <1>1, <1>2, <1>3
        <4> QED
          BY <1>6, <4>1
      <3> QED
        BY <3>1
    <2>2. PICK x : x \in Upto(v) <=> ~(x \in Upto(v - 1))
      BY <2>1
    <2>3. x \in S /\ f[x] \in 0..top
      BY <2>2
    <2> QED
      BY <2>2, <2>3
  <1>8. \A u \in 0..top : Mesh!AtMost(f, u) = Count(u) /\ Mesh!Below(f, u) = Count(u - 1)
    <2> SUFFICES ASSUME NEW u \in 0..top
                 PROVE  Mesh!AtMost(f, u) = Count(u) /\ Mesh!Below(f, u) = Count(u - 1)
      OBVIOUS
    <2>1. DOMAIN f = S /\ {y \in S : f[y] < u} = Upto(u - 1)
      OBVIOUS
    <2> QED
      BY <2>1, MeshCardinality DEF Mesh!AtMost, Mesh!Below
  <1> DEFINE Ranked(u) == Mesh!Below(f, u) < index /\ index <= Mesh!AtMost(f, u)
             values == {f[y] : y \in S}
             w == CHOOSE u \in values : Ranked(u)
  <1>9. v \in values /\ Ranked(v)
    <2>1. Count(v) \in Nat /\ Count(v - 1) \in Nat /\ index \in Int
      BY <1>1, <1>2, <1>3
    <2> HIDE DEF Count
    <2> QED
      BY <1>6, <1>7, <1>8, <2>1
  <1>10. w \in values /\ Ranked(w)
    <2> HIDE DEF Ranked, values
    <2> QED
      BY <1>9
  <1>11. Mesh!percentile(f, p) = w
    BY <1>1, <1>2, MeshCardinality DEF Mesh!percentile, index
  <1> HIDE DEF w, Count
  <1>12. w \in 0..top
    BY <1>10
  <1>13. Mesh!AtMost(f, w) \in Nat /\ Mesh!Below(f, w) \in Nat
    BY <1>3, <1>8, <1>12
  <1> QED
    BY <1>1, <1>2, <1>10, <1>11, <1>12, <1>13 DEF index

---------------------------------------------------------------------------
(* Labels *)

\* The distribution of labels adds up to the members that are no better.
LEMMA DistributionSums ==
  ASSUME NEW S, IsFiniteSet(S), NEW of \in [S -> 1..4], NEW l \in 1..4,
         NEW d, d = Mesh!Distribution(of),
         NEW low, low = {x \in S : of[x] <= l}, NEW under, under = {x \in S : of[x] < l}
  PROVE  /\ Cardinality(low) \in Nat /\ Cardinality(under) \in Nat /\ d[l] \in Nat
         /\ Mesh!NoBetter(d, l) = Cardinality(low) /\ Mesh!NoBetter(d, l) - d[l] = Cardinality(under)
  <1> DEFINE Has(k) == {x \in S : of[x] = k}
             Upto(k) == {x \in S : of[x] <= k}
  <1>1. \A k \in Int : IsFiniteSet(Has(k)) /\ IsFiniteSet(Upto(k)) /\ Cardinality(Has(k)) \in Nat /\ Cardinality(Upto(k)) \in Nat
    BY FS_Subset, FS_CardinalityType
  <1>2. ASSUME NEW k \in 1..4
        PROVE  Cardinality(Upto(k)) = Cardinality(Upto(k - 1)) + Cardinality(Has(k))
    <2>1. Upto(k) = Upto(k - 1) \cup Has(k) /\ Upto(k - 1) \cap Has(k) = {}
      OBVIOUS
    <2>2. Cardinality(Upto(k)) = Cardinality(Upto(k - 1)) + Cardinality(Has(k)) - 0
      <3> HIDE DEF Upto, Has
      <3>1. IsFiniteSet(Upto(k - 1)) /\ IsFiniteSet(Has(k))
        BY <1>1
      <3> QED
        BY <2>1, <3>1, FS_Union, FS_EmptySet
    <2> HIDE DEF Upto, Has
    <2>3. Cardinality(Upto(k - 1)) \in Nat /\ Cardinality(Has(k)) \in Nat
      BY <1>1
    <2> QED
      BY <2>2, <2>3
  <1>3. Cardinality(Upto(0)) = 0
    <2>1. Upto(0) = {}
      OBVIOUS
    <2> QED
      BY <2>1, FS_EmptySet
  <1>4. d = [k \in 1..4 |-> Cardinality(Has(k))]
    BY MeshCardinality DEF Mesh!Distribution
  <1>5. low = Upto(l) /\ under = Upto(l - 1)
    OBVIOUS
  <1> HIDE DEF Has
  <1>6. \A k \in 1..4 : d[k] = Cardinality(Has(k)) /\ d[k] \in Nat
    <2> HIDE DEF Upto
    <2> QED
      BY <1>1, <1>4
  <1>7. Cardinality(Upto(0)) \in Nat /\ Cardinality(Upto(1)) \in Nat /\ Cardinality(Upto(2)) \in Nat
        /\ Cardinality(Upto(3)) \in Nat /\ Cardinality(Upto(4)) \in Nat
    <2> HIDE DEF Upto
    <2> QED
      BY <1>1
  <1> DEFINE C(k) == Cardinality(Upto(k))
  <1>8. C(0) = 0 /\ C(1) = C(0) + d[1] /\ C(2) = C(1) + d[2] /\ C(3) = C(2) + d[3] /\ C(4) = C(3) + d[4]
    <2>1. C(1) = C(1 - 1) + d[1] /\ C(2) = C(2 - 1) + d[2] /\ C(3) = C(3 - 1) + d[3] /\ C(4) = C(4 - 1) + d[4]
      <3> HIDE DEF Upto
      <3> QED
        BY <1>2, <1>6
    <2>2. 1 - 1 = 0 /\ 2 - 1 = 1 /\ 3 - 1 = 2 /\ 4 - 1 = 3
      OBVIOUS
    <2> HIDE DEF C
    <2>3. C(0) = 0
      BY <1>3 DEF C
    <2> QED
      BY <2>1, <2>2, <2>3
  <1>9. C(0) \in Nat /\ C(1) \in Nat /\ C(2) \in Nat /\ C(3) \in Nat /\ C(4) \in Nat
    BY <1>7
  <1>10. Cardinality(low) = C(l) /\ Cardinality(under) = C(l - 1)
    BY <1>5
  <1> HIDE DEF C
  <1>11. C(l) \in Nat /\ C(l - 1) \in Nat /\ Mesh!NoBetter(d, l) = C(l) /\ Mesh!NoBetter(d, l) - d[l] = C(l - 1)
    <2>1. CASE l = 1
      BY <1>6, <1>8, <1>9, <2>1 DEF Mesh!NoBetter
    <2>2. CASE l = 2
      BY <1>6, <1>8, <1>9, <2>2 DEF Mesh!NoBetter
    <2>3. CASE l = 3
      BY <1>6, <1>8, <1>9, <2>3 DEF Mesh!NoBetter
    <2>4. CASE l = 4
      BY <1>6, <1>8, <1>9, <2>4 DEF Mesh!NoBetter
    <2> QED
      BY <2>1, <2>2, <2>3, <2>4
  <1> QED
    BY <1>6, <1>10, <1>11

\* The label of the median: at least half of the members are no better and half no worse.
LEMMA MedianIsHonest ==
  ASSUME NEW S, IsFiniteSet(S), S # {}, NEW top \in Nat, NEW f \in [S -> 0..top], NEW of \in [S -> 1..4], NEW l \in 1..4,
         \A x \in S : (f[x] <= Mesh!percentile(f, 50) => of[x] <= l) /\ (f[x] >= Mesh!percentile(f, 50) => of[x] >= l)
  PROVE  LET d == Mesh!Distribution(of)
             n == Cardinality(S)
         IN 2 * Mesh!NoBetter(d, l) >= n /\ 2 * (n - Mesh!NoBetter(d, l) + d[l]) >= n
  <1> DEFINE d == Mesh!Distribution(of)
             n == Cardinality(S)
             v == Mesh!percentile(f, 50)
             index == (50 * n + 99) \div 100
             low == {x \in S : of[x] <= l}
             under == {x \in S : of[x] < l}
  <1>1. /\ n \in Nat \ {0} /\ index \in 1..n /\ v \in 0..top
        /\ Mesh!Below(f, v) \in Nat /\ Mesh!Below(f, v) < index
        /\ Mesh!AtMost(f, v) \in Nat /\ index <= Mesh!AtMost(f, v)
    BY PercentileFound
  <1>2. 2 * index >= n /\ 2 * index <= n + 1
    BY <1>1
  <1>3. /\ Cardinality(low) \in Nat /\ Cardinality(under) \in Nat /\ d[l] \in Nat
        /\ Mesh!NoBetter(d, l) = Cardinality(low) /\ Mesh!NoBetter(d, l) - d[l] = Cardinality(under)
    <2>1. d = Mesh!Distribution(of) /\ low = {x \in S : of[x] <= l} /\ under = {x \in S : of[x] < l}
      OBVIOUS
    <2> HIDE DEF d, low, under
    <2> QED
      BY <2>1, DistributionSums
  <1> HIDE DEF v, index
  <1>4. Mesh!AtMost(f, v) <= Cardinality(low)
    <2>1. {x \in S : f[x] <= v} \in SUBSET low /\ DOMAIN f = S /\ low \in SUBSET S
      BY DEF v
    <2>2. IsFiniteSet(low)
      BY <2>1, FS_Subset
    <2> HIDE DEF low
    <2> QED
      BY <2>1, <2>2, FS_Subset, MeshCardinality DEF Mesh!AtMost
  <1>5. Cardinality(under) <= Mesh!Below(f, v)
    <2>1. under \in SUBSET {x \in S : f[x] < v} /\ DOMAIN f = S
      <3> SUFFICES ASSUME NEW x \in S, of[x] < l PROVE f[x] < v
        OBVIOUS
      <3>1. of[x] \in Int /\ f[x] \in Int /\ ~(f[x] >= v)
        BY DEF v
      <3> QED
        BY <1>1, <3>1
    <2>2. IsFiniteSet({x \in S : f[x] < v})
      BY FS_Subset
    <2> HIDE DEF under
    <2> QED
      BY <2>1, <2>2, FS_Subset, MeshCardinality DEF Mesh!Below
  <1> HIDE DEF d, n, low, under
  <1>6. Mesh!NoBetter(d, l) \in Nat
    BY <1>3
  <1>7. 2 * Mesh!NoBetter(d, l) >= n /\ 2 * (n - Mesh!NoBetter(d, l) + d[l]) >= n
    BY <1>1, <1>2, <1>3, <1>4, <1>5, <1>6
  <1> QED
    BY <1>7 DEF d, n

\* Labels follow scores.
LEMMA LabelsFollow ==
  /\ \A a \in Nat : Mesh!label(a) \in 1..4 /\ Mesh!label01(a) \in 1..4
  /\ \A a, b \in Nat : a <= b => Mesh!label(a) <= Mesh!label(b) /\ Mesh!label01(a) <= Mesh!label01(b)
  <1>1. \A a \in Nat : Mesh!label(a) \in 1..4
    BY DEF Mesh!label
  <1>2. \A a, b \in Nat : a <= b => Mesh!label(a) <= Mesh!label(b)
    BY DEF Mesh!label
  <1>3. \A a \in Nat : (a + 50) \div 100 \in Nat
    OBVIOUS
  <1>4. \A a, b \in Nat : a <= b => (a + 50) \div 100 <= (b + 50) \div 100
    OBVIOUS
  <1> QED
    BY <1>1, <1>2, <1>3, <1>4 DEF Mesh!label01

LEMMA LabelNames ==
  ASSUME NEW k \in 1..4, NEW l \in 1..4, Mesh!Labels[k] = Mesh!Labels[l]
  PROVE  k = l
  BY DEF Mesh!Labels
LEMMA NoLabel ==
  ASSUME NEW l \in 1..4
  PROVE  Mesh!Labels[l] # "insufficient_sample" /\ Mesh!Labels[l] # "unavailable"
  BY DEF Mesh!Labels

\* mesh_health: the scores of the nodes that are listed are percentages.
LEMMA ScoresArePercent ==
  ASSUME NEW s \in Mesh!SignalTypes
  PROVE  Mesh!score_node(s) \in Nat /\ Mesh!score_node(s) <= 100
  <1>1. Mesh!reachability_from_flags(s) \in 0..2
    BY DEF Mesh!reachability_from_flags
  <1>2. Mesh!latency_score(s.latency_ms) \in 0..450
    BY DEF Mesh!latency_score, Mesh!SignalTypes
  <1>3. \A a \in 0..2, b \in 0..450 : (1050 * a + 2 * b + 15) \div 30 \in Nat /\ (1050 * a + 2 * b + 15) \div 30 <= 100
    OBVIOUS
  <1> QED
    BY <1>1, <1>2, <1>3 DEF Mesh!score_node

LEMMA ListingIsHonest ==
  ASSUME signals \in [1..N -> Mesh!SignalTypes \cup {None}]
  PROVE  Mesh!IsHonest(Mesh!mesh_health)
  <1> DEFINE listed == {n \in 1..N : signals[n] # None}
             score == [n \in listed |-> Mesh!score_node(signals[n])]
             labels == [n \in listed |-> Mesh!label(score[n])]
             v == Mesh!percentile(score, 50)
             m == Mesh!mesh_health
  <1>1. CASE listed = {}
    <2>1. m.label = "unavailable"
      BY <1>1 DEF Mesh!mesh_health
    <2> QED
      BY <2>1, NoLabel DEF Mesh!IsHonest
  <1>2. CASE listed # {}
    <2>0. PICK top \in Nat : top = 100
      OBVIOUS
    <2>1. IsFiniteSet(listed)
      BY FS_Subset, FS_Interval, MeshAssumption
    <2>2. score \in [listed -> 0..top]
      <3>1. \A n \in listed : signals[n] \in Mesh!SignalTypes
        OBVIOUS
      <3>2. \A n \in listed : Mesh!score_node(signals[n]) \in Nat /\ Mesh!score_node(signals[n]) <= top
        BY <2>0, <3>1, ScoresArePercent
      <3> HIDE DEF listed
      <3> QED
        BY <3>2
    <2>3. labels \in [listed -> 1..4]
      BY <2>2, LabelsFollow
    <2>4. /\ m.label = (IF Cardinality(listed) < 3 THEN "insufficient_sample" ELSE Mesh!Labels[Mesh!label(v)])
          /\ m.sample = Cardinality(listed) /\ m.distribution = Mesh!Distribution(labels)
      BY <1>2, MeshCardinality DEF Mesh!mesh_health, Mesh!MIN_MESH_SAMPLE
    <2>5. \A n \in listed : labels[n] = Mesh!label(score[n])
      OBVIOUS
    <2> HIDE DEF listed, score, labels, m
    <2>6. v \in 0..top
      BY <1>2, <2>1, <2>2, PercentileFound
    <2> SUFFICES ASSUME NEW l \in 1..4, m.label = Mesh!Labels[l]
                 PROVE  /\ 2 * Mesh!NoBetter(m.distribution, l) >= m.sample
                        /\ 2 * (m.sample - Mesh!NoBetter(m.distribution, l) + m.distribution[l]) >= m.sample
      BY DEF Mesh!IsHonest, m
    <2>7. l = Mesh!label(v)
      <3>1. Mesh!label(v) \in 1..4
        BY <2>6, LabelsFollow
      <3>2. m.label = Mesh!Labels[Mesh!label(v)]
        BY <2>4, NoLabel
      <3> QED
        BY <3>1, <3>2, LabelNames
    <2> HIDE DEF v
    <2>8. \A n \in listed : (score[n] <= v => labels[n] <= l) /\ (score[n] >= v => labels[n] >= l)
      <3> SUFFICES ASSUME NEW n \in listed
                   PROVE  (score[n] <= v => labels[n] <= l) /\ (score[n] >= v => labels[n] >= l)
        OBVIOUS
      <3>1. score[n] \in Nat /\ v \in Nat
        BY <2>2, <2>6
      <3>2. Mesh!label(score[n]) \in Int /\ Mesh!label(v) \in Int
        BY <3>1, LabelsFollow
      <3> QED
        BY <2>5, <2>7, <3>1, <3>2, LabelsFollow
    <2> QED
      BY <1>2, <2>1, <2>2, <2>3, <2>4, <2>8, MedianIsHonest DEF v
  <1> QED
    BY <1>1, <1>2

---------------------------------------------------------------------------
(* Resolution *)

\* Some row of a finite set is the freshest.
LEMMA SomeFreshest ==
  ASSUME NEW R, IsFiniteSet(R), R # {}, \A x \in R : x.at \in Nat
  PROVE  Mesh!Freshest(R) # {}
  <1> DEFINE Later(x) == {y \in R : y.at > x.at}
             counts == {Cardinality(Later(x)) : x \in R}
  <1>1. \A x \in R : IsFiniteSet(Later(x)) /\ Cardinality(Later(x)) \in Nat
    BY FS_Subset, FS_CardinalityType
  <1>2. PICK k \in counts : \A c \in counts : k <= c
    <2>1. counts \subseteq Nat /\ counts # {}
      <3> HIDE DEF Later
      <3> QED
        BY <1>1
    <2> HIDE DEF counts
    <2> QED
      BY <2>1, LeastElement
  <1>3. PICK x \in R : k = Cardinality(Later(x))
    BY <1>2
  <1>4. ASSUME NEW y \in R PROVE y.at <= x.at
    <2> SUFFICES ASSUME ~(y.at <= x.at) PROVE FALSE
      OBVIOUS
    <2>1. y.at > x.at /\ x.at \in Nat /\ y.at \in Nat
      OBVIOUS
    <2>2. Later(y) \in SUBSET Later(x)
      <3> SUFFICES ASSUME NEW z \in R, z.at > y.at PROVE z.at > x.at
        OBVIOUS
      <3>1. z.at \in Nat
        OBVIOUS
      <3> QED
        BY <2>1, <3>1
    <2>3. y \in Later(x) /\ y \notin Later(y)
      BY <2>1
    <2>4. Cardinality(Later(x)) <= Cardinality(Later(y))
      BY <1>2, <1>3
    <2> HIDE DEF Later
    <2>5. Cardinality(Later(y)) <= Cardinality(Later(x)) /\ Cardinality(Later(x)) \in Nat /\ Cardinality(Later(y)) \in Nat
      BY <1>1, <2>2, FS_Subset
    <2>6. Cardinality(Later(x)) = Cardinality(Later(y))
      BY <2>4, <2>5
    <2>7. Later(x) = Later(y)
      BY <1>1, <2>2, <2>6, FS_Subset
    <2> QED
      BY <2>3, <2>7
  <1> QED
    BY <1>3, <1>4 DEF Mesh!Freshest

\* More than half of the rows have one label at most.
LEMMA OneMajority ==
  ASSUME NEW R, IsFiniteSet(R), NEW l \in Mesh!Majorities(R), NEW k \in Mesh!Majorities(R)
  PROVE  l = k
  <1> DEFINE B(j) == Mesh!Bucket(R, j)
  <1>1. B(l) \subseteq R /\ B(k) \subseteq R
    BY DEF Mesh!Bucket
  <1>2. Cardinality(B(l)) >= Cardinality(R) \div 2 + 1 /\ Cardinality(B(k)) >= Cardinality(R) \div 2 + 1
    BY MeshCardinality DEF Mesh!Majorities, Mesh!needed
  <1> HIDE DEF B
  <1>3. Cardinality(R) \in Nat /\ Cardinality(B(l)) \in Nat /\ Cardinality(B(k)) \in Nat
    BY <1>1, FS_Subset, FS_CardinalityType
  <1>4. Cardinality(B(l)) + Cardinality(B(k)) > Cardinality(R)
    BY <1>2, <1>3
  <1>5. PICK x : x \in B(l) /\ x \in B(k)
    BY <1>1, <1>4, FS_MajoritiesIntersect
  <1> QED
    BY <1>5 DEF B, Mesh!Bucket

\* A node that has rows is resolved, and in one way if its rows are of different times.
LEMMA OneResolution ==
  ASSUME NEW R, IsFiniteSet(R), R # {}, \A x \in R : x.at \in Nat, \A x, y \in R : x.at = y.at => x = y
  PROVE  \E q : Mesh!resolve_node(R) = {q}
  <1>1. PICK x : x \in Mesh!Freshest(R)
    BY SomeFreshest
  <1>2. Mesh!Freshest(R) = {x}
    <2>1. x \in R
      BY <1>1 DEF Mesh!Freshest
    <2> SUFFICES ASSUME NEW y \in Mesh!Freshest(R) PROVE y = x
      BY <1>1
    <2>2. y \in R /\ y.at <= x.at /\ x.at <= y.at
      BY <1>1 DEF Mesh!Freshest
    <2>3. x.at = y.at
      BY <2>1, <2>2
    <2> QED
      BY <2>1, <2>2, <2>3
  <1>3. \A how : {Mesh!Resolved(z.score, how) : z \in Mesh!Freshest(R)} = {Mesh!Resolved(x.score, how)}
    BY <1>2
  <1>4. CASE Mesh!Majorities(R) # {}
    <2>1. PICK l : l \in Mesh!Majorities(R)
      BY <1>4
    <2>2. Mesh!Majorities(R) = {l}
      BY <2>1, OneMajority
    <2>3. {Mesh!Resolved(Mesh!Median(Mesh!Bucket(R, k)), "majority") : k \in Mesh!Majorities(R)} =
             {Mesh!Resolved(Mesh!Median(Mesh!Bucket(R, l)), "majority")}
      BY <2>2
    <2>4. CASE Mesh!Cardinality(R) < Mesh!HEALTH_QUORUM
      BY <1>3, <2>4 DEF Mesh!resolve_node
    <2>5. CASE ~(Mesh!Cardinality(R) < Mesh!HEALTH_QUORUM)
      <3>1. Mesh!resolve_node(R) = {Mesh!Resolved(Mesh!Median(Mesh!Bucket(R, k)), "majority") : k \in Mesh!Majorities(R)}
        BY <1>4, <2>5 DEF Mesh!resolve_node
      <3> QED
        BY <2>3, <3>1
    <2> QED
      BY <2>4, <2>5
  <1>5. CASE Mesh!Majorities(R) = {}
    BY <1>3, <1>5 DEF Mesh!resolve_node
  <1> QED
    BY <1>4, <1>5

LEMMA ScoresBounded == Mesh!FullScore \in Nat /\ \A e \in Mesh!Events : e.score \in 0..Mesh!FullScore
  <1>1. Mesh!FullScore \in Nat
    BY DEF Mesh!FullScore
  <1>2. \A e \in Mesh!Events : e.score \in 0..Mesh!FullScore
    BY DEF Mesh!Events
  <1> QED
    BY <1>1, <1>2

\* What is resolved has the label of its score.
LEMMA ResolvedIsLabelled ==
  ASSUME NEW R, IsFiniteSet(R), NEW top \in Nat, \A x \in R : x.score \in 0..top, NEW q \in Mesh!resolve_node(R)
  PROVE  q.score \in 0..(top + 5) /\ q.label = Mesh!label01(q.score)
  <1>1. \A x \in R : x.score \in Nat /\ x.score <= top
    OBVIOUS
  <1>2. \A s \in Nat : s <= top => Mesh!round3(s) \in 0..(top + 5)
    BY DEF Mesh!round3
  <1>3. ASSUME NEW s \in Nat, s <= top, NEW how, q = Mesh!Resolved(s, how)
        PROVE  q.score \in 0..(top + 5) /\ q.label = Mesh!label01(q.score)
    BY <1>2, <1>3 DEF Mesh!Resolved
  <1>4. ASSUME NEW x \in Mesh!Freshest(R), NEW how, q = Mesh!Resolved(x.score, how)
        PROVE  q.score \in 0..(top + 5) /\ q.label = Mesh!label01(q.score)
    BY <1>1, <1>3, <1>4 DEF Mesh!Freshest
  <1>5. ASSUME NEW l \in Mesh!Majorities(R), q = Mesh!Resolved(Mesh!Median(Mesh!Bucket(R, l)), "majority")
        PROVE  q.score \in 0..(top + 5) /\ q.label = Mesh!label01(q.score)
    <2> DEFINE B == Mesh!Bucket(R, l)
               f == [x \in B |-> x.score]
    <2>1. B \subseteq R
      BY DEF Mesh!Bucket
    <2>2. Cardinality(B) >= Cardinality(R) \div 2 + 1
      BY MeshCardinality DEF Mesh!Majorities, Mesh!needed
    <2> HIDE DEF B
    <2>3. IsFiniteSet(B) /\ B # {}
      <3>1. IsFiniteSet(B) /\ Cardinality(R) \in Nat
        BY <2>1, FS_Subset, FS_CardinalityType
      <3>2. Cardinality(B) # 0
        BY <2>2, <3>1
      <3> QED
        BY <3>1, <3>2, FS_EmptySet
    <2>4. f \in [B -> 0..top]
      BY <1>1, <2>1
    <2> HIDE DEF f
    <2>5. Mesh!percentile(f, 50) \in 0..top
      BY <2>3, <2>4, PercentileFound
    <2>6. Mesh!Median(B) = Mesh!percentile(f, 50)
      BY DEF Mesh!Median, f
    <2>7. Mesh!Median(B) \in Nat /\ Mesh!Median(B) <= top
      BY <2>5, <2>6
    <2> QED
      BY <1>3, <1>5, <2>7 DEF B
  <1> QED
    BY <1>4, <1>5 DEF Mesh!resolve_node

\* Rows of a node that differ outside the majority are resolved in the same way.
LEMMA MinorityIsIgnored ==
  ASSUME NEW R, IsFiniteSet(R), NEW Q, IsFiniteSet(Q), Cardinality(Q) = Cardinality(R), Cardinality(R) >= 3,
         NEW l \in Mesh!Majorities(R), Mesh!Bucket(Q, l) = Mesh!Bucket(R, l)
  PROVE  Mesh!resolve_node(Q) = Mesh!resolve_node(R)
  <1>1. l \in Mesh!Majorities(Q)
    BY MeshCardinality DEF Mesh!Majorities, Mesh!needed
  <1>2. Mesh!Majorities(R) = {l} /\ Mesh!Majorities(Q) = {l}
    BY <1>1, OneMajority
  <1>3. Cardinality(R) \in Nat /\ ~(Mesh!Cardinality(R) < Mesh!HEALTH_QUORUM) /\ ~(Mesh!Cardinality(Q) < Mesh!HEALTH_QUORUM)
    BY FS_CardinalityType, MeshCardinality DEF Mesh!HEALTH_QUORUM
  <1>4. ASSUME NEW P, ~(Mesh!Cardinality(P) < Mesh!HEALTH_QUORUM), Mesh!Majorities(P) = {l}
        PROVE  Mesh!resolve_node(P) = {Mesh!Resolved(Mesh!Median(Mesh!Bucket(P, l)), "majority")}
    BY <1>4 DEF Mesh!resolve_node
  <1> QED
    BY <1>2, <1>3, <1>4

\* An evaluator outside the majority that says something else.
LEMMA OutlierReplaced ==
  ASSUME NEW R, IsFiniteSet(R), R \subseteq Mesh!Events, \A z, u \in R : z.evaluator = u.evaluator => z = u,
         Cardinality(R) >= 3, NEW l \in Mesh!Majorities(R), NEW x \in R, x \notin Mesh!Bucket(R, l),
         NEW y \in Mesh!Events, Mesh!label01(y.score) # l
  PROVE  Mesh!resolve_node((R \ {x}) \cup {[x EXCEPT !.score = y.score, !.at = y.at]}) = Mesh!resolve_node(R)
  <1> DEFINE z == [x EXCEPT !.score = y.score, !.at = y.at]
             Q == (R \ {x}) \cup {z}
  <1>1. z.evaluator = x.evaluator /\ z.score = y.score
    BY DEF Mesh!Events
  <1> HIDE DEF z
  <1>2. z \notin R \ {x}
    BY <1>1
  <1>3. IsFiniteSet(R \ {x}) /\ Cardinality(R \ {x}) = Cardinality(R) - 1
    BY FS_RemoveElement
  <1>4. IsFiniteSet(Q) /\ Cardinality(Q) = Cardinality(R) - 1 + 1
    BY <1>2, <1>3, FS_AddElement
  <1>5. Cardinality(Q) = Cardinality(R)
    <2>1. Cardinality(R) \in Nat
      BY FS_CardinalityType
    <2> QED
      BY <1>4, <2>1
  <1>6. Mesh!Bucket(Q, l) = Mesh!Bucket(R, l)
    BY <1>1 DEF Mesh!Bucket
  <1> HIDE DEF Q
  <1>7. Mesh!resolve_node(Q) = Mesh!resolve_node(R)
    BY <1>4, <1>5, <1>6, MinorityIsIgnored
  <1> QED
    BY <1>7 DEF Q, z

\* What a table is resolved to, node by node.
LEMMA ResolutionsAre ==
  ASSUME NEW R, NEW f \in Mesh!Resolutions(R)
  PROVE  LET seen == {x.node : x \in R}
         IN DOMAIN f = seen /\ f = [n \in seen |-> f[n]] /\ \A n \in seen : f[n] \in Mesh!resolve_node(Mesh!RowsOf(R, n))
  BY DEF Mesh!Resolutions

\* The aggregate of a finite table is honest, whichever way it is resolved.
LEMMA AggregateIsHonest ==
  ASSUME NEW R, IsFiniteSet(R), R # {}, R \subseteq Mesh!Events, NEW g \in Mesh!Resolutions(R)
  PROVE  Mesh!IsHonest(Mesh!Aggregate(g))
  <1> DEFINE S == {x.node : x \in R}
             score == [n \in S |-> g[n].score]
             labels == [n \in S |-> g[n].label]
             v == Mesh!percentile(score, 50)
             m == Mesh!Aggregate(g)
  <1>0. PICK top \in Nat : top = Mesh!FullScore + 5
    BY ScoresBounded
  <1>1. DOMAIN g = S /\ \A n \in S : g[n] \in Mesh!resolve_node(Mesh!RowsOf(R, n))
    BY ResolutionsAre
  <1>2. IsFiniteSet(S) /\ S # {}
    <2>1. S \subseteq 1..N
      BY DEF Mesh!Events
    <2>2. IsFiniteSet(1..N)
      BY MeshAssumption, FS_Interval
    <2>3. S # {}
      OBVIOUS
    <2> HIDE DEF S
    <2> QED
      BY <2>1, <2>2, <2>3, FS_Subset
  <1>3. ASSUME NEW n \in S
        PROVE  g[n].score \in 0..top /\ g[n].label = Mesh!label01(g[n].score)
    <2> DEFINE P == Mesh!RowsOf(R, n)
    <2>1. P \subseteq R
      BY DEF Mesh!RowsOf
    <2>2. g[n] \in Mesh!resolve_node(P)
      BY <1>1
    <2> HIDE DEF P
    <2>3. IsFiniteSet(P) /\ \A x \in P : x.score \in 0..Mesh!FullScore
      BY <2>1, FS_Subset, ScoresBounded
    <2> QED
      BY <1>0, <2>2, <2>3, ScoresBounded, ResolvedIsLabelled
  <1>4. score \in [S -> 0..top] /\ \A n \in S : labels[n] = Mesh!label01(score[n])
    <2> HIDE DEF S
    <2> QED
      BY <1>3
  <1>5. labels \in [S -> 1..4]
    <2>1. \A n \in S : g[n].score \in Nat
      <3> HIDE DEF S
      <3> QED
        BY <1>3
    <2> HIDE DEF S
    <2> QED
      BY <1>3, <2>1, LabelsFollow
  <1>6. /\ m.label = (IF Cardinality(S) < 3 THEN "insufficient_sample" ELSE Mesh!Labels[Mesh!label01(v)])
        /\ m.sample = Cardinality(S) /\ m.distribution = Mesh!Distribution(labels)
    <2>1. DOMAIN score = S
      OBVIOUS
    <2> HIDE DEF S
    <2> QED
      BY <1>1, <2>1, MeshCardinality DEF Mesh!Aggregate, Mesh!MIN_MESH_SAMPLE
  <1> HIDE DEF S, score, labels, m
  <1>7. v \in 0..top
    BY <1>2, <1>4, PercentileFound
  <1> SUFFICES ASSUME NEW l \in 1..4, m.label = Mesh!Labels[l]
               PROVE  /\ 2 * Mesh!NoBetter(m.distribution, l) >= m.sample
                      /\ 2 * (m.sample - Mesh!NoBetter(m.distribution, l) + m.distribution[l]) >= m.sample
    BY DEF Mesh!IsHonest, m
  <1>8. l = Mesh!label01(v)
    <2>1. Mesh!label01(v) \in 1..4
      BY <1>7, LabelsFollow
    <2>2. m.label = Mesh!Labels[Mesh!label01(v)]
      BY <1>6, NoLabel
    <2> QED
      BY <2>1, <2>2, LabelNames
  <1> HIDE DEF v
  <1>9. ASSUME NEW n \in S
        PROVE  (score[n] <= v => labels[n] <= l) /\ (score[n] >= v => labels[n] >= l)
    <2>1. score[n] \in Nat /\ v \in Nat
      BY <1>4, <1>7
    <2>2. Mesh!label01(score[n]) \in Int /\ Mesh!label01(v) \in Int
      BY <2>1, LabelsFollow
    <2> QED
      BY <1>4, <1>8, <2>1, <2>2, LabelsFollow
  <1> QED
    BY <1>2, <1>4, <1>5, <1>6, <1>9, MedianIsHonest DEF v

\* A finite table without ties has one aggregate.
LEMMA OneAggregate ==
  ASSUME NEW R, IsFiniteSet(R), R \subseteq Mesh!Events, \A x, y \in R : x.node = y.node /\ x.at = y.at => x = y
  PROVE  Cardinality(Mesh!federated_mesh_health(R)) = 1
  <1>1. CASE R = {}
    BY <1>1, FS_Singleton DEF Mesh!federated_mesh_health
  <1>2. CASE R # {}
    <2> DEFINE S == {x.node : x \in R}
               Only(n) == CHOOSE q : Mesh!resolve_node(Mesh!RowsOf(R, n)) = {q}
               f == [n \in S |-> Only(n)]
    <2>1. ASSUME NEW n \in S PROVE Mesh!resolve_node(Mesh!RowsOf(R, n)) = {Only(n)}
      <3> DEFINE P == Mesh!RowsOf(R, n)
      <3>1. P # {} /\ P \subseteq R /\ \A x \in P : x.node = n
        BY DEF Mesh!RowsOf
      <3> HIDE DEF P
      <3>2. IsFiniteSet(P) /\ (\A x \in P : x.at \in Nat) /\ \A x, y \in P : x.at = y.at => x = y
        BY <3>1, FS_Subset DEF Mesh!Events
      <3>3. \E q : Mesh!resolve_node(P) = {q}
        BY <3>1, <3>2, OneResolution
      <3> QED
        BY <3>3, Zenon DEF P
    <2> HIDE DEF Only
    <2>2. f \in Mesh!Resolutions(R)
      <3>1. \A n \in S : f[n] \in Mesh!resolve_node(Mesh!RowsOf(R, n))
        BY <2>1
      <3>2. f \in [S -> UNION {Mesh!resolve_node(Mesh!RowsOf(R, n)) : n \in S}]
        <4> HIDE DEF S
        <4> QED
          BY <2>1
      <3> QED
        BY <3>1, <3>2 DEF Mesh!Resolutions
    <2>3. ASSUME NEW g \in Mesh!Resolutions(R) PROVE g = f
      <3>1. DOMAIN g = S /\ g = [n \in S |-> g[n]] /\ \A n \in S : g[n] \in Mesh!resolve_node(Mesh!RowsOf(R, n))
        BY ResolutionsAre
      <3> HIDE DEF S
      <3>2. \A n \in S : g[n] = Only(n)
        BY <2>1, <3>1
      <3> QED
        BY <3>1, <3>2
    <2> HIDE DEF f
    <2>4. Mesh!Resolutions(R) = {f}
      BY <2>2, <2>3
    <2>5. Mesh!federated_mesh_health(R) = {Mesh!Aggregate(f)}
      BY <1>2, <2>4 DEF Mesh!federated_mesh_health
    <2> QED
      BY <2>5, FS_Singleton
  <1> QED
    BY <1>1, <1>2

---------------------------------------------------------------------------
(* The aggregate *)

\* What a mirror has stored is finite, since the log is.
LEMMA TablesFinite ==
  ASSUME MeshInv, NEW r \in Mirrors
  PROVE  IsFiniteSet(table[r])
  <1> DEFINE told == {health[i] : i \in 1..Len(health)}
             f == [i \in 1..Len(health) |-> health[i]]
  <1>1. Len(health) \in Nat
    BY DEF MeshInv, MeshTypes
  <1>2. IsFiniteSet(1..Len(health))
    BY <1>1, FS_Interval
  <1>3. f \in Surjection(1..Len(health), told)
    BY DEF Surjection
  <1>4. IsFiniteSet(told)
    <2> HIDE DEF told, f
    <2> QED
      BY <1>2, <1>3, FS_Surjection
  <1>5. table[r] \subseteq told
    <2>1. table[r] \subseteq applied[r] /\ \A e \in applied[r] : \E i \in 1..Len(health) : health[i] = e
      BY DEF MeshInv, OneOfEach, ToldFromLog
    <2> QED
      BY <2>1
  <1> HIDE DEF told
  <1> QED
    BY <1>4, <1>5, FS_Subset

LEMMA MeshInvSafe == MeshInv => Mesh!Safety
  <1> SUFFICES ASSUME MeshInv PROVE Mesh!Safety
    OBVIOUS
  <1>1. /\ \A r \in Mirrors : /\ IsFiniteSet(table[r]) /\ table[r] \subseteq Mesh!Events /\ applied[r] \subseteq Mesh!Events
                              /\ OneOfEach(table[r], applied[r]) /\ ToldFromLog(applied[r], cursor[r], health)
        /\ health \in Seq(Mesh!Events) /\ Len(health) \in Nat
    BY TablesFinite DEF MeshInv, MeshTypes
  <1>2. Mesh!TypeOK
    <2>1. \A r \in Mirrors : cursor[r] \in 0..Len(health)
      BY DEF MeshInv, MeshTypes, ToldFromLog
    <2>2. \A r \in Mirrors : \A x, y \in table[r] : x.node = y.node /\ x.evaluator = y.evaluator => x = y
      BY <1>1 DEF OneOfEach, SameSource
    <2> QED
      BY <1>1, <2>1, <2>2 DEF MeshInv, MeshTypes, Mesh!TypeOK
  <1>3. Mesh!KeepsNewest
    BY DEF MeshInv, OneOfEach, Newest, SameSource, Mesh!KeepsNewest
  <1>4. Mesh!SameAggregate
    <2> SUFFICES ASSUME NEW r \in Mirrors, NEW s \in Mirrors, applied[r] = applied[s], ~Mesh!Tied(applied[r])
                 PROVE  /\ Mesh!federated_mesh_health(table[r]) = Mesh!federated_mesh_health(table[s])
                        /\ Mesh!Cardinality(Mesh!federated_mesh_health(table[r])) = 1
      BY DEF Mesh!SameAggregate
    <2>1. table[r] = table[s]
      BY SameToldSameTable DEF SameTables
    <2>2. ASSUME NEW x \in table[r], NEW y \in table[r], x.node = y.node, x.at = y.at PROVE x = y
      BY <1>1, <2>2 DEF OneOfEach, Mesh!Tied
    <2>3. Cardinality(Mesh!federated_mesh_health(table[r])) = 1
      BY <1>1, <2>2, OneAggregate
    <2> QED
      BY <2>1, <2>3, MeshCardinality
  <1>5. Mesh!LabelHonest
    <2>1. Mesh!IsHonest(Mesh!mesh_health)
      BY ListingIsHonest DEF MeshInv, MeshTypes
    <2>2. ASSUME NEW r \in Mirrors, NEW m \in Mesh!federated_mesh_health(table[r]) \ {None}
          PROVE  Mesh!IsHonest(m)
      <3>1. table[r] # {}
        BY <2>2 DEF Mesh!federated_mesh_health
      <3>2. PICK g \in Mesh!Resolutions(table[r]) : m = Mesh!Aggregate(g)
        BY <2>2, <3>1 DEF Mesh!federated_mesh_health
      <3>3. Mesh!IsHonest(Mesh!Aggregate(g))
        BY <1>1, <3>1, <3>2, AggregateIsHonest
      <3> QED
        BY <3>2, <3>3
    <2> QED
      BY <2>1, <2>2 DEF Mesh!LabelHonest
  <1>6. Mesh!OutlierIsIgnored
    <2> SUFFICES ASSUME NEW r \in Mirrors, NEW n \in 1..N, NEW R, R = Mesh!RowsOf(table[r], n),
                        Mesh!Cardinality(R) >= Mesh!HEALTH_QUORUM, NEW l \in Mesh!Majorities(R),
                        NEW x \in R \ Mesh!Bucket(R, l), NEW y \in applied[r], Mesh!label01(y.score) # l
                 PROVE  Mesh!resolve_node((R \ {x}) \cup {[x EXCEPT !.score = y.score, !.at = y.at]}) = Mesh!resolve_node(R)
      BY DEF Mesh!OutlierIsIgnored
    <2>1. R \subseteq table[r] /\ \A z \in R : z.node = n
      BY DEF Mesh!RowsOf
    <2>2. IsFiniteSet(R) /\ R \subseteq Mesh!Events /\ y \in Mesh!Events /\ Cardinality(R) >= 3
      BY <1>1, <2>1, FS_Subset, MeshCardinality DEF Mesh!HEALTH_QUORUM
    <2>3. \A z, u \in R : z.evaluator = u.evaluator => z = u
      BY <1>1, <2>1 DEF OneOfEach, SameSource
    <2> QED
      BY <2>2, <2>3, OutlierReplaced
  <1> QED
    BY <1>2, <1>3, <1>4, <1>5, <1>6 DEF Mesh!Safety

\* In whatever order evaluations reach the mirrors, whichever writes fail and wherever a
\* bootstrap moves a cursor, mirrors keep the newest evaluations they upserted; from the
\* same ones they come to one aggregate, its label has half of the nodes on either side,
\* and a minority does not move what a node has by majority
\* (upsert_health_observation, resolve_node, mesh_health, federated_mesh_health).
THEOREM MeshHealthIsSafe == MCSpec => []MeshSafe
  <1>1. MCInit => MeshInv
    BY MeshInitial DEF MCInit
  <1>2. MeshInv /\ [MCNext]_all => MeshInv'
    <2>1. [MCNext]_all => [Mesh!Next]_meshVars
      BY DEF MCNext, all, meshVars, Mesh!Next
    <2> QED
      BY <2>1, MeshKept
  <1>3. MeshInv => MeshSafe
    BY MeshInvSafe DEF MeshSafe
  <1> QED
    BY <1>1, <1>2, <1>3, PTL DEF MCSpec

---------------------------------------------------------------------------
(* The in-memory repository: heartbeats and replicas *)

\* The challenge that is stored is the last one issued, and none that was answered is
\* stored again; the last batch that is remembered is the client's.
BeatInv ==
  /\ call \in [Calls -> Memory!BeatCalls \cup {None}]
  /\ sentChallenges \in 0..MaxBatches /\ sent \in 0..MaxBatches /\ reported \in 0..sent
  /\ (challenge = None /\ sentChallenges = 0) \/ challenge = sentChallenges
  /\ solved \in [1..MaxBatches -> 0..1] /\ \A i \in 1..MaxBatches : solved[i] = 1 => i < sentChallenges
  /\ (batch = None /\ sent = 0) \/ batch = sent
  /\ node # None => node \in [key : Memory!HmacKeys, tasks : Nat] /\ node.tasks <= reported

LEMMA BeatKept == BeatInv /\ Memory!BeatNext => BeatInv'
  <1> SUFFICES ASSUME BeatInv, Memory!BeatNext PROVE BeatInv'
    OBVIOUS
  <1>1. CASE Memory!Withdraw
    BY <1>1 DEF Memory!Withdraw, BeatInv
  <1>2. ASSUME NEW k \in Memory!HmacKeys, Memory!Enroll(k) PROVE BeatInv'
    BY <1>2 DEF Memory!Enroll, BeatInv
  <1>3. ASSUME NEW b \in 1..MaxBatches, Memory!Heartbeat(b) PROVE BeatInv'
    <2>1. /\ node # None /\ node \in [key : Memory!HmacKeys, tasks : Nat] /\ node.tasks <= reported
          /\ b \in Nat /\ b > 0 /\ sent' = b /\ batch' = b
      BY <1>3, RepositoryAssumption DEF Memory!Heartbeat, BeatInv
    <2>2. node' \in [key : Memory!HmacKeys, tasks : Nat] /\ reported' \in Nat
      BY <1>3, <2>1 DEF Memory!Heartbeat, BeatInv
    <2>3. node'.tasks <= reported'
      <3>1. CASE Memory!Counts(b)
        <4>1. node'.tasks = node.tasks + 1
          BY <1>3, <2>1, <3>1 DEF Memory!Heartbeat
        <4>2. b > sent
          BY <1>3, <2>1, <3>1 DEF Memory!Heartbeat, Memory!Counts, BeatInv
        <4>3. reported' = reported + 1
          BY <1>3, <4>2 DEF Memory!Heartbeat
        <4> QED
          BY <2>1, <4>1, <4>3 DEF BeatInv
      <3>2. CASE ~Memory!Counts(b)
        BY <1>3, <2>1, <3>2 DEF Memory!Heartbeat, BeatInv
      <3> QED
        BY <3>1, <3>2
    <2>4. UNCHANGED <<call, challenge, sentChallenges, solved>>
      BY <1>3 DEF Memory!Heartbeat
    <2>5. reported' <= b /\ b \in 0..MaxBatches
      <3>1. sent \in Nat /\ reported \in Nat /\ reported <= sent /\ b \in {sent, sent + 1}
            /\ reported' = IF b > sent \/ reported = 0 THEN reported + 1 ELSE reported
        BY <1>3 DEF Memory!Heartbeat, BeatInv
      <3> QED
        BY <2>1, <3>1, RepositoryAssumption
    <2> QED
      BY <2>1, <2>2, <2>3, <2>4, <2>5 DEF BeatInv
  <1>4. ASSUME NEW c \in Calls, Memory!RotateChallenge(c) PROVE BeatInv'
    <2>1. /\ challenge' = sentChallenges + 1 /\ sentChallenges' = sentChallenges + 1
          /\ UNCHANGED <<node, batch, sent, reported>>
      BY <1>4 DEF Memory!RotateChallenge, Memory!NextChallenge
    <2>2. solved' \in [1..MaxBatches -> 0..1] /\ \A i \in 1..MaxBatches : solved'[i] = 1 => i < sentChallenges + 1
      <3>1. CASE Memory!Verified(c)
        <4>1. challenge = sentChallenges /\ solved' = [solved EXCEPT ![challenge] = @ + 1]
          BY <1>4, <3>1 DEF Memory!RotateChallenge, Memory!Verified, BeatInv
        <4>2. challenge \in 1..MaxBatches => solved[challenge] = 0
          BY <4>1 DEF BeatInv
        <4>3. \A i \in 1..MaxBatches : solved'[i] = IF i = challenge THEN 1 ELSE solved[i]
          BY <4>1, <4>2 DEF BeatInv
        <4>4. \A i \in 1..MaxBatches : solved'[i] \in 0..1 /\ (solved'[i] = 1 => i < sentChallenges + 1)
          BY <4>1, <4>3, RepositoryAssumption DEF BeatInv
        <4>5. solved' \in [1..MaxBatches -> 0..1]
          BY <4>1, <4>4 DEF BeatInv
        <4> QED
          BY <4>4, <4>5
      <3>2. CASE ~Memory!Verified(c)
        BY <1>4, <3>2, RepositoryAssumption DEF Memory!RotateChallenge, BeatInv
      <3> QED
        BY <3>1, <3>2
    <2>3. call' \in [Calls -> Memory!BeatCalls \cup {None}]
      BY <1>4 DEF Memory!RotateChallenge, Memory!Goes, BeatInv
    <2>4. sentChallenges \in Nat /\ sentChallenges + 1 \in 0..MaxBatches
      BY <1>4, RepositoryAssumption DEF Memory!RotateChallenge, BeatInv
    <2> QED
      BY <2>1, <2>2, <2>3, <2>4 DEF BeatInv
  <1>5. ASSUME NEW c \in Calls, NEW r \in Memory!HmacKeys \X (1..MaxBatches), Memory!ReadKey(c, r) PROVE BeatInv'
    <2>1. node.key \in Memory!HmacKeys
      BY <1>5 DEF Memory!ReadKey, BeatInv
    <2>2. [pc |-> "verify", key |-> node.key, response |-> r] \in Memory!BeatCalls
      BY <2>1 DEF Memory!BeatCalls
    <2>3. call' \in [Calls -> Memory!BeatCalls \cup {None}] /\ UNCHANGED Memory!beatVars
      BY <1>5, <2>2 DEF Memory!ReadKey, Memory!Goes, BeatInv
    <2> QED
      BY <2>3 DEF Memory!beatVars, BeatInv
  <1> QED
    BY <1>1, <1>2, <1>3, <1>4, <1>5 DEF Memory!BeatNext

\* A token belongs to one replica; a decommission that has removed the hash of its
\* replica, or has completed, has left its token to nobody.
TokenOf(h, t, r) == \A s \in Dids : h[s] = t => s = r
TokenFree(h, t) == \A s \in Dids : h[s] # t
\* A lock that is kept between two steps is kept by a call that has one more step to do.
LocksKnown ==
  /\ held \in [Memory!Locks -> Calls \cup {None}]
  /\ \A c \in Calls : (held["replicas"] = c <=> Memory!Is(c, "untomb"))
  /\ \A c \in Calls : (held["decommissioned"] = c <=> Memory!Is(c, "list"))
TokensKnown ==
  /\ minted \in Nat /\ call \in [Calls -> Memory!ReplicaCalls \cup {None}]
  /\ hashes \in [Dids -> 1..MaxTokens \cup {None}] /\ doomed \subseteq 1..MaxTokens
  /\ \A r \in Dids : hashes[r] # None => hashes[r] <= minted /\ TokenOf(hashes, hashes[r], r)
  /\ \A c \in Calls : (Memory!Is(c, "unhash") \/ Memory!Is(c, "tomb")) /\ call[c].token # None => call[c].token <= minted
  /\ \A c \in Calls : Memory!Is(c, "unhash") /\ call[c].token # None => TokenOf(hashes, call[c].token, call[c].replica)
  /\ \A c \in Calls : Memory!Is(c, "tomb") /\ call[c].token # None => TokenFree(hashes, call[c].token)
  /\ \A t \in doomed : t <= minted /\ TokenFree(hashes, t)
RepoReplicaInv == TokensKnown /\ LocksKnown

\* The calls of the replica part, each by its place.
LEMMA ReplicaCallKinds ==
  ASSUME NEW x \in Memory!ReplicaCalls
  PROVE  /\ x # None
         /\ x.pc \in {"untomb", "check", "hash", "unhash", "tomb", "log", "list", "look"}
         /\ x.pc \in {"unhash", "tomb"} => x.replica \in Dids /\ x.token \in 1..MaxTokens \cup {None}
                                           /\ x = [pc |-> x.pc, replica |-> x.replica, token |-> x.token]
         /\ x.pc \in {"untomb", "check", "hash", "log"} => x.replica \in Dids
  BY RepositoryAssumption DEF Memory!ReplicaCalls

\* A call that takes a step leaves the others where they are.
LEMMA OthersStay ==
  ASSUME NEW c \in Calls, NEW x \in Memory!ReplicaCalls \cup {None}, Memory!Goes(c, x),
         call \in [Calls -> Memory!ReplicaCalls \cup {None}]
  PROVE  /\ call' \in [Calls -> Memory!ReplicaCalls \cup {None}]
         /\ call'[c] = x /\ \A d \in Calls \ {c} : call'[d] = call[d]
  BY DEF Memory!Goes

LEMMA RepoReplicaInitial == Memory!Init => RepoReplicaInv
  BY RepositoryAssumption DEF Memory!Init, RepoReplicaInv, TokensKnown, LocksKnown, TokenOf, Memory!Is, Memory!Locks

\* A step that mints no token, stores none and dooms none, by a call that does not go on with one.
LEMMA TokensStay ==
  ASSUME NEW c \in Calls, NEW x \in Memory!ReplicaCalls \cup {None}, Memory!Goes(c, x), TokensKnown,
         UNCHANGED <<hashes, minted, doomed>>, x # None => x.pc \notin {"unhash", "tomb"}
  PROVE  TokensKnown'
  <1>1. /\ call' \in [Calls -> Memory!ReplicaCalls \cup {None}]
        /\ call'[c] = x /\ \A d \in Calls \ {c} : call'[d] = call[d]
    BY OthersStay DEF TokensKnown
  <1>2. \A d \in Calls : \A p \in {"unhash", "tomb"} : Memory!Is(d, p)' => call'[d] = call[d] /\ Memory!Is(d, p)
    BY <1>1 DEF Memory!Is
  <1> QED
    BY <1>1, <1>2 DEF TokensKnown, TokenOf, TokenFree

\* A step that takes and releases no lock, by a call that keeps none before and after.
Keeps(x) == x # None /\ x.pc \in {"untomb", "list"}
LEMMA LocksStay ==
  ASSUME NEW c \in Calls, NEW x \in Memory!ReplicaCalls \cup {None}, Memory!Goes(c, x), RepoReplicaInv,
         UNCHANGED held, ~Keeps(call[c]), ~Keeps(x)
  PROVE  LocksKnown'
  <1>1. call'[c] = x /\ \A d \in Calls \ {c} : call'[d] = call[d]
    BY OthersStay DEF RepoReplicaInv, TokensKnown
  <1>2. \A d \in Calls : \A p \in {"untomb", "list"} : Memory!Is(d, p)' <=> Memory!Is(d, p)
    BY <1>1 DEF Memory!Is, Keeps
  <1> QED
    BY <1>2 DEF RepoReplicaInv, LocksKnown

\* A step that takes the lock of the replicas, of the tombstones, or releases the lock that
\* its call keeps.
LEMMA LockTaken ==
  ASSUME NEW c \in Calls, NEW x \in Memory!ReplicaCalls, Memory!Goes(c, x), RepoReplicaInv, call[c] = None,
         NEW l \in Memory!Locks, held[l] = None, held' = [held EXCEPT ![l] = c],
         Keeps(x) /\ (x.pc = "list" <=> l = "decommissioned")
  PROVE  LocksKnown'
  <1>1. call'[c] = x /\ \A d \in Calls \ {c} : call'[d] = call[d]
    BY OthersStay DEF RepoReplicaInv, TokensKnown
  <1>2. x # None
    BY RepositoryAssumption
  <1>3. \A d \in Calls \ {c} : \A p \in {"untomb", "list"} : Memory!Is(d, p)' <=> Memory!Is(d, p)
    BY <1>1 DEF Memory!Is
  <1>4. /\ held' \in [Memory!Locks -> Calls \cup {None}]
        /\ held'[l] = c /\ \A m \in Memory!Locks \ {l} : held'[m] = held[m]
    BY DEF RepoReplicaInv, LocksKnown
  <1>5. None \notin Calls
    BY RepositoryAssumption
  <1>6. CASE l = "replicas"
    <2>1. x.pc = "untomb" /\ l # "decommissioned"
      BY <1>6 DEF Keeps
    <2>2. held'["replicas"] = c /\ held'["decommissioned"] = held["decommissioned"] /\ held["replicas"] = None
      BY <1>4, <1>6, <2>1 DEF Memory!Locks
    <2>3. Memory!Is(c, "untomb")' /\ ~Memory!Is(c, "list")' /\ ~Memory!Is(c, "list")
      BY <1>1, <1>2, <2>1 DEF Memory!Is
    <2>4. \A d \in Calls : (held'["replicas"] = d <=> Memory!Is(d, "untomb")')
      BY <1>3, <1>5, <2>2, <2>3 DEF RepoReplicaInv, LocksKnown
    <2>5. \A d \in Calls : (held'["decommissioned"] = d <=> Memory!Is(d, "list")')
      BY <1>3, <1>5, <2>2, <2>3 DEF RepoReplicaInv, LocksKnown
    <2> QED
      BY <1>4, <2>4, <2>5 DEF LocksKnown
  <1>7. CASE l = "decommissioned"
    <2>1. x.pc = "list" /\ l # "replicas"
      BY <1>7
    <2>2. held'["decommissioned"] = c /\ held'["replicas"] = held["replicas"] /\ held["decommissioned"] = None
      BY <1>4, <1>7, <2>1 DEF Memory!Locks
    <2>3. ~Memory!Is(c, "untomb")' /\ ~Memory!Is(c, "untomb") /\ Memory!Is(c, "list")'
      BY <1>1, <1>2, <2>1 DEF Memory!Is
    <2>4. \A d \in Calls : (held'["replicas"] = d <=> Memory!Is(d, "untomb")')
      BY <1>3, <1>5, <2>2, <2>3 DEF RepoReplicaInv, LocksKnown
    <2>5. \A d \in Calls : (held'["decommissioned"] = d <=> Memory!Is(d, "list")')
      BY <1>3, <1>5, <2>2, <2>3 DEF RepoReplicaInv, LocksKnown
    <2> QED
      BY <1>4, <2>4, <2>5 DEF LocksKnown
  <1> QED
    BY <1>6, <1>7 DEF Memory!Locks
LEMMA LockReleased ==
  ASSUME NEW c \in Calls, NEW x \in Memory!ReplicaCalls \cup {None}, Memory!Goes(c, x), RepoReplicaInv, Keeps(call[c]), ~Keeps(x),
         held' = IF call[c].pc = "list" THEN Memory!Released("decommissioned") ELSE Memory!Released("replicas")
  PROVE  LocksKnown'
  <1>1. call'[c] = x /\ \A d \in Calls \ {c} : call'[d] = call[d]
    BY OthersStay DEF RepoReplicaInv, TokensKnown
  <1>3. \A d \in Calls \ {c} : \A p \in {"untomb", "list"} : Memory!Is(d, p)' <=> Memory!Is(d, p)
    BY <1>1 DEF Memory!Is
  <1>4. \A p \in {"untomb", "list"} : ~Memory!Is(c, p)'
    BY <1>1 DEF Memory!Is, Keeps
  <1>5. held \in [Memory!Locks -> Calls \cup {None}] /\ None \notin Calls
    BY RepositoryAssumption DEF RepoReplicaInv, LocksKnown
  <1>6. CASE call[c].pc = "list"
    <2>1. held["decommissioned"] = c /\ held["replicas"] # c
      BY <1>6 DEF RepoReplicaInv, LocksKnown, Memory!Is, Keeps
    <2>2. /\ held' \in [Memory!Locks -> Calls \cup {None}]
          /\ held'["decommissioned"] = None /\ held'["replicas"] = held["replicas"]
      BY <1>5, <1>6 DEF Memory!Released, Memory!Locks
    <2> QED
      BY <1>3, <1>4, <1>5, <2>1, <2>2 DEF RepoReplicaInv, LocksKnown
  <1>7. CASE call[c].pc # "list"
    <2>1. held["replicas"] = c /\ held["decommissioned"] # c
      BY <1>7 DEF RepoReplicaInv, LocksKnown, Memory!Is, Keeps
    <2>2. /\ held' \in [Memory!Locks -> Calls \cup {None}]
          /\ held'["replicas"] = None /\ held'["decommissioned"] = held["decommissioned"]
      BY <1>5, <1>7 DEF Memory!Released, Memory!Locks
    <2> QED
      BY <1>3, <1>4, <1>5, <2>1, <2>2 DEF RepoReplicaInv, LocksKnown
  <1> QED
    BY <1>6, <1>7

LEMMA RepoReplicaKept == RepoReplicaInv /\ Memory!ReplicaNext => RepoReplicaInv'
  <1> SUFFICES ASSUME RepoReplicaInv, Memory!ReplicaNext PROVE RepoReplicaInv'
    OBVIOUS
  <1>0. PICK c \in Calls : \/ Memory!GoesOn(c) \/ Memory!List(c)
                           \/ \E r \in Dids : Memory!UpsertRow(c, r) \/ Memory!Decommission(c, r) \/ Memory!LookForRow(c, r)
    BY DEF Memory!ReplicaNext
  <1>a. /\ TokensKnown /\ LocksKnown /\ call \in [Calls -> Memory!ReplicaCalls \cup {None}]
        /\ minted \in Nat /\ hashes \in [Dids -> 1..MaxTokens \cup {None}] /\ None \notin 1..MaxTokens
        /\ "replicas" \in Memory!Locks /\ "decommissioned" \in Memory!Locks
    BY RepositoryAssumption DEF RepoReplicaInv, TokensKnown, Memory!Locks
  <1>b. call[c] # None => call[c] \in Memory!ReplicaCalls
    BY <1>a
  <1>1. ASSUME NEW r \in Dids, Memory!UpsertRow(c, r) PROVE RepoReplicaInv'
    <2>1. Memory!Step("untomb", r) \in Memory!ReplicaCalls /\ Memory!Step("untomb", r).pc = "untomb"
      BY DEF Memory!Step, Memory!ReplicaCalls
    <2>2. /\ Memory!Goes(c, Memory!Step("untomb", r)) /\ call[c] = None /\ held["replicas"] = None
          /\ held' = [held EXCEPT !["replicas"] = c] /\ UNCHANGED <<hashes, minted, doomed>>
      BY <1>1 DEF Memory!UpsertRow, Memory!Free
    <2>3. TokensKnown'
      BY <1>a, <2>1, <2>2, TokensStay
    <2>4. LocksKnown'
      BY <1>a, <2>1, <2>2, LockTaken, RepositoryAssumption DEF Keeps
    <2> QED
      BY <2>3, <2>4 DEF RepoReplicaInv
  <1>2. CASE Memory!Untomb(c)
    <2>1. call[c] \in Memory!ReplicaCalls /\ call[c].pc = "untomb"
      BY <1>2, <1>b DEF Memory!Untomb, Memory!Is
    <2>2. call[c].replica \in Dids
      BY <2>1, ReplicaCallKinds
    <2> DEFINE x == Memory!Step("check", call[c].replica)
    <2>3. x \in Memory!ReplicaCalls /\ x.pc = "check"
      BY <2>2 DEF Memory!Step, Memory!ReplicaCalls
    <2>4. Memory!Goes(c, x) /\ held' = Memory!Released("replicas") /\ UNCHANGED <<hashes, minted, doomed>>
      BY <1>2 DEF Memory!Untomb
    <2> HIDE DEF x
    <2>5. TokensKnown'
      BY <1>a, <2>3, <2>4, TokensStay
    <2>6. LocksKnown'
      BY <1>a, <2>1, <2>3, <2>4, LockReleased, RepositoryAssumption DEF Keeps
    <2> QED
      BY <2>5, <2>6 DEF RepoReplicaInv
  <1>3. CASE Memory!CheckRow(c)
    <2>1. call[c] \in Memory!ReplicaCalls /\ call[c].pc = "check"
      BY <1>3, <1>b DEF Memory!CheckRow, Memory!Is
    <2>2. call[c].replica \in Dids
      BY <2>1, ReplicaCallKinds
    <2> DEFINE x == IF call[c].replica \in copies THEN Memory!Step("hash", call[c].replica) ELSE None
    <2>3. x \in Memory!ReplicaCalls \cup {None} /\ (x # None => x.pc = "hash")
      BY <2>2 DEF Memory!Step, Memory!ReplicaCalls
    <2>4. Memory!Goes(c, x) /\ UNCHANGED <<held, hashes, minted, doomed>>
      BY <1>3 DEF Memory!CheckRow, Memory!replicaVars
    <2> HIDE DEF x
    <2>5. TokensKnown'
      BY <1>a, <2>3, <2>4, TokensStay
    <2>6. LocksKnown'
      BY <1>a, <2>1, <2>3, <2>4, LocksStay DEF Keeps
    <2> QED
      BY <2>5, <2>6 DEF RepoReplicaInv
  <1>4. CASE Memory!SetHash(c)
    <2>1. call[c] \in Memory!ReplicaCalls /\ call[c].pc = "hash" /\ minted < MaxTokens
      BY <1>4, <1>b DEF Memory!SetHash, Memory!Is
    <2>2. PICK r \in Dids : r = call[c].replica
      BY <2>1, ReplicaCallKinds
    <2> DEFINE x == [pc |-> "log", replica |-> call[c].replica, kind |-> "REPLICA_REGISTERED"]
    <2>3. x \in Memory!ReplicaCalls /\ x.pc = "log"
      BY <2>2 DEF Memory!ReplicaCalls
    <2>4. /\ Memory!Goes(c, x) /\ UNCHANGED <<held, doomed>>
          /\ minted' = minted + 1 /\ hashes' = [hashes EXCEPT ![r] = minted + 1]
      BY <1>4, <2>2 DEF Memory!SetHash
    <2> HIDE DEF x
    <2>5. LocksKnown'
      BY <1>a, <2>1, <2>3, <2>4, LocksStay DEF Keeps
    <2>6. /\ call' \in [Calls -> Memory!ReplicaCalls \cup {None}]
          /\ \A d \in Calls : \A p \in {"unhash", "tomb"} : Memory!Is(d, p)' => call'[d] = call[d] /\ Memory!Is(d, p)
      <3>1. /\ call' \in [Calls -> Memory!ReplicaCalls \cup {None}]
            /\ call'[c] = x /\ \A d \in Calls \ {c} : call'[d] = call[d]
        BY <1>a, <2>3, <2>4, OthersStay
      <3> QED
        BY <2>3, <3>1 DEF Memory!Is
    <2>7. /\ hashes' \in [Dids -> 1..MaxTokens \cup {None}] /\ minted' \in Nat
          /\ \A s \in Dids : hashes'[s] = IF s = r THEN minted + 1 ELSE hashes[s]
      BY <1>a, <2>1, <2>4, RepositoryAssumption
    <2>8. \A s \in Dids : hashes[s] # minted + 1
      <3>1. \A s \in Dids : hashes[s] = None \/ (hashes[s] \in Nat /\ hashes[s] <= minted)
        BY <1>a DEF TokensKnown
      <3>2. minted + 1 \in 1..MaxTokens
        BY <1>a, <2>1, RepositoryAssumption
      <3> SUFFICES ASSUME NEW s \in Dids PROVE hashes[s] # minted + 1
        OBVIOUS
      <3>3. CASE hashes[s] = None
        BY <1>a, <3>2, <3>3
      <3>4. CASE hashes[s] \in Nat /\ hashes[s] <= minted
        <4>1. minted \in Nat
          BY <1>a
        <4> QED
          BY <3>4, <4>1
      <3> QED
        BY <3>1, <3>3, <3>4
    <2>9. \A t \in 1..minted : (TokenFree(hashes, t) => TokenFree(hashes', t)) /\ \A s \in Dids : TokenOf(hashes, t, s) => TokenOf(hashes', t, s)
      BY <1>a, <2>7 DEF TokenFree, TokenOf
    <2>10. \A s \in Dids : hashes'[s] # None => hashes'[s] <= minted' /\ TokenOf(hashes', hashes'[s], s)
      <3>1. TokenOf(hashes', minted + 1, r)
        BY <2>7, <2>8 DEF TokenOf
      <3>2. ASSUME NEW s \in Dids \ {r}, hashes[s] # None PROVE hashes[s] <= minted /\ TokenOf(hashes', hashes[s], s)
        <4>1. hashes[s] \in 1..minted /\ TokenOf(hashes, hashes[s], s)
          BY <1>a, <3>2, RepositoryAssumption DEF TokensKnown
        <4> QED
          BY <2>9, <4>1
      <3>3. minted \in Nat /\ minted' = minted + 1
        BY <1>a, <2>4
      <3>4. ASSUME NEW s \in Dids \ {r}, hashes'[s] # None PROVE hashes'[s] <= minted' /\ TokenOf(hashes', hashes'[s], s)
        <4>1. hashes'[s] = hashes[s]
          BY <2>7, <3>4
        <4>2. hashes[s] \in Nat /\ hashes[s] <= minted /\ TokenOf(hashes', hashes[s], s)
          BY <1>a, <3>2, <3>4, <4>1
        <4> QED
          BY <3>3, <4>1, <4>2
      <3>5. hashes'[r] = minted + 1
        BY <2>7
      <3>6. hashes'[r] <= minted' /\ TokenOf(hashes', hashes'[r], r)
        BY <3>1, <3>3, <3>5
      <3> QED
        BY <3>4, <3>6
    <2>11. \A d \in Calls : (Memory!Is(d, "unhash") \/ Memory!Is(d, "tomb")) /\ call[d].token # None => call[d].token \in 1..minted
      BY <1>a, ReplicaCallKinds, RepositoryAssumption DEF TokensKnown, Memory!Is
    <2>12. \A t \in doomed : t \in 1..minted
      BY <1>a, RepositoryAssumption DEF TokensKnown
    <2>13. \A d \in Calls : Memory!Is(d, "unhash")' /\ call'[d].token # None => TokenOf(hashes', call'[d].token, call'[d].replica)
      <3> SUFFICES ASSUME NEW d \in Calls, Memory!Is(d, "unhash")', call'[d].token # None
                   PROVE  TokenOf(hashes', call'[d].token, call'[d].replica)
        OBVIOUS
      <3>1. call'[d] = call[d] /\ Memory!Is(d, "unhash") /\ call[d].token \in 1..minted
        BY <2>6, <2>11
      <3>2. call[d].replica \in Dids
        BY <1>a, <3>1, ReplicaCallKinds DEF Memory!Is
      <3>3. TokenOf(hashes, call[d].token, call[d].replica)
        BY <1>a, <3>1, RepositoryAssumption DEF TokensKnown
      <3>4. \A s \in Dids : hashes'[s] = call[d].token => s = call[d].replica
        <4>1. minted \in Nat
          BY <1>a
        <4> QED
          BY <2>7, <3>1, <3>3, <4>1 DEF TokenOf
      <3> QED
        BY <3>1, <3>4 DEF TokenOf
    <2>14. \A d \in Calls : Memory!Is(d, "tomb")' /\ call'[d].token # None => TokenFree(hashes', call'[d].token)
      <3> SUFFICES ASSUME NEW d \in Calls, Memory!Is(d, "tomb")', call'[d].token # None PROVE TokenFree(hashes', call'[d].token)
        OBVIOUS
      <3>1. call'[d] = call[d] /\ Memory!Is(d, "tomb") /\ call[d].token \in 1..minted
        BY <2>6, <2>11
      <3>2. \A s \in Dids : hashes'[s] # call[d].token
        BY <1>a, <2>7, <3>1 DEF TokensKnown, TokenFree
      <3> QED
        BY <3>1, <3>2 DEF TokenFree
    <2>15. \A t \in doomed : t <= minted' /\ TokenFree(hashes', t)
      <3>1. minted \in Nat /\ minted' = minted + 1
        BY <1>a, <2>4
      <3>2. \A t \in doomed : TokenFree(hashes, t)
        BY <1>a DEF TokensKnown
      <3> QED
        BY <2>9, <2>12, <3>1, <3>2
    <2>16. \A d \in Calls : (Memory!Is(d, "unhash")' \/ Memory!Is(d, "tomb")') /\ call'[d].token # None => call'[d].token <= minted'
      BY <1>a, <2>4, <2>6, <2>11
    <2>17. doomed' \subseteq 1..MaxTokens
      BY <1>a, <2>4 DEF TokensKnown
    <2>18. TokensKnown'
      BY <2>4, <2>6, <2>7, <2>10, <2>13, <2>14, <2>15, <2>16, <2>17 DEF TokensKnown
    <2> QED
      BY <2>5, <2>18 DEF RepoReplicaInv
  <1>5. ASSUME NEW r \in Dids, Memory!Decommission(c, r) PROVE RepoReplicaInv'
    <2> DEFINE x == [pc |-> "unhash", replica |-> r, token |-> hashes[r]]
    <2>1. x \in Memory!ReplicaCalls /\ x.pc = "unhash" /\ x.replica = r /\ x.token = hashes[r] /\ x # None
      <3>1. hashes[r] \in 1..MaxTokens \cup {None}
        BY <1>a
      <3> QED
        BY <3>1, RepositoryAssumption DEF Memory!ReplicaCalls
    <2>2. Memory!Goes(c, x) /\ call[c] = None /\ UNCHANGED <<held, hashes, minted, doomed>>
      BY <1>5 DEF Memory!Decommission
    <2> HIDE DEF x
    <2>3. LocksKnown'
      BY <1>a, <2>1, <2>2, LocksStay DEF Keeps
    <2>4. /\ call' \in [Calls -> Memory!ReplicaCalls \cup {None}]
          /\ call'[c] = x /\ \A d \in Calls \ {c} : call'[d] = call[d]
      BY <1>a, <2>1, <2>2, OthersStay
    <2>5. \A d \in Calls : \A p \in {"unhash", "tomb"} : Memory!Is(d, p)' =>
            (call'[d] = call[d] /\ Memory!Is(d, p)) \/ (call'[d] = x /\ p = "unhash")
      BY <2>1, <2>4 DEF Memory!Is
    <2>6. hashes[r] # None => hashes[r] <= minted /\ TokenOf(hashes, hashes[r], r)
      BY <1>a DEF TokensKnown
    <2>7. \A d \in Calls : (Memory!Is(d, "unhash")' \/ Memory!Is(d, "tomb")') /\ call'[d].token # None => call'[d].token <= minted
      BY <1>a, <2>1, <2>5, <2>6 DEF TokensKnown
    <2>8. \A d \in Calls : Memory!Is(d, "unhash")' /\ call'[d].token # None => TokenOf(hashes, call'[d].token, call'[d].replica)
      BY <1>a, <2>1, <2>5, <2>6 DEF TokensKnown
    <2>9. \A d \in Calls : Memory!Is(d, "tomb")' /\ call'[d].token # None => TokenFree(hashes, call'[d].token)
      BY <1>a, <2>5 DEF TokensKnown
    <2>10. TokensKnown'
      BY <1>a, <2>2, <2>4, <2>7, <2>8, <2>9 DEF TokensKnown
    <2> QED
      BY <2>3, <2>10 DEF RepoReplicaInv
  <1>6. CASE Memory!RemoveHash(c)
    <2>1. call[c] \in Memory!ReplicaCalls /\ Memory!Is(c, "unhash") /\ call[c].pc = "unhash"
      BY <1>6, <1>b DEF Memory!RemoveHash, Memory!Is
    <2>2. PICK r \in Dids, t \in 1..MaxTokens \cup {None} : call[c] = [pc |-> "unhash", replica |-> r, token |-> t]
      BY <2>1, ReplicaCallKinds
    <2> DEFINE x == [call[c] EXCEPT !.pc = "tomb"]
    <2>3. x = [pc |-> "tomb", replica |-> r, token |-> t]
      BY <2>2
    <2>4. x \in Memory!ReplicaCalls /\ x.pc = "tomb" /\ x.replica = r /\ x.token = t /\ x # None
      BY <2>2, <2>3, RepositoryAssumption DEF Memory!ReplicaCalls
    <2>5. Memory!Goes(c, x) /\ UNCHANGED <<held, minted, doomed>> /\ hashes' = [hashes EXCEPT ![r] = None]
      BY <1>6, <2>2 DEF Memory!RemoveHash, Memory!Unhashed
    <2> HIDE DEF x
    <2>6. LocksKnown'
      BY <1>a, <2>1, <2>4, <2>5, LocksStay DEF Keeps
    <2>7. /\ call' \in [Calls -> Memory!ReplicaCalls \cup {None}]
          /\ call'[c] = x /\ \A d \in Calls \ {c} : call'[d] = call[d]
      BY <1>a, <2>4, <2>5, OthersStay
    <2>8. \A d \in Calls : \A p \in {"unhash", "tomb"} : Memory!Is(d, p)' =>
            (call'[d] = call[d] /\ Memory!Is(d, p)) \/ (call'[d] = x /\ p = "tomb")
      BY <2>4, <2>7 DEF Memory!Is
    <2>9. /\ hashes' \in [Dids -> 1..MaxTokens \cup {None}]
          /\ \A s \in Dids : hashes'[s] = IF s = r THEN None ELSE hashes[s]
      BY <1>a, <2>5
    <2>10. \A u : u # None => (TokenFree(hashes, u) => TokenFree(hashes', u))
                              /\ \A s \in Dids : TokenOf(hashes, u, s) => TokenOf(hashes', u, s)
      BY <2>9 DEF TokenFree, TokenOf
    <2>11. t # None => t <= minted /\ TokenFree(hashes', t)
      <3>1. t # None => t <= minted /\ TokenOf(hashes, t, r)
        BY <1>a, <2>1, <2>2 DEF TokensKnown
      <3> QED
        BY <2>9, <3>1 DEF TokenOf, TokenFree
    <2>12. \A d \in Calls : (Memory!Is(d, "unhash")' \/ Memory!Is(d, "tomb")') /\ call'[d].token # None => call'[d].token <= minted
      BY <1>a, <2>4, <2>8, <2>11 DEF TokensKnown
    <2>13. \A d \in Calls : Memory!Is(d, "unhash")' /\ call'[d].token # None => TokenOf(hashes', call'[d].token, call'[d].replica)
      <3> SUFFICES ASSUME NEW d \in Calls, Memory!Is(d, "unhash")', call'[d].token # None
                   PROVE  TokenOf(hashes', call'[d].token, call'[d].replica)
        OBVIOUS
      <3>1. call'[d] = call[d] /\ Memory!Is(d, "unhash")
        BY <2>8
      <3>2. call[d].replica \in Dids
        BY <1>a, <3>1, ReplicaCallKinds DEF Memory!Is
      <3>3. TokenOf(hashes, call[d].token, call[d].replica)
        BY <1>a, <3>1 DEF TokensKnown
      <3> QED
        BY <2>10, <3>1, <3>2, <3>3
    <2>14. \A d \in Calls : Memory!Is(d, "tomb")' /\ call'[d].token # None => TokenFree(hashes', call'[d].token)
      BY <1>a, <2>4, <2>8, <2>10, <2>11 DEF TokensKnown
    <2>15. \A s \in Dids : hashes'[s] # None => hashes'[s] <= minted /\ TokenOf(hashes', hashes'[s], s)
      BY <1>a, <2>9, <2>10 DEF TokensKnown
    <2>16. doomed \subseteq 1..MaxTokens /\ \A u \in doomed : u <= minted /\ TokenFree(hashes', u)
      <3>1. doomed \subseteq 1..MaxTokens /\ \A u \in doomed : u # None /\ u <= minted /\ TokenFree(hashes, u)
        BY <1>a DEF TokensKnown
      <3> QED
        BY <2>10, <3>1
    <2>17. minted' = minted /\ doomed' = doomed /\ minted \in Nat
      BY <1>a, <2>5
    <2>18. TokensKnown'
      BY <2>7, <2>9, <2>12, <2>13, <2>14, <2>15, <2>16, <2>17 DEF TokensKnown
    <2> QED
      BY <2>6, <2>18 DEF RepoReplicaInv
  <1>7. CASE Memory!Tombstone(c)
    <2>1. call[c] \in Memory!ReplicaCalls /\ Memory!Is(c, "tomb") /\ call[c].pc = "tomb"
      BY <1>7, <1>b DEF Memory!Tombstone, Memory!Is
    <2>2. call[c].replica \in Dids /\ call[c].token \in 1..MaxTokens \cup {None}
      BY <2>1, ReplicaCallKinds
    <2> DEFINE x == [pc |-> "log", replica |-> call[c].replica, kind |-> "REPLICA_DEREGISTERED"]
    <2>3. x \in Memory!ReplicaCalls /\ x.pc = "log"
      BY <2>2 DEF Memory!ReplicaCalls
    <2>4. Memory!Goes(c, x) /\ UNCHANGED <<held, hashes, minted>> /\ doomed' = doomed \cup ({call[c].token} \ {None})
      BY <1>7 DEF Memory!Tombstone
    <2> HIDE DEF x
    <2>5. LocksKnown'
      BY <1>a, <2>1, <2>3, <2>4, LocksStay DEF Keeps
    <2>6. /\ call' \in [Calls -> Memory!ReplicaCalls \cup {None}]
          /\ \A d \in Calls : \A p \in {"unhash", "tomb"} : Memory!Is(d, p)' => call'[d] = call[d] /\ Memory!Is(d, p)
      <3>1. /\ call' \in [Calls -> Memory!ReplicaCalls \cup {None}]
            /\ call'[c] = x /\ \A d \in Calls \ {c} : call'[d] = call[d]
        BY <1>a, <2>3, <2>4, OthersStay
      <3> QED
        BY <2>3, <3>1 DEF Memory!Is
    <2>7. doomed' \subseteq 1..MaxTokens /\ \A t \in doomed' : t <= minted /\ TokenFree(hashes, t)
      BY <1>a, <2>1, <2>2, <2>4 DEF TokensKnown
    <2>8. TokensKnown'
      BY <1>a, <2>4, <2>6, <2>7 DEF TokensKnown
    <2> QED
      BY <2>5, <2>8 DEF RepoReplicaInv
  <1>8. CASE Memory!AppendEvent(c)
    <2>1. call[c] # None /\ call[c].pc = "log" /\ Memory!Goes(c, None) /\ UNCHANGED <<held, hashes, minted, doomed>>
      BY <1>8 DEF Memory!AppendEvent, Memory!Is
    <2> QED
      BY <1>a, <2>1, TokensStay, LocksStay DEF RepoReplicaInv, Keeps
  <1>9. CASE Memory!List(c)
    <2>1. [pc |-> "list"] \in Memory!ReplicaCalls /\ [pc |-> "list"].pc = "list"
      BY DEF Memory!ReplicaCalls
    <2>2. /\ Memory!Goes(c, [pc |-> "list"]) /\ call[c] = None /\ held["decommissioned"] = None
          /\ held' = [held EXCEPT !["decommissioned"] = c] /\ UNCHANGED <<hashes, minted, doomed>>
      BY <1>9 DEF Memory!List, Memory!Free
    <2>3. TokensKnown'
      BY <1>a, <2>1, <2>2, TokensStay
    <2>4. LocksKnown'
      BY <1>a, <2>1, <2>2, LockTaken, RepositoryAssumption DEF Keeps
    <2> QED
      BY <2>3, <2>4 DEF RepoReplicaInv
  <1>10. CASE Memory!ListRows(c)
    <2>1. /\ call[c] # None /\ call[c].pc = "list" /\ Memory!Goes(c, None)
          /\ held' = Memory!Released("decommissioned") /\ UNCHANGED <<hashes, minted, doomed>>
      BY <1>10 DEF Memory!ListRows, Memory!Is
    <2> QED
      BY <1>a, <2>1, TokensStay, LockReleased DEF RepoReplicaInv, Keeps
  <1>11. ASSUME NEW r \in Dids, Memory!LookForRow(c, r) PROVE RepoReplicaInv'
    <2>1. [pc |-> "look"] \in Memory!ReplicaCalls /\ [pc |-> "look"].pc = "look"
      BY DEF Memory!ReplicaCalls
    <2>2. Memory!Goes(c, [pc |-> "look"]) /\ call[c] = None /\ UNCHANGED <<held, hashes, minted, doomed>>
      BY <1>11 DEF Memory!LookForRow, Memory!replicaVars
    <2>3. TokensKnown'
      BY <1>a, <2>1, <2>2, TokensStay
    <2>4. LocksKnown'
      BY <1>a, <2>1, <2>2, LocksStay DEF Keeps
    <2> QED
      BY <2>3, <2>4 DEF RepoReplicaInv
  <1>12. CASE Memory!LookForTomb(c)
    <2>1. call[c] # None /\ call[c].pc = "look" /\ Memory!Goes(c, None) /\ UNCHANGED <<held, hashes, minted, doomed>>
      BY <1>12 DEF Memory!LookForTomb, Memory!Is, Memory!replicaVars
    <2> QED
      BY <1>a, <2>1, TokensStay, LocksStay DEF RepoReplicaInv, Keeps
  <1> QED
    BY <1>0, <1>1, <1>2, <1>3, <1>4, <1>5, <1>6, <1>7, <1>8, <1>9, <1>10, <1>11, <1>12 DEF Memory!GoesOn

LEMMA NotAllWait == RepoReplicaInv => Memory!DeadlockOnlyByListing /\ Memory!DoomedStayDoomed
  <1> SUFFICES ASSUME RepoReplicaInv PROVE Memory!DeadlockOnlyByListing /\ Memory!DoomedStayDoomed
    OBVIOUS
  <1>1. Memory!DoomedStayDoomed
    BY DEF RepoReplicaInv, TokensKnown, TokenFree, Memory!DoomedStayDoomed, Memory!Accepted
  <1>2. /\ held["replicas"] \in Calls \cup {None} /\ held["decommissioned"] \in Calls \cup {None}
        /\ \A c \in Calls : held["replicas"] = c => Memory!Is(c, "untomb")
        /\ \A c \in Calls : held["decommissioned"] = c => Memory!Is(c, "list")
    BY DEF RepoReplicaInv, LocksKnown, Memory!Locks
  <1>3. ASSUME NEW c \in Calls, call[c] # None, ~Memory!Entangled PROVE \E d \in Calls : call[d] # None /\ ~Memory!Waits(d)
    <2>1. CASE Memory!Free("replicas") /\ Memory!Free("decommissioned")
      BY <1>3, <2>1 DEF Memory!Waits
    <2>2. CASE ~Memory!Free("replicas")
      <3>1. PICK d \in Calls : held["replicas"] = d /\ Memory!Is(d, "untomb")
        BY <1>2, <2>2 DEF Memory!Free
      <3>2. Memory!Free("decommissioned")
        BY <1>2, <1>3, <3>1 DEF Memory!Free, Memory!Entangled
      <3>3. ~Memory!Is(d, "check") /\ ~Memory!Is(d, "list") /\ call[d] # None
        BY <3>1 DEF Memory!Is
      <3> QED
        BY <3>2, <3>3 DEF Memory!Waits
    <2>3. CASE ~Memory!Free("decommissioned")
      <3>1. PICK d \in Calls : held["decommissioned"] = d /\ Memory!Is(d, "list")
        BY <1>2, <2>3 DEF Memory!Free
      <3>2. Memory!Free("replicas")
        BY <1>2, <1>3, <3>1 DEF Memory!Free, Memory!Entangled
      <3>3. ~Memory!Is(d, "untomb") /\ ~Memory!Is(d, "tomb") /\ ~Memory!Is(d, "look") /\ call[d] # None
        BY <3>1 DEF Memory!Is
      <3> QED
        BY <3>2, <3>3 DEF Memory!Waits
    <2> QED
      BY <2>1, <2>2, <2>3
  <1>4. \A c \in Calls : Memory!Waits(c) => call[c] # None
    BY DEF Memory!Waits, Memory!Is
  <1> QED
    BY <1>1, <1>3, <1>4 DEF Memory!DeadlockOnlyByListing

\* What the log and the tables of replicas say together.  A call about a replica that is not
\* mixed is alone, and knows at each place whether the replica has a tombstone.
Placed(x, r) ==
  /\ x.pc \in {"check", "hash"} => r \notin tombs
  /\ x.pc = "log" => x.kind = IF r \in tombs THEN "REPLICA_DEREGISTERED" ELSE "REPLICA_REGISTERED"
Logged(r) == Memory!LastEvent(r, IF r \in tombs THEN "REPLICA_DEREGISTERED" ELSE "REPLICA_REGISTERED")
RepoEvents == [replica : Dids, kind : {"REPLICA_REGISTERED", "REPLICA_DEREGISTERED"}]
LogKnown ==
  /\ copies \subseteq Dids /\ tombs \subseteq copies /\ minted <= MaxTokens
  /\ events \in Seq(RepoEvents) /\ Len(events) \in 0..MaxEvents
  /\ \A c \in Calls, r \in Dids : Memory!About(c, r) => r \in copies
  /\ \A r \in Dids \ mixed : \A c, d \in Calls : Memory!About(c, r) /\ Memory!About(d, r) => c = d
  /\ \A r \in copies \ mixed : Logged(r) \/ \E c \in Calls : Memory!About(c, r)
  /\ \A r \in Dids \ mixed, c \in Calls : Memory!About(c, r) => Placed(call[c], r)

LEMMA LogInitial == Memory!Init => LogKnown
  <1> SUFFICES ASSUME Memory!Init PROVE LogKnown
    OBVIOUS
  <1>1. \A c \in Calls, r \in Dids : ~Memory!About(c, r)
    BY DEF Memory!Init, Memory!About
  <1>2. events \in Seq(RepoEvents) /\ Len(events) = 0
    BY DEF Memory!Init
  <1> QED
    BY <1>1, <1>2, RepositoryAssumption DEF Memory!Init, LogKnown

\* A step of a call from a place to the next one that changes no table.
LEMMA CallMovesOn ==
  ASSUME LogKnown, UNCHANGED <<copies, tombs, events, mixed>>, minted' <= MaxTokens,
         \A d \in Calls, r \in Dids : Memory!About(d, r)' <=> Memory!About(d, r),
         \A d \in Calls, r \in Dids \ mixed : Memory!About(d, r) => Placed(call'[d], r)
  PROVE  LogKnown'
  <1>1. \A x, r : Placed(x, r)' <=> Placed(x', r)
    BY DEF Placed
  <1>2. \A r : Logged(r)' <=> Logged(r)
    BY DEF Logged, Memory!LastEvent
  <1> QED
    BY <1>1, <1>2 DEF LogKnown, Placed

\* A step of a call from a place where it is about a replica to the next one.
LEMMA PlaceMoves ==
  ASSUME NEW c \in Calls, NEW x \in Memory!ReplicaCalls, Memory!Goes(c, x), RepoReplicaInv, NEW r \in Dids, Memory!About(c, r),
         x.pc \in {"untomb", "check", "hash", "unhash", "tomb", "log"}, x.replica = r
  PROVE  /\ \A d \in Calls, s \in Dids : Memory!About(d, s)' <=> Memory!About(d, s)
         /\ call'[c] = x /\ \A d \in Calls \ {c} : call'[d] = call[d]
         /\ \A s \in Dids : Memory!About(c, s) => s = r
  <1>1. call'[c] = x /\ x # None /\ \A d \in Calls \ {c} : call'[d] = call[d]
    BY OthersStay, RepositoryAssumption DEF RepoReplicaInv, TokensKnown
  <1> QED
    BY <1>1 DEF Memory!About

LEMMA LogKept == RepoReplicaInv /\ LogKnown /\ Memory!ReplicaNext => LogKnown'
  <1> SUFFICES ASSUME RepoReplicaInv, LogKnown, Memory!ReplicaNext PROVE LogKnown'
    OBVIOUS
  <1>0. PICK c \in Calls : \/ Memory!GoesOn(c) \/ Memory!List(c)
                           \/ \E r \in Dids : Memory!UpsertRow(c, r) \/ Memory!Decommission(c, r) \/ Memory!LookForRow(c, r)
    BY DEF Memory!ReplicaNext
  <1>a. call \in [Calls -> Memory!ReplicaCalls \cup {None}] /\ minted \in Nat /\ minted <= MaxTokens
    BY DEF RepoReplicaInv, TokensKnown, LogKnown
  <1>b. call[c] # None => call[c] \in Memory!ReplicaCalls
    BY <1>a
  \* A call about a replica that begins.
  <1>1. ASSUME NEW r \in Dids, Memory!UpsertRow(c, r) \/ Memory!Decommission(c, r) PROVE LogKnown'
    <2>1. PICK x \in Memory!ReplicaCalls : Memory!Goes(c, x) /\ x.pc \in {"untomb", "unhash"} /\ x.replica = r
      <3>1. CASE Memory!UpsertRow(c, r)
        <4>1. Memory!Step("untomb", r) \in Memory!ReplicaCalls
          BY DEF Memory!Step, Memory!ReplicaCalls
        <4> QED
          BY <3>1, <4>1 DEF Memory!UpsertRow, Memory!Step
      <3>2. CASE Memory!Decommission(c, r)
        <4>1. hashes[r] \in 1..MaxTokens \cup {None}
          BY DEF RepoReplicaInv, TokensKnown
        <4>2. [pc |-> "unhash", replica |-> r, token |-> hashes[r]] \in Memory!ReplicaCalls
          BY <4>1 DEF Memory!ReplicaCalls
        <4> QED
          BY <3>2, <4>2 DEF Memory!Decommission
      <3> QED
        BY <1>1, <3>1, <3>2
    <2>2. /\ call[c] = None /\ copies' = copies \cup {r} /\ UNCHANGED <<tombs, events, minted>>
          /\ mixed' = IF \E d \in Calls : Memory!About(d, r) THEN mixed \cup {r} ELSE mixed
      BY <1>1 DEF Memory!UpsertRow, Memory!Decommission, Memory!Mixing
    <2>3. call'[c] = x /\ x # None /\ \A d \in Calls \ {c} : call'[d] = call[d]
      BY <1>a, <2>1, OthersStay, RepositoryAssumption
    <2>4. /\ \A d \in Calls, s \in Dids : Memory!About(d, s)' <=> (Memory!About(d, s) \/ (d = c /\ s = r))
          /\ \A s \in Dids : ~Memory!About(c, s)
      BY <2>1, <2>2, <2>3 DEF Memory!About
    <2>5. \A s \in Dids : (Logged(s)' <=> Logged(s)) /\ Placed(call[c], s)'
      BY <2>1, <2>2, <2>3 DEF Logged, Placed, Memory!LastEvent
    <2>6. \A s \in Dids, d \in Calls : Memory!About(d, s) => (Placed(call[d], s)' <=> Placed(call[d], s))
      BY <2>2, <2>3, <2>4 DEF Placed
    <2>7. mixed \subseteq mixed' /\ (r \in mixed' \/ \A d \in Calls : ~Memory!About(d, r))
      BY <2>2
    <2>8. \A s \in Dids \ mixed' : \A d, e \in Calls : Memory!About(d, s)' /\ Memory!About(e, s)' => d = e
      BY <2>4, <2>7 DEF LogKnown
    <2>9. \A s \in copies' \ mixed' : Logged(s)' \/ \E d \in Calls : Memory!About(d, s)'
      BY <2>2, <2>4, <2>5, <2>7 DEF LogKnown
    <2>10. \A s \in Dids \ mixed', d \in Calls : Memory!About(d, s)' => Placed(call[d], s)'
      BY <2>4, <2>5, <2>6, <2>7 DEF LogKnown
    <2> QED
      BY <2>2, <2>4, <2>8, <2>9, <2>10 DEF LogKnown
  \* The calls that are about no replica.
  <1>2. ASSUME NEW x \in {[pc |-> "list"], [pc |-> "look"], None}, Memory!Goes(c, x), call[c] # None => call[c].pc \in {"list", "look"},
               UNCHANGED <<copies, tombs, events, mixed, minted>>
        PROVE  LogKnown'
    <2>1. x \in Memory!ReplicaCalls \cup {None} /\ (x # None => x.pc \in {"list", "look"})
      BY DEF Memory!ReplicaCalls
    <2>2. call'[c] = x /\ \A d \in Calls \ {c} : call'[d] = call[d]
      BY <1>2, <1>a, <2>1, OthersStay
    <2>3. \A s \in Dids : ~Memory!About(c, s) /\ ~Memory!About(c, s)'
      BY <1>2, <2>1, <2>2 DEF Memory!About
    <2>4. \A d \in Calls, s \in Dids : Memory!About(d, s)' <=> Memory!About(d, s)
      BY <2>2, <2>3 DEF Memory!About
    <2>5. \A d \in Calls, s \in Dids \ mixed : Memory!About(d, s) => Placed(call'[d], s)
      BY <2>2, <2>3 DEF LogKnown
    <2> QED
      BY <1>2, <1>a, <2>4, <2>5, CallMovesOn
  <1>3. CASE Memory!List(c)
    BY <1>2, <1>3 DEF Memory!List
  <1>4. CASE Memory!ListRows(c)
    BY <1>2, <1>4 DEF Memory!ListRows, Memory!Is
  <1>5. ASSUME NEW r \in Dids, Memory!LookForRow(c, r) PROVE LogKnown'
    BY <1>2, <1>5 DEF Memory!LookForRow, Memory!replicaVars
  <1>6. CASE Memory!LookForTomb(c)
    BY <1>2, <1>6 DEF Memory!LookForTomb, Memory!Is, Memory!replicaVars
  \* The calls that go on.
  <1>7. CASE Memory!CheckRow(c) \/ Memory!SetHash(c) \/ Memory!RemoveHash(c)
    <2>1. call[c] \in Memory!ReplicaCalls /\ call[c].pc \in {"check", "hash", "unhash"} /\ call[c] # None
      BY <1>7, <1>b DEF Memory!CheckRow, Memory!SetHash, Memory!RemoveHash, Memory!Is
    <2>2. PICK r \in Dids : r = call[c].replica
      BY <2>1, ReplicaCallKinds
    <2>3. Memory!About(c, r) /\ r \in copies
      BY <2>1, <2>2 DEF Memory!About, LogKnown
    <2>4. PICK x \in Memory!ReplicaCalls :
            /\ Memory!Goes(c, x) /\ x.replica = r
            /\ \/ call[c].pc = "check" /\ x.pc = "hash"
               \/ call[c].pc = "hash" /\ x.pc = "log" /\ x.kind = "REPLICA_REGISTERED"
               \/ x.pc = "tomb"
      <3>1. CASE Memory!CheckRow(c)
        <4>1. Memory!Step("hash", r) \in Memory!ReplicaCalls /\ Memory!Goes(c, Memory!Step("hash", r))
          BY <2>2, <2>3, <3>1 DEF Memory!CheckRow, Memory!Step, Memory!ReplicaCalls
        <4> QED
          BY <3>1, <4>1 DEF Memory!CheckRow, Memory!Is, Memory!Step
      <3>2. CASE Memory!SetHash(c)
        <4>1. [pc |-> "log", replica |-> r, kind |-> "REPLICA_REGISTERED"] \in Memory!ReplicaCalls
          BY DEF Memory!ReplicaCalls
        <4> QED
          BY <2>2, <3>2, <4>1 DEF Memory!SetHash, Memory!Is
      <3>3. CASE Memory!RemoveHash(c)
        <4>1. call[c].pc = "unhash"
          BY <3>3 DEF Memory!RemoveHash, Memory!Is
        <4>2. PICK t \in 1..MaxTokens \cup {None} : call[c] = [pc |-> "unhash", replica |-> r, token |-> t]
          BY <2>1, <2>2, <4>1, ReplicaCallKinds
        <4>3. [call[c] EXCEPT !.pc = "tomb"] = [pc |-> "tomb", replica |-> r, token |-> t]
          BY <4>2
        <4>4. [pc |-> "tomb", replica |-> r, token |-> t] \in Memory!ReplicaCalls
          BY DEF Memory!ReplicaCalls
        <4> QED
          BY <3>3, <4>3, <4>4 DEF Memory!RemoveHash
      <3> QED
        BY <1>7, <3>1, <3>2, <3>3
    <2>5. UNCHANGED <<copies, tombs, events, mixed>> /\ minted' <= MaxTokens
      BY <1>7, <1>a, RepositoryAssumption DEF Memory!CheckRow, Memory!SetHash, Memory!RemoveHash, Memory!replicaVars
    <2>6. /\ \A d \in Calls, s \in Dids : Memory!About(d, s)' <=> Memory!About(d, s)
          /\ call'[c] = x /\ \A d \in Calls \ {c} : call'[d] = call[d]
          /\ \A s \in Dids : Memory!About(c, s) => s = r
      BY <2>3, <2>4, PlaceMoves
    <2>7. r \notin mixed => Placed(x, r)
      <3>1. r \notin mixed => Placed(call[c], r)
        BY <2>3 DEF LogKnown
      <3> QED
        BY <2>4, <3>1 DEF Placed
    <2>8. \A d \in Calls, s \in Dids \ mixed : Memory!About(d, s) => Placed(call'[d], s)
      BY <2>6, <2>7 DEF LogKnown
    <2> QED
      BY <2>5, <2>6, <2>8, CallMovesOn
  \* The tombstone goes, or comes.
  <1>8. CASE Memory!Untomb(c) \/ Memory!Tombstone(c)
    <2>1. call[c] \in Memory!ReplicaCalls /\ call[c].pc \in {"untomb", "tomb"} /\ call[c] # None
      BY <1>8, <1>b DEF Memory!Untomb, Memory!Tombstone, Memory!Is
    <2>2. PICK r \in Dids : r = call[c].replica
      BY <2>1, ReplicaCallKinds
    <2>3. Memory!About(c, r) /\ r \in copies
      BY <2>1, <2>2 DEF Memory!About, LogKnown
    <2>4. PICK x \in Memory!ReplicaCalls :
            /\ Memory!Goes(c, x) /\ x.replica = r
            /\ \/ tombs' = tombs \ {r} /\ x.pc = "check"
               \/ tombs' = tombs \cup {r} /\ x.pc = "log" /\ x.kind = "REPLICA_DEREGISTERED"
      <3>1. CASE Memory!Untomb(c)
        <4>1. Memory!Step("check", r) \in Memory!ReplicaCalls
          BY DEF Memory!Step, Memory!ReplicaCalls
        <4> QED
          BY <2>2, <3>1, <4>1 DEF Memory!Untomb, Memory!Step
      <3>2. CASE Memory!Tombstone(c)
        <4>1. [pc |-> "log", replica |-> r, kind |-> "REPLICA_DEREGISTERED"] \in Memory!ReplicaCalls
          BY DEF Memory!ReplicaCalls
        <4> QED
          BY <2>2, <3>2, <4>1 DEF Memory!Tombstone
      <3> QED
        BY <1>8, <3>1, <3>2
    <2>5. UNCHANGED <<copies, events, mixed, minted>>
      BY <1>8 DEF Memory!Untomb, Memory!Tombstone
    <2>6. /\ \A d \in Calls, s \in Dids : Memory!About(d, s)' <=> Memory!About(d, s)
          /\ call'[c] = x /\ \A d \in Calls \ {c} : call'[d] = call[d]
          /\ \A s \in Dids : Memory!About(c, s) => s = r
      BY <2>3, <2>4, PlaceMoves
    <2>7. \A s \in Dids \ {r} : (s \in tombs' <=> s \in tombs) /\ (Logged(s)' <=> Logged(s))
      BY <2>4, <2>5 DEF Logged, Memory!LastEvent
    <2>8. Placed(call[c], r)'
      BY <2>4, <2>6 DEF Placed
    <2>9. \A s \in Dids \ mixed, d \in Calls : Memory!About(d, s) => Placed(call[d], s)'
      <3> SUFFICES ASSUME NEW s \in Dids \ mixed, NEW d \in Calls, Memory!About(d, s) PROVE Placed(call[d], s)'
        OBVIOUS
      <3>1. CASE s = r
        BY <2>3, <2>8, <3>1 DEF LogKnown
      <3>2. CASE s # r
        <4>1. call'[d] = call[d] /\ Placed(call[d], s)
          BY <2>6, <3>2 DEF LogKnown
        <4> QED
          BY <2>7, <3>2, <4>1 DEF Placed
      <3> QED
        BY <3>1, <3>2
    <2>10. \A s \in copies \ mixed : Logged(s)' \/ \E d \in Calls : Memory!About(d, s)'
      BY <2>3, <2>6, <2>7 DEF LogKnown
    <2>11. tombs' \subseteq copies
      BY <2>3, <2>4 DEF LogKnown
    <2> QED
      BY <2>5, <2>6, <2>9, <2>10, <2>11 DEF LogKnown
  <1>9. CASE Memory!AppendEvent(c)
    <2>1. call[c] \in Memory!ReplicaCalls /\ call[c].pc = "log" /\ call[c] # None
      BY <1>9, <1>b DEF Memory!AppendEvent, Memory!Is
    <2>2. PICK r \in Dids, k \in {"REPLICA_REGISTERED", "REPLICA_DEREGISTERED"} : r = call[c].replica /\ k = call[c].kind
      BY <2>1 DEF Memory!ReplicaCalls
    <2>3. /\ events' = Append(events, [replica |-> r, kind |-> k]) /\ Len(events) < MaxEvents /\ Memory!Goes(c, None)
          /\ UNCHANGED <<copies, tombs, mixed, minted>>
      BY <1>9, <2>2 DEF Memory!AppendEvent, Memory!Appended
    <2>4. call'[c] = None /\ \A d \in Calls \ {c} : call'[d] = call[d]
      BY <1>a, <2>3, OthersStay
    <2>5. /\ Memory!About(c, r) /\ \A s \in Dids : ~Memory!About(c, s)'
          /\ \A d \in Calls \ {c}, s \in Dids : Memory!About(d, s)' <=> Memory!About(d, s)
          /\ \A s \in Dids : Memory!About(c, s) => s = r
      BY <2>1, <2>2, <2>4 DEF Memory!About
    <2>6. /\ events' \in Seq(RepoEvents) /\ Len(events') = Len(events) + 1 /\ Len(events) \in Nat
          /\ \A i \in 1..Len(events) : events'[i] = events[i]
          /\ events'[Len(events) + 1] = [replica |-> r, kind |-> k]
      BY <2>2, <2>3 DEF LogKnown, RepoEvents
    <2>7. Memory!LastEvent(r, k)'
      <3>1. Len(events) + 1 \in 1..Len(events') /\ (Len(events) + 1 + 1)..Len(events') = {}
        BY <2>6
      <3> QED
        BY <2>6, <3>1 DEF Memory!LastEvent
    <2>8. ASSUME NEW s \in Dids \ {r}, NEW kind, Memory!LastEvent(s, kind) PROVE Memory!LastEvent(s, kind)'
      <3>1. PICK i \in 1..Len(events) : /\ events[i].replica = s /\ events[i].kind = kind
                                        /\ \A j \in (i + 1)..Len(events) : events[j].replica # s
        BY <2>8 DEF Memory!LastEvent
      <3>2. i \in 1..Len(events') /\ events'[i] = events[i]
        BY <2>6
      <3>3. \A j \in (i + 1)..Len(events') : events'[j].replica # s
        <4> SUFFICES ASSUME NEW j \in (i + 1)..Len(events') PROVE events'[j].replica # s
          OBVIOUS
        <4>1. CASE j = Len(events) + 1
          BY <2>6, <2>8, <4>1
        <4>2. CASE j # Len(events) + 1
          <5>1. j \in (i + 1)..Len(events) /\ j \in 1..Len(events)
            BY <2>6, <4>2
          <5> QED
            BY <2>6, <3>1, <5>1
        <4> QED
          BY <4>1, <4>2
      <3> QED
        BY <3>1, <3>2, <3>3 DEF Memory!LastEvent
    <2>9. \A s \in Dids \ {r} : Logged(s) => Logged(s)'
      BY <2>3, <2>8 DEF Logged
    <2>10. r \notin mixed => Logged(r)'
      <3>1. r \notin mixed => k = IF r \in tombs THEN "REPLICA_DEREGISTERED" ELSE "REPLICA_REGISTERED"
        BY <2>1, <2>2, <2>5 DEF LogKnown, Placed
      <3> QED
        BY <2>3, <2>7, <3>1 DEF Logged
    <2>11. \A s \in copies \ mixed : Logged(s)' \/ \E d \in Calls : Memory!About(d, s)'
      BY <2>5, <2>9, <2>10 DEF LogKnown
    <2>12. \A s \in Dids \ mixed, d \in Calls : Memory!About(d, s)' => Placed(call[d], s)'
      BY <2>3, <2>4, <2>5 DEF LogKnown, Placed
    <2>13. Len(events') \in 0..MaxEvents
      BY <2>3, <2>6, RepositoryAssumption DEF LogKnown
    <2> QED
      BY <2>3, <2>5, <2>6, <2>11, <2>12, <2>13 DEF LogKnown
  <1> QED
    BY <1>0, <1>1, <1>3, <1>4, <1>5, <1>6, <1>7, <1>8, <1>9 DEF Memory!GoesOn

---------------------------------------------------------------------------
(* The in-memory repository: operators and their nodes *)

\* Nothing carries a key, and no call that binds nodes to it is under way.
Gone(k) == ~Memory!Binding(k) /\ \A n \in Hosts : records[n] # None => records[n].operator # k
IdentityTypes ==
  /\ call \in [Calls -> Memory!IdentityCalls \cup {None}]
  /\ operators \in [Keys -> Memory!OperatorRows \cup {None}] /\ records \in [Hosts -> Memory!NodeRecords \cup {None}]
  /\ lines \in 0..MaxLines /\ forgotten \subseteq Keys
LinesCounted == \A k \in Keys : operators[k] # None => operators[k].line <= lines
VerifiedByKey == \A n \in Hosts : records[n] # None /\ records[n].verified => records[n].operator \in Keys
\* A call that has ended a key is about to update the nodes that carry it.
Ending(k) ==
  \E c \in Calls : (Memory!Is(c, "rebind") /\ call[c].from = k) \/ (Memory!Is(c, "unverify") /\ call[c].key = k)
InForce(k) == operators[k] = None \/ Memory!Active(k) \/ k \in overtaken
\* A node may carry a key: it is in force, or the node was bound to it too late.
Standing(n, k) == operators[k] = None \/ Memory!Active(k) \/ (k \in overtaken /\ n \in late)
VerifiedInForce ==
  \A n \in Hosts, k \in Keys : records[n] # None /\ records[n].verified /\ records[n].operator = k => Standing(n, k) \/ Ending(k)
\* The key that a call is about to bind nodes to is in force, or was overtaken.
BoundIsLive == \A k \in Keys : Memory!Binding(k) => InForce(k)
\* What an anonymization has done when it removes the row, and when it puts it back.
At(p, k) == \E c \in Calls : Memory!Is(c, p) /\ call[c].key = k
ForgettingKnows ==
  \A k \in Keys : k \in overtaken \/ ((At("remove", k) \/ At("insert", k) => Gone(k)) /\ (At("insert", k) => operators[k] = None))
ForgottenKnows == \A k \in Keys : k \in forgotten /\ k \notin overtaken => operators[k] = None /\ Gone(k)
IdentityInv ==
  /\ IdentityTypes /\ LinesCounted /\ Memory!OneActiveKey /\ VerifiedByKey
  /\ VerifiedInForce /\ BoundIsLive /\ ForgettingKnows /\ ForgottenKnows

LEMMA IdentityInitial == Memory!Init => IdentityInv
  BY RepositoryAssumption
  DEF Memory!Init, IdentityInv, IdentityTypes, LinesCounted, VerifiedByKey, VerifiedInForce, BoundIsLive,
      ForgettingKnows, ForgottenKnows, At, Memory!Binding, Memory!Is, Memory!Active, Memory!OneActiveKey

LEMMA IdentityCallKinds ==
  ASSUME NEW x \in Memory!IdentityCalls
  PROVE  /\ x # None
         /\ x.pc = "rebind" => x.from \in Keys /\ x.to \in Keys
         /\ x.pc = "register" => x.node \in Hosts /\ x.to \in Keys \cup {None}
         /\ x.pc = "operator" => x.to \in Keys
         /\ x.pc = "unverify" => x.key \in Keys
         /\ x.pc \in {"clear", "nodes", "remove", "insert"} =>
              /\ x.key \in Keys /\ x.action \in {"restrict", "anonymize"}
              /\ x = [pc |-> x.pc, key |-> x.key, action |-> x.action, row |-> None]
         /\ x.pc \in {"register", "operator", "rebind", "unverify", "clear", "nodes", "remove", "insert"}
  BY RepositoryAssumption DEF Memory!IdentityCalls

LEMMA OtherCallsStay ==
  ASSUME NEW c \in Calls, NEW x \in Memory!IdentityCalls \cup {None}, Memory!Goes(c, x),
         call \in [Calls -> Memory!IdentityCalls \cup {None}]
  PROVE  /\ call' \in [Calls -> Memory!IdentityCalls \cup {None}]
         /\ call'[c] = x /\ \A d \in Calls \ {c} : call'[d] = call[d]
  BY DEF Memory!Goes

\* Calls that neither bind, unverify nor forget at their next step.
Quiet(x) == x = None \/ x.pc \in {"clear", "nodes"}
\* Whether a key has a row, its status and its line are the same in two tables.
SameRows(new, old) ==
  \A k \in Keys : (new[k] = None <=> old[k] = None)
                  /\ (old[k] # None => new[k].status = old[k].status /\ new[k].line = old[k].line)

\* What a step leaves to the calls it does not touch.
LEMMA QuietCalls ==
  ASSUME \A d \in Calls : call'[d] = call[d] \/ (Quiet(call[d]) /\ Quiet(call'[d]))
  PROVE  /\ \A k : (Memory!Binding(k)' <=> Memory!Binding(k)) /\ (Ending(k)' <=> Ending(k))
         /\ \A k : (At("remove", k)' <=> At("remove", k)) /\ (At("insert", k)' <=> At("insert", k))
  <1>1. \A d \in Calls : \A p \in {"register", "operator", "rebind", "unverify", "remove", "insert"} :
          (Memory!Is(d, p)' <=> Memory!Is(d, p)) /\ (Memory!Is(d, p) => call'[d] = call[d])
    BY DEF Quiet, Memory!Is
  <1> QED
    BY <1>1 DEF Memory!Binding, Ending, At

\* Renames, acceptances, and the first two steps of a data-subject action.
LEMMA QuietStep ==
  ASSUME IdentityInv, IdentityTypes', SameRows(operators', operators), UNCHANGED <<records, lines, overtaken, late, forgotten>>,
         \A d \in Calls : call'[d] = call[d] \/ (Quiet(call[d]) /\ Quiet(call'[d]))
  PROVE  IdentityInv'
  <1>1. /\ \A k \in Keys : (Memory!Active(k)' <=> Memory!Active(k)) /\ (operators'[k] = None <=> operators[k] = None)
        /\ \A k \in Keys : Memory!Active(k) => operators'[k].line = operators[k].line
    BY DEF SameRows, Memory!Active
  <1>2. \A k \in Keys : (Gone(k)' <=> Gone(k)) /\ (InForce(k)' <=> InForce(k)) /\ \A n \in Hosts : (Standing(n, k)' <=> Standing(n, k))
    BY <1>1, QuietCalls DEF Gone, InForce, Standing
  <1>3. LinesCounted'
    BY DEF IdentityInv, LinesCounted, SameRows
  <1>4. Memory!OneActiveKey'
    BY <1>1 DEF IdentityInv, Memory!OneActiveKey
  <1>5. VerifiedByKey' /\ VerifiedInForce' /\ BoundIsLive'
    BY <1>2, QuietCalls DEF IdentityInv, VerifiedByKey, VerifiedInForce, BoundIsLive
  <1>6. ForgettingKnows' /\ ForgottenKnows'
    BY <1>1, <1>2, QuietCalls DEF IdentityInv, ForgettingKnows, ForgottenKnows
  <1> QED
    BY <1>3, <1>4, <1>5, <1>6 DEF IdentityInv

\* What every step of the identity part may rely on.
LEMMA ForgettingSeen == \A k \in Keys : At("remove", k) \/ At("insert", k) => Memory!Forgetting(k)
  BY DEF At, Memory!Is, Memory!Forgetting
LEMMA InForceStays ==
  ASSUME NEW k \in Keys, InForce(k), overtaken \subseteq overtaken',
         operators'[k] = operators[k] \/ operators'[k] = None \/ Memory!Active(k)'
  PROVE  InForce(k)'
  BY DEF InForce, Memory!Active
LEMMA StandingStays ==
  ASSUME NEW k \in Keys, NEW n \in Hosts, Standing(n, k), overtaken \subseteq overtaken', n \in late => n \in late',
         operators'[k] = operators[k] \/ operators'[k] = None \/ Memory!Active(k)'
  PROVE  Standing(n, k)'
  BY DEF Standing, Memory!Active

LEMMA CheckKeeps ==
  ASSUME IdentityInv, NEW c \in Calls, NEW n \in Hosts, NEW k \in Keys \cup {None}, Memory!CheckIdentity(c, n, k)
  PROVE  IdentityInv'
  <1> DEFINE x == [pc |-> "register", node |-> n, to |-> k]
  <1>1. x \in Memory!IdentityCalls /\ x.pc = "register" /\ x.to = k
    BY DEF Memory!IdentityCalls
  <1>2. x # None /\ None \notin Keys
    BY <1>1, RepositoryAssumption
  <1>3. /\ call[c] = None /\ (k # None => operators[k] = None \/ Memory!Active(k))
        /\ forgotten' = forgotten \ {k} /\ Memory!Goes(c, x) /\ UNCHANGED <<operators, records, lines, late>>
        /\ overtaken' = IF k # None /\ Memory!Forgetting(k) THEN overtaken \cup {k} ELSE overtaken
    BY DEF Memory!CheckIdentity, Memory!Overtaking
  <1> HIDE DEF x
  <1>4. /\ call' \in [Calls -> Memory!IdentityCalls \cup {None}]
        /\ call'[c] = x /\ \A d \in Calls \ {c} : call'[d] = call[d]
    BY <1>1, <1>3, OtherCallsStay DEF IdentityInv, IdentityTypes
  <1>5. /\ \A l : (Memory!Binding(l)' <=> (Memory!Binding(l) \/ l = k)) /\ (Ending(l)' <=> Ending(l))
        /\ \A l : (At("remove", l)' <=> At("remove", l)) /\ (At("insert", l)' <=> At("insert", l))
    <2>1. \A d \in Calls \ {c} : \A p : Memory!Is(d, p)' <=> Memory!Is(d, p)
      BY <1>4 DEF Memory!Is
    <2>2. \A p : Memory!Is(c, p)' <=> p = "register"
      BY <1>1, <1>2, <1>4 DEF Memory!Is
    <2>3. \A p : ~Memory!Is(c, p)
      BY <1>3 DEF Memory!Is
    <2>4. \A l : Memory!Binding(l)' <=> (Memory!Binding(l) \/ l = k)
      BY <1>1, <1>4, <2>1, <2>2, <2>3 DEF Memory!Binding
    <2>5. \A l : Ending(l)' <=> Ending(l)
      BY <1>4, <2>1, <2>2, <2>3 DEF Ending
    <2>6. \A l : (At("remove", l)' <=> At("remove", l)) /\ (At("insert", l)' <=> At("insert", l))
      BY <1>4, <2>1, <2>2, <2>3 DEF At
    <2> QED
      BY <2>4, <2>5, <2>6
  <1>6. /\ overtaken \subseteq overtaken' /\ \A l \in Keys : InForce(l) => InForce(l)'
        /\ \A m \in Hosts, l \in Keys : Standing(m, l) => Standing(m, l)'
    BY <1>3, InForceStays, StandingStays
  <1>7. \A l \in Keys \ {k} : Gone(l) => Gone(l)'
    BY <1>3, <1>5 DEF Gone
  <1>8. IdentityTypes' /\ LinesCounted' /\ Memory!OneActiveKey' /\ VerifiedByKey'
    BY <1>3, <1>4 DEF IdentityInv, IdentityTypes, LinesCounted, VerifiedByKey, Memory!OneActiveKey, Memory!Active
  <1>9. VerifiedInForce'
    BY <1>3, <1>5, <1>6 DEF IdentityInv, VerifiedInForce
  <1>10. BoundIsLive'
    <2>1. k \in Keys => InForce(k)'
      BY <1>2, <1>3 DEF InForce, Memory!Active
    <2> QED
      BY <1>5, <1>6, <2>1 DEF IdentityInv, BoundIsLive
  <1>11. ForgettingKnows'
    <2>1. k \in Keys => k \in overtaken' \/ (~At("remove", k)' /\ ~At("insert", k)')
      BY <1>2, <1>3, <1>5, ForgettingSeen
    <2> QED
      BY <1>3, <1>5, <1>6, <1>7, <2>1 DEF IdentityInv, ForgettingKnows
  <1>12. ForgottenKnows'
    BY <1>3, <1>6, <1>7 DEF IdentityInv, ForgottenKnows
  <1> QED
    BY <1>8, <1>9, <1>10, <1>11, <1>12 DEF IdentityInv

LEMMA RegisterKeeps ==
  ASSUME IdentityInv, NEW c \in Calls, Memory!Register(c)
  PROVE  IdentityInv'
  <1>1. call[c] \in Memory!IdentityCalls /\ call[c].pc = "register" /\ Memory!Is(c, "register") /\ None \notin Keys
    BY RepositoryAssumption DEF Memory!Register, Memory!Is, IdentityInv, IdentityTypes
  <1>2. PICK n \in Hosts, k \in Keys \cup {None} : n = call[c].node /\ k = call[c].to
    BY <1>1, IdentityCallKinds
  <1> DEFINE row == [operator |-> k, verified |-> k # None, available |-> TRUE, manifest |-> TRUE]
             x == IF k = None THEN None ELSE [pc |-> "operator", to |-> k]
  <1>3. row \in Memory!NodeRecords /\ row.operator = k /\ row.verified = (k # None)
    BY DEF Memory!NodeRecords
  <1>4. /\ x \in Memory!IdentityCalls \cup {None}
        /\ (k \in Keys => x # None /\ x.pc = "operator" /\ x.to = k) /\ (k = None => x = None)
    <2>1. k \in Keys => [pc |-> "operator", to |-> k] \in Memory!IdentityCalls
      BY DEF Memory!IdentityCalls
    <2> QED
      BY <1>1, <2>1, RepositoryAssumption
  <1>5. /\ records' = [records EXCEPT ![n] = row] /\ Memory!Bound({n}, k) /\ Memory!Goes(c, x)
        /\ UNCHANGED <<operators, lines, overtaken, forgotten>>
    BY <1>2 DEF Memory!Register
  <1> HIDE DEF row, x
  <1>6. /\ call' \in [Calls -> Memory!IdentityCalls \cup {None}]
        /\ call'[c] = x /\ \A d \in Calls \ {c} : call'[d] = call[d]
    BY <1>4, <1>5, OtherCallsStay DEF IdentityInv, IdentityTypes
  <1>7. /\ \A l \in Keys : Memory!Binding(l)' <=> Memory!Binding(l)
        /\ \A l : Ending(l)' <=> Ending(l)
        /\ \A l : (At("remove", l)' <=> At("remove", l)) /\ (At("insert", l)' <=> At("insert", l))
        /\ k \in Keys => Memory!Binding(k)
    <2>1. \A d \in Calls \ {c} : \A p : Memory!Is(d, p)' <=> Memory!Is(d, p)
      BY <1>6 DEF Memory!Is
    <2>2. /\ \A p : Memory!Is(c, p)' => p = "operator" /\ k \in Keys
          /\ k \in Keys => Memory!Is(c, "operator")' /\ call'[c].to = k
      BY <1>1, <1>4, <1>6 DEF Memory!Is
    <2>3. \A p : Memory!Is(c, p) <=> p = "register"
      BY <1>1 DEF Memory!Is
    <2>4. \A l \in Keys : Memory!Binding(l)' => Memory!Binding(l)
      BY <1>2, <1>6, <2>1, <2>2, <2>3 DEF Memory!Binding
    <2>5. \A l \in Keys : Memory!Binding(l) => Memory!Binding(l)'
      BY <1>2, <1>6, <2>1, <2>2, <2>3 DEF Memory!Binding
    <2>6. \A l : Ending(l)' <=> Ending(l)
      BY <1>6, <2>1, <2>2, <2>3 DEF Ending
    <2>7. \A l : (At("remove", l)' <=> At("remove", l)) /\ (At("insert", l)' <=> At("insert", l))
      BY <1>6, <2>1, <2>2, <2>3 DEF At
    <2>8. k \in Keys => Memory!Binding(k)
      BY <1>1, <1>2 DEF Memory!Binding
    <2> QED
      BY <2>4, <2>5, <2>6, <2>7, <2>8
  <1>8. \A m \in Hosts : records'[m] = IF m = n THEN row ELSE records[m]
    BY <1>5 DEF IdentityInv, IdentityTypes
  <1>9. IdentityTypes'
    BY <1>3, <1>5, <1>6 DEF IdentityInv, IdentityTypes
  <1>10. LinesCounted' /\ Memory!OneActiveKey'
    BY <1>5 DEF IdentityInv, LinesCounted, Memory!OneActiveKey, Memory!Active
  <1>11. VerifiedByKey'
    BY <1>3, <1>8 DEF IdentityInv, VerifiedByKey
  <1>12. \A l \in Keys : InForce(l) => InForce(l)'
    BY <1>5, InForceStays
  <1>13. VerifiedInForce'
    <2>1. k \in Keys => Standing(n, k)'
      BY <1>1, <1>5, <1>7 DEF Standing, IdentityInv, BoundIsLive, InForce, Memory!Bound, Memory!Ended, Memory!Active
    <2>2. \A m \in Hosts \ {n} : m \in late => m \in late'
      BY <1>5 DEF Memory!Bound
    <2>3. \A m \in Hosts \ {n}, l \in Keys : Standing(m, l) => Standing(m, l)'
      BY <1>5, <2>2, StandingStays
    <2> QED
      BY <1>3, <1>7, <1>8, <2>1, <2>3 DEF IdentityInv, VerifiedInForce
  <1>14. BoundIsLive'
    BY <1>7, <1>12 DEF IdentityInv, BoundIsLive
  <1>15. \A l \in Keys : Gone(l) => Gone(l)'
    BY <1>3, <1>7, <1>8 DEF Gone
  <1>16. ForgettingKnows' /\ ForgottenKnows'
    BY <1>5, <1>7, <1>15 DEF IdentityInv, ForgettingKnows, ForgottenKnows
  <1> QED
    BY <1>9, <1>10, <1>11, <1>13, <1>14, <1>16 DEF IdentityInv

LEMMA DeregisterKeeps ==
  ASSUME IdentityInv, NEW n \in Hosts, Memory!Deregister(n)
  PROVE  IdentityInv'
  <1>1. records' = [records EXCEPT ![n] = None] /\ late' = late \ {n} /\ UNCHANGED <<call, operators, lines, overtaken, forgotten>>
    BY DEF Memory!Deregister
  <1>2. IdentityTypes'
    BY <1>1 DEF IdentityInv, IdentityTypes
  <1>3. \A m \in Hosts : records'[m] = IF m = n THEN None ELSE records[m]
    BY <1>1 DEF IdentityInv, IdentityTypes
  <1>4. \A l \in Keys : InForce(l) => InForce(l)'
    BY <1>1, InForceStays
  <1>5. /\ \A l : (Memory!Binding(l)' <=> Memory!Binding(l)) /\ (Ending(l)' <=> Ending(l))
        /\ \A l : (At("remove", l)' <=> At("remove", l)) /\ (At("insert", l)' <=> At("insert", l))
    BY <1>1, QuietCalls
  <1>6. \A l \in Keys : Gone(l) => Gone(l)'
    BY <1>3, <1>5 DEF Gone
  <1>7. LinesCounted' /\ Memory!OneActiveKey' /\ VerifiedByKey'
    BY <1>1, <1>3 DEF IdentityInv, LinesCounted, VerifiedByKey, Memory!OneActiveKey, Memory!Active
  <1>8. VerifiedInForce' /\ BoundIsLive'
    <2>1. \A m \in Hosts \ {n}, l \in Keys : Standing(m, l) => Standing(m, l)'
      BY <1>1, StandingStays
    <2> QED
      BY <1>3, <1>4, <1>5, <2>1 DEF IdentityInv, VerifiedInForce, BoundIsLive
  <1>9. ForgettingKnows' /\ ForgottenKnows'
    BY <1>1, <1>5, <1>6 DEF IdentityInv, ForgettingKnows, ForgottenKnows
  <1> QED
    BY <1>2, <1>7, <1>8, <1>9 DEF IdentityInv

LEMMA UpsertKeeps ==
  ASSUME IdentityInv, NEW c \in Calls, NEW name \in BOOLEAN, Memory!upsert_operator(c, name)
  PROVE  IdentityInv'
  <1>1. call[c] \in Memory!IdentityCalls /\ call[c].pc = "operator" /\ Memory!Is(c, "operator")
    BY DEF Memory!upsert_operator, Memory!Is, IdentityInv, IdentityTypes
  <1>2. PICK k \in Keys : k = call[c].to
    BY <1>1, IdentityCallKinds
  <1>3. Memory!Goes(c, None) /\ UNCHANGED <<records, overtaken, late, forgotten>>
    BY DEF Memory!upsert_operator
  <1>4. /\ call' \in [Calls -> Memory!IdentityCalls \cup {None}]
        /\ call'[c] = None /\ \A d \in Calls \ {c} : call'[d] = call[d]
    BY <1>3, OtherCallsStay DEF IdentityInv, IdentityTypes
  <1>5. /\ \A l : (Memory!Binding(l)' => Memory!Binding(l)) /\ (Ending(l)' <=> Ending(l))
        /\ \A l : (At("remove", l)' <=> At("remove", l)) /\ (At("insert", l)' <=> At("insert", l))
        /\ Memory!Binding(k)
    <2>1. \A d \in Calls \ {c} : \A p : Memory!Is(d, p)' <=> Memory!Is(d, p)
      BY <1>4 DEF Memory!Is
    <2>2. \A p : ~Memory!Is(c, p)'
      BY <1>4 DEF Memory!Is
    <2>3. \A p \in {"rebind", "unverify", "remove", "insert"} : ~Memory!Is(c, p)
      BY <1>1 DEF Memory!Is
    <2>4. \A l : Memory!Binding(l)' => Memory!Binding(l)
      BY <1>4, <2>1, <2>2 DEF Memory!Binding
    <2>5. \A l : Ending(l)' <=> Ending(l)
      BY <1>4, <2>1, <2>2, <2>3 DEF Ending
    <2>6. \A l : (At("remove", l)' <=> At("remove", l)) /\ (At("insert", l)' <=> At("insert", l))
      BY <1>4, <2>1, <2>2, <2>3 DEF At
    <2>7. Memory!Binding(k)
      BY <1>1, <1>2 DEF Memory!Binding
    <2> QED
      BY <2>4, <2>5, <2>6, <2>7
  <1>6. \A l \in Keys : Gone(l) => Gone(l)'
    BY <1>3, <1>5 DEF Gone
  \* The row that is written is new and active, or has the status and the line of the old one.
  <1>7. PICK row \in Memory!OperatorRows :
          /\ operators' = [operators EXCEPT ![k] = row]
          /\ \/ operators[k] = None /\ lines < MaxLines /\ lines' = lines + 1 /\ row.status = "active" /\ row.line = lines + 1
             \/ operators[k] # None /\ lines' = lines /\ row.status = operators[k].status /\ row.line = operators[k].line
    <2>1. CASE operators[k] = None
      <3> DEFINE new == [status |-> "active", line |-> lines + 1, named |-> name, accepted |-> FALSE]
      <3>1. lines < MaxLines /\ lines' = lines + 1 /\ operators' = [operators EXCEPT ![k] = new]
        BY <1>2, <2>1 DEF Memory!upsert_operator
      <3>2. new \in Memory!OperatorRows /\ new.status = "active" /\ new.line = lines + 1
        <4>1. lines + 1 \in 1..MaxLines
          BY <3>1, RepositoryAssumption DEF IdentityInv, IdentityTypes
        <4> QED
          BY <4>1 DEF Memory!OperatorRows
      <3> QED
        BY <2>1, <3>1, <3>2
    <2>2. CASE operators[k] # None
      <3>1. operators[k] \in Memory!OperatorRows
        BY <2>2 DEF IdentityInv, IdentityTypes
      <3> DEFINE new == [operators[k] EXCEPT !.named = name \/ operators[k].named]
      <3>2. lines' = lines /\ operators' = [operators EXCEPT ![k] = new]
        BY <1>2, <2>2 DEF Memory!upsert_operator, IdentityInv, IdentityTypes
      <3>3. new \in Memory!OperatorRows /\ new.status = operators[k].status /\ new.line = operators[k].line
        BY <3>1 DEF Memory!OperatorRows
      <3> QED
        BY <2>2, <3>2, <3>3
    <2> QED
      BY <2>1, <2>2
  <1>8. row # None /\ lines \in 0..MaxLines /\ lines' \in 0..MaxLines /\ lines <= lines'
    BY <1>7, RepositoryAssumption DEF IdentityInv, IdentityTypes
  <1>9. \A l \in Keys : operators'[l] = IF l = k THEN row ELSE operators[l]
    BY <1>7 DEF IdentityInv, IdentityTypes
  <1>10. IdentityTypes'
    BY <1>3, <1>4, <1>7, <1>8 DEF IdentityInv, IdentityTypes
  <1>11. \A l \in Keys : operators'[l] = operators[l] \/ Memory!Active(l)' \/ (l = k /\ operators[k] # None /\ ~Memory!Active(k))
    BY <1>7, <1>8, <1>9 DEF Memory!Active
  <1>12. \A l \in Keys : (InForce(l) => InForce(l)') /\ \A m \in Hosts : (Standing(m, l) => Standing(m, l)')
    BY <1>3, <1>11 DEF InForce, Standing, Memory!Active
  <1>13. \A l \in Keys : operators[l] # None => operators[l].line \in Nat /\ operators[l].line <= lines
    BY <1>8 DEF IdentityInv, IdentityTypes, LinesCounted, Memory!OperatorRows
  <1>14. LinesCounted'
    BY <1>7, <1>8, <1>9, <1>13 DEF LinesCounted
  <1>15. Memory!OneActiveKey'
    <2>1. \A l \in Keys \ {k} : (Memory!Active(l)' <=> Memory!Active(l)) /\ operators'[l] = operators[l]
      BY <1>9 DEF Memory!Active
    <2>2. CASE operators[k] = None
      <3>1. operators'[k].line = lines + 1
        BY <1>7, <1>9, <2>2
      <3>2. \A l \in Keys \ {k} : Memory!Active(l)' => operators'[l].line # lines + 1
        BY <1>8, <1>13, <2>1 DEF Memory!Active
      <3> QED
        BY <2>1, <3>1, <3>2 DEF IdentityInv, Memory!OneActiveKey
    <2>3. CASE operators[k] # None
      <3>1. (Memory!Active(k)' <=> Memory!Active(k)) /\ operators'[k].line = operators[k].line
        BY <1>7, <1>8, <1>9, <2>3 DEF Memory!Active
      <3> QED
        BY <2>1, <3>1 DEF IdentityInv, Memory!OneActiveKey
    <2> QED
      BY <2>2, <2>3
  <1>16. VerifiedByKey' /\ VerifiedInForce' /\ BoundIsLive'
    BY <1>3, <1>5, <1>12 DEF IdentityInv, VerifiedByKey, VerifiedInForce, BoundIsLive
  <1>17. k \in overtaken \/ (~At("remove", k) /\ ~At("insert", k) /\ k \notin forgotten)
    BY <1>5 DEF IdentityInv, ForgettingKnows, ForgottenKnows, Gone
  <1>18. ForgettingKnows' /\ ForgottenKnows'
    BY <1>3, <1>5, <1>6, <1>9, <1>17 DEF IdentityInv, ForgettingKnows, ForgottenKnows
  <1> QED
    BY <1>10, <1>14, <1>15, <1>16, <1>18 DEF IdentityInv

LEMMA RotateIdentityKeeps ==
  ASSUME IdentityInv, NEW c \in Calls, NEW k \in Keys, NEW s \in Keys, Memory!Rotate(c, k, s)
  PROVE  IdentityInv'
  <1> DEFINE x == [pc |-> "rebind", from |-> k, to |-> s]
  <1>1. x \in Memory!IdentityCalls /\ x.pc = "rebind" /\ x.from = k /\ x.to = s
    BY DEF Memory!IdentityCalls
  <1>2. x # None
    BY <1>1, RepositoryAssumption
  <1>3. /\ call[c] = None /\ k # s /\ Memory!Active(k) /\ operators[s] = None
        /\ operators' = Memory!Succeeded(k, s) /\ forgotten' = forgotten \ {s} /\ Memory!Goes(c, x)
        /\ overtaken' = overtaken \cup {y \in {k} : Memory!Binding(y)} \cup {y \in {s} : Memory!Forgetting(y)}
        /\ UNCHANGED <<records, lines, late>>
    BY DEF Memory!Rotate
  <1> HIDE DEF x
  <1>4. /\ call' \in [Calls -> Memory!IdentityCalls \cup {None}]
        /\ call'[c] = x /\ \A d \in Calls \ {c} : call'[d] = call[d]
    BY <1>1, <1>3, OtherCallsStay DEF IdentityInv, IdentityTypes
  <1>5. /\ \A l : (Memory!Binding(l)' <=> (Memory!Binding(l) \/ l = s)) /\ (Ending(l)' <=> (Ending(l) \/ l = k))
        /\ \A l : (At("remove", l)' <=> At("remove", l)) /\ (At("insert", l)' <=> At("insert", l))
    <2>1. \A d \in Calls \ {c} : \A p : Memory!Is(d, p)' <=> Memory!Is(d, p)
      BY <1>4 DEF Memory!Is
    <2>2. \A p : Memory!Is(c, p)' <=> p = "rebind"
      BY <1>1, <1>2, <1>4 DEF Memory!Is
    <2>3. \A p : ~Memory!Is(c, p)
      BY <1>3 DEF Memory!Is
    <2>4. \A l : Memory!Binding(l)' <=> (Memory!Binding(l) \/ l = s)
      BY <1>1, <1>4, <2>1, <2>2, <2>3 DEF Memory!Binding
    <2>5. \A l : Ending(l)' <=> (Ending(l) \/ l = k)
      BY <1>1, <1>4, <2>1, <2>2, <2>3 DEF Ending
    <2>6. \A l : (At("remove", l)' <=> At("remove", l)) /\ (At("insert", l)' <=> At("insert", l))
      BY <1>4, <2>1, <2>2, <2>3 DEF At
    <2> QED
      BY <2>4, <2>5, <2>6
  <1>6. operators[k] \in Memory!OperatorRows /\ operators[k] # None /\ operators[k].status = "active"
    BY <1>3 DEF IdentityInv, IdentityTypes, Memory!Active
  <1>7. /\ operators' \in [Keys -> Memory!OperatorRows \cup {None}]
        /\ operators'[s] = operators[k] /\ operators'[k].status = "rotated" /\ operators'[k].line = operators[k].line
        /\ \A l \in Keys \ {k, s} : operators'[l] = operators[l]
    <2>1. [operators[k] EXCEPT !.status = "rotated"] \in Memory!OperatorRows
      BY <1>6 DEF Memory!OperatorRows
    <2>2. operators' = [operators EXCEPT ![s] = operators[k], ![k] = [operators[k] EXCEPT !.status = "rotated"]]
      BY <1>3 DEF Memory!Succeeded, IdentityInv, IdentityTypes
    <2>3. [operators[k] EXCEPT !.status = "rotated"].status = "rotated" /\ [operators[k] EXCEPT !.status = "rotated"].line = operators[k].line
      BY <1>6 DEF Memory!OperatorRows
    <2> QED
      BY <1>3, <1>6, <2>1, <2>2, <2>3 DEF IdentityInv, IdentityTypes
  <1>8. /\ Memory!Active(s)' /\ ~Memory!Active(k)'
        /\ \A l \in Keys \ {k, s} : Memory!Active(l)' <=> Memory!Active(l)
    BY <1>6, <1>7 DEF Memory!Active
  <1>9. overtaken \subseteq overtaken' /\ InForce(s)' /\ \A l \in Keys \ {k} : InForce(l) => InForce(l)'
    <2>1. overtaken \subseteq overtaken' /\ InForce(s)'
      BY <1>3, <1>8 DEF InForce
    <2> QED
      BY <1>7, <1>8, <2>1, InForceStays
  <1>10. \A l \in Keys \ {s} : Gone(l) => Gone(l)'
    BY <1>3, <1>5 DEF Gone
  <1>11. IdentityTypes'
    BY <1>3, <1>4, <1>7 DEF IdentityInv, IdentityTypes
  <1>12. LinesCounted'
    BY <1>3, <1>6, <1>7 DEF IdentityInv, LinesCounted
  <1>13. Memory!OneActiveKey'
    <2>1. \A l \in Keys \ {k, s} : Memory!Active(l) => operators[l].line # operators[k].line
      BY <1>3 DEF IdentityInv, Memory!OneActiveKey
    <2> QED
      BY <1>7, <1>8, <2>1 DEF IdentityInv, Memory!OneActiveKey
  <1>14. VerifiedByKey' /\ VerifiedInForce'
    <2>1. \A m \in Hosts, l \in Keys \ {k} : Standing(m, l) => Standing(m, l)'
      BY <1>3, <1>7, <1>8, <1>9, StandingStays
    <2> QED
      BY <1>3, <1>5, <2>1 DEF IdentityInv, VerifiedByKey, VerifiedInForce
  <1>15. BoundIsLive'
    <2>1. Memory!Binding(k) => InForce(k)'
      BY <1>3 DEF InForce
    <2> QED
      BY <1>5, <1>9, <2>1 DEF IdentityInv, BoundIsLive
  <1>16. ForgettingKnows'
    <2>1. s \in overtaken' \/ (~At("remove", s)' /\ ~At("insert", s)')
      BY <1>3, <1>5, ForgettingSeen
    <2>2. k \in overtaken \/ ~At("insert", k)
      BY <1>6 DEF IdentityInv, ForgettingKnows
    <2> QED
      BY <1>5, <1>7, <1>9, <1>10, <2>1, <2>2 DEF IdentityInv, ForgettingKnows
  <1>17. ForgottenKnows'
    <2>1. k \notin forgotten \/ k \in overtaken
      BY <1>6 DEF IdentityInv, ForgottenKnows
    <2> QED
      BY <1>3, <1>7, <1>9, <1>10, <2>1 DEF IdentityInv, ForgottenKnows
  <1> QED
    BY <1>11, <1>12, <1>13, <1>14, <1>15, <1>16, <1>17 DEF IdentityInv

LEMMA RevokeIdentityKeeps ==
  ASSUME IdentityInv, NEW c \in Calls, NEW k \in Keys, Memory!Revoke(c, k)
  PROVE  IdentityInv'
  <1> DEFINE x == [pc |-> "unverify", key |-> k]
  <1>1. x \in Memory!IdentityCalls /\ x.pc = "unverify" /\ x.key = k
    BY DEF Memory!IdentityCalls
  <1>2. x # None
    BY <1>1, RepositoryAssumption
  <1>3. /\ call[c] = None /\ Memory!Active(k)
        /\ operators' = [operators EXCEPT ![k].status = "revoked"] /\ Memory!Goes(c, x)
        /\ overtaken' = IF Memory!Binding(k) THEN overtaken \cup {k} ELSE overtaken
        /\ UNCHANGED <<records, lines, late, forgotten>>
    BY DEF Memory!Revoke, Memory!Overtaking
  <1> HIDE DEF x
  <1>4. /\ call' \in [Calls -> Memory!IdentityCalls \cup {None}]
        /\ call'[c] = x /\ \A d \in Calls \ {c} : call'[d] = call[d]
    BY <1>1, <1>3, OtherCallsStay DEF IdentityInv, IdentityTypes
  <1>5. /\ \A l : (Memory!Binding(l)' <=> Memory!Binding(l)) /\ (Ending(l)' <=> (Ending(l) \/ l = k))
        /\ \A l : (At("remove", l)' <=> At("remove", l)) /\ (At("insert", l)' <=> At("insert", l))
    <2>1. \A d \in Calls \ {c} : \A p : Memory!Is(d, p)' <=> Memory!Is(d, p)
      BY <1>4 DEF Memory!Is
    <2>2. \A p : Memory!Is(c, p)' <=> p = "unverify"
      BY <1>1, <1>2, <1>4 DEF Memory!Is
    <2>3. \A p : ~Memory!Is(c, p)
      BY <1>3 DEF Memory!Is
    <2>4. \A l : Memory!Binding(l)' <=> Memory!Binding(l)
      BY <1>1, <1>4, <2>1, <2>2, <2>3 DEF Memory!Binding
    <2>5. \A l : Ending(l)' <=> (Ending(l) \/ l = k)
      BY <1>1, <1>4, <2>1, <2>2, <2>3 DEF Ending
    <2>6. \A l : (At("remove", l)' <=> At("remove", l)) /\ (At("insert", l)' <=> At("insert", l))
      BY <1>4, <2>1, <2>2, <2>3 DEF At
    <2> QED
      BY <2>4, <2>5, <2>6
  <1>6. operators[k] \in Memory!OperatorRows /\ operators[k] # None /\ operators[k].status = "active"
    BY <1>3 DEF IdentityInv, IdentityTypes, Memory!Active
  <1>7. /\ operators' \in [Keys -> Memory!OperatorRows \cup {None}]
        /\ operators'[k].status = "revoked" /\ operators'[k].line = operators[k].line
        /\ \A l \in Keys \ {k} : operators'[l] = operators[l]
    <2>1. [operators[k] EXCEPT !.status = "revoked"] \in Memory!OperatorRows
      BY <1>6 DEF Memory!OperatorRows
    <2>2. operators' = [operators EXCEPT ![k] = [operators[k] EXCEPT !.status = "revoked"]]
      BY <1>3 DEF IdentityInv, IdentityTypes
    <2>3. [operators[k] EXCEPT !.status = "revoked"].status = "revoked" /\ [operators[k] EXCEPT !.status = "revoked"].line = operators[k].line
      BY <1>6 DEF Memory!OperatorRows
    <2> QED
      BY <2>1, <2>2, <2>3 DEF IdentityInv, IdentityTypes
  <1>8. ~Memory!Active(k)' /\ \A l \in Keys \ {k} : Memory!Active(l)' <=> Memory!Active(l)
    BY <1>7 DEF Memory!Active
  <1>9. overtaken \subseteq overtaken' /\ \A l \in Keys \ {k} : InForce(l) => InForce(l)'
    BY <1>3, <1>7, InForceStays
  <1>10. \A l \in Keys : Gone(l) => Gone(l)'
    BY <1>3, <1>5 DEF Gone
  <1>11. IdentityTypes'
    BY <1>3, <1>4, <1>7 DEF IdentityInv, IdentityTypes
  <1>12. LinesCounted'
    BY <1>3, <1>6, <1>7 DEF IdentityInv, LinesCounted
  <1>13. Memory!OneActiveKey'
    BY <1>7, <1>8 DEF IdentityInv, Memory!OneActiveKey
  <1>14. VerifiedByKey' /\ VerifiedInForce'
    <2>1. \A m \in Hosts, l \in Keys \ {k} : Standing(m, l) => Standing(m, l)'
      BY <1>3, <1>7, <1>9, StandingStays
    <2> QED
      BY <1>3, <1>5, <2>1 DEF IdentityInv, VerifiedByKey, VerifiedInForce
  <1>15. BoundIsLive'
    <2>1. Memory!Binding(k) => InForce(k)'
      BY <1>3 DEF InForce
    <2> QED
      BY <1>5, <1>9, <2>1 DEF IdentityInv, BoundIsLive
  <1>16. ForgettingKnows'
    <2>1. k \in overtaken \/ ~At("insert", k)
      BY <1>6 DEF IdentityInv, ForgettingKnows
    <2> QED
      BY <1>5, <1>7, <1>9, <1>10, <2>1 DEF IdentityInv, ForgettingKnows
  <1>17. ForgottenKnows'
    <2>1. k \notin forgotten \/ k \in overtaken
      BY <1>6 DEF IdentityInv, ForgottenKnows
    <2> QED
      BY <1>3, <1>7, <1>9, <1>10, <2>1 DEF IdentityInv, ForgottenKnows
  <1> QED
    BY <1>11, <1>12, <1>13, <1>14, <1>15, <1>16, <1>17 DEF IdentityInv

LEMMA RebindKeeps ==
  ASSUME IdentityInv, NEW c \in Calls, Memory!Rebind(c)
  PROVE  IdentityInv'
  <1>1. call[c] \in Memory!IdentityCalls /\ call[c].pc = "rebind" /\ Memory!Is(c, "rebind")
    BY DEF Memory!Rebind, Memory!Is, IdentityInv, IdentityTypes
  <1>2. PICK k \in Keys, s \in Keys : k = call[c].from /\ s = call[c].to
    BY <1>1, IdentityCallKinds
  <1>3. /\ records' = [n \in Hosts |-> IF Memory!Linked(n, k)
                                       THEN [records[n] EXCEPT !.operator = s, !.verified = TRUE, !.manifest = FALSE]
                                       ELSE records[n]]
        /\ Memory!Bound({n \in Hosts : Memory!Linked(n, k)}, s)
        /\ Memory!Goes(c, None) /\ UNCHANGED <<operators, lines, overtaken, forgotten>>
    BY <1>2 DEF Memory!Rebind
  <1>4. /\ call' \in [Calls -> Memory!IdentityCalls \cup {None}]
        /\ call'[c] = None /\ \A d \in Calls \ {c} : call'[d] = call[d]
    BY <1>3, OtherCallsStay DEF IdentityInv, IdentityTypes
  <1>5. /\ \A l : Memory!Binding(l)' => Memory!Binding(l)
        /\ \A l : l # k => (Ending(l) => Ending(l)')
        /\ \A l : (At("remove", l)' => At("remove", l)) /\ (At("insert", l)' => At("insert", l))
    <2>1. \A d \in Calls \ {c} : \A p : Memory!Is(d, p)' <=> Memory!Is(d, p)
      BY <1>4 DEF Memory!Is
    <2>2. \A p : ~Memory!Is(c, p)'
      BY <1>4 DEF Memory!Is
    <2>3. ~Memory!Is(c, "unverify")
      BY <1>1 DEF Memory!Is
    <2>4. \A l : Memory!Binding(l)' => Memory!Binding(l)
      BY <1>4, <2>1, <2>2 DEF Memory!Binding
    <2>5. \A l : l # k => (Ending(l) => Ending(l)')
      BY <1>2, <1>4, <2>1, <2>3 DEF Ending
    <2>6. \A l : (At("remove", l)' => At("remove", l)) /\ (At("insert", l)' => At("insert", l))
      BY <1>4, <2>1, <2>2 DEF At
    <2> QED
      BY <2>4, <2>5, <2>6
  <1>6. \A n \in Hosts : \/ /\ records[n] # None /\ records[n].operator = k
                            /\ records'[n] \in Memory!NodeRecords /\ records'[n].operator = s
                         \/ records'[n] = records[n] /\ (records[n] # None => records[n].operator # k)
    <2> SUFFICES ASSUME NEW n \in Hosts, Memory!Linked(n, k)
                 PROVE  /\ records[n] # None /\ records[n].operator = k
                        /\ records'[n] \in Memory!NodeRecords /\ records'[n].operator = s
      BY <1>3 DEF Memory!Linked
    <2>1. records[n] \in Memory!NodeRecords /\ records[n] # None /\ records[n].operator = k
      BY DEF Memory!Linked, IdentityInv, IdentityTypes
    <2>2. records'[n] = [records[n] EXCEPT !.operator = s, !.verified = TRUE, !.manifest = FALSE]
      BY <1>3
    <2> QED
      BY <2>1, <2>2 DEF Memory!NodeRecords
  <1>7. IdentityTypes'
    <2>1. records' \in [Hosts -> Memory!NodeRecords \cup {None}]
      <3>1. \A n \in Hosts : records'[n] \in Memory!NodeRecords \cup {None}
        BY <1>6 DEF IdentityInv, IdentityTypes
      <3> QED
        BY <1>3, <3>1
    <2> QED
      BY <1>3, <1>4, <2>1 DEF IdentityInv, IdentityTypes
  <1>8. \A l \in Keys : InForce(l) => InForce(l)'
    BY <1>3, InForceStays
  <1>9. Memory!Binding(s) /\ InForce(s)'
    BY <1>1, <1>2, <1>8 DEF Memory!Binding, IdentityInv, BoundIsLive
  <1>10. \A l \in Keys : Gone(l) => Gone(l)'
    BY <1>5, <1>6, <1>9 DEF Gone
  <1>11. LinesCounted' /\ Memory!OneActiveKey'
    BY <1>3 DEF IdentityInv, LinesCounted, Memory!OneActiveKey, Memory!Active
  <1>12. VerifiedByKey'
    BY <1>6 DEF IdentityInv, VerifiedByKey
  <1>13. VerifiedInForce' /\ BoundIsLive'
    <2>1. ASSUME NEW n \in Hosts, Memory!Linked(n, k) PROVE Standing(n, s)'
      <3>1. Memory!Ended(s) => n \in late'
        BY <1>3, <2>1 DEF Memory!Bound
      <3>2. operators' = operators /\ s \in Keys /\ s # None
        BY <1>2, <1>3, RepositoryAssumption
      <3>3. Memory!Ended(s) \/ operators'[s] = None \/ Memory!Active(s)'
        BY <3>2 DEF Memory!Ended, Memory!Active
      <3> QED
        BY <1>9, <3>1, <3>3 DEF Standing, InForce
    <2>2. \A n \in Hosts, l \in Keys : ~Memory!Linked(n, k) /\ Standing(n, l) => Standing(n, l)'
      <3>1. \A n \in Hosts : ~Memory!Linked(n, k) /\ n \in late => n \in late'
        BY <1>3 DEF Memory!Bound
      <3> QED
        BY <1>3, <3>1, StandingStays
    <2>3. \A n \in Hosts : Memory!Linked(n, k) <=> records[n] # None /\ records[n].operator = k
      BY DEF Memory!Linked
    <2>4. VerifiedInForce'
      BY <1>5, <1>6, <2>1, <2>2, <2>3 DEF IdentityInv, VerifiedInForce
    <2> QED
      BY <1>5, <1>8, <2>4 DEF IdentityInv, BoundIsLive
  <1>14. ForgettingKnows' /\ ForgottenKnows'
    BY <1>3, <1>5, <1>10 DEF IdentityInv, ForgettingKnows, ForgottenKnows
  <1> QED
    BY <1>7, <1>11, <1>12, <1>13, <1>14 DEF IdentityInv

LEMMA UnverifyKeeps ==
  ASSUME IdentityInv, NEW c \in Calls, Memory!Unverify(c)
  PROVE  IdentityInv'
  <1>1. call[c] \in Memory!IdentityCalls /\ call[c].pc = "unverify" /\ Memory!Is(c, "unverify")
    BY DEF Memory!Unverify, Memory!Is, IdentityInv, IdentityTypes
  <1>2. PICK k \in Keys : k = call[c].key
    BY <1>1, IdentityCallKinds
  <1>3. /\ records' = [n \in Hosts |-> IF Memory!Linked(n, k) THEN Memory!Unverified(records[n]) ELSE records[n]]
        /\ Memory!Goes(c, None) /\ UNCHANGED <<operators, lines, overtaken, late, forgotten>>
    BY <1>2 DEF Memory!Unverify
  <1>4. /\ call' \in [Calls -> Memory!IdentityCalls \cup {None}]
        /\ call'[c] = None /\ \A d \in Calls \ {c} : call'[d] = call[d]
    BY <1>3, OtherCallsStay DEF IdentityInv, IdentityTypes
  <1>5. /\ \A l : Memory!Binding(l)' => Memory!Binding(l)
        /\ \A l : l # k => (Ending(l) => Ending(l)')
        /\ \A l : (At("remove", l)' => At("remove", l)) /\ (At("insert", l)' => At("insert", l))
    <2>1. \A d \in Calls \ {c} : \A p : Memory!Is(d, p)' <=> Memory!Is(d, p)
      BY <1>4 DEF Memory!Is
    <2>2. \A p : ~Memory!Is(c, p)'
      BY <1>4 DEF Memory!Is
    <2>3. ~Memory!Is(c, "rebind")
      BY <1>1 DEF Memory!Is
    <2>4. \A l : Memory!Binding(l)' => Memory!Binding(l)
      BY <1>4, <2>1, <2>2 DEF Memory!Binding
    <2>5. \A l : l # k => (Ending(l) => Ending(l)')
      BY <1>2, <1>4, <2>1, <2>3 DEF Ending
    <2>6. \A l : (At("remove", l)' => At("remove", l)) /\ (At("insert", l)' => At("insert", l))
      BY <1>4, <2>1, <2>2 DEF At
    <2> QED
      BY <2>4, <2>5, <2>6
  <1>6. \A n \in Hosts : \/ /\ records[n] # None /\ records[n].operator = k /\ records'[n].operator = k
                            /\ records'[n] \in Memory!NodeRecords /\ ~records'[n].verified
                         \/ records'[n] = records[n] /\ (records[n] # None => records[n].operator # k)
    <2> SUFFICES ASSUME NEW n \in Hosts, Memory!Linked(n, k)
                 PROVE  /\ records[n] # None /\ records[n].operator = k /\ records'[n].operator = k
                        /\ records'[n] \in Memory!NodeRecords /\ ~records'[n].verified
      BY <1>3 DEF Memory!Linked
    <2>1. records[n] \in Memory!NodeRecords /\ records[n] # None /\ records[n].operator = k
      BY DEF Memory!Linked, IdentityInv, IdentityTypes
    <2>2. records'[n] = [records[n] EXCEPT !.verified = FALSE, !.manifest = FALSE]
      BY <1>3 DEF Memory!Unverified
    <2> QED
      BY <2>1, <2>2 DEF Memory!NodeRecords
  <1>7. IdentityTypes'
    <2>1. records' \in [Hosts -> Memory!NodeRecords \cup {None}]
      <3>1. \A n \in Hosts : records'[n] \in Memory!NodeRecords \cup {None}
        BY <1>6 DEF IdentityInv, IdentityTypes
      <3> QED
        BY <1>3, <3>1
    <2> QED
      BY <1>3, <1>4, <2>1 DEF IdentityInv, IdentityTypes
  <1>8. \A l \in Keys : (InForce(l) => InForce(l)') /\ \A m \in Hosts : (Standing(m, l) => Standing(m, l)')
    BY <1>3, InForceStays, StandingStays
  <1>9. \A l \in Keys : Gone(l) => Gone(l)'
    BY <1>5, <1>6 DEF Gone
  <1>10. LinesCounted' /\ Memory!OneActiveKey'
    BY <1>3 DEF IdentityInv, LinesCounted, Memory!OneActiveKey, Memory!Active
  <1>11. VerifiedByKey'
    BY <1>6 DEF IdentityInv, VerifiedByKey
  <1>12. VerifiedInForce' /\ BoundIsLive'
    BY <1>5, <1>6, <1>8 DEF IdentityInv, VerifiedInForce, BoundIsLive
  <1>13. ForgettingKnows' /\ ForgottenKnows'
    BY <1>3, <1>5, <1>9 DEF IdentityInv, ForgettingKnows, ForgottenKnows
  <1> QED
    BY <1>7, <1>10, <1>11, <1>12, <1>13 DEF IdentityInv

LEMMA ClearNodesKeeps ==
  ASSUME IdentityInv, NEW c \in Calls, Memory!ClearNodes(c)
  PROVE  IdentityInv'
  <1>1. call[c] \in Memory!IdentityCalls /\ call[c].pc = "nodes" /\ Memory!Is(c, "nodes") /\ None \notin Keys
    BY RepositoryAssumption DEF Memory!ClearNodes, Memory!Is, IdentityInv, IdentityTypes
  <1>2. PICK k \in Keys, a \in {"restrict", "anonymize"} : call[c] = [pc |-> "nodes", key |-> k, action |-> a, row |-> None]
    BY <1>1, IdentityCallKinds
  <1> DEFINE x == IF a = "anonymize" THEN [call[c] EXCEPT !.pc = "remove"] ELSE None
  <1>3. /\ x \in Memory!IdentityCalls \cup {None}
        /\ (a = "anonymize" => x # None /\ x.pc = "remove" /\ x.key = k) /\ (a # "anonymize" => x = None)
    <2>1. [call[c] EXCEPT !.pc = "remove"] = [pc |-> "remove", key |-> k, action |-> a, row |-> None]
      BY <1>2
    <2>2. [pc |-> "remove", key |-> k, action |-> a, row |-> None] \in Memory!IdentityCalls
      BY DEF Memory!IdentityCalls
    <2> QED
      BY <2>1, <2>2, RepositoryAssumption
  <1>4. /\ records' = [n \in Hosts |-> IF Memory!Linked(n, k) THEN Memory!Cleared(records[n], a) ELSE records[n]]
        /\ Memory!Goes(c, x) /\ UNCHANGED <<operators, lines, late, forgotten>>
        /\ overtaken' = IF Memory!Binding(k) THEN overtaken \cup {k} ELSE overtaken
    BY <1>2 DEF Memory!ClearNodes, Memory!Overtaking
  <1> HIDE DEF x
  <1>5. /\ call' \in [Calls -> Memory!IdentityCalls \cup {None}]
        /\ call'[c] = x /\ \A d \in Calls \ {c} : call'[d] = call[d]
    BY <1>3, <1>4, OtherCallsStay DEF IdentityInv, IdentityTypes
  <1>6. /\ \A l : (Memory!Binding(l)' <=> Memory!Binding(l)) /\ (Ending(l)' <=> Ending(l))
        /\ \A l : (At("remove", l)' => At("remove", l) \/ (l = k /\ a = "anonymize")) /\ (At("insert", l)' => At("insert", l))
    <2>1. \A d \in Calls \ {c} : \A p : Memory!Is(d, p)' <=> Memory!Is(d, p)
      BY <1>5 DEF Memory!Is
    <2>2. \A p : Memory!Is(c, p)' => p = "remove" /\ a = "anonymize"
      BY <1>3, <1>5 DEF Memory!Is
    <2>3. \A p \in {"register", "operator", "rebind", "unverify"} : ~Memory!Is(c, p)
      BY <1>1 DEF Memory!Is
    <2>4. \A l : Memory!Binding(l)' <=> Memory!Binding(l)
      BY <1>5, <2>1, <2>2, <2>3 DEF Memory!Binding
    <2>5. \A l : Ending(l)' <=> Ending(l)
      BY <1>5, <2>1, <2>2, <2>3 DEF Ending
    <2>6. \A l : At("remove", l)' => At("remove", l) \/ (l = k /\ a = "anonymize")
      BY <1>3, <1>5, <2>1, <2>2 DEF At
    <2>7. \A l : At("insert", l)' => At("insert", l)
      BY <1>5, <2>1, <2>2 DEF At
    <2> QED
      BY <2>4, <2>5, <2>6, <2>7
  <1>7. \A n \in Hosts : \/ /\ records[n] # None /\ records[n].operator = k /\ records'[n] \in Memory!NodeRecords
                            /\ \/ a = "anonymize" /\ records'[n].operator = None /\ ~records'[n].verified
                               \/ a = "restrict" /\ records'[n].operator = k /\ records'[n].verified = records[n].verified
                         \/ records'[n] = records[n] /\ (records[n] # None => records[n].operator # k)
    <2> SUFFICES ASSUME NEW n \in Hosts, Memory!Linked(n, k)
                 PROVE  /\ records[n] # None /\ records[n].operator = k /\ records'[n] \in Memory!NodeRecords
                        /\ \/ a = "anonymize" /\ records'[n].operator = None /\ ~records'[n].verified
                           \/ a = "restrict" /\ records'[n].operator = k /\ records'[n].verified = records[n].verified
      BY <1>4 DEF Memory!Linked
    <2>1. records[n] \in Memory!NodeRecords /\ records[n] # None /\ records[n].operator = k
      BY DEF Memory!Linked, IdentityInv, IdentityTypes
    <2>2. CASE a = "anonymize"
      <3>1. records'[n] = [records[n] EXCEPT !.available = FALSE, !.operator = None, !.verified = FALSE]
        BY <1>4, <2>2 DEF Memory!Cleared
      <3> QED
        BY <2>1, <2>2, <3>1 DEF Memory!NodeRecords
    <2>3. CASE a = "restrict"
      <3>1. records'[n] = [records[n] EXCEPT !.available = FALSE]
        BY <1>4, <2>3 DEF Memory!Cleared
      <3> QED
        BY <2>1, <2>3, <3>1 DEF Memory!NodeRecords
    <2> QED
      BY <2>2, <2>3
  <1>8. IdentityTypes'
    <2>1. records' \in [Hosts -> Memory!NodeRecords \cup {None}]
      <3>1. \A n \in Hosts : records'[n] \in Memory!NodeRecords \cup {None}
        BY <1>7 DEF IdentityInv, IdentityTypes
      <3> QED
        BY <1>4, <3>1
    <2> QED
      BY <1>4, <1>5, <2>1 DEF IdentityInv, IdentityTypes
  <1>9. /\ overtaken \subseteq overtaken'
        /\ \A l \in Keys : (InForce(l) => InForce(l)') /\ \A m \in Hosts : (Standing(m, l) => Standing(m, l)')
    BY <1>4, InForceStays, StandingStays
  <1>10. \A l \in Keys : Gone(l) => Gone(l)'
    BY <1>1, <1>6, <1>7 DEF Gone
  <1>11. a = "anonymize" => k \in overtaken' \/ Gone(k)'
    BY <1>1, <1>4, <1>6, <1>7 DEF Gone
  <1>12. LinesCounted' /\ Memory!OneActiveKey'
    BY <1>4 DEF IdentityInv, LinesCounted, Memory!OneActiveKey, Memory!Active
  <1>13. VerifiedByKey'
    BY <1>7 DEF IdentityInv, VerifiedByKey
  <1>14. VerifiedInForce' /\ BoundIsLive'
    BY <1>1, <1>6, <1>7, <1>9 DEF IdentityInv, VerifiedInForce, BoundIsLive
  <1>15. ForgettingKnows' /\ ForgottenKnows'
    BY <1>4, <1>6, <1>9, <1>10, <1>11 DEF IdentityInv, ForgettingKnows, ForgottenKnows
  <1> QED
    BY <1>8, <1>12, <1>13, <1>14, <1>15 DEF IdentityInv

LEMMA RemoveKeeps ==
  ASSUME IdentityInv, NEW c \in Calls, Memory!RemoveOperator(c)
  PROVE  IdentityInv'
  <1>1. call[c] \in Memory!IdentityCalls /\ call[c].pc = "remove" /\ Memory!Is(c, "remove")
    BY DEF Memory!RemoveOperator, Memory!Is, IdentityInv, IdentityTypes
  <1>2. PICK k \in Keys, a \in {"restrict", "anonymize"} : call[c] = [pc |-> "remove", key |-> k, action |-> a, row |-> None]
    BY <1>1, IdentityCallKinds
  <1> DEFINE x == IF operators[k] = None THEN None ELSE [call[c] EXCEPT !.pc = "insert"]
  <1>3. x \in Memory!IdentityCalls \cup {None} /\ (x # None => x.pc = "insert" /\ x.key = k)
    <2>1. [call[c] EXCEPT !.pc = "insert"] = [pc |-> "insert", key |-> k, action |-> a, row |-> None]
      BY <1>2
    <2>2. [pc |-> "insert", key |-> k, action |-> a, row |-> None] \in Memory!IdentityCalls
      BY DEF Memory!IdentityCalls
    <2> QED
      BY <2>1, <2>2
  <1>4. /\ operators' = [operators EXCEPT ![k] = None] /\ Memory!Goes(c, x)
        /\ UNCHANGED <<records, lines, overtaken, late, forgotten>>
    BY <1>2 DEF Memory!RemoveOperator
  <1> HIDE DEF x
  <1>5. /\ call' \in [Calls -> Memory!IdentityCalls \cup {None}]
        /\ call'[c] = x /\ \A d \in Calls \ {c} : call'[d] = call[d]
    BY <1>3, <1>4, OtherCallsStay DEF IdentityInv, IdentityTypes
  <1>6. /\ \A l : (Memory!Binding(l)' <=> Memory!Binding(l)) /\ (Ending(l)' <=> Ending(l))
        /\ \A l : (At("remove", l)' => At("remove", l)) /\ (At("insert", l)' => At("insert", l) \/ l = k)
        /\ At("remove", k)
    <2>1. \A d \in Calls \ {c} : \A p : Memory!Is(d, p)' <=> Memory!Is(d, p)
      BY <1>5 DEF Memory!Is
    <2>2. \A p : Memory!Is(c, p)' => p = "insert"
      BY <1>3, <1>5 DEF Memory!Is
    <2>3. \A p \in {"register", "operator", "rebind", "unverify"} : ~Memory!Is(c, p)
      BY <1>1 DEF Memory!Is
    <2>4. \A l : Memory!Binding(l)' <=> Memory!Binding(l)
      BY <1>5, <2>1, <2>2, <2>3 DEF Memory!Binding
    <2>5. \A l : Ending(l)' <=> Ending(l)
      BY <1>5, <2>1, <2>2, <2>3 DEF Ending
    <2>6. \A l : At("remove", l)' => At("remove", l)
      BY <1>5, <2>1, <2>2 DEF At
    <2>7. \A l : At("insert", l)' => At("insert", l) \/ l = k
      <3>1. Memory!Is(c, "insert")' => call'[c].key = k
        BY <1>3, <1>5 DEF Memory!Is
      <3> QED
        BY <1>5, <2>1, <3>1 DEF At
    <2>8. At("remove", k)
      BY <1>1, <1>2 DEF At
    <2> QED
      BY <2>4, <2>5, <2>6, <2>7, <2>8
  <1>7. /\ operators' \in [Keys -> Memory!OperatorRows \cup {None}] /\ operators'[k] = None
        /\ \A l \in Keys \ {k} : operators'[l] = operators[l]
    BY <1>4 DEF IdentityInv, IdentityTypes
  <1>8. \A l \in Keys : (InForce(l) => InForce(l)') /\ (Memory!Active(l)' => Memory!Active(l) /\ operators'[l] = operators[l])
    BY <1>4, <1>7, InForceStays DEF Memory!Active
  <1>9. \A l \in Keys : Gone(l) => Gone(l)'
    BY <1>4, <1>6 DEF Gone
  <1>10. IdentityTypes' /\ LinesCounted'
    BY <1>4, <1>5, <1>7 DEF IdentityInv, IdentityTypes, LinesCounted
  <1>11. Memory!OneActiveKey'
    BY <1>8 DEF IdentityInv, Memory!OneActiveKey
  <1>12. VerifiedByKey' /\ VerifiedInForce' /\ BoundIsLive'
    <2>1. \A m \in Hosts, l \in Keys : Standing(m, l) => Standing(m, l)'
      BY <1>4, <1>7, StandingStays
    <2> QED
      BY <1>4, <1>6, <1>8, <2>1 DEF IdentityInv, VerifiedByKey, VerifiedInForce, BoundIsLive
  <1>13. ForgettingKnows' /\ ForgottenKnows'
    BY <1>4, <1>6, <1>7, <1>9 DEF IdentityInv, ForgettingKnows, ForgottenKnows
  <1> QED
    BY <1>10, <1>11, <1>12, <1>13 DEF IdentityInv

LEMMA InsertKeeps ==
  ASSUME IdentityInv, NEW c \in Calls, Memory!InsertAnonymized(c)
  PROVE  IdentityInv'
  <1>1. call[c] \in Memory!IdentityCalls /\ call[c].pc = "insert" /\ Memory!Is(c, "insert")
    BY DEF Memory!InsertAnonymized, Memory!Is, IdentityInv, IdentityTypes
  <1>2. PICK k \in Keys : k = call[c].key
    BY <1>1, IdentityCallKinds
  <1>3. forgotten' = forgotten \cup {k} /\ Memory!Goes(c, None) /\ UNCHANGED <<operators, records, lines, overtaken, late>>
    BY <1>2 DEF Memory!InsertAnonymized
  <1>4. /\ call' \in [Calls -> Memory!IdentityCalls \cup {None}]
        /\ call'[c] = None /\ \A d \in Calls \ {c} : call'[d] = call[d]
    BY <1>3, OtherCallsStay DEF IdentityInv, IdentityTypes
  <1>5. /\ \A l : (Memory!Binding(l)' <=> Memory!Binding(l)) /\ (Ending(l)' <=> Ending(l))
        /\ \A l : (At("remove", l)' => At("remove", l)) /\ (At("insert", l)' => At("insert", l))
        /\ At("insert", k)
    <2>1. \A d \in Calls \ {c} : \A p : Memory!Is(d, p)' <=> Memory!Is(d, p)
      BY <1>4 DEF Memory!Is
    <2>2. \A p : ~Memory!Is(c, p)'
      BY <1>4 DEF Memory!Is
    <2>3. \A p \in {"register", "operator", "rebind", "unverify"} : ~Memory!Is(c, p)
      BY <1>1 DEF Memory!Is
    <2>4. \A l : Memory!Binding(l)' <=> Memory!Binding(l)
      BY <1>4, <2>1, <2>2, <2>3 DEF Memory!Binding
    <2>5. \A l : Ending(l)' <=> Ending(l)
      BY <1>4, <2>1, <2>2, <2>3 DEF Ending
    <2>6. \A l : (At("remove", l)' => At("remove", l)) /\ (At("insert", l)' => At("insert", l))
      BY <1>4, <2>1, <2>2 DEF At
    <2>7. At("insert", k)
      BY <1>1, <1>2 DEF At
    <2> QED
      BY <2>4, <2>5, <2>6, <2>7
  <1>6. \A l \in Keys : (InForce(l) => InForce(l)') /\ (Gone(l) => Gone(l)')
    BY <1>3, <1>5, InForceStays DEF Gone
  <1>7. IdentityTypes' /\ LinesCounted' /\ Memory!OneActiveKey'
    BY <1>3, <1>4 DEF IdentityInv, IdentityTypes, LinesCounted, Memory!OneActiveKey, Memory!Active
  <1>8. VerifiedByKey' /\ VerifiedInForce' /\ BoundIsLive'
    <2>1. \A m \in Hosts, l \in Keys : Standing(m, l) => Standing(m, l)'
      BY <1>3, StandingStays
    <2> QED
      BY <1>3, <1>5, <1>6, <2>1 DEF IdentityInv, VerifiedByKey, VerifiedInForce, BoundIsLive
  <1>9. ForgettingKnows' /\ ForgottenKnows'
    BY <1>3, <1>5, <1>6 DEF IdentityInv, ForgettingKnows, ForgottenKnows
  <1> QED
    BY <1>7, <1>8, <1>9 DEF IdentityInv

LEMMA NamesKeep ==
  ASSUME IdentityInv, NEW k \in Keys, Memory!rename_operator(k) \/ Memory!accept_operator_governance(k)
  PROVE  IdentityInv'
  <1>1. operators[k] \in Memory!OperatorRows /\ operators[k] # None
    BY DEF IdentityInv, IdentityTypes, Memory!Active, Memory!rename_operator, Memory!accept_operator_governance
  <1>2. PICK row \in {[operators[k] EXCEPT !.named = TRUE], [operators[k] EXCEPT !.accepted = TRUE]} :
          operators' = [operators EXCEPT ![k] = row] /\ UNCHANGED <<call, records, lines, overtaken, late, forgotten>>
    BY DEF IdentityInv, IdentityTypes, Memory!rename_operator, Memory!accept_operator_governance
  <1>3. row \in Memory!OperatorRows /\ row.status = operators[k].status /\ row.line = operators[k].line
    BY <1>1, <1>2 DEF Memory!OperatorRows
  <1>4. row # None
    BY <1>3, RepositoryAssumption
  <1>5. IdentityTypes' /\ SameRows(operators', operators)
    BY <1>1, <1>2, <1>3, <1>4 DEF IdentityInv, IdentityTypes, SameRows
  <1> QED
    BY <1>2, <1>5, QuietStep

LEMMA DsrKeeps ==
  ASSUME IdentityInv, NEW c \in Calls, NEW k \in Keys, NEW a \in {"restrict", "anonymize"}, Memory!Dsr(c, k, a)
  PROVE  IdentityInv'
  <1> DEFINE x == [pc |-> "clear", key |-> k, action |-> a, row |-> None]
  <1>1. x \in Memory!IdentityCalls /\ x.pc = "clear"
    BY DEF Memory!IdentityCalls
  <1>2. call[c] = None /\ Memory!Goes(c, x) /\ UNCHANGED <<operators, records, lines, overtaken, late, forgotten>>
    BY DEF Memory!Dsr, Memory!identityVars
  <1> HIDE DEF x
  <1>3. /\ call' \in [Calls -> Memory!IdentityCalls \cup {None}]
        /\ call'[c] = x /\ \A d \in Calls \ {c} : call'[d] = call[d]
    BY <1>1, <1>2, OtherCallsStay DEF IdentityInv, IdentityTypes
  <1>4. IdentityTypes' /\ SameRows(operators', operators)
    BY <1>2, <1>3 DEF IdentityInv, IdentityTypes, SameRows
  <1>5. Quiet(call[c]) /\ Quiet(call'[c])
    BY <1>1, <1>2, <1>3 DEF Quiet
  <1> QED
    BY <1>2, <1>3, <1>4, <1>5, QuietStep

LEMMA ClearOperatorKeeps ==
  ASSUME IdentityInv, NEW c \in Calls, Memory!ClearOperator(c)
  PROVE  IdentityInv'
  <1>1. call[c] \in Memory!IdentityCalls /\ call[c].pc = "clear"
    BY DEF Memory!ClearOperator, Memory!Is, IdentityInv, IdentityTypes
  <1>2. PICK k \in Keys, a \in {"restrict", "anonymize"} : call[c] = [pc |-> "clear", key |-> k, action |-> a, row |-> None]
    BY <1>1, IdentityCallKinds
  <1>3. PICK x \in Memory!IdentityCalls \cup {None} : Memory!Goes(c, x) /\ (x = None \/ x.pc = "nodes")
    <2>1. [call[c] EXCEPT !.pc = "nodes"] = [pc |-> "nodes", key |-> k, action |-> a, row |-> None]
      BY <1>2
    <2>2. [pc |-> "nodes", key |-> k, action |-> a, row |-> None] \in Memory!IdentityCalls
      BY DEF Memory!IdentityCalls
    <2>3. Memory!Goes(c, None) \/ Memory!Goes(c, [call[c] EXCEPT !.pc = "nodes"])
      BY DEF Memory!ClearOperator
    <2> QED
      BY <2>1, <2>2, <2>3
  <1>4. operators' \in [Keys -> Memory!OperatorRows \cup {None}] /\ SameRows(operators', operators)
    <2>1. CASE operators[k] = None
      BY <1>2, <2>1 DEF Memory!ClearOperator, SameRows, IdentityInv, IdentityTypes
    <2>2. CASE operators[k] # None
      <3>1. operators[k] \in Memory!OperatorRows
        BY <2>2 DEF IdentityInv, IdentityTypes
      <3> DEFINE row == [operators[k] EXCEPT !.named = FALSE, !.accepted = FALSE]
      <3>2. row \in Memory!OperatorRows /\ row.status = operators[k].status /\ row.line = operators[k].line
        BY <3>1 DEF Memory!OperatorRows
      <3>3. row # None
        BY <3>2, RepositoryAssumption
      <3>4. operators' = [operators EXCEPT ![k] = row]
        <4>1. operators' = [operators EXCEPT ![k].named = FALSE, ![k].accepted = FALSE]
          <5>1. call[c].key = k
            BY <1>2
          <5> QED
            BY <2>2, <5>1 DEF Memory!ClearOperator
        <4> QED
          BY <4>1 DEF IdentityInv, IdentityTypes
      <3> HIDE DEF row
      <3> QED
        BY <2>2, <3>2, <3>3, <3>4 DEF SameRows, IdentityInv, IdentityTypes
    <2> QED
      BY <2>1, <2>2
  <1>5. /\ call' \in [Calls -> Memory!IdentityCalls \cup {None}]
        /\ call'[c] = x /\ \A d \in Calls \ {c} : call'[d] = call[d]
    BY <1>3, OtherCallsStay DEF IdentityInv, IdentityTypes
  <1>6. UNCHANGED <<records, lines, overtaken, late, forgotten>>
    BY DEF Memory!ClearOperator
  <1>7. IdentityTypes'
    BY <1>4, <1>5, <1>6 DEF IdentityInv, IdentityTypes
  <1>8. Quiet(call[c]) /\ Quiet(call'[c])
    BY <1>1, <1>3, <1>5 DEF Quiet
  <1> QED
    BY <1>4, <1>5, <1>6, <1>7, <1>8, QuietStep

LEMMA IdentityKept == IdentityInv /\ Memory!IdentityNext => IdentityInv'
  BY CheckKeeps, RegisterKeeps, DeregisterKeeps, UpsertKeeps, NamesKeep, RotateIdentityKeeps, RebindKeeps, RevokeIdentityKeeps, UnverifyKeeps,
     DsrKeeps, ClearOperatorKeeps, ClearNodesKeeps, RemoveKeeps, InsertKeeps
  DEF Memory!IdentityNext

\* The three parts share the calls only: what a behaviour that exercises one of them leaves
\* of the tables of the others.
IdleIdentity == operators = [k \in Keys |-> None] /\ records = [n \in Hosts |-> None] /\ lines = 0 /\ forgotten = {}
IdleReplicas ==
  /\ copies = {} /\ tombs = {} /\ hashes = [r \in Dids |-> None] /\ held = [l \in Memory!Locks |-> None]
  /\ events = <<>> /\ minted = 0 /\ doomed = {}
IdleBeats == node = None /\ sentChallenges = 0 /\ sent = 0 /\ solved = [i \in 1..MaxBatches |-> 0]

LEMMA IdleIdentityIsSafe ==
  IdleIdentity => /\ \A k \in Keys : operators[k] = None
                  /\ \A n \in Hosts : records[n] = None
                  /\ lines \in 0..MaxLines
                  /\ Memory!NotVerifiedByEnded /\ Memory!OneActiveKey /\ Memory!ForgottenIsGone
  BY RepositoryAssumption
  DEF IdleIdentity, Memory!NotVerifiedByEnded, Memory!OneActiveKey, Memory!ForgottenIsGone, Memory!Active
LEMMA IdleReplicasAreSafe ==
  IdleReplicas => /\ minted \in 0..MaxTokens /\ copies \subseteq Dids /\ tombs \subseteq copies
                  /\ hashes \in [Dids -> 1..MaxTokens \cup {None}] /\ held \in [Memory!Locks -> Calls \cup {None}]
                  /\ events \in Seq(RepoEvents) /\ Len(events) \in 0..MaxEvents
                  /\ Memory!DoomedStayDoomed /\ Memory!LogTellsReplicas /\ Memory!DeadlockOnlyByListing
  <1> SUFFICES ASSUME IdleReplicas
               PROVE  /\ minted \in 0..MaxTokens /\ copies \subseteq Dids /\ tombs \subseteq copies
                      /\ hashes \in [Dids -> 1..MaxTokens \cup {None}] /\ held \in [Memory!Locks -> Calls \cup {None}]
                      /\ events \in Seq(RepoEvents) /\ Len(events) \in 0..MaxEvents
                      /\ Memory!DoomedStayDoomed /\ Memory!LogTellsReplicas /\ Memory!DeadlockOnlyByListing
    OBVIOUS
  <1>1. events \in Seq(RepoEvents) /\ Len(events) = 0
    BY DEF IdleReplicas
  <1>2. \A c \in Calls : ~Memory!Waits(c)
    BY DEF IdleReplicas, Memory!Waits, Memory!Free, Memory!Locks
  <1> QED
    BY <1>1, <1>2, RepositoryAssumption
    DEF IdleReplicas, Memory!DoomedStayDoomed, Memory!LogTellsReplicas, Memory!DeadlockOnlyByListing
LEMMA IdleBeatsAreSafe ==
  IdleBeats => /\ node = None /\ sentChallenges \in 0..MaxBatches /\ sent \in 0..MaxBatches
               /\ Memory!AnsweredOnce /\ Memory!BatchCountedOnce
  BY RepositoryAssumption DEF IdleBeats, Memory!AnsweredOnce, Memory!BatchCountedOnce

\* However calls of the in-memory repository interleave between their mutexes, and handlers
\* between their calls: an identity that has ended verifies only nodes that a call which
\* had found it in force bound to it afterwards, has one active key, and is gone once
\* anonymized (unless overtaken); a decommissioned token is never accepted again and the
\* log tells which replicas are active; calls wait for each other for ever only through a
\* listing and a registration; a challenge and a batch count once (InMemoryRepo).
THEOREM RepositoryIsSafe == MCSpec => []MemorySafe
  <1> DEFINE Inv == /\ focus = "identity" => IdentityInv /\ IdleReplicas /\ IdleBeats
                    /\ focus = "replicas" => RepoReplicaInv /\ LogKnown /\ IdleIdentity /\ IdleBeats
                    /\ focus = "beats" => BeatInv /\ IdleIdentity /\ IdleReplicas
  <1>1. MCInit => Inv
    <2>1. Memory!Init => BeatInv
      BY RepositoryAssumption DEF Memory!Init, BeatInv
    <2>2. Memory!Init => IdleIdentity /\ IdleReplicas /\ IdleBeats
      BY DEF Memory!Init, IdleIdentity, IdleReplicas, IdleBeats
    <2> QED
      BY <2>1, <2>2, IdentityInitial, RepoReplicaInitial, LogInitial DEF MCInit
  <1>2. Inv /\ [MCNext]_all => Inv'
    <2> SUFFICES ASSUME Inv, [MCNext]_all PROVE Inv'
      OBVIOUS
    <2>0. focus' = focus
      BY DEF MCNext, all
    <2>1. UNCHANGED Memory!identityVars /\ IdleIdentity => IdleIdentity'
      BY DEF Memory!identityVars, IdleIdentity
    <2>2. UNCHANGED Memory!replicaVars /\ IdleReplicas => IdleReplicas'
      BY DEF Memory!replicaVars, IdleReplicas
    <2>3. UNCHANGED Memory!beatVars /\ IdleBeats => IdleBeats'
      BY DEF Memory!beatVars, IdleBeats
    <2>4. ASSUME UNCHANGED memoryVars PROVE Inv'
      <3>1. UNCHANGED <<Memory!identityVars, Memory!replicaVars, Memory!beatVars, call>>
        BY <2>4 DEF memoryVars, Memory!identityVars, Memory!replicaVars, Memory!beatVars
      <3>2. IdentityInv => IdentityInv'
        BY <2>4 DEF memoryVars, IdentityInv, IdentityTypes, LinesCounted, VerifiedByKey, VerifiedInForce, BoundIsLive, ForgettingKnows,
                    ForgottenKnows, Gone, InForce, Standing, Ending, At, Memory!OneActiveKey, Memory!Active, Memory!Binding, Memory!Is
      <3>3. RepoReplicaInv => RepoReplicaInv'
        BY <2>4 DEF memoryVars, RepoReplicaInv, TokensKnown, LocksKnown, Memory!Is
      <3>4. BeatInv => BeatInv'
        BY <2>4 DEF memoryVars, BeatInv
      <3>5. LogKnown => LogKnown'
        BY <2>4 DEF memoryVars, LogKnown, Logged, Placed, Memory!LastEvent, Memory!About
      <3> QED
        BY <2>0, <2>1, <2>2, <2>3, <3>1, <3>2, <3>3, <3>4, <3>5
    <2>5. \/ UNCHANGED memoryVars
          \/ focus = "identity" /\ Memory!IdentityNext
          \/ focus = "replicas" /\ Memory!ReplicaNext
          \/ focus = "beats" /\ Memory!BeatNext
      BY DEF MCNext, all
    <2>6. Memory!IdentityNext => UNCHANGED <<Memory!replicaVars, Memory!beatVars>>
      BY DEF Memory!IdentityNext, Memory!CheckIdentity, Memory!Register, Memory!Deregister, Memory!upsert_operator, Memory!rename_operator,
             Memory!accept_operator_governance, Memory!Rotate, Memory!Rebind, Memory!Revoke, Memory!Unverify, Memory!Dsr,
             Memory!ClearOperator, Memory!ClearNodes, Memory!RemoveOperator, Memory!InsertAnonymized
    <2>7. Memory!ReplicaNext => UNCHANGED <<Memory!identityVars, Memory!beatVars>>
      BY DEF Memory!ReplicaNext, Memory!GoesOn, Memory!UpsertRow, Memory!Untomb, Memory!CheckRow, Memory!SetHash, Memory!Decommission,
             Memory!RemoveHash, Memory!Tombstone, Memory!AppendEvent, Memory!List, Memory!ListRows, Memory!LookForRow, Memory!LookForTomb
    <2>8. Memory!BeatNext => UNCHANGED <<Memory!identityVars, Memory!replicaVars>>
      BY DEF Memory!BeatNext, Memory!Withdraw, Memory!Enroll, Memory!Heartbeat, Memory!RotateChallenge, Memory!ReadKey
    <2> QED
      BY <2>0, <2>1, <2>2, <2>3, <2>4, <2>5, <2>6, <2>7, <2>8, IdentityKept, RepoReplicaKept, LogKept, BeatKept
  <1>3. Inv => MemorySafe
    <2> SUFFICES ASSUME Inv PROVE MemorySafe
      OBVIOUS
    <2>1. ASSUME focus = "identity" PROVE Memory!Safety
      <3>1. IdentityInv /\ IdleReplicas /\ IdleBeats
        BY <2>1
      <3>2. Memory!NotVerifiedByEnded /\ Memory!OneActiveKey
        BY <3>1 DEF IdentityInv, VerifiedByKey, VerifiedInForce, Standing, Ending, Memory!Ended, Memory!NotVerifiedByEnded
      <3>3. Memory!ForgottenIsGone
        BY <3>1 DEF IdentityInv, IdentityTypes, ForgottenKnows, Gone, Memory!ForgottenIsGone
      <3>4. Memory!TypeOK
        BY <3>1, IdleReplicasAreSafe, IdleBeatsAreSafe DEF IdentityInv, IdentityTypes, RepoEvents, Memory!TypeOK
      <3> QED
        BY <3>1, <3>2, <3>3, <3>4, IdleReplicasAreSafe, IdleBeatsAreSafe DEF Memory!Safety
    <2>2. ASSUME focus = "replicas" PROVE Memory!Safety
      <3>1. RepoReplicaInv /\ LogKnown /\ IdleIdentity /\ IdleBeats
        BY <2>2
      <3>2. Memory!LogTellsReplicas
        BY <3>1 DEF LogKnown, Logged, Memory!About, Memory!LogTellsReplicas
      <3>3. Memory!TypeOK
        BY <3>1, IdleIdentityIsSafe, IdleBeatsAreSafe DEF RepoReplicaInv, TokensKnown, LocksKnown, LogKnown, RepoEvents, Memory!TypeOK
      <3> QED
        BY <3>1, <3>2, <3>3, IdleIdentityIsSafe, IdleBeatsAreSafe, NotAllWait DEF Memory!Safety
    <2>3. ASSUME focus = "beats" PROVE Memory!Safety
      <3>1. BeatInv /\ IdleIdentity /\ IdleReplicas
        BY <2>3
      <3>2. Memory!AnsweredOnce /\ Memory!BatchCountedOnce
        BY <3>1 DEF BeatInv, Memory!AnsweredOnce, Memory!BatchCountedOnce
      <3>3. node # None => node \in [key : Memory!HmacKeys, tasks : 0..MaxBatches]
        BY <3>1, RepositoryAssumption DEF BeatInv
      <3>4. Memory!TypeOK
        BY <3>1, <3>3, IdleIdentityIsSafe, IdleReplicasAreSafe DEF BeatInv, RepoEvents, Memory!TypeOK
      <3> QED
        BY <3>1, <3>2, <3>4, IdleIdentityIsSafe, IdleReplicasAreSafe DEF Memory!Safety
    <2> QED
      BY <2>1, <2>2, <2>3 DEF MemorySafe
  <1> QED
    BY <1>1, <1>2, <1>3, PTL DEF MCSpec
============================================================================
