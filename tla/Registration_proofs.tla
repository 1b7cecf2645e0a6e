------------------------ MODULE Registration_proofs ------------------------
(***************************************************************************)
(* Registrations and self-service requests keep identities consistent, and *)
(* nodes are taken over only with proof, for every set of keys, nodes and  *)
(* requests that overlap.                                                  *)
(*                                                                         *)
(* What a request has checked is true until it acts, unless the key or the *)
(* name was disturbed meanwhile: the invariant says so of every request,   *)
(* and the tables follow.                                                  *)
(***************************************************************************)
EXTENDS Registration, FiniteSetTheorems, TLAPS

Checked == {"name", "persist", "upsert", "write"}   \* the key was looked up
Writing == {"upsert", "write"}                      \* the node is persisted, its operator not yet

ActiveIn(k, ops) == ops[k] # None /\ ops[k].status = "active"

\* What a registration x may rely on.
HandlerSound(x, ops, policy, unsure, shared) ==
  /\ x.pc \in Checked /\ x.ask.key # None /\ x.ask.key \notin unsure => ops[x.ask.key] = None \/ ActiveIn(x.ask.key, ops)
  /\ x.pc = "write" /\ x.found /\ x.ask.key \notin unsure => ops[x.ask.key] # None
  /\ x.pc \in Checked \cup {"existing", "decide", "identity"} /\ x.ask.manifest # None /\ x.ask.manifest \notin unsure =>
       policy[x.ask.manifest] = "none"
  /\ x.pc \in {"persist", "upsert", "write"} /\ x.ask.key # None /\ x.ask.name # None /\ x.ask.name \notin shared =>
       \A o \in Keys \ {x.ask.key} : ActiveIn(o, ops) => ops[o].name # x.ask.name
  /\ x.pc \in Writing => x.ask.key # None
  /\ x.pc = "upsert" => ~x.found

\* What a self-service request y carries, and may rely on once it has looked.
DeskSound(y, ops, unsure) ==
  /\ y.pc = "rotate" => y.arg \in Keys \ {y.key}
  /\ y.pc \in {"export", "restrict", "anonymize", "dsr"} => y.arg \in Tracking
  /\ y.pc = "dsr" => y.kind \in {"restrict", "anonymize"}
  /\ y.pc \in Kinds => y.kind = y.pc
  /\ y.pc \in {"dsr", "rename"} /\ y.key \notin unsure => ActiveIn(y.key, ops)

\* What holds of the row of a node; writing are the keys of registrations that have yet to
\* write their operator.
NodeSound(row, ops, policy, unsure, writing) ==
  /\ row.verified =>
       /\ row.operator # None
       /\ \/ ops[row.operator] # None /\ ops[row.operator].status \in {"active", "restricted"}
          \/ row.operator \in unsure \cup writing
  /\ row.manifest # None /\ row.manifest = row.operator => policy[row.manifest] = "none" \/ row.manifest \in unsure

\* What holds of the row of a key.
KeySound(k, ops, policy, book, unsure, count) ==
  /\ ops[k] # None => ops[k].first_seen <= count
  /\ policy[k] # "none" /\ k \notin unsure => ops[k] # None /\ ops[k].status \in {"rotated", "revoked"}
  /\ ops[k] # None /\ ops[k].status = "restricted" =>
       /\ ops[k].name = None \/ k \in unsure
       /\ \E t \in Tracking : book[t] # None /\ book[t].key = k

\* What holds of two keys.
PairSound(k, o, ops, shared) ==
  ActiveIn(k, ops) /\ ActiveIn(o, ops) /\ k # o =>
    /\ ops[k].first_seen # ops[o].first_seen
    /\ ops[k].name # None => ops[k].name # ops[o].name \/ ops[k].name \in shared

Writers(rg) == {h \in Handlers : rg[h].pc \in Writing}
WritingKeys(rg) == {rg[h].ask.key : h \in Writers(rg)}

HandlersSound == \A h \in Handlers : HandlerSound(reg[h], operators, policyKey, disturbed, contended)
DesksSound == \A d \in Desks : DeskSound(desk[d], operators, disturbed)
NodesSound == \A n \in Nodes : nodes[n] # None => NodeSound(nodes[n], operators, policyKey, disturbed, WritingKeys(reg))
KeysSound == \A k \in Keys : KeySound(k, operators, policyKey, ledger, disturbed, lines)
PairsSound == \A k, o \in Keys : PairSound(k, o, operators, contended)
\* An operator row is written at most once for every registration that persisted.
LinesCounted == lines + Cardinality(Writers(reg)) <= tokens
\* Challenges are numbered in the order of issue; an open one was not used.
ChallengesFresh ==
  \A c \in 1..MaxChallenges : /\ spent[c] <= 1
                              /\ challenges[c] # None \/ c > issued => spent[c] = 0
                              /\ challenges[c] # None => c <= issued

IdentityInv ==
  /\ TypeOK /\ HandlersSound /\ DesksSound /\ NodesSound /\ KeysSound /\ PairsSound /\ LinesCounted /\ ChallengesFresh

\* An anonymized row, the only one without a token, has no endpoint and no operator.
ZeroIsAnonymous(row) == row.token = 0 => row.endpoint = None /\ row.operator = None
\* What a registration x knows of the row it read, if row is still of the same token.
StillRead(x, row) ==
  x.existing # None /\ row # None /\ x.existing.token = row.token =>
    x.existing.endpoint = row.endpoint /\ (x.existing.operator = None <=> row.operator = None)
\* What it was allowed to go on with.
Allowed(x) ==
  /\ x.pc \in {"policy", "existing"} => x.existing = None
  /\ x.pc \in {"identity", "name", "persist"} =>
       \/ x.own \/ x.existing = None
       \/ /\ x.ask.cx = None /\ (x.existing.endpoint = x.ask.endpoint \/ x.dead)
          /\ ~(StrictSecured /\ x.existing.operator # None)
RowSound(row, count) == row.token <= count /\ ZeroIsAnonymous(row)
\* A row that is not the one it read was written after it had read it.
Dated(x, row) ==
  \/ x.blind \/ row = None
  \/ row.token > x.since
  \/ row.token = 0 /\ (x.existing = None \/ x.existing.token # 0)
  \/ x.existing # None /\ x.existing.token = row.token
ClaimSound(x, rows, count) ==
  /\ x.since <= count /\ Dated(x, rows[x.ask.node])
  /\ x.existing # None => RowSound(x.existing, count)
  /\ StillRead(x, rows[x.ask.node])
  /\ Allowed(x)
OwnershipInv ==
  /\ \A n \in Nodes : nodes[n] # None => RowSound(nodes[n], tokens)
  /\ \A h \in Handlers : reg[h] # Idle => ClaimSound(reg[h], nodes, tokens)

---------------------------------------------------------------------------
(* Types *)

LEMMA RequestTypes ==
  ASSUME TypeOK, NEW h \in Handlers
  PROVE  /\ reg[h] = Idle => reg[h].pc = "idle"
         /\ reg[h] # Idle =>
              /\ reg[h] \in RegRequests /\ reg[h].pc \in Pcs /\ reg[h].ask \in AskRecords
              /\ reg[h].ask.node \in Nodes /\ reg[h].ask.key \in Keys \cup {None} /\ reg[h].ask.manifest \in Keys \cup {None}
              /\ reg[h].ask.name \in Names \cup {None}
  <1>1. reg[h] \in RegRequests \cup {Idle}
    BY DEF TypeOK
  <1>2. CASE reg[h] = Idle
    BY <1>2 DEF Idle
  <1>3. CASE reg[h] # Idle
    <2>1. reg[h] \in RegRequests /\ reg[h].pc \in Pcs /\ reg[h].ask \in AskRecords
      BY <1>1, <1>3 DEF RegRequests
    <2> QED
      BY <1>3, <2>1 DEF AskRecords
  <1> QED
    BY <1>2, <1>3

LEMMA DeskTypes ==
  ASSUME TypeOK, NEW d \in Desks
  PROVE  /\ desk[d] = Idle => desk[d].pc = "idle"
         /\ desk[d] # Idle => desk[d] \in DeskRequests /\ desk[d].key \in Keys
         /\ desk[d] # Idle /\ desk[d].pc = "rename" => desk[d].arg \in Names
         /\ desk[d] # Idle /\ desk[d].pc # "rename" =>
              desk[d] \in [pc : Kinds \cup {"dsr"}, kind : Kinds, key : Keys, arg : Keys \cup Tracking \cup {None}, subject : SUBSET Nodes]
  <1>1. desk[d] \in DeskRequests \cup {Idle}
    BY DEF TypeOK
  <1>2. CASE desk[d] = Idle
    BY <1>2 DEF Idle
  <1>3. CASE desk[d] \in [pc : {"rename"}, key : Keys, arg : Names]
    BY <1>3 DEF DeskRequests, Idle
  <1>4. CASE desk[d] \in [pc : Kinds \cup {"dsr"}, kind : Kinds, key : Keys, arg : Keys \cup Tracking \cup {None}, subject : SUBSET Nodes]
    BY <1>4 DEF DeskRequests, Kinds, Idle
  <1> QED
    BY <1>1, <1>2, <1>3, <1>4 DEF DeskRequests

LEMMA WritersCount ==
  ASSUME TypeOK
  PROVE  IsFiniteSet(Writers(reg)) /\ Cardinality(Writers(reg)) \in Nat
  <1>1. Writers(reg) \subseteq Handlers
    BY DEF Writers
  <1> QED
    BY <1>1, HandlersFinite, FS_Subset, FS_CardinalityType

---------------------------------------------------------------------------
(* Steps that move one request *)

\* What a request relies on is not lost when more keys or names are disturbed.
LEMMA SoundGrows ==
  ASSUME NEW ops, NEW policy, NEW unsure, NEW shared, NEW more, NEW wider, unsure \subseteq more, shared \subseteq wider
  PROVE  /\ \A x : HandlerSound(x, ops, policy, unsure, shared) => HandlerSound(x, ops, policy, more, wider)
         /\ \A y : DeskSound(y, ops, unsure) => DeskSound(y, ops, more)
         /\ \A k, book, count : KeySound(k, ops, policy, book, unsure, count) => KeySound(k, ops, policy, book, more, count)
         /\ \A k, o : PairSound(k, o, ops, shared) => PairSound(k, o, ops, wider)
         /\ \A row, writing, now : writing \subseteq now \cup more =>
              (NodeSound(row, ops, policy, unsure, writing) => NodeSound(row, ops, policy, more, now))
  <1>1. ASSUME NEW x, HandlerSound(x, ops, policy, unsure, shared) PROVE HandlerSound(x, ops, policy, more, wider)
    BY <1>1 DEF HandlerSound
  <1>2. ASSUME NEW y, DeskSound(y, ops, unsure) PROVE DeskSound(y, ops, more)
    BY <1>2 DEF DeskSound
  <1>3. ASSUME NEW k, NEW book, NEW count, KeySound(k, ops, policy, book, unsure, count)
        PROVE  KeySound(k, ops, policy, book, more, count)
    BY <1>3 DEF KeySound
  <1>4. ASSUME NEW k, NEW o, PairSound(k, o, ops, shared) PROVE PairSound(k, o, ops, wider)
    BY <1>4 DEF PairSound
  <1>5. ASSUME NEW row, NEW writing, NEW now, writing \subseteq now \cup more, NodeSound(row, ops, policy, unsure, writing)
        PROVE  NodeSound(row, ops, policy, more, now)
    BY <1>5 DEF NodeSound
  <1> QED
    BY <1>1, <1>2, <1>3, <1>4, <1>5

LEMMA RegMoves ==
  ASSUME IdentityInv, NEW h \in Handlers, NEW x \in RegRequests \cup {Idle}, reg' = [reg EXCEPT ![h] = x],
         UNCHANGED <<operators, nodes, policyKey, challenges, issued, ledger, desk, tokens, lines, spent>>,
         disturbed \subseteq disturbed', disturbed' \subseteq Keys, contended \subseteq contended', contended' \subseteq Names \cup {None},
         HandlerSound(x, operators, policyKey, disturbed', contended'),
         x.pc \in Writing => reg[h].pc \in Writing,
         reg[h].pc \in Writing => reg[h].ask.key \in disturbed' \/ (x.pc \in Writing /\ x.ask.key = reg[h].ask.key)
  PROVE  IdentityInv'
  <1>1. reg \in [Handlers -> RegRequests \cup {Idle}] /\ TypeOK
    BY DEF IdentityInv, TypeOK
  <1>2. \A g \in Handlers : reg'[g] = IF g = h THEN x ELSE reg[g]
    BY <1>1
  <1>3. TypeOK'
    BY <1>1 DEF TypeOK
  <1>4. HandlersSound'
    BY <1>2, SoundGrows DEF IdentityInv, HandlersSound
  <1>5. DesksSound'
    BY SoundGrows DEF IdentityInv, DesksSound
  <1>6. NodesSound'
    <2>1. WritingKeys(reg) \subseteq WritingKeys(reg') \cup disturbed'
      <3> SUFFICES ASSUME NEW g \in Handlers, reg[g].pc \in Writing
                   PROVE  reg[g].ask.key \in WritingKeys(reg') \cup disturbed'
        BY DEF WritingKeys, Writers
      <3>1. CASE g = h
        BY <3>1, <1>2 DEF WritingKeys, Writers
      <3>2. CASE g # h
        BY <3>2, <1>2 DEF WritingKeys, Writers
      <3> QED
        BY <3>1, <3>2
    <2> QED
      BY <2>1, SoundGrows DEF IdentityInv, NodesSound
  <1>7. KeysSound'
    BY SoundGrows DEF IdentityInv, KeysSound
  <1>8. PairsSound'
    BY SoundGrows DEF IdentityInv, PairsSound
  <1>9. LinesCounted'
    <2>1. Writers(reg') \subseteq Writers(reg)
      BY <1>2 DEF Writers
    <2>2. Cardinality(Writers(reg')) <= Cardinality(Writers(reg)) /\ Cardinality(Writers(reg)) \in Nat
      BY <1>1, <2>1, WritersCount, FS_Subset
    <2>3. Cardinality(Writers(reg')) \in Nat /\ lines \in Nat /\ tokens \in Nat
      <3>1. IsFiniteSet(Writers(reg'))
        BY <1>1, <2>1, WritersCount, FS_Subset
      <3>2. Cardinality(Writers(reg')) \in Nat
        BY <3>1, FS_CardinalityType
      <3>3. lines \in Nat /\ tokens \in Nat
        BY <1>1, IdentityConstants DEF TypeOK
      <3> QED
        BY <3>2, <3>3
    <2> QED
      BY <2>2, <2>3 DEF IdentityInv, LinesCounted
  <1>10. ChallengesFresh'
    BY DEF IdentityInv, ChallengesFresh
  <1> QED
    BY <1>3, <1>4, <1>5, <1>6, <1>7, <1>8, <1>9, <1>10 DEF IdentityInv

LEMMA DeskMoves ==
  ASSUME IdentityInv, NEW d \in Desks, NEW y \in DeskRequests \cup {Idle}, desk' = [desk EXCEPT ![d] = y],
         UNCHANGED <<operators, nodes, policyKey, ledger, reg, tokens, lines, disturbed, contended>>,
         DeskSound(y, operators, disturbed),
         challenges' \in [1..MaxChallenges -> Keys \cup {None}], issued' \in 0..MaxChallenges,
         spent' \in [1..MaxChallenges -> Nat], ChallengesFresh'
  PROVE  IdentityInv'
  <1>1. desk \in [Desks -> DeskRequests \cup {Idle}] /\ TypeOK
    BY DEF IdentityInv, TypeOK
  <1>2. \A e \in Desks : desk'[e] = IF e = d THEN y ELSE desk[e]
    BY <1>1
  <1>3. TypeOK'
    BY <1>1 DEF TypeOK
  <1>4. DesksSound'
    BY <1>2 DEF IdentityInv, DesksSound
  <1>5. HandlersSound' /\ NodesSound' /\ KeysSound' /\ PairsSound' /\ LinesCounted'
    BY DEF IdentityInv, HandlersSound, NodesSound, KeysSound, PairsSound, LinesCounted
  <1> QED
    BY <1>3, <1>4, <1>5 DEF IdentityInv

\* Requests of the self-service desk that change no table.
LEMMA DeskStepsKeep ==
  ASSUME IdentityInv,
         \/ \E k \in Keys : Challenge(k)
         \/ \E c \in 1..MaxChallenges : ForgetChallenge(c)
         \/ \E d \in Desks : \/ \E kind \in Kinds, k \in Keys, c \in 1..MaxChallenges, signed \in BOOLEAN :
                                  \E arg \in Arguments(kind, k) : Submit(d, kind, k, c, arg, signed)
                             \/ \E k \in Keys, name \in Names : StartRename(d, k, name)
                             \/ LoadSubject(d) \/ DeskFails(d)
  PROVE  IdentityInv'
  <1>0. /\ TypeOK /\ challenges \in [1..MaxChallenges -> Keys \cup {None}] /\ issued \in 0..MaxChallenges
        /\ spent \in [1..MaxChallenges -> Nat] /\ MaxChallenges \in Nat /\ desk \in [Desks -> DeskRequests \cup {Idle}]
    BY IdentityConstants DEF IdentityInv, TypeOK
  <1>1. ASSUME challenges' = challenges, issued' = issued, spent' = spent
        PROVE  /\ challenges' \in [1..MaxChallenges -> Keys \cup {None}] /\ issued' \in 0..MaxChallenges
               /\ spent' \in [1..MaxChallenges -> Nat] /\ ChallengesFresh'
    BY <1>0, <1>1 DEF IdentityInv, ChallengesFresh
  <1>2. DeskSound(Idle, operators, disturbed)
    BY DEF DeskSound, Idle, Kinds
  <1>3. ASSUME UNCHANGED <<operators, nodes, policyKey, ledger, desk, reg, tokens, lines, disturbed, contended>>,
               challenges' \in [1..MaxChallenges -> Keys \cup {None}], issued' \in 0..MaxChallenges,
               spent' \in [1..MaxChallenges -> Nat], ChallengesFresh'
        PROVE  IdentityInv'
    <2>1. TypeOK'
      BY <1>0, <1>3 DEF TypeOK
    <2>2. HandlersSound' /\ DesksSound' /\ NodesSound' /\ KeysSound' /\ PairsSound' /\ LinesCounted'
      BY <1>3 DEF IdentityInv, HandlersSound, DesksSound, NodesSound, KeysSound, PairsSound, LinesCounted
    <2> QED
      BY <1>3, <2>1, <2>2 DEF IdentityInv
  <1>4. ASSUME NEW k \in Keys, Challenge(k) PROVE IdentityInv'
    <2>1. /\ issued < MaxChallenges /\ issued' = issued + 1 /\ challenges' = [challenges EXCEPT ![issued + 1] = k] /\ spent' = spent
          /\ UNCHANGED <<operators, nodes, policyKey, ledger, desk, reg, tokens, lines, disturbed, contended>>
      BY <1>4 DEF Challenge, history
    <2>2. issued + 1 \in 1..MaxChallenges /\ issued' \in 0..MaxChallenges
      BY <1>0, <2>1
    <2>3. challenges' \in [1..MaxChallenges -> Keys \cup {None}]
      BY <1>0, <2>1
    <2>4. \A c \in 1..MaxChallenges : challenges'[c] = IF c = issued + 1 THEN k ELSE challenges[c]
      BY <1>0, <2>1
    <2>5. ChallengesFresh'
      <3> SUFFICES ASSUME NEW c \in 1..MaxChallenges
                   PROVE  /\ spent[c] <= 1
                          /\ challenges'[c] # None \/ c > issued + 1 => spent[c] = 0
                          /\ challenges'[c] # None => c <= issued + 1
        BY <2>1 DEF ChallengesFresh
      <3>1. /\ spent[c] <= 1
            /\ challenges[c] # None \/ c > issued => spent[c] = 0
            /\ challenges[c] # None => c <= issued
        BY DEF IdentityInv, ChallengesFresh
      <3> QED
        BY <1>0, <2>4, <3>1
    <2> QED
      BY <1>0, <1>3, <2>1, <2>2, <2>3, <2>5
  <1>5. ASSUME NEW c \in 1..MaxChallenges, ForgetChallenge(c) PROVE IdentityInv'
    <2>1. /\ challenges' = [challenges EXCEPT ![c] = None] /\ spent' = spent /\ issued' = issued
          /\ UNCHANGED <<operators, nodes, policyKey, ledger, desk, reg, tokens, lines, disturbed, contended>>
      BY <1>5 DEF ForgetChallenge, history
    <2>2. challenges' \in [1..MaxChallenges -> Keys \cup {None}]
      BY <1>0, <2>1
    <2>3. ChallengesFresh'
      BY <1>0, <2>1 DEF IdentityInv, ChallengesFresh
    <2> QED
      BY <1>0, <1>3, <2>1, <2>2, <2>3
  <1>6. ASSUME NEW d \in Desks, NEW kind \in Kinds, NEW k \in Keys, NEW c \in 1..MaxChallenges, NEW signed \in BOOLEAN,
               NEW arg \in Arguments(kind, k), Submit(d, kind, k, c, arg, signed)
        PROVE  IdentityInv'
    <2> DEFINE y == [pc |-> kind, kind |-> kind, key |-> k, arg |-> arg, subject |-> {}]
    <2>1. /\ challenges[c] = k /\ challenges' = [challenges EXCEPT ![c] = None] /\ issued' = issued
          /\ UNCHANGED <<operators, nodes, policyKey, ledger, reg, tokens, lines, disturbed, contended>>
          /\ desk' = (IF signed THEN [desk EXCEPT ![d] = y] ELSE desk)
          /\ spent' = (IF signed THEN [spent EXCEPT ![c] = @ + 1] ELSE spent)
      BY <1>6 DEF Submit, ConsumeChallenge
    <2>2. challenges' \in [1..MaxChallenges -> Keys \cup {None}] /\ spent' \in [1..MaxChallenges -> Nat]
      BY <1>0, <2>1
    <2>3. challenges[c] # None
      BY <2>1, IdentityConstants
    <2>4. ChallengesFresh'
      <3>1. \A b \in 1..MaxChallenges : challenges'[b] = IF b = c THEN None ELSE challenges[b]
        BY <1>0, <2>1
      <3>2. \A b \in 1..MaxChallenges : spent'[b] = IF b = c /\ signed THEN spent[b] + 1 ELSE spent[b]
        BY <1>0, <2>1
      <3>3. spent[c] = 0 /\ c <= issued
        BY <2>3 DEF IdentityInv, ChallengesFresh
      <3>4. ~(c > issued)
        BY <1>0, <3>3
      <3> SUFFICES ASSUME NEW b \in 1..MaxChallenges
                   PROVE  /\ spent'[b] <= 1
                          /\ challenges'[b] # None \/ b > issued => spent'[b] = 0
                          /\ challenges'[b] # None => b <= issued
        BY <2>1 DEF ChallengesFresh
      <3>5. CASE b = c
        BY <3>1, <3>2, <3>3, <3>4, <3>5
      <3>6. CASE b # c
        BY <3>1, <3>2, <3>6 DEF IdentityInv, ChallengesFresh
      <3> QED
        BY <3>5, <3>6
    <2>5. CASE signed
      <3>1. arg \in Keys \cup Tracking \cup {None}
        BY DEF Arguments
      <3>2. y \in DeskRequests
        BY <3>1 DEF DeskRequests
      <3>3. DeskSound(y, operators, disturbed)
        <4>1. kind = "rotate" => arg \in Keys \ {k}
          BY DEF Arguments
        <4>2. kind \in {"export", "restrict", "anonymize"} => arg \in Tracking
          BY DEF Arguments
        <4> QED
          BY <4>1, <4>2 DEF DeskSound, Kinds
      <3> HIDE DEF y
      <3> QED
        BY <1>0, <2>1, <2>2, <2>4, <2>5, <3>2, <3>3, DeskMoves
    <2>6. CASE ~signed
      BY <1>0, <1>3, <2>1, <2>2, <2>4, <2>6
    <2> QED
      BY <2>5, <2>6
  <1>7. ASSUME NEW d \in Desks, NEW k \in Keys, NEW name \in Names, StartRename(d, k, name) PROVE IdentityInv'
    <2> DEFINE y == [pc |-> "rename", key |-> k, arg |-> name]
    <2>1. /\ desk' = [desk EXCEPT ![d] = y] /\ Active(k) /\ challenges' = challenges /\ issued' = issued /\ spent' = spent
          /\ UNCHANGED <<operators, nodes, policyKey, ledger, reg, tokens, lines, disturbed, contended>>
      BY <1>7 DEF StartRename, history
    <2>2. y \in DeskRequests
      BY DEF DeskRequests
    <2>3. DeskSound(y, operators, disturbed)
      BY <2>1 DEF DeskSound, Active, ActiveIn, Kinds
    <2> HIDE DEF y
    <2> QED
      BY <1>1, <2>1, <2>2, <2>3, DeskMoves
  <1>8. ASSUME NEW d \in Desks, LoadSubject(d) PROVE IdentityInv'
    <2> DEFINE q == desk[d]
               z == [q EXCEPT !.pc = "dsr", !.subject = Of(q.key)]
               y == IF Active(q.key) /\ q.kind # "export" THEN z ELSE Idle
    <2>1. /\ q.pc \in {"export", "restrict", "anonymize"} /\ desk' = [desk EXCEPT ![d] = y]
          /\ challenges' = challenges /\ issued' = issued /\ spent' = spent
          /\ UNCHANGED <<operators, nodes, policyKey, ledger, reg, tokens, lines, disturbed, contended>>
      BY <1>8 DEF LoadSubject, history
    <2>2. q \in [pc : Kinds \cup {"dsr"}, kind : Kinds, key : Keys, arg : Keys \cup Tracking \cup {None}, subject : SUBSET Nodes]
      BY <1>0, <2>1, DeskTypes
    <2>3. Of(q.key) \in SUBSET Nodes
      BY DEF Of
    <2>4. z \in [pc : Kinds \cup {"dsr"}, kind : Kinds, key : Keys, arg : Keys \cup Tracking \cup {None}, subject : SUBSET Nodes]
      BY <2>2, <2>3
    <2>5. z.pc = "dsr" /\ z.kind = q.kind /\ z.key = q.key /\ z.arg = q.arg
      BY <2>2
    <2>6. DeskSound(q, operators, disturbed)
      BY DEF IdentityInv, DesksSound
    <2>7. q.arg \in Tracking /\ q.kind = q.pc
      BY <2>1, <2>6 DEF DeskSound, Kinds
    <2> HIDE DEF z
    <2>8. Active(q.key) /\ q.kind # "export" => DeskSound(z, operators, disturbed)
      BY <2>1, <2>5, <2>7 DEF DeskSound, Active, ActiveIn, Kinds
    <2>9. y \in DeskRequests \cup {Idle} /\ DeskSound(y, operators, disturbed)
      BY <1>2, <2>4, <2>8 DEF DeskRequests
    <2> HIDE DEF y
    <2> QED
      BY <1>1, <2>1, <2>9, DeskMoves
  <1>9. ASSUME NEW d \in Desks, DeskFails(d) PROVE IdentityInv'
    <2>1. /\ desk' = [desk EXCEPT ![d] = Idle]
          /\ challenges' = challenges /\ issued' = issued /\ spent' = spent
          /\ UNCHANGED <<operators, nodes, policyKey, ledger, reg, tokens, lines, disturbed, contended>>
      BY <1>9 DEF DeskFails, Finish, history
    <2> QED
      BY <1>1, <1>2, <2>1, DeskMoves
  <1> QED
    BY <1>4, <1>5, <1>6, <1>7, <1>8, <1>9

---------------------------------------------------------------------------
(* Steps of a registration that write no table *)

LEMMA GotoMoves ==
  ASSUME TypeOK, NEW h \in Handlers, reg[h] # Idle, NEW pc \in Pcs, Goto(h, pc)
  PROVE  \E x \in RegRequests : /\ reg' = [reg EXCEPT ![h] = x] /\ x.pc = pc /\ x.ask = reg[h].ask /\ x.found = reg[h].found
  <1>1. reg[h] \in RegRequests
    BY RequestTypes
  <1> DEFINE x == [reg[h] EXCEPT !.pc = pc]
  <1>2. x \in RegRequests /\ x.pc = pc /\ x.ask = reg[h].ask /\ x.found = reg[h].found
    BY <1>1 DEF RegRequests
  <1>3. reg' = [reg EXCEPT ![h] = x]
    BY DEF Goto
  <1> QED
    BY <1>2, <1>3

LEMMA RegistrationStepsKeep ==
  ASSUME IdentityInv, NEW h \in Handlers,
         \/ \E ask \in Asks, token \in 0..tokens : StartRegister(h, ask, token)
         \/ CheckPolicyKey(h) \/ ReadExisting(h) \/ DecideOwnership(h) \/ CheckIdentity(h)
         \/ CheckName(h) \/ LookUpOperator(h) \/ ReadFails(h) \/ RegistrationFails(h)
  PROVE  IdentityInv'
  <1> DEFINE q == reg[h]
  <1>0. /\ TypeOK /\ disturbed \subseteq Keys /\ contended \subseteq Names \cup {None} /\ HandlerSound(q, operators, policyKey, disturbed, contended)
        /\ nodes \in [Nodes -> NodeRows \cup {None}] /\ tokens \in 0..MaxTokens /\ 0 \in 0..MaxTokens
    BY IdentityConstants DEF IdentityInv, TypeOK, HandlersSound
  <1>1. \A p, o : HandlerSound(Idle, operators, policyKey, p, o) /\ Idle.pc \notin Writing /\ Idle \in RegRequests \cup {Idle}
    BY DEF HandlerSound, Idle, Checked, Writing
  <1>2. ASSUME UNCHANGED tables
        PROVE  /\ UNCHANGED <<operators, nodes, policyKey, challenges, issued, ledger, desk, tokens, lines, spent>>
               /\ disturbed' = disturbed /\ contended' = contended
    BY <1>2 DEF tables, rest
  <1>3. ASSUME End(h), UNCHANGED tables, q.pc \notin Writing PROVE IdentityInv'
    BY <1>0, <1>1, <1>2, <1>3, RegMoves DEF End
  <1>4. ASSUME NEW x \in RegRequests, reg' = [reg EXCEPT ![h] = x], UNCHANGED tables, x.pc \notin Writing, q.pc \notin Writing,
               HandlerSound(x, operators, policyKey, disturbed, contended)
        PROVE  IdentityInv'
    BY <1>0, <1>2, <1>4, RegMoves
  <1>5. q.pc # "idle" => q # Idle
    BY DEF Idle
  <1>6. ASSUME NEW ask \in Asks, NEW token \in 0..tokens, StartRegister(h, ask, token) PROVE IdentityInv'
    <2> DEFINE x == Asking("policy", ask, token)
    <2>1. token \in 0..MaxTokens /\ ask \in AskRecords
      BY <1>0, RegistrationConstants, IdentityConstants
    <2>2. x \in RegRequests /\ x.pc = "policy"
      BY <1>0, <2>1 DEF Asking, RegRequests, Pcs
    <2>3. q.pc = "idle" /\ reg' = [reg EXCEPT ![h] = x] /\ UNCHANGED tables
      BY <1>6 DEF StartRegister, Idle
    <2> HIDE DEF x
    <2>4. HandlerSound(x, operators, policyKey, disturbed, contended)
      BY <2>2 DEF HandlerSound, Checked, Writing
    <2> QED
      BY <1>4, <2>2, <2>3, <2>4 DEF Writing
  <1>7. ASSUME CheckPolicyKey(h) PROVE IdentityInv'
    <2>1. q.pc = "policy" /\ UNCHANGED tables /\ q # Idle
      BY <1>5, <1>7 DEF CheckPolicyKey
    <2>2. CASE End(h)
      BY <1>3, <2>1, <2>2 DEF Writing
    <2>3. CASE Goto(h, "existing") /\ (q.ask.manifest = None \/ policyKey[q.ask.manifest] = "none")
      <3>1. PICK x \in RegRequests : reg' = [reg EXCEPT ![h] = x] /\ x.pc = "existing" /\ x.ask = q.ask /\ x.found = q.found
        BY <1>0, <2>1, <2>3, GotoMoves DEF Pcs
      <3>2. HandlerSound(x, operators, policyKey, disturbed, contended)
        BY <2>3, <3>1 DEF HandlerSound, Checked, Writing
      <3> QED
        BY <1>4, <2>1, <3>1, <3>2 DEF Writing
    <2> QED
      BY <1>7, <2>2, <2>3 DEF CheckPolicyKey
  <1>8. ASSUME ReadExisting(h) PROVE IdentityInv'
    <2> DEFINE row == nodes[q.ask.node]
               x == [q EXCEPT !.existing = row, !.pc = IF row = None THEN "identity" ELSE "decide", !.token = IF row = None THEN 0 ELSE @,
                            !.since = tokens]
    <2>1. q.pc = "existing" /\ UNCHANGED tables /\ q # Idle /\ reg' = [reg EXCEPT ![h] = x]
      BY <1>5, <1>8 DEF ReadExisting
    <2>2. q \in RegRequests /\ row \in NodeRows \cup {None}
      BY <1>0, <2>1, RequestTypes
    <2>3. x \in RegRequests /\ x.pc \in {"identity", "decide"} /\ x.ask = q.ask
      <3>1. CASE row = None
        BY <1>0, <2>2, <3>1 DEF RegRequests, Pcs
      <3>2. CASE row # None
        BY <1>0, <2>2, <3>2 DEF RegRequests, Pcs
      <3> QED
        BY <3>1, <3>2
    <2> HIDE DEF x
    <2>4. HandlerSound(x, operators, policyKey, disturbed, contended)
      BY <1>0, <2>1, <2>3 DEF HandlerSound, Checked, Writing
    <2> QED
      BY <1>4, <2>1, <2>3, <2>4 DEF Writing
  <1>9. ASSUME DecideOwnership(h) PROVE IdentityInv'
    <2>1. q.pc = "decide" /\ UNCHANGED tables /\ q # Idle
      BY <1>5, <1>9 DEF DecideOwnership
    <2>2. CASE End(h)
      BY <1>3, <2>1, <2>2 DEF Writing
    <2>3. ASSUME NEW own, NEW dead, own \in BOOLEAN, dead \in BOOLEAN,
                 reg' = [reg EXCEPT ![h].pc = "identity", ![h].own = own, ![h].dead = dead, ![h].token = 0]
          PROVE  IdentityInv'
      <3> DEFINE x == [q EXCEPT !.pc = "identity", !.own = own, !.dead = dead, !.token = 0]
      <3>1. q \in RegRequests
        BY <1>0, <2>1, RequestTypes
      <3>2. x \in RegRequests /\ x.pc = "identity" /\ x.ask = q.ask
        BY <1>0, <2>3, <3>1 DEF RegRequests, Pcs
      <3>3. reg' = [reg EXCEPT ![h] = x]
        BY <2>3
      <3> HIDE DEF x
      <3>4. HandlerSound(x, operators, policyKey, disturbed, contended)
        BY <1>0, <2>1, <3>2 DEF HandlerSound, Checked, Writing
      <3> QED
        BY <1>4, <2>1, <3>2, <3>3, <3>4 DEF Writing
    <2> QED
      BY <1>9, <2>2, <2>3 DEF DecideOwnership, verify_node_token
  <1>10. ASSUME CheckIdentity(h) PROVE IdentityInv'
    <2>1. q.pc = "identity" /\ UNCHANGED tables /\ q # Idle
      BY <1>5, <1>10 DEF CheckIdentity
    <2>2. CASE End(h)
      BY <1>3, <2>1, <2>2 DEF Writing
    <2>3. CASE Goto(h, "name") /\ (q.ask.key = None \/ operators[q.ask.key] = None \/ Active(q.ask.key))
      <3>1. PICK x \in RegRequests : reg' = [reg EXCEPT ![h] = x] /\ x.pc = "name" /\ x.ask = q.ask /\ x.found = q.found
        BY <1>0, <2>1, <2>3, GotoMoves DEF Pcs
      <3>2. HandlerSound(x, operators, policyKey, disturbed, contended)
        BY <1>0, <2>1, <2>3, <3>1 DEF HandlerSound, Checked, Writing, Active, ActiveIn
      <3> QED
        BY <1>4, <2>1, <3>1, <3>2 DEF Writing
    <2> QED
      BY <1>10, <2>2, <2>3 DEF CheckIdentity
  <1>11. ASSUME CheckName(h) PROVE IdentityInv'
    <2>1. q.pc = "name" /\ UNCHANGED tables /\ q # Idle
      BY <1>5, <1>11 DEF CheckName
    <2>2. CASE End(h)
      BY <1>3, <2>1, <2>2 DEF Writing
    <2>3. CASE Goto(h, "persist") /\ ~(q.ask.key # None /\ q.ask.name # None /\ claimed_by_other(q.ask.key, q.ask.name))
      <3>1. PICK x \in RegRequests : reg' = [reg EXCEPT ![h] = x] /\ x.pc = "persist" /\ x.ask = q.ask /\ x.found = q.found
        BY <1>0, <2>1, <2>3, GotoMoves DEF Pcs
      <3>2. HandlerSound(x, operators, policyKey, disturbed, contended)
        BY <1>0, <2>1, <2>3, <3>1 DEF HandlerSound, Checked, Writing, claimed_by_other, Active, ActiveIn
      <3> QED
        BY <1>4, <2>1, <3>1, <3>2 DEF Writing
    <2> QED
      BY <1>11, <2>2, <2>3 DEF CheckName
  <1>12. ASSUME LookUpOperator(h) PROVE IdentityInv'
    <2> DEFINE x == [q EXCEPT !.pc = "write", !.found = operators[q.ask.key] # None]
    <2>1. q.pc = "upsert" /\ UNCHANGED tables /\ q # Idle /\ reg' = [reg EXCEPT ![h] = x]
      BY <1>5, <1>12 DEF LookUpOperator
    <2>2. q \in RegRequests
      BY <1>0, <2>1, RequestTypes
    <2>3. x \in RegRequests /\ x.pc = "write" /\ x.ask = q.ask /\ (x.found => operators[q.ask.key] # None)
      BY <2>2 DEF RegRequests, Pcs
    <2> HIDE DEF x
    <2>4. HandlerSound(x, operators, policyKey, disturbed, contended)
      BY <1>0, <2>1, <2>3 DEF HandlerSound, Checked, Writing
    <2> QED
      BY <1>0, <1>2, <2>1, <2>3, <2>4, RegMoves DEF Writing
  <1>13. ASSUME ReadFails(h) PROVE IdentityInv'
    <2>1. UNCHANGED <<operators, nodes, policyKey, challenges, issued, ledger, desk, tokens, lines, spent>>
      BY <1>13 DEF ReadFails, rest
    <2>2. CASE q.pc = "policy" /\ q.ask.manifest # None /\ Goto(h, "existing")
               /\ disturbed' = disturbed \cup {q.ask.manifest} /\ UNCHANGED contended
      <3>1. PICK x \in RegRequests : reg' = [reg EXCEPT ![h] = x] /\ x.pc = "existing" /\ x.ask = q.ask /\ x.found = q.found
        BY <1>0, <1>5, <2>2, GotoMoves DEF Pcs
      <3>2. disturbed' \subseteq Keys /\ q.ask.manifest \in disturbed'
        BY <1>0, <1>5, <2>2, RequestTypes
      <3>3. HandlerSound(x, operators, policyKey, disturbed', contended')
        BY <3>1, <3>2 DEF HandlerSound, Checked, Writing
      <3> QED
        BY <1>0, <2>1, <2>2, <3>1, <3>2, <3>3, RegMoves DEF Writing
    <2>3. CASE q.pc = "existing" /\ reg' = [reg EXCEPT ![h].pc = "identity", ![h].token = 0, ![h].blind = TRUE] /\ UNCHANGED <<disturbed, contended>>
      <3> DEFINE x == [q EXCEPT !.pc = "identity", !.token = 0, !.blind = TRUE]
      <3>1. q \in RegRequests
        BY <1>0, <1>5, <2>3, RequestTypes
      <3>2. x \in RegRequests /\ x.pc = "identity" /\ x.ask = q.ask
        BY <1>0, <3>1 DEF RegRequests, Pcs
      <3>3. reg' = [reg EXCEPT ![h] = x]
        BY <2>3
      <3> HIDE DEF x
      <3>4. HandlerSound(x, operators, policyKey, disturbed', contended')
        BY <1>0, <2>3, <3>2 DEF HandlerSound, Checked, Writing
      <3> QED
        BY <1>0, <2>1, <2>3, <3>2, <3>3, <3>4, RegMoves DEF Writing
    <2>4. CASE q.pc = "identity" /\ q.ask.key # None /\ Goto(h, "name")
               /\ disturbed' = disturbed \cup {q.ask.key} /\ UNCHANGED contended
      <3>1. PICK x \in RegRequests : reg' = [reg EXCEPT ![h] = x] /\ x.pc = "name" /\ x.ask = q.ask /\ x.found = q.found
        BY <1>0, <1>5, <2>4, GotoMoves DEF Pcs
      <3>2. disturbed' \subseteq Keys /\ q.ask.key \in disturbed'
        BY <1>0, <1>5, <2>4, RequestTypes
      <3>3. HandlerSound(x, operators, policyKey, disturbed', contended')
        BY <1>0, <2>4, <3>1, <3>2 DEF HandlerSound, Checked, Writing
      <3> QED
        BY <1>0, <2>1, <2>4, <3>1, <3>2, <3>3, RegMoves DEF Writing
    <2>5. CASE q.pc = "name" /\ q.ask.key # None /\ q.ask.name # None /\ Goto(h, "persist")
               /\ contended' = contended \cup {q.ask.name} /\ UNCHANGED disturbed
      <3>1. PICK x \in RegRequests : reg' = [reg EXCEPT ![h] = x] /\ x.pc = "persist" /\ x.ask = q.ask /\ x.found = q.found
        BY <1>0, <1>5, <2>5, GotoMoves DEF Pcs
      <3>2. contended' \subseteq Names \cup {None} /\ q.ask.name \in contended'
        BY <1>0, <1>5, <2>5, RequestTypes
      <3>3. HandlerSound(x, operators, policyKey, disturbed', contended')
        BY <1>0, <2>5, <3>1, <3>2 DEF HandlerSound, Checked, Writing
      <3> QED
        BY <1>0, <2>1, <2>5, <3>1, <3>2, <3>3, RegMoves DEF Writing
    <2>6. CASE q.pc = "upsert" /\ reg' = [reg EXCEPT ![h].pc = "write"] /\ UNCHANGED <<disturbed, contended>>
      <3>1. PICK x \in RegRequests : reg' = [reg EXCEPT ![h] = x] /\ x.pc = "write" /\ x.ask = q.ask /\ x.found = q.found
        BY <1>0, <1>5, <2>6, GotoMoves DEF Pcs, Goto
      <3>2. HandlerSound(x, operators, policyKey, disturbed', contended')
        BY <1>0, <2>6, <3>1 DEF HandlerSound, Checked, Writing
      <3> QED
        BY <1>0, <2>1, <2>6, <3>1, <3>2, RegMoves DEF Writing
    <2> QED
      BY <1>13, <2>2, <2>3, <2>4, <2>5, <2>6 DEF ReadFails
  <1>14. ASSUME RegistrationFails(h) PROVE IdentityInv'
    <2>1. /\ q # Idle /\ reg' = [reg EXCEPT ![h] = Idle] /\ contended' = contended
          /\ UNCHANGED <<operators, nodes, policyKey, challenges, issued, ledger, desk, tokens, lines, spent>>
          /\ disturbed' = (IF q.pc \in Writing THEN disturbed \cup {q.ask.key} ELSE disturbed)
      BY <1>14 DEF RegistrationFails, End, rest, Writing
    <2>2. q.pc \in Writing => q.ask.key \in Keys
      <3>1. q.ask.key \in Keys \cup {None}
        BY <1>0, <2>1, RequestTypes
      <3> QED
        BY <1>0, <3>1 DEF HandlerSound
    <2> QED
      BY <1>0, <1>1, <2>1, <2>2, RegMoves
  <1> QED
    BY <1>6, <1>7, <1>8, <1>9, <1>10, <1>11, <1>12, <1>13, <1>14

---------------------------------------------------------------------------
(* Self-service requests that write the tables *)

LEMMA RowTypes ==
  ASSUME TypeOK
  PROVE  /\ \A k \in Keys : operators[k] # None =>
              /\ operators[k] \in Operators /\ operators[k].status \in Statuses
              /\ operators[k].name \in Names \cup {None} /\ operators[k].first_seen \in 1..MaxTokens
         /\ \A n \in Nodes : nodes[n] # None =>
              nodes[n] \in NodeRows /\ nodes[n].operator \in Keys \cup {None} /\ nodes[n].manifest \in Keys \cup {None}
  BY DEF TypeOK, Operators, NodeRows

\* A request that relies on a key that ends is recorded.
LEMMA OvertakeMarks ==
  ASSUME TypeOK, NEW k \in Keys, NEW d \in Desks, Overtake(k, d)
  PROVE  /\ disturbed \subseteq disturbed' /\ disturbed' \subseteq disturbed \cup {k} /\ disturbed' \subseteq Keys
         /\ \A h \in Handlers : reg[h].pc \in Checked /\ reg[h].ask.key = k => k \in disturbed'
         /\ \A h \in Handlers : reg[h].pc \in Checked \cup {"existing", "decide", "identity"} /\ reg[h].ask.manifest = k => k \in disturbed'
         /\ \A e \in Desks : e # d /\ desk[e].pc \in {"dsr", "rename"} /\ desk[e].key = k => k \in disturbed'
  <1>1. disturbed \subseteq disturbed' /\ disturbed' \subseteq disturbed \cup {k} /\ disturbed' \subseteq Keys
    BY DEF Overtake, TypeOK
  <1>2. RegistrationRelies(k) \/ DeskRelies(k, d) => k \in disturbed'
    BY DEF Overtake
  <1>3. ASSUME NEW h \in Handlers, reg[h].pc \in Checked /\ reg[h].ask.key = k PROVE RegistrationRelies(k)
    BY <1>3 DEF RegistrationRelies, Checked
  <1>4. ASSUME NEW h \in Handlers, reg[h].pc \in Checked \cup {"existing", "decide", "identity"} /\ reg[h].ask.manifest = k
        PROVE  RegistrationRelies(k)
    BY <1>4 DEF RegistrationRelies, Checked
  <1>5. ASSUME NEW e \in Desks, e # d, desk[e].pc \in {"dsr", "rename"}, desk[e].key = k PROVE DeskRelies(k, d)
    BY <1>5 DEF DeskRelies
  <1> QED
    BY <1>1, <1>2, <1>3, <1>4, <1>5

\* Requests when request d ends key k: the other rows stay, or a new identity appears, and
\* a name that becomes active was active before or is contended for those who checked it.
LEMMA RequestsSurvive ==
  ASSUME IdentityInv, NEW k \in Keys, NEW d \in Desks, Overtake(k, d), Finish(d), reg' = reg, contended \subseteq contended',
         \A o \in Keys \ {k} : operators'[o] = operators[o] \/ (operators[o] = None /\ ActiveIn(o, operators')),
         \A o \in Keys \ {k} : policyKey'[o] = policyKey[o],
         \A h \in Handlers, o \in Keys :
            /\ reg[h].pc \in {"persist", "upsert", "write"} /\ o # reg[h].ask.key
            /\ ActiveIn(o, operators') /\ operators'[o].name = reg[h].ask.name
            => \/ reg[h].ask.name \in contended'
               \/ \E p \in Keys \ {reg[h].ask.key} : ActiveIn(p, operators) /\ operators[p].name = reg[h].ask.name
  PROVE  HandlersSound' /\ DesksSound'
  <1>0. TypeOK /\ desk \in [Desks -> DeskRequests \cup {Idle}]
    BY DEF IdentityInv, TypeOK
  <1>1. HandlersSound'
    <2> SUFFICES ASSUME NEW h \in Handlers
                 PROVE  HandlerSound(reg[h], operators', policyKey', disturbed', contended')
      BY DEF HandlersSound
    <2> DEFINE x == reg[h]
    <2>1. HandlerSound(x, operators, policyKey, disturbed, contended)
      BY DEF IdentityInv, HandlersSound
    <2>2. x # Idle => x.ask.key \in Keys \cup {None} /\ x.ask.manifest \in Keys \cup {None}
      BY <1>0, RequestTypes
    <2>3. x = Idle => x.pc \notin Pcs /\ x.pc \notin Checked /\ x.pc \notin Writing
      BY DEF Idle, Pcs, Checked, Writing
    <2>4. /\ disturbed \subseteq disturbed'
          /\ x.pc \in Checked /\ x.ask.key = k => k \in disturbed'
          /\ x.pc \in Checked \cup {"existing", "decide", "identity"} /\ x.ask.manifest = k => k \in disturbed'
      BY <1>0, OvertakeMarks
    <2>5. x.pc \in Checked /\ x.ask.key # None /\ x.ask.key \notin disturbed' => operators'[x.ask.key] = None \/ ActiveIn(x.ask.key, operators')
      BY <2>1, <2>2, <2>3, <2>4 DEF HandlerSound, ActiveIn
    <2>6. x.pc = "write" /\ x.found /\ x.ask.key \notin disturbed' => operators'[x.ask.key] # None
      BY <2>1, <2>2, <2>3, <2>4 DEF HandlerSound, ActiveIn, Checked, Writing
    <2>7. x.pc \in Checked \cup {"existing", "decide", "identity"} /\ x.ask.manifest # None /\ x.ask.manifest \notin disturbed' =>
            policyKey'[x.ask.manifest] = "none"
      BY <2>1, <2>2, <2>3, <2>4 DEF HandlerSound, Pcs, Idle
    <2>8. x.pc \in {"persist", "upsert", "write"} /\ x.ask.key # None /\ x.ask.name # None /\ x.ask.name \notin contended' =>
            \A o \in Keys \ {x.ask.key} : ActiveIn(o, operators') => operators'[o].name # x.ask.name
      BY <2>1 DEF HandlerSound
    <2> QED
      BY <2>1, <2>5, <2>6, <2>7, <2>8 DEF HandlerSound
  <1>2. DesksSound'
    <2> SUFFICES ASSUME NEW e \in Desks
                 PROVE  DeskSound(desk'[e], operators', disturbed')
      BY DEF DesksSound
    <2>1. CASE e = d
      <3>1. desk'[e] = Idle
        BY <1>0, <2>1 DEF Finish
      <3> QED
        BY <3>1 DEF DeskSound, Idle, Kinds
    <2>2. CASE e # d
      <3>1. desk'[e] = desk[e]
        BY <1>0, <2>2 DEF Finish
      <3>2. DeskSound(desk[e], operators, disturbed)
        BY DEF IdentityInv, DesksSound
      <3>3. disturbed \subseteq disturbed' /\ (desk[e].pc \in {"dsr", "rename"} /\ desk[e].key = k => k \in disturbed')
        BY <1>0, <2>2, OvertakeMarks
      <3>4. desk[e].pc \in {"dsr", "rename"} => desk[e].key \in Keys
        BY <1>0, DeskTypes
      <3>5. desk[e].pc \in {"dsr", "rename"} /\ desk[e].key \notin disturbed' => ActiveIn(desk[e].key, operators')
        BY <3>2, <3>3, <3>4 DEF DeskSound, ActiveIn
      <3> QED
        BY <3>1, <3>2, <3>5 DEF DeskSound
    <2> QED
      BY <2>1, <2>2
  <1> QED
    BY <1>1, <1>2

LEMMA RotateKeeps ==
  ASSUME IdentityInv, NEW d \in Desks, Rotate(d), Active(desk[d].key), SuccessorFree(desk[d].arg)
  PROVE  IdentityInv'
  <1>1. PICK k, s : k = desk[d].key /\ s = desk[d].arg
    OBVIOUS
  <1>2. TypeOK /\ DeskSound(desk[d], operators, disturbed) /\ desk[d].pc = "rotate" /\ desk[d] # Idle
    BY DEF IdentityInv, DesksSound, Rotate, Idle
  <1>3. k \in Keys /\ s \in Keys \ {k} /\ operators[k] # None /\ operators[k].status = "active" /\ operators[s] = None
    BY <1>1, <1>2, DeskTypes DEF DeskSound, Active, SuccessorFree
  <1>4. /\ RotateRows(k, s) /\ policyKey' = [policyKey EXCEPT ![k] = "superseded"] /\ Overtake(k, d)
        /\ contended' = contended \cup NameMoves(k) /\ Finish(d)
        /\ UNCHANGED <<challenges, issued, ledger, reg, tokens, lines, spent>>
    BY <1>1 DEF Rotate
  <1>5. /\ operators \in [Keys -> Operators \cup {None}] /\ nodes \in [Nodes -> NodeRows \cup {None}]
        /\ policyKey \in [Keys -> {"none", "superseded", "revoked"}] /\ desk \in [Desks -> DeskRequests \cup {Idle}]
        /\ contended \subseteq Names \cup {None}
    BY <1>2 DEF TypeOK
  <1> DEFINE new == [operators[k] EXCEPT !.accepted = FALSE]
             old == [operators[k] EXCEPT !.status = "rotated"]
  <1>6. operators[k] \in Operators /\ operators[k].name \in Names \cup {None}
    BY <1>2, <1>3, RowTypes
  <1>7. /\ new \in Operators /\ new.status = "active" /\ new.name = operators[k].name /\ new.first_seen = operators[k].first_seen
        /\ old \in Operators /\ old.status = "rotated" /\ old.first_seen = operators[k].first_seen
    BY <1>3, <1>6 DEF Operators, Statuses
  <1>8. new # None /\ old # None
    BY <1>7, NoneIsNoRow
  <1>9. operators' = [operators EXCEPT ![s] = new, ![k] = old]
    BY <1>4 DEF RotateRows
  <1> HIDE DEF new, old
  <1>10. /\ operators' \in [Keys -> Operators \cup {None}] /\ operators'[s] = new /\ operators'[k] = old
         /\ \A o \in Keys \ {k, s} : operators'[o] = operators[o]
    BY <1>3, <1>5, <1>7, <1>9
  <1>11. /\ policyKey' \in [Keys -> {"none", "superseded", "revoked"}] /\ policyKey'[k] = "superseded"
         /\ \A o \in Keys \ {k} : policyKey'[o] = policyKey[o]
    BY <1>3, <1>4, <1>5
  <1>12. disturbed \subseteq disturbed' /\ disturbed' \subseteq Keys
    BY <1>2, <1>3, <1>4, OvertakeMarks
  <1>13. /\ contended' \subseteq Names \cup {None} /\ contended \subseteq contended'
         /\ \A h \in Handlers : reg[h].pc \in {"persist", "upsert", "write"} /\ reg[h].ask.key = k /\ reg[h].ask.name = operators[k].name =>
              reg[h].ask.name \in contended'
    BY <1>4, <1>5, <1>6 DEF NameMoves
  <1>14. \A n \in Nodes : nodes'[n] = IF n \in Of(k) THEN [nodes[n] EXCEPT !.operator = s, !.verified = TRUE, !.manifest = None]
                                                  ELSE nodes[n]
    BY <1>4 DEF RotateRows
  <1>15. \A n \in Nodes : n \in Of(k) <=> nodes[n] # None /\ nodes[n].operator = k
    BY DEF Of
  <1>16. ASSUME NEW n \in Nodes, n \in Of(k)
         PROVE  /\ nodes'[n] \in NodeRows /\ nodes'[n].operator = s /\ nodes'[n].manifest = None
    <2>1. nodes[n] \in NodeRows
      BY <1>2, <1>15, <1>16, RowTypes
    <2>2. nodes'[n] = [nodes[n] EXCEPT !.operator = s, !.verified = TRUE, !.manifest = None]
      BY <1>14, <1>16
    <2> QED
      BY <1>3, <2>1, <2>2 DEF NodeRows
  <1>17. TypeOK'
    <2>1. nodes' \in [Nodes -> NodeRows \cup {None}]
      <3>1. nodes' = [n \in Nodes |-> nodes'[n]]
        BY <1>4 DEF RotateRows
      <3>2. \A n \in Nodes : nodes'[n] \in NodeRows \cup {None}
        BY <1>5, <1>14, <1>16
      <3> QED
        BY <3>1, <3>2
    <2>2. desk' \in [Desks -> DeskRequests \cup {Idle}]
      BY <1>4, <1>5 DEF Finish
    <2> QED
      BY <1>2, <1>4, <1>10, <1>11, <1>12, <1>13, <2>1, <2>2 DEF TypeOK
  <1>18. ActiveIn(s, operators') /\ ~ActiveIn(k, operators') /\ ActiveIn(k, operators) /\ ~ActiveIn(s, operators)
    BY <1>3, <1>7, <1>8, <1>10 DEF ActiveIn
  <1>19. \A o \in Keys \ {k, s} : ActiveIn(o, operators') <=> ActiveIn(o, operators)
    BY <1>10 DEF ActiveIn
  <1>20. HandlersSound' /\ DesksSound'
    <2>1. ASSUME NEW h \in Handlers, NEW o \in Keys, reg[h].pc \in {"persist", "upsert", "write"}, o # reg[h].ask.key,
                 ActiveIn(o, operators'), operators'[o].name = reg[h].ask.name
          PROVE  \/ reg[h].ask.name \in contended'
                 \/ \E p \in Keys \ {reg[h].ask.key} : ActiveIn(p, operators) /\ operators[p].name = reg[h].ask.name
      <3>1. CASE o = s
        BY <1>3, <1>7, <1>10, <1>13, <1>18, <2>1, <3>1
      <3>2. CASE o # s
        BY <1>10, <1>18, <1>19, <2>1, <3>2
      <3> QED
        BY <3>1, <3>2
    <2>2. \A o \in Keys \ {k} : operators'[o] = operators[o] \/ (operators[o] = None /\ ActiveIn(o, operators'))
      BY <1>3, <1>10, <1>18
    <2> QED
      BY <1>3, <1>4, <1>11, <1>13, <2>1, <2>2, RequestsSurvive
  <1>21. NodesSound'
    <2> SUFFICES ASSUME NEW n \in Nodes, nodes'[n] # None
                 PROVE  NodeSound(nodes'[n], operators', policyKey', disturbed', WritingKeys(reg))
      BY <1>4 DEF NodesSound
    <2>1. CASE n \in Of(k)
      BY <1>3, <1>16, <1>18, <2>1, IdentityConstants DEF NodeSound, ActiveIn
    <2>2. CASE n \notin Of(k)
      <3>1. nodes'[n] = nodes[n] /\ nodes[n] # None /\ nodes[n].operator # k /\ nodes[n].operator \in Keys \cup {None}
        BY <1>2, <1>14, <1>15, <2>2, RowTypes
      <3>2. NodeSound(nodes[n], operators, policyKey, disturbed, WritingKeys(reg))
        BY <3>1 DEF IdentityInv, NodesSound
      <3> QED
        BY <1>3, <1>10, <1>11, <1>12, <3>1, <3>2 DEF NodeSound
    <2> QED
      BY <2>1, <2>2
  <1>22. KeysSound'
    <2> SUFFICES ASSUME NEW o \in Keys PROVE KeySound(o, operators', policyKey', ledger, disturbed', lines)
      BY <1>4 DEF KeysSound
    <2>1. KeySound(o, operators, policyKey, ledger, disturbed, lines) /\ KeySound(k, operators, policyKey, ledger, disturbed, lines)
      BY <1>3 DEF IdentityInv, KeysSound
    <2>2. CASE o = k
      BY <1>3, <1>7, <1>8, <1>10, <2>1, <2>2 DEF KeySound
    <2>3. CASE o = s
      BY <1>3, <1>7, <1>8, <1>10, <1>11, <1>12, <2>1, <2>3 DEF KeySound
    <2>4. CASE o # s /\ o # k
      BY <1>10, <1>11, <1>12, <2>1, <2>4 DEF KeySound
    <2> QED
      BY <2>2, <2>3, <2>4
  <1>23. PairsSound'
    <2> SUFFICES ASSUME NEW o \in Keys, NEW p \in Keys, ActiveIn(o, operators'), ActiveIn(p, operators'), o # p
                 PROVE  /\ operators'[o].first_seen # operators'[p].first_seen
                        /\ operators'[o].name # None => operators'[o].name # operators'[p].name \/ operators'[o].name \in contended'
      BY DEF PairsSound, PairSound
    <2>1. o # k /\ p # k
      BY <1>18
    <2>2. \A a, b \in Keys : PairSound(a, b, operators, contended)
      BY DEF IdentityInv, PairsSound
    <2>3. CASE o = s
      <3>1. PairSound(k, p, operators, contended) /\ ActiveIn(p, operators) /\ operators'[p] = operators[p]
        BY <1>3, <1>10, <1>19, <2>1, <2>2, <2>3
      <3> QED
        BY <1>7, <1>10, <1>13, <1>18, <2>1, <2>3, <3>1 DEF PairSound
    <2>4. CASE p = s
      <3>1. PairSound(o, k, operators, contended) /\ ActiveIn(o, operators) /\ operators'[o] = operators[o]
        BY <1>3, <1>10, <1>19, <2>1, <2>2, <2>4
      <3> QED
        BY <1>7, <1>10, <1>13, <1>18, <2>1, <2>4, <3>1 DEF PairSound
    <2>5. CASE o # s /\ p # s
      BY <1>10, <1>13, <1>19, <2>1, <2>2, <2>5 DEF PairSound
    <2> QED
      BY <2>3, <2>4, <2>5
  <1>24. LinesCounted' /\ ChallengesFresh'
    BY <1>4 DEF IdentityInv, LinesCounted, ChallengesFresh
  <1> QED
    BY <1>17, <1>20, <1>21, <1>22, <1>23, <1>24 DEF IdentityInv

LEMMA RevokeKeeps ==
  ASSUME IdentityInv, NEW d \in Desks, Revoke(d), Active(desk[d].key)
  PROVE  IdentityInv'
  <1>1. PICK k : k = desk[d].key
    OBVIOUS
  <1>2. TypeOK /\ desk[d].pc = "revoke" /\ desk[d] # Idle
    BY DEF IdentityInv, Revoke, Idle
  <1>3. k \in Keys /\ operators[k] # None /\ operators[k].status = "active"
    BY <1>1, <1>2, DeskTypes DEF Active
  <1>4. /\ operators' = [operators EXCEPT ![k].status = "revoked"] /\ policyKey' = [policyKey EXCEPT ![k] = "revoked"]
        /\ nodes' = [n \in Nodes |-> IF n \in Of(k) THEN RevokedNode(nodes[n]) ELSE nodes[n]] /\ Overtake(k, d)
        /\ Finish(d) /\ UNCHANGED <<challenges, issued, ledger, reg, tokens, lines, spent, contended>>
    BY <1>1 DEF Revoke
  <1>5. /\ operators \in [Keys -> Operators \cup {None}] /\ nodes \in [Nodes -> NodeRows \cup {None}]
        /\ policyKey \in [Keys -> {"none", "superseded", "revoked"}] /\ desk \in [Desks -> DeskRequests \cup {Idle}]
    BY <1>2 DEF TypeOK
  <1> DEFINE old == [operators[k] EXCEPT !.status = "revoked"]
  <1>6. operators[k] \in Operators
    BY <1>2, <1>3, RowTypes
  <1>7. old \in Operators /\ old.status = "revoked" /\ old.first_seen = operators[k].first_seen
    BY <1>3, <1>6 DEF Operators, Statuses
  <1>8. old # None
    BY <1>7, NoneIsNoRow
  <1>9. operators' = [operators EXCEPT ![k] = old]
    BY <1>4
  <1> HIDE DEF old
  <1>10. /\ operators' \in [Keys -> Operators \cup {None}] /\ operators'[k] = old
         /\ \A o \in Keys \ {k} : operators'[o] = operators[o]
    BY <1>3, <1>5, <1>7, <1>9
  <1>11. /\ policyKey' \in [Keys -> {"none", "superseded", "revoked"}] /\ policyKey'[k] = "revoked"
         /\ \A o \in Keys \ {k} : policyKey'[o] = policyKey[o]
    BY <1>3, <1>4, <1>5
  <1>12. disturbed \subseteq disturbed' /\ disturbed' \subseteq Keys
    BY <1>2, <1>3, <1>4, OvertakeMarks
  <1>13. \A n \in Nodes : n \in Of(k) <=> nodes[n] # None /\ nodes[n].operator = k
    BY DEF Of
  <1>14. ASSUME NEW n \in Nodes, n \in Of(k)
         PROVE  nodes'[n] \in NodeRows /\ nodes'[n].verified = FALSE /\ nodes'[n].manifest = None
    <2>1. nodes[n] \in NodeRows
      BY <1>2, <1>13, <1>14, RowTypes
    <2> QED
      BY <1>4, <1>14, <2>1 DEF NodeRows, RevokedNode
  <1>15. TypeOK'
    <2>1. nodes' \in [Nodes -> NodeRows \cup {None}]
      <3>1. nodes' = [n \in Nodes |-> nodes'[n]]
        BY <1>4
      <3>2. \A n \in Nodes : nodes'[n] \in NodeRows \cup {None}
        BY <1>4, <1>5, <1>14
      <3> QED
        BY <3>1, <3>2
    <2>2. desk' \in [Desks -> DeskRequests \cup {Idle}]
      BY <1>4, <1>5 DEF Finish
    <2> QED
      BY <1>2, <1>4, <1>10, <1>11, <1>12, <2>1, <2>2 DEF TypeOK
  <1>16. ~ActiveIn(k, operators') /\ \A o \in Keys \ {k} : ActiveIn(o, operators') <=> ActiveIn(o, operators)
    BY <1>7, <1>10 DEF ActiveIn
  <1>17. HandlersSound' /\ DesksSound'
    BY <1>3, <1>4, <1>10, <1>11, <1>16, RequestsSurvive
  <1>18. NodesSound'
    <2> SUFFICES ASSUME NEW n \in Nodes, nodes'[n] # None
                 PROVE  NodeSound(nodes'[n], operators', policyKey', disturbed', WritingKeys(reg))
      BY <1>4 DEF NodesSound
    <2>1. CASE n \in Of(k)
      BY <1>14, <2>1 DEF NodeSound
    <2>2. CASE n \notin Of(k)
      <3>1. nodes'[n] = nodes[n] /\ nodes[n] # None /\ nodes[n].operator # k /\ nodes[n].operator \in Keys \cup {None}
        BY <1>2, <1>4, <1>13, <2>2, RowTypes
      <3>2. NodeSound(nodes[n], operators, policyKey, disturbed, WritingKeys(reg))
        BY <3>1 DEF IdentityInv, NodesSound
      <3> QED
        BY <1>10, <1>11, <1>12, <3>1, <3>2 DEF NodeSound
    <2> QED
      BY <2>1, <2>2
  <1>19. KeysSound'
    <2> SUFFICES ASSUME NEW o \in Keys PROVE KeySound(o, operators', policyKey', ledger, disturbed', lines)
      BY <1>4 DEF KeysSound
    <2>1. KeySound(o, operators, policyKey, ledger, disturbed, lines)
      BY DEF IdentityInv, KeysSound
    <2>2. CASE o = k
      BY <1>3, <1>7, <1>8, <1>10, <2>1, <2>2 DEF KeySound
    <2>3. CASE o # k
      BY <1>10, <1>11, <1>12, <2>1, <2>3 DEF KeySound
    <2> QED
      BY <2>2, <2>3
  <1>20. PairsSound'
    BY <1>4, <1>10, <1>16 DEF IdentityInv, PairsSound, PairSound
  <1>21. LinesCounted' /\ ChallengesFresh'
    BY <1>4 DEF IdentityInv, LinesCounted, ChallengesFresh
  <1> QED
    BY <1>15, <1>17, <1>18, <1>19, <1>20, <1>21 DEF IdentityInv

LEMMA MutateDsrKeeps ==
  ASSUME IdentityInv, NEW d \in Desks, MutateDsr(d), TrackingFree(desk[d].arg)
  PROVE  IdentityInv'
  <1>1. PICK k, t, kind, subject : k = desk[d].key /\ t = desk[d].arg /\ kind = desk[d].kind /\ subject = desk[d].subject
    OBVIOUS
  <1>2. TypeOK /\ DeskSound(desk[d], operators, disturbed) /\ desk[d].pc = "dsr" /\ desk[d] # Idle
    BY DEF IdentityInv, DesksSound, MutateDsr, Idle
  <1>3. /\ k \in Keys /\ t \in Tracking /\ kind \in {"restrict", "anonymize"} /\ ledger[t] = None /\ subject \in SUBSET Nodes
        /\ k \notin disturbed => ActiveIn(k, operators)
    BY <1>1, <1>2, DeskTypes DEF DeskSound, TrackingFree
  <1> DEFINE gone == IF operators[k] = None \/ kind = "anonymize" THEN None ELSE Restricted(operators[k])
  <1>4. /\ operators' = [operators EXCEPT ![k] = gone]
        /\ nodes' = [n \in Nodes |-> IF n \notin Of(k) THEN nodes[n]
                                     ELSE IF kind = "anonymize" THEN AnonymousNode(nodes[n]) ELSE HiddenNode(nodes[n])]
        /\ ledger' = [ledger EXCEPT ![t] = [key |-> k, action |-> kind, nodes |-> subject]] /\ Overtake(k, d)
        /\ Finish(d) /\ UNCHANGED <<policyKey, challenges, issued, reg, tokens, lines, spent, contended>>
    BY <1>1 DEF MutateDsr
  <1>5. /\ operators \in [Keys -> Operators \cup {None}] /\ nodes \in [Nodes -> NodeRows \cup {None}]
        /\ ledger \in [Tracking -> LedgerRows \cup {None}] /\ desk \in [Desks -> DeskRequests \cup {Idle}] /\ MaxTokens \in Nat
    BY <1>2, IdentityConstants DEF TypeOK
  <1>6. /\ gone \in Operators \cup {None}
        /\ gone # None => /\ operators[k] # None /\ kind = "restrict" /\ gone.status = "restricted" /\ gone.name = None
                          /\ gone.first_seen = operators[k].first_seen
        /\ kind = "restrict" /\ operators[k] # None => gone # None
    <2>1. CASE operators[k] = None \/ kind = "anonymize"
      BY <2>1, <1>3
    <2>2. CASE operators[k] # None /\ kind # "anonymize"
      <3>1. operators[k] \in Operators
        BY <1>2, <1>3, <2>2, RowTypes
      <3>2. /\ Restricted(operators[k]) \in Operators /\ Restricted(operators[k]).status = "restricted"
            /\ Restricted(operators[k]).name = None /\ Restricted(operators[k]).first_seen = operators[k].first_seen
        BY <3>1 DEF Operators, Statuses, Restricted
      <3> QED
        BY <1>3, <2>2, <3>2, NoneIsNoRow
    <2> QED
      BY <2>1, <2>2
  <1> HIDE DEF gone
  <1>7. /\ operators' \in [Keys -> Operators \cup {None}] /\ operators'[k] = gone
        /\ \A o \in Keys \ {k} : operators'[o] = operators[o]
    BY <1>3, <1>4, <1>5, <1>6
  <1>8. /\ ledger' \in [Tracking -> LedgerRows \cup {None}] /\ ledger'[t] # None /\ ledger'[t].key = k
        /\ \A u \in Tracking : ledger[u] # None => ledger'[u] = ledger[u]
    <2> DEFINE entry == [key |-> k, action |-> kind, nodes |-> subject]
    <2>1. entry \in LedgerRows /\ entry.key = k
      BY <1>3 DEF LedgerRows
    <2>2. entry # None
      BY <2>1, NoneIsNoRow
    <2> HIDE DEF entry
    <2>3. ledger' = [ledger EXCEPT ![t] = entry]
      BY <1>4 DEF entry
    <2> QED
      BY <1>3, <1>5, <2>1, <2>2, <2>3
  <1>9. disturbed \subseteq disturbed' /\ disturbed' \subseteq Keys
    BY <1>2, <1>3, <1>4, OvertakeMarks
  <1>10. \A n \in Nodes : n \in Of(k) <=> nodes[n] # None /\ nodes[n].operator = k
    BY DEF Of
  <1>11. ASSUME NEW n \in Nodes, n \in Of(k)
         PROVE  /\ nodes'[n] \in NodeRows
                /\ kind = "anonymize" => nodes'[n].verified = FALSE /\ nodes'[n].manifest = None
                /\ kind # "anonymize" => /\ nodes'[n].verified = nodes[n].verified /\ nodes'[n].operator = nodes[n].operator
                                         /\ nodes'[n].manifest = nodes[n].manifest
    <2>1. nodes[n] \in NodeRows /\ 0 \in 0..MaxTokens
      BY <1>2, <1>5, <1>10, <1>11, RowTypes
    <2>2. CASE kind = "anonymize"
      <3>1. nodes'[n] = AnonymousNode(nodes[n])
        BY <1>4, <1>11, <2>2
      <3> QED
        BY <2>1, <2>2, <3>1 DEF NodeRows, AnonymousNode
    <2>3. CASE kind # "anonymize"
      <3>1. nodes'[n] = HiddenNode(nodes[n])
        BY <1>4, <1>11, <2>3
      <3> QED
        BY <2>1, <2>3, <3>1 DEF NodeRows, HiddenNode
    <2> QED
      BY <2>2, <2>3
  <1>12. TypeOK'
    <2>1. nodes' \in [Nodes -> NodeRows \cup {None}]
      <3>1. nodes' = [n \in Nodes |-> nodes'[n]]
        BY <1>4
      <3>2. \A n \in Nodes : nodes'[n] \in NodeRows \cup {None}
        BY <1>4, <1>5, <1>11
      <3> QED
        BY <3>1, <3>2
    <2>2. desk' \in [Desks -> DeskRequests \cup {Idle}]
      BY <1>4, <1>5 DEF Finish
    <2> QED
      BY <1>2, <1>4, <1>7, <1>8, <1>9, <2>1, <2>2 DEF TypeOK
  <1>13. ~ActiveIn(k, operators') /\ \A o \in Keys \ {k} : ActiveIn(o, operators') <=> ActiveIn(o, operators)
    BY <1>6, <1>7 DEF ActiveIn
  <1>14. HandlersSound' /\ DesksSound'
    BY <1>3, <1>4, <1>7, <1>13, RequestsSurvive
  <1>15. NodesSound'
    <2> SUFFICES ASSUME NEW n \in Nodes, nodes'[n] # None
                 PROVE  NodeSound(nodes'[n], operators', policyKey, disturbed', WritingKeys(reg))
      BY <1>4 DEF NodesSound
    <2>1. CASE n \in Of(k) /\ kind = "anonymize"
      BY <1>11, <2>1 DEF NodeSound
    <2>2. CASE n \in Of(k) /\ kind # "anonymize"
      <3>1. NodeSound(nodes[n], operators, policyKey, disturbed, WritingKeys(reg)) /\ nodes[n].operator = k
        BY <1>10, <2>2 DEF IdentityInv, NodesSound
      <3>2. operators[k] # None => operators'[k] # None /\ operators'[k].status = "restricted"
        BY <1>3, <1>6, <1>7, <2>2
      <3> QED
        BY <1>9, <1>11, <2>2, <3>1, <3>2 DEF NodeSound
    <2>3. CASE n \notin Of(k)
      <3>1. nodes'[n] = nodes[n] /\ nodes[n] # None /\ nodes[n].operator # k /\ nodes[n].operator \in Keys \cup {None}
        BY <1>2, <1>4, <1>10, <2>3, RowTypes
      <3>2. NodeSound(nodes[n], operators, policyKey, disturbed, WritingKeys(reg))
        BY <3>1 DEF IdentityInv, NodesSound
      <3> QED
        BY <1>7, <1>9, <3>1, <3>2 DEF NodeSound
    <2> QED
      BY <2>1, <2>2, <2>3
  <1>16. KeysSound'
    <2> SUFFICES ASSUME NEW o \in Keys PROVE KeySound(o, operators', policyKey, ledger', disturbed', lines)
      BY <1>4 DEF KeysSound
    <2>1. KeySound(o, operators, policyKey, ledger, disturbed, lines)
      BY DEF IdentityInv, KeysSound
    <2>2. CASE o = k
      <3>1. k \notin disturbed' => policyKey[k] = "none"
        BY <1>3, <1>9, <2>1, <2>2 DEF KeySound, ActiveIn
      <3> QED
        BY <1>3, <1>6, <1>7, <1>8, <2>1, <2>2, <3>1 DEF KeySound
    <2>3. CASE o # k
      <3>1. operators'[o] = operators[o]
        BY <1>7, <2>3
      <3>2. (\E u \in Tracking : ledger[u] # None /\ ledger[u].key = o) => (\E u \in Tracking : ledger'[u] # None /\ ledger'[u].key = o)
        BY <1>8
      <3> QED
        BY <1>9, <2>1, <3>1, <3>2 DEF KeySound
    <2> QED
      BY <2>2, <2>3
  <1>17. PairsSound'
    BY <1>4, <1>7, <1>13 DEF IdentityInv, PairsSound, PairSound
  <1>18. LinesCounted' /\ ChallengesFresh'
    BY <1>4 DEF IdentityInv, LinesCounted, ChallengesFresh
  <1> QED
    BY <1>12, <1>14, <1>15, <1>16, <1>17, <1>18 DEF IdentityInv

\* A request that acted on nothing, and one that changes a row but not its status.
LEMMA DeskWritesKeep ==
  ASSUME IdentityInv, NEW d \in Desks, Rotate(d) \/ Revoke(d) \/ Accept(d) \/ MutateDsr(d) \/ Rename(d)
  PROVE  IdentityInv'
  <1>0. /\ TypeOK /\ operators \in [Keys -> Operators \cup {None}] /\ desk \in [Desks -> DeskRequests \cup {Idle}]
        /\ contended \subseteq Names \cup {None} /\ DeskSound(desk[d], operators, disturbed)
    BY DEF IdentityInv, TypeOK, DesksSound
  <1>1. ASSUME Finish(d), UNCHANGED <<operators, nodes, policyKey, ledger, reg, tokens, lines, disturbed, contended, challenges, issued, spent>>
        PROVE  IdentityInv'
    <2>1. DeskSound(Idle, operators, disturbed)
      BY DEF DeskSound, Idle, Kinds
    <2>2. /\ challenges' \in [1..MaxChallenges -> Keys \cup {None}] /\ issued' \in 0..MaxChallenges
          /\ spent' \in [1..MaxChallenges -> Nat] /\ ChallengesFresh'
      BY <1>1 DEF IdentityInv, TypeOK, ChallengesFresh
    <2> QED
      BY <1>1, <2>1, <2>2, DeskMoves DEF Finish
  <1>2. ASSUME NEW k \in Keys, NEW row \in Operators, operators[k] # None, operators' = [operators EXCEPT ![k] = row],
               row.status = operators[k].status, row.first_seen = operators[k].first_seen,
               row.name = operators[k].name \/ (row.name \in contended' /\ (k \in disturbed \/ ActiveIn(k, operators))),
               contended \subseteq contended', contended' \subseteq Names \cup {None}, Finish(d),
               UNCHANGED <<nodes, policyKey, challenges, issued, ledger, reg, tokens, lines, spent, disturbed>>
        PROVE  IdentityInv'
    <2>0. row # None
      BY NoneIsNoRow
    <2>1. operators'[k] = row /\ \A o \in Keys \ {k} : operators'[o] = operators[o]
      BY <1>0, <1>2
    <2>2. \A o \in Keys : (operators'[o] = None <=> operators[o] = None) /\ operators'[o].status = operators[o].status
      BY <1>2, <2>0, <2>1
    <2>3. \A o \in Keys : ActiveIn(o, operators') <=> ActiveIn(o, operators)
      BY <2>2 DEF ActiveIn
    <2>4. TypeOK'
      BY <1>0, <1>2 DEF TypeOK, Finish
    <2>5. HandlersSound'
      <3> SUFFICES ASSUME NEW h \in Handlers PROVE HandlerSound(reg[h], operators', policyKey, disturbed, contended')
        BY <1>2 DEF HandlersSound
      <3>1. HandlerSound(reg[h], operators, policyKey, disturbed, contended)
        BY DEF IdentityInv, HandlersSound
      <3>2. reg[h].pc \in Checked => reg[h].ask.key \in Keys \cup {None}
        <4>1. reg[h] = Idle => reg[h].pc \notin Checked
          BY DEF Idle, Checked
        <4> QED
          BY <1>0, <4>1, RequestTypes
      <3>3. reg[h].pc \in Writing => reg[h].pc \in Checked
        BY DEF Writing, Checked
      <3>4. /\ reg[h].pc \in Checked /\ reg[h].ask.key # None /\ reg[h].ask.key \notin disturbed =>
                 operators'[reg[h].ask.key] = None \/ ActiveIn(reg[h].ask.key, operators')
            /\ reg[h].pc = "write" /\ reg[h].found /\ reg[h].ask.key \notin disturbed => operators'[reg[h].ask.key] # None
        BY <2>2, <2>3, <3>1, <3>2, <3>3 DEF HandlerSound, Writing
      <3>5. reg[h].pc \in {"persist", "upsert", "write"} /\ reg[h].ask.key # None /\ reg[h].ask.name # None /\ reg[h].ask.name \notin contended' =>
              \A o \in Keys \ {reg[h].ask.key} : ActiveIn(o, operators') => operators'[o].name # reg[h].ask.name
        BY <1>2, <2>1, <2>3, <3>1 DEF HandlerSound
      <3> QED
        BY <3>1, <3>4, <3>5 DEF HandlerSound
    <2>6. DesksSound'
      <3> SUFFICES ASSUME NEW e \in Desks PROVE DeskSound(desk'[e], operators', disturbed)
        BY <1>2 DEF DesksSound
      <3>1. desk'[e] = Idle \/ desk'[e] = desk[e]
        BY <1>0, <1>2 DEF Finish
      <3>2. DeskSound(Idle, operators', disturbed)
        BY DEF DeskSound, Idle, Kinds
      <3>3. DeskSound(desk[e], operators, disturbed)
        BY DEF IdentityInv, DesksSound
      <3>4. desk[e].pc \in {"dsr", "rename"} => desk[e].key \in Keys
        BY <1>0, DeskTypes
      <3>5. DeskSound(desk[e], operators', disturbed)
        BY <2>3, <3>3, <3>4 DEF DeskSound
      <3> QED
        BY <3>1, <3>2, <3>5
    <2>7. NodesSound'
      <3> SUFFICES ASSUME NEW n \in Nodes, nodes[n] # None PROVE NodeSound(nodes[n], operators', policyKey, disturbed, WritingKeys(reg))
        BY <1>2 DEF NodesSound
      <3>1. NodeSound(nodes[n], operators, policyKey, disturbed, WritingKeys(reg)) /\ nodes[n].operator \in Keys \cup {None}
        BY <1>0, RowTypes DEF IdentityInv, NodesSound
      <3> QED
        BY <2>2, <3>1 DEF NodeSound
    <2>8. KeysSound'
      <3> SUFFICES ASSUME NEW o \in Keys PROVE KeySound(o, operators', policyKey, ledger, disturbed, lines)
        BY <1>2 DEF KeysSound
      <3>1. KeySound(o, operators, policyKey, ledger, disturbed, lines)
        BY DEF IdentityInv, KeysSound
      <3>2. CASE o = k
        BY <1>2, <2>0, <2>1, <3>1, <3>2 DEF KeySound, ActiveIn
      <3>3. CASE o # k
        BY <2>1, <3>1, <3>3 DEF KeySound
      <3> QED
        BY <3>2, <3>3
    <2>9. PairsSound'
      <3> SUFFICES ASSUME NEW o \in Keys, NEW p \in Keys PROVE PairSound(o, p, operators', contended')
        BY DEF PairsSound
      <3>1. PairSound(o, p, operators, contended)
        BY DEF IdentityInv, PairsSound
      <3>2. operators'[o].first_seen = operators[o].first_seen /\ operators'[p].first_seen = operators[p].first_seen
        BY <1>2, <2>1
      <3>3. /\ operators'[o].name = operators[o].name \/ operators'[o].name \in contended'
            /\ operators'[p].name = operators[p].name \/ operators'[p].name \in contended'
        BY <1>2, <2>1
      <3> QED
        BY <1>2, <2>3, <3>1, <3>2, <3>3 DEF PairSound
    <2>10. LinesCounted' /\ ChallengesFresh'
      BY <1>2 DEF IdentityInv, LinesCounted, ChallengesFresh
    <2> QED
      BY <2>4, <2>5, <2>6, <2>7, <2>8, <2>9, <2>10 DEF IdentityInv
  <1>3. CASE Rotate(d)
    <2>1. CASE Active(desk[d].key) /\ SuccessorFree(desk[d].arg)
      BY <1>3, <2>1, RotateKeeps
    <2>2. CASE ~(Active(desk[d].key) /\ SuccessorFree(desk[d].arg))
      BY <1>1, <1>3, <2>2 DEF Rotate
    <2> QED
      BY <2>1, <2>2
  <1>4. CASE Revoke(d)
    <2>1. CASE Active(desk[d].key)
      BY <1>4, <2>1, RevokeKeeps
    <2>2. CASE ~Active(desk[d].key)
      BY <1>1, <1>4, <2>2 DEF Revoke
    <2> QED
      BY <2>1, <2>2
  <1>5. CASE MutateDsr(d)
    <2>1. CASE TrackingFree(desk[d].arg)
      BY <1>5, <2>1, MutateDsrKeeps
    <2>2. CASE ~TrackingFree(desk[d].arg)
      BY <1>1, <1>5, <2>2 DEF MutateDsr
    <2> QED
      BY <2>1, <2>2
  <1>6. CASE Accept(d)
    <2>1. PICK k : k = desk[d].key
      OBVIOUS
    <2>2. CASE ~Active(k)
      BY <1>1, <1>6, <2>1, <2>2 DEF Accept, history
    <2>3. CASE Active(k)
      <3> DEFINE row == [operators[k] EXCEPT !.accepted = TRUE]
      <3>1. k \in Keys /\ operators[k] \in Operators /\ operators[k] # None
        <4>1. desk[d] # Idle
          BY <1>6 DEF Accept, Idle
        <4> QED
          BY <1>0, <2>1, <2>3, <4>1, DeskTypes, RowTypes DEF Active
      <3>2. row \in Operators /\ row.status = operators[k].status /\ row.first_seen = operators[k].first_seen /\ row.name = operators[k].name
        BY <3>1 DEF Operators
      <3>3. /\ operators' = [operators EXCEPT ![k] = row] /\ Finish(d) /\ contended' = contended
            /\ UNCHANGED <<nodes, policyKey, challenges, issued, ledger, reg, tokens, lines, spent, disturbed>>
        BY <1>6, <2>1, <2>3 DEF Accept, history
      <3> HIDE DEF row
      <3> QED
        BY <1>0, <1>2, <3>1, <3>2, <3>3
    <2> QED
      BY <2>2, <2>3
  <1>7. CASE Rename(d)
    <2>1. PICK k, name : k = desk[d].key /\ name = desk[d].arg
      OBVIOUS
    <2>2. k \in Keys /\ name \in Names /\ (k \notin disturbed => ActiveIn(k, operators))
      <3>1. desk[d].pc = "rename" /\ desk[d] # Idle
        BY <1>7 DEF Rename, Idle
      <3> QED
        BY <1>0, <2>1, <3>1, DeskTypes DEF DeskSound
    <2>3. /\ operators' = [operators EXCEPT ![k] = IF operators[k] = None THEN None ELSE [operators[k] EXCEPT !.name = name]]
          /\ Finish(d) /\ contended' = contended \cup {name}
          /\ UNCHANGED <<nodes, policyKey, challenges, issued, ledger, reg, tokens, lines, spent, disturbed>>
      BY <1>7, <2>1 DEF Rename, WriteName
    <2>4. contended' \subseteq Names \cup {None}
      BY <1>0, <2>2, <2>3
    <2>5. CASE operators[k] = None
      <3>1. operators' = operators
        BY <1>0, <2>2, <2>3, <2>5
      <3>2. k \in disturbed
        BY <2>2, <2>5 DEF ActiveIn
      <3>3. TypeOK'
        BY <1>0, <2>3, <2>4, <3>1 DEF TypeOK, Finish
      <3>4. HandlersSound' /\ PairsSound'
        <4>1. contended \subseteq contended' /\ disturbed \subseteq disturbed /\ disturbed' = disturbed /\ policyKey' = policyKey /\ reg' = reg
          BY <2>3
        <4>2. /\ \A x : HandlerSound(x, operators, policyKey, disturbed, contended) => HandlerSound(x, operators, policyKey, disturbed, contended')
              /\ \A o, p : PairSound(o, p, operators, contended) => PairSound(o, p, operators, contended')
          BY <4>1, SoundGrows
        <4> QED
          BY <3>1, <4>1, <4>2 DEF IdentityInv, HandlersSound, PairsSound
      <3>5. DesksSound'
        <4>1. DeskSound(Idle, operators, disturbed)
          BY DEF DeskSound, Idle, Kinds
        <4>2. \A e \in Desks : desk'[e] = Idle \/ desk'[e] = desk[e]
          BY <1>0, <2>3 DEF Finish
        <4> QED
          BY <2>3, <3>1, <4>1, <4>2 DEF IdentityInv, DesksSound
      <3>6. NodesSound' /\ KeysSound' /\ LinesCounted' /\ ChallengesFresh'
        BY <2>3, <3>1 DEF IdentityInv, NodesSound, KeysSound, LinesCounted, ChallengesFresh
      <3> QED
        BY <3>3, <3>4, <3>5, <3>6 DEF IdentityInv
    <2>6. CASE operators[k] # None
      <3> DEFINE row == [operators[k] EXCEPT !.name = name]
      <3>1. operators[k] \in Operators
        BY <1>0, <2>2, <2>6, RowTypes
      <3>2. row \in Operators /\ row.status = operators[k].status /\ row.first_seen = operators[k].first_seen /\ row.name = name
        BY <2>2, <3>1 DEF Operators
      <3>3. operators' = [operators EXCEPT ![k] = row] /\ contended \subseteq contended' /\ row.name \in contended'
        BY <2>3, <2>6, <3>2
      <3> HIDE DEF row
      <3> QED
        BY <1>2, <2>2, <2>3, <2>4, <2>6, <3>2, <3>3
    <2> QED
      BY <2>5, <2>6
  <1> QED
    BY <1>3, <1>4, <1>5, <1>6, <1>7

---------------------------------------------------------------------------
(* Steps of a registration that write the tables, and of the nodes *)

LEMMA PersistKeeps ==
  ASSUME IdentityInv, NEW h \in Handlers, Persist(h)
  PROVE  IdentityInv'
  <1> DEFINE q == reg[h]
             x == IF q.ask.key = None THEN Idle ELSE Asking("upsert", q.ask, 0)
  <1>1. PICK ask : ask = reg[h].ask
    OBVIOUS
  <1>2. TypeOK /\ q.pc = "persist" /\ q # Idle /\ HandlerSound(q, operators, policyKey, disturbed, contended)
    BY DEF IdentityInv, Persist, Idle, HandlersSound
  <1>3. ask \in AskRecords /\ ask.node \in Nodes /\ ask.key \in Keys \cup {None} /\ ask.manifest \in Keys \cup {None}
    BY <1>1, <1>2, RequestTypes
  <1>4. /\ tokens < MaxTokens /\ tokens' = tokens + 1 /\ nodes' = [nodes EXCEPT ![ask.node] = UpsertNode(ask, tokens + 1)]
        /\ reg' = [reg EXCEPT ![h] = x]
        /\ UNCHANGED <<operators, lines, disturbed, contended, policyKey, challenges, issued, ledger, desk, spent>>
    BY <1>1 DEF Persist, rest
  <1>5. /\ nodes \in [Nodes -> NodeRows \cup {None}] /\ reg \in [Handlers -> RegRequests \cup {Idle}] /\ tokens \in Nat /\ lines \in Nat
        /\ MaxTokens \in Nat /\ tokens + 1 \in 0..MaxTokens /\ 0 \in 0..MaxTokens
    BY <1>2, <1>4, IdentityConstants DEF TypeOK
  <1>6. /\ x \in RegRequests \cup {Idle}
        /\ ask.key = None => x = Idle /\ x.pc = "idle"
        /\ ask.key # None => x.pc = "upsert" /\ x.ask = ask /\ ~x.found
    BY <1>1, <1>3, <1>5 DEF Asking, RegRequests, Pcs, Idle
  <1> HIDE DEF x
  <1>7. \A g \in Handlers : reg'[g] = IF g = h THEN x ELSE reg[g]
    BY <1>4, <1>5
  <1> DEFINE row == UpsertNode(ask, tokens + 1)
  <1>8. row \in NodeRows /\ row.operator = ask.key /\ row.verified = (ask.key # None) /\ row.manifest = ask.manifest
    BY <1>3, <1>5 DEF UpsertNode, NodeRows, AskRecords
  <1>9. nodes' = [nodes EXCEPT ![ask.node] = row]
    BY <1>4
  <1> HIDE DEF row
  <1>10. TypeOK'
    <2>1. nodes' \in [Nodes -> NodeRows \cup {None}] /\ reg' \in [Handlers -> RegRequests \cup {Idle}] /\ tokens' \in 0..MaxTokens
      BY <1>4, <1>5, <1>6, <1>8, <1>9
    <2> QED
      BY <1>2, <1>4, <2>1 DEF TypeOK
  <1>11. HandlersSound'
    <2> SUFFICES ASSUME NEW g \in Handlers PROVE HandlerSound(reg'[g], operators, policyKey, disturbed, contended)
      BY <1>4 DEF HandlersSound
    <2>1. CASE g = h /\ ask.key = None
      BY <1>6, <1>7, <2>1 DEF HandlerSound, Checked, Writing
    <2>2. CASE g = h /\ ask.key # None
      <3>1. HandlerSound(x, operators, policyKey, disturbed, contended)
        BY <1>1, <1>2, <1>6, <2>2 DEF HandlerSound, Checked, Writing
      <3> QED
        BY <1>7, <2>2, <3>1
    <2>3. CASE g # h
      BY <1>7, <2>3 DEF IdentityInv, HandlersSound
    <2> QED
      BY <2>1, <2>2, <2>3
  <1>12. Writers(reg) \subseteq Handlers \ {h} /\ Writers(reg') = Writers(reg) \cup (IF ask.key = None THEN {} ELSE {h})
    BY <1>2, <1>6, <1>7 DEF Writers, Writing
  <1>13. NodesSound'
    <2>1. WritingKeys(reg) \subseteq WritingKeys(reg') /\ (ask.key # None => ask.key \in WritingKeys(reg'))
      BY <1>6, <1>7, <1>12 DEF WritingKeys
    <2> SUFFICES ASSUME NEW n \in Nodes, nodes'[n] # None
                 PROVE  NodeSound(nodes'[n], operators, policyKey, disturbed, WritingKeys(reg'))
      BY <1>4 DEF NodesSound
    <2>2. CASE n = ask.node
      <3>1. nodes'[n] = row
        BY <1>5, <1>9, <2>2
      <3>2. ask.manifest # None => policyKey[ask.manifest] = "none" \/ ask.manifest \in disturbed
        BY <1>1, <1>2 DEF HandlerSound, Checked
      <3> QED
        BY <1>8, <2>1, <3>1, <3>2 DEF NodeSound
    <2>3. CASE n # ask.node
      <3>1. nodes'[n] = nodes[n]
        BY <1>5, <1>9, <2>3
      <3> QED
        BY <2>1, <3>1 DEF IdentityInv, NodesSound, NodeSound
    <2> QED
      BY <2>2, <2>3
  <1>14. LinesCounted'
    <2>1. IsFiniteSet(Writers(reg)) /\ Cardinality(Writers(reg)) \in Nat /\ h \notin Writers(reg)
      BY <1>2, <1>12, WritersCount
    <2>2. Cardinality(Writers(reg) \cup {h}) = Cardinality(Writers(reg)) + 1
      BY <2>1, FS_AddElement
    <2>3. Cardinality(Writers(reg')) = Cardinality(Writers(reg)) \/ Cardinality(Writers(reg')) = Cardinality(Writers(reg)) + 1
      <3>1. CASE ask.key = None
        <4>1. Writers(reg') = Writers(reg)
          BY <1>12, <3>1
        <4> QED
          BY <4>1
      <3>2. CASE ask.key # None
        <4>1. Writers(reg') = Writers(reg) \cup {h}
          BY <1>12, <3>2
        <4> QED
          BY <2>2, <4>1
      <3> QED
        BY <3>1, <3>2
    <2> QED
      BY <1>4, <1>5, <2>1, <2>3 DEF IdentityInv, LinesCounted
  <1>15. DesksSound' /\ KeysSound' /\ PairsSound' /\ ChallengesFresh'
    BY <1>4 DEF IdentityInv, DesksSound, KeysSound, PairsSound, ChallengesFresh
  <1> QED
    BY <1>10, <1>11, <1>13, <1>14, <1>15 DEF IdentityInv

\* What upsert_operator leaves behind: the key of the registration is active, or disturbed.
LEMMA WriteOperatorKeeps ==
  ASSUME IdentityInv, NEW h \in Handlers, WriteOperator(h)
  PROVE  IdentityInv'
  <1> DEFINE q == reg[h]
  <1>1. PICK k, name, found : k = reg[h].ask.key /\ name = reg[h].ask.name /\ found = reg[h].found
    OBVIOUS
  <1>2. TypeOK /\ q.pc = "write" /\ q # Idle /\ HandlerSound(q, operators, policyKey, disturbed, contended)
    BY DEF IdentityInv, WriteOperator, Idle, HandlersSound
  <1>3. /\ k \in Keys /\ name \in Names \cup {None}
        /\ k \notin disturbed => operators[k] = None \/ ActiveIn(k, operators)
        /\ found /\ k \notin disturbed => operators[k] # None
        /\ name # None /\ name \notin contended => \A o \in Keys \ {k} : ActiveIn(o, operators) => operators[o].name # name
    BY <1>1, <1>2, RequestTypes DEF HandlerSound, Checked, Writing
  <1> DEFINE row == IF found /\ operators[k] # None /\ name # None THEN [operators[k] EXCEPT !.name = name]
                    ELSE IF ~found /\ operators[k] = None THEN InsertOperator(name) ELSE operators[k]
  <1>4. /\ operators' = [operators EXCEPT ![k] = row]
        /\ lines' = (IF ~found /\ operators[k] = None THEN lines + 1 ELSE lines)
        /\ contended' = (IF NamePending(h, name) THEN contended \cup {name} ELSE contended)
        /\ reg' = [reg EXCEPT ![h] = Idle]
        /\ UNCHANGED <<nodes, tokens, disturbed, policyKey, challenges, issued, ledger, desk, spent>>
    BY <1>1 DEF WriteOperator, rest, End
  <1>5. /\ operators \in [Keys -> Operators \cup {None}] /\ reg \in [Handlers -> RegRequests \cup {Idle}] /\ tokens \in 0..MaxTokens
        /\ lines \in Nat /\ MaxTokens \in Nat /\ tokens \in Nat /\ contended \subseteq Names \cup {None}
    BY <1>2, IdentityConstants DEF TypeOK
  <1>6. \A g \in Handlers : reg'[g] = IF g = h THEN Idle ELSE reg[g]
    BY <1>4, <1>5
  <1>7. Writers(reg') = Writers(reg) \ {h} /\ h \in Writers(reg) /\ IsFiniteSet(Writers(reg)) /\ Cardinality(Writers(reg)) \in Nat
    BY <1>2, <1>6, WritersCount DEF Writers, Writing, Idle
  <1>8. /\ Cardinality(Writers(reg')) = Cardinality(Writers(reg)) - 1 /\ Cardinality(Writers(reg')) \in Nat
    <2>1. Cardinality(Writers(reg) \ {h}) = Cardinality(Writers(reg)) - 1 /\ IsFiniteSet(Writers(reg) \ {h})
      BY <1>7, FS_RemoveElement
    <2>2. Cardinality(Writers(reg) \ {h}) \in Nat
      BY <2>1, FS_CardinalityType
    <2> QED
      BY <1>7, <2>1, <2>2
  <1>9. LinesCounted' /\ lines' \in 0..MaxTokens /\ lines + 1 \in 1..MaxTokens /\ lines <= lines'
    <2> DEFINE c == Cardinality(Writers(reg))
               b == Cardinality(Writers(reg'))
    <2>1. lines + c <= tokens /\ c \in Nat /\ b = c - 1 /\ b \in Nat
      BY <1>7, <1>8 DEF IdentityInv, LinesCounted
    <2> HIDE DEF c, b
    <2>2. lines' \in Nat /\ lines <= lines' /\ lines' <= lines + 1
      BY <1>4, <1>5
    <2>3. lines' + b <= tokens /\ lines + 1 <= MaxTokens
      <3>1. tokens <= MaxTokens
        BY <1>5
      <3>2. \A v \in Nat : v <= lines + 1 => v + b <= tokens
        BY <1>5, <2>1
      <3>3. lines + 1 <= tokens
        BY <1>5, <2>1
      <3> QED
        BY <1>5, <2>2, <3>1, <3>2, <3>3
    <2>4. lines' + Cardinality(Writers(reg')) <= tokens'
      BY <1>4, <2>3 DEF b
    <2>5. LinesCounted'
      BY <2>4 DEF LinesCounted
    <2> QED
      BY <1>5, <2>2, <2>3, <2>5
  <1>10. \/ /\ ~found /\ operators[k] = None /\ row \in Operators
            /\ row.status = "active" /\ row.name = name /\ row.first_seen = lines + 1 /\ lines' = lines + 1
         \/ /\ found /\ operators[k] # None /\ name # None /\ row \in Operators /\ lines' = lines
            /\ row.status = operators[k].status /\ row.name = name /\ row.first_seen = operators[k].first_seen
         \/ row = operators[k] /\ (k \notin disturbed => operators[k] # None) /\ lines' = lines
    <2>1. CASE ~found /\ operators[k] = None
      BY <1>3, <1>4, <1>9, <2>1 DEF InsertOperator, Operators, Statuses
    <2>2. CASE found /\ operators[k] # None /\ name # None
      <3>1. operators[k] \in Operators
        BY <1>2, <1>3, <2>2, RowTypes
      <3> QED
        BY <1>3, <1>4, <2>2, <3>1 DEF Operators
    <2>3. CASE (found \/ operators[k] # None) /\ ~(found /\ operators[k] # None /\ name # None)
      BY <1>3, <1>4, <2>3
    <2> QED
      BY <2>1, <2>2, <2>3
  <1> HIDE DEF row
  <1>11. /\ row \in Operators \cup {None} /\ operators' \in [Keys -> Operators \cup {None}] /\ operators'[k] = row
         /\ \A o \in Keys \ {k} : operators'[o] = operators[o]
    <2>1. row \in Operators \cup {None}
      BY <1>3, <1>5, <1>10
    <2> QED
      BY <1>3, <1>4, <1>5, <2>1
  <1>12. k \in disturbed \/ ActiveIn(k, operators')
    BY <1>3, <1>10, <1>11, NoneIsNoRow DEF ActiveIn
  <1>13. /\ operators[k] # None => row # None /\ row.status = operators[k].status /\ row.first_seen = operators[k].first_seen
         /\ operators[k] = None => row = None \/ (row \in Operators /\ row.status = "active" /\ row.first_seen = lines + 1 /\ lines' = lines + 1)
         /\ row = operators[k] \/ (row # None /\ row.name = name)
    BY <1>10, NoneIsNoRow
  <1>14. /\ contended \subseteq contended' /\ contended' \subseteq Names \cup {None}
         /\ \A g \in Handlers \ {h} : reg[g].pc \in {"persist", "upsert", "write"} /\ reg[g].ask.name = name /\ reg[g].ask.key # k => name \in contended'
    BY <1>1, <1>3, <1>4, <1>5 DEF NamePending
  <1>15. TypeOK'
    <2>1. reg' \in [Handlers -> RegRequests \cup {Idle}]
      BY <1>4, <1>5
    <2> QED
      BY <1>2, <1>4, <1>9, <1>11, <1>14, <2>1 DEF TypeOK
  <1>16. \A o \in Keys : ActiveIn(o, operators) => ActiveIn(o, operators')
    BY <1>11, <1>13 DEF ActiveIn
  <1>17. HandlersSound'
    <2> SUFFICES ASSUME NEW g \in Handlers PROVE HandlerSound(reg'[g], operators', policyKey, disturbed, contended')
      BY <1>4 DEF HandlersSound
    <2>1. CASE g = h
      <3>1. reg'[g] = Idle
        BY <1>6, <2>1
      <3> QED
        BY <3>1 DEF HandlerSound, Idle, Checked, Writing
    <2>2. CASE g # h
      <3>1. reg'[g] = reg[g] /\ HandlerSound(reg[g], operators, policyKey, disturbed, contended)
        BY <1>6, <2>2 DEF IdentityInv, HandlersSound
      <3>2. reg[g].pc \in Checked => reg[g].ask.key \in Keys \cup {None}
        <4>1. reg[g] = Idle => reg[g].pc \notin Checked
          BY DEF Idle, Checked
        <4> QED
          BY <1>2, <4>1, RequestTypes
      <3>3. reg[g].pc \in Writing => reg[g].pc \in Checked
        BY DEF Writing, Checked
      <3>4. /\ reg[g].pc \in Checked /\ reg[g].ask.key # None /\ reg[g].ask.key \notin disturbed =>
                 operators'[reg[g].ask.key] = None \/ ActiveIn(reg[g].ask.key, operators')
            /\ reg[g].pc = "write" /\ reg[g].found /\ reg[g].ask.key \notin disturbed => operators'[reg[g].ask.key] # None
        <4>1. CASE reg[g].ask.key = k
          BY <1>12, <4>1 DEF ActiveIn
        <4>2. CASE reg[g].ask.key # k
          BY <1>11, <3>1, <3>2, <3>3, <4>2 DEF HandlerSound, Writing, ActiveIn
        <4> QED
          BY <4>1, <4>2
      <3>5. ASSUME reg[g].pc \in {"persist", "upsert", "write"}, reg[g].ask.key # None, reg[g].ask.name # None,
                   reg[g].ask.name \notin contended', NEW o \in Keys \ {reg[g].ask.key}, ActiveIn(o, operators')
            PROVE  operators'[o].name # reg[g].ask.name
        <4>0. \A p \in Keys \ {reg[g].ask.key} : ActiveIn(p, operators) => operators[p].name # reg[g].ask.name
          BY <1>14, <3>1, <3>5 DEF HandlerSound
        <4>1. CASE o # k
          BY <1>11, <3>5, <4>0, <4>1 DEF ActiveIn
        <4>2. CASE o = k /\ row = operators[k]
          BY <1>11, <3>5, <4>0, <4>2 DEF ActiveIn
        <4>3. CASE o = k /\ row # operators[k]
          BY <1>11, <1>13, <1>14, <2>2, <3>5, <4>3
        <4> QED
          BY <4>1, <4>2, <4>3
      <3> QED
        BY <3>1, <3>4, <3>5 DEF HandlerSound
    <2> QED
      BY <2>1, <2>2
  <1>18. DesksSound'
    <2> SUFFICES ASSUME NEW e \in Desks PROVE DeskSound(desk[e], operators', disturbed)
      BY <1>4 DEF DesksSound
    <2>1. DeskSound(desk[e], operators, disturbed)
      BY DEF IdentityInv, DesksSound
    <2>2. desk[e].pc \in {"dsr", "rename"} => desk[e].key \in Keys
      BY <1>2, DeskTypes
    <2> QED
      BY <1>16, <2>1, <2>2 DEF DeskSound
  <1>19. NodesSound'
    <2> SUFFICES ASSUME NEW n \in Nodes, nodes[n] # None
                 PROVE  NodeSound(nodes[n], operators', policyKey, disturbed, WritingKeys(reg'))
      BY <1>4 DEF NodesSound
    <2>1. NodeSound(nodes[n], operators, policyKey, disturbed, WritingKeys(reg)) /\ nodes[n].operator \in Keys \cup {None}
      BY <1>2, RowTypes DEF IdentityInv, NodesSound
    <2>2. WritingKeys(reg) \subseteq WritingKeys(reg') \cup {k}
      BY <1>1, <1>6, <1>7 DEF WritingKeys, Writers
    <2>3. CASE nodes[n].operator = k
      BY <1>12, <2>1, <2>3 DEF NodeSound, ActiveIn
    <2>4. CASE nodes[n].operator # k
      BY <1>11, <2>1, <2>2, <2>4 DEF NodeSound
    <2> QED
      BY <2>3, <2>4
  <1>20. KeysSound'
    <2> SUFFICES ASSUME NEW o \in Keys PROVE KeySound(o, operators', policyKey, ledger, disturbed, lines')
      BY <1>4 DEF KeysSound
    <2>1. KeySound(o, operators, policyKey, ledger, disturbed, lines)
      BY DEF IdentityInv, KeysSound
    <2>2. operators'[o] # None => operators'[o].first_seen <= lines'
      <3>1. operators[o] # None => operators[o].first_seen <= lines /\ operators[o].first_seen \in 1..MaxTokens
        BY <1>2, <2>1, RowTypes DEF KeySound
      <3>2. operators'[o] # None => operators'[o].first_seen = lines' \/ (operators[o] # None /\ operators'[o].first_seen = operators[o].first_seen)
        BY <1>11, <1>13
      <3> QED
        BY <1>5, <1>9, <3>1, <3>2
    <2>3. CASE o = k
      <3>1. k \notin disturbed => policyKey[k] = "none"
        BY <1>3, <1>10, <2>1, <2>3 DEF KeySound, ActiveIn
      <3>2. operators'[o] # None /\ operators'[o].status = "restricted" => operators[o] # None /\ operators[o].status = "restricted"
        BY <1>11, <1>13, <2>3
      <3>3. operators'[o] # None /\ operators'[o].status = "restricted" => k \in disturbed
        BY <1>12, <2>3 DEF ActiveIn
      <3> QED
        BY <2>1, <2>2, <2>3, <3>1, <3>2, <3>3 DEF KeySound
    <2>4. CASE o # k
      BY <1>11, <2>1, <2>2, <2>4 DEF KeySound
    <2> QED
      BY <2>3, <2>4
  <1>21. PairsSound'
    <2> SUFFICES ASSUME NEW o \in Keys, NEW p \in Keys, ActiveIn(o, operators'), ActiveIn(p, operators'), o # p
                 PROVE  /\ operators'[o].first_seen # operators'[p].first_seen
                        /\ operators'[o].name # None => operators'[o].name # operators'[p].name \/ operators'[o].name \in contended'
      BY DEF PairsSound, PairSound
    <2>1. \A a, b \in Keys : PairSound(a, b, operators, contended)
      BY DEF IdentityInv, PairsSound
    <2>2. \A a \in Keys : operators[a] # None => operators[a].first_seen # lines + 1
      <3> SUFFICES ASSUME NEW a \in Keys, operators[a] # None PROVE operators[a].first_seen # lines + 1
        OBVIOUS
      <3>1. operators[a].first_seen <= lines /\ operators[a].first_seen \in 1..MaxTokens
        BY <1>2, RowTypes DEF IdentityInv, KeysSound, KeySound
      <3> QED
        BY <1>5, <3>1
    <2>3. \A a \in Keys \ {k} : ActiveIn(a, operators') => ActiveIn(a, operators) /\ operators'[a] = operators[a]
      BY <1>11 DEF ActiveIn
    <2>4. ASSUME NEW a \in Keys \ {k}, ActiveIn(a, operators'), ActiveIn(k, operators')
          PROVE  /\ operators[a].first_seen # row.first_seen
                 /\ row.name # None /\ operators[a].name = row.name => row.name \in contended'
      <3>1. ActiveIn(a, operators) /\ operators[a] # None
        BY <2>3, <2>4 DEF ActiveIn
      <3>2. operators[k] # None => ActiveIn(k, operators)
        BY <1>11, <1>13, <2>4 DEF ActiveIn
      <3>3. operators[k] = None => operators[a].first_seen # row.first_seen
        BY <1>11, <1>13, <2>2, <2>4, <3>1 DEF ActiveIn
      <3>4. operators[k] # None => operators[a].first_seen # row.first_seen
        BY <1>3, <1>13, <2>1, <3>1, <3>2 DEF PairSound
      <3>5. row = operators[k] /\ row.name # None /\ operators[a].name = row.name => row.name \in contended'
        BY <1>3, <1>11, <1>14, <2>1, <2>4, <3>1 DEF PairSound, ActiveIn
      <3>6. row # operators[k] /\ row.name # None /\ operators[a].name = row.name => row.name \in contended'
        BY <1>3, <1>13, <1>14, <3>1
      <3> QED
        BY <3>3, <3>4, <3>5, <3>6
    <2>5. CASE o = k
      BY <1>11, <2>3, <2>4, <2>5
    <2>6. CASE p = k
      BY <1>11, <2>3, <2>4, <2>6
    <2>7. CASE o # k /\ p # k
      BY <1>14, <2>1, <2>3, <2>7 DEF PairSound
    <2> QED
      BY <2>5, <2>6, <2>7
  <1>22. ChallengesFresh'
    BY <1>4 DEF IdentityInv, ChallengesFresh
  <1> QED
    BY <1>9, <1>15, <1>17, <1>18, <1>19, <1>20, <1>21, <1>22 DEF IdentityInv

\* A node that leaves, or shows itself again.
LEMMA NodeStepsKeep ==
  ASSUME IdentityInv, NEW n \in Nodes, Deregister(n) \/ Heartbeat(n)
  PROVE  IdentityInv'
  <1>0. TypeOK /\ nodes \in [Nodes -> NodeRows \cup {None}]
    BY DEF IdentityInv, TypeOK
  <1>1. ASSUME NEW row \in NodeRows \cup {None}, nodes' = [nodes EXCEPT ![n] = row],
               UNCHANGED <<operators, reg, tokens, lines, disturbed, contended, policyKey, challenges, issued, ledger, desk, spent>>,
               row # None => nodes[n] # None /\ row.verified = nodes[n].verified /\ row.operator = nodes[n].operator /\ row.manifest = nodes[n].manifest
        PROVE  IdentityInv'
    <2>1. TypeOK'
      BY <1>0, <1>1 DEF TypeOK
    <2>2. NodesSound'
      BY <1>0, <1>1 DEF IdentityInv, NodesSound, NodeSound
    <2>3. HandlersSound' /\ DesksSound' /\ KeysSound' /\ PairsSound' /\ LinesCounted' /\ ChallengesFresh'
      BY <1>1 DEF IdentityInv, HandlersSound, DesksSound, KeysSound, PairsSound, LinesCounted, ChallengesFresh
    <2> QED
      BY <2>1, <2>2, <2>3 DEF IdentityInv
  <1>2. CASE Deregister(n)
    BY <1>1, <1>2 DEF Deregister, rest
  <1>3. CASE Heartbeat(n)
    <2> DEFINE row == [nodes[n] EXCEPT !.public = TRUE]
    <2>1. nodes[n] # None /\ nodes' = [nodes EXCEPT ![n] = row]
          /\ UNCHANGED <<operators, reg, tokens, lines, disturbed, contended, policyKey, challenges, issued, ledger, desk, spent>>
      BY <1>3 DEF Heartbeat, rest
    <2>2. nodes[n] \in NodeRows
      BY <1>0, <2>1
    <2>3. row \in NodeRows /\ row.verified = nodes[n].verified /\ row.operator = nodes[n].operator /\ row.manifest = nodes[n].manifest
      BY <2>2 DEF NodeRows
    <2> HIDE DEF row
    <2> QED
      BY <1>1, <2>1, <2>3
  <1> QED
    BY <1>2, <1>3

LEMMA InitIdentity == Init => IdentityInv
  <1> SUFFICES ASSUME Init PROVE IdentityInv
    OBVIOUS
  <1>0. MaxTokens \in Nat /\ MaxChallenges \in Nat
    BY IdentityConstants
  <1>1. TypeOK
    BY <1>0 DEF Init, TypeOK
  <1>2. HandlersSound /\ DesksSound
    BY DEF Init, HandlersSound, HandlerSound, DesksSound, DeskSound, Idle, Checked, Writing, Kinds
  <1>3. NodesSound /\ KeysSound /\ PairsSound
    BY DEF Init, NodesSound, KeysSound, KeySound, PairsSound, PairSound, ActiveIn
  <1>4. LinesCounted
    <2>1. Writers(reg) = {}
      BY DEF Init, Writers, Writing, Idle
    <2> QED
      BY <2>1, FS_EmptySet DEF Init, LinesCounted
  <1>5. ChallengesFresh
    BY <1>0 DEF Init, ChallengesFresh
  <1> QED
    BY <1>1, <1>2, <1>3, <1>4, <1>5 DEF IdentityInv

LEMMA NextIdentity == IdentityInv /\ [Next]_vars => IdentityInv'
  <1> SUFFICES ASSUME IdentityInv, [Next]_vars PROVE IdentityInv'
    OBVIOUS
  <1>1. CASE UNCHANGED vars
    BY <1>1 DEF vars, history, IdentityInv, TypeOK, HandlersSound, DesksSound, NodesSound, KeysSound, PairsSound, LinesCounted, ChallengesFresh
  <1>2. CASE DeskStep
    <2>1. CASE \E d \in Desks : Rotate(d) \/ Revoke(d) \/ Accept(d) \/ MutateDsr(d) \/ Rename(d)
      BY <2>1, DeskWritesKeep
    <2>2. CASE \/ \E k \in Keys : Challenge(k)
               \/ \E c \in 1..MaxChallenges : ForgetChallenge(c)
               \/ \E d \in Desks : \/ \E kind \in Kinds, k \in Keys, c \in 1..MaxChallenges, signed \in BOOLEAN :
                                        \E arg \in Arguments(kind, k) : Submit(d, kind, k, c, arg, signed)
                                   \/ \E k \in Keys, name \in Names : StartRename(d, k, name)
                                   \/ LoadSubject(d) \/ DeskFails(d)
      BY <2>2, DeskStepsKeep
    <2> QED
      BY <1>2, <2>1, <2>2 DEF DeskStep
  <1>3. ASSUME NEW h \in Handlers,
               \/ \E ask \in Asks, token \in 0..tokens : StartRegister(h, ask, token)
               \/ CheckPolicyKey(h) \/ ReadExisting(h) \/ DecideOwnership(h) \/ CheckIdentity(h)
               \/ CheckName(h) \/ LookUpOperator(h) \/ ReadFails(h) \/ RegistrationFails(h)
        PROVE  IdentityInv'
    BY <1>3, RegistrationStepsKeep
  <1>4. ASSUME NEW h \in Handlers, Persist(h) \/ WriteOperator(h) PROVE IdentityInv'
    BY <1>4, PersistKeeps, WriteOperatorKeeps
  <1>5. ASSUME NEW n \in Nodes, Deregister(n) \/ Heartbeat(n) PROVE IdentityInv'
    BY <1>5, NodeStepsKeep
  <1> QED
    BY <1>1, <1>2, <1>3, <1>4, <1>5 DEF Next

\* Whatever registrations, rotations, revocations, renames, acceptances and data-subject
\* actions overlap: a line of rotations has one active identity, a challenge authorises one
\* request, dead keys stay dead, verified nodes have a living operator, restricted
\* operators no name and a record, stale manifests are gone and handles are distinct, with
\* the exceptions that Safety names (src/operator.rs, src/node_lifecycle.rs, src/db.rs).
THEOREM IdentitiesAreSafe == Spec => []Safety
  <1>1. IdentityInv => Safety
    <2> SUFFICES ASSUME IdentityInv PROVE Safety
      OBVIOUS
    <2>1. \A k \in Keys : Active(k) <=> ActiveIn(k, operators)
      BY DEF Active, ActiveIn
    <2>2. TypeOK /\ ChallengeOnce
      BY DEF IdentityInv, ChallengesFresh, ChallengeOnce
    <2>3. OneActivePerLine /\ HandlesDistinct
      BY <2>1 DEF IdentityInv, PairsSound, PairSound, OneActivePerLine, HandlesDistinct
    <2>4. DeadKeysInactive
      BY <2>1 DEF IdentityInv, KeysSound, KeySound, DeadKeysInactive, ActiveIn
    <2>5. VerifiedUnderLiving
      BY DEF IdentityInv, NodesSound, NodeSound, VerifiedUnderLiving, WritingKeys, Writers, Writing
    <2>6. StaleManifestsGone
      BY DEF IdentityInv, NodesSound, NodeSound, StaleManifestsGone
    <2>7. RestrictedNameless /\ RestrictionRecorded
      BY DEF IdentityInv, KeysSound, KeySound, RestrictedNameless, RestrictionRecorded
    <2> QED
      BY <2>2, <2>3, <2>4, <2>5, <2>6, <2>7 DEF Safety
  <1> QED
    BY <1>1, InitIdentity, NextIdentity, PTL DEF Spec

---------------------------------------------------------------------------
(* Ownership of nodes *)

\* A request reads, decides, or ends.
LEMMA ClaimMoves ==
  ASSUME TypeOK, OwnershipInv, NEW h \in Handlers, NEW x, reg' = [reg EXCEPT ![h] = x], UNCHANGED <<nodes, tokens>>,
         x # Idle => ClaimSound(x, nodes, tokens)
  PROVE  OwnershipInv'
  <1>1. \A g \in Handlers : reg'[g] = IF g = h THEN x ELSE reg[g]
    BY DEF TypeOK
  <1> QED
    BY <1>1 DEF OwnershipInv

\* Rows keep their token, endpoint and whether they are secured, or go, or are anonymized.
LEMMA RowsChange ==
  ASSUME TypeOK, OwnershipInv, UNCHANGED <<reg, tokens>>,
         \A n \in Nodes : nodes'[n] # None =>
           \/ /\ nodes[n] # None /\ nodes'[n].token = nodes[n].token /\ nodes'[n].endpoint = nodes[n].endpoint
              /\ nodes'[n].operator = None <=> nodes[n].operator = None
           \/ nodes'[n].token = 0 /\ nodes'[n].endpoint = None /\ nodes'[n].operator = None
  PROVE  OwnershipInv'
  <1>0. tokens \in Nat
    BY IdentityConstants DEF TypeOK
  <1>1. ASSUME NEW n \in Nodes, nodes'[n] # None PROVE RowSound(nodes'[n], tokens)
    BY <1>0, <1>1 DEF OwnershipInv, RowSound, ZeroIsAnonymous
  <1>2. ASSUME NEW h \in Handlers, reg[h] # Idle PROVE ClaimSound(reg[h], nodes', tokens)
    <2>1. ClaimSound(reg[h], nodes, tokens) /\ reg[h].ask.node \in Nodes
      BY <1>2, RequestTypes DEF OwnershipInv
    <2>2. StillRead(reg[h], nodes'[reg[h].ask.node])
      BY <2>1 DEF ClaimSound, StillRead, RowSound, ZeroIsAnonymous
    <2>3. Dated(reg[h], nodes'[reg[h].ask.node])
      BY <2>1 DEF ClaimSound, Dated
    <2> QED
      BY <2>1, <2>2, <2>3 DEF ClaimSound
  <1> QED
    BY <1>1, <1>2 DEF OwnershipInv

LEMMA DeskOwnership ==
  ASSUME TypeOK, OwnershipInv, DesksSound, DeskStep
  PROVE  OwnershipInv'
  <1>1. ASSUME UNCHANGED <<nodes, reg, tokens>> PROVE OwnershipInv'
    BY <1>1 DEF OwnershipInv
  <1>2. ASSUME NEW k \in Keys, Challenge(k) PROVE OwnershipInv'
    BY <1>1, <1>2 DEF Challenge
  <1>3. ASSUME NEW c \in 1..MaxChallenges, ForgetChallenge(c) PROVE OwnershipInv'
    BY <1>1, <1>3 DEF ForgetChallenge
  <1>4. ASSUME NEW d, NEW kind, NEW k, NEW c, NEW arg, NEW signed, Submit(d, kind, k, c, arg, signed) PROVE OwnershipInv'
    BY <1>1, <1>4 DEF Submit
  <1>5. ASSUME NEW d, NEW k, NEW name, StartRename(d, k, name) PROVE OwnershipInv'
    BY <1>1, <1>5 DEF StartRename
  <1>6. ASSUME NEW d, Accept(d) \/ LoadSubject(d) \/ Rename(d) \/ DeskFails(d) PROVE OwnershipInv'
    BY <1>1, <1>6 DEF Accept, LoadSubject, Rename, DeskFails
  <1>7. ASSUME NEW d \in Desks, Rotate(d) PROVE OwnershipInv'
    <2>1. PICK k, s : k = desk[d].key /\ s = desk[d].arg
      OBVIOUS
    <2>2. desk[d].pc = "rotate" /\ DeskSound(desk[d], operators, disturbed) /\ UNCHANGED <<reg, tokens>>
      BY <1>7 DEF Rotate, DesksSound
    <2>3. k \in Keys /\ s \in Keys /\ s # None /\ k # None
      <3>1. desk[d] # Idle
        BY <2>2 DEF Idle
      <3> QED
        BY <2>1, <2>2, <3>1, DeskTypes, IdentityConstants DEF DeskSound
    <2>4. CASE UNCHANGED nodes
      BY <1>1, <2>2, <2>4
    <2>5. CASE RotateRows(k, s)
      <3>1. ASSUME NEW n \in Nodes, nodes'[n] # None
            PROVE  /\ nodes[n] # None /\ nodes'[n].token = nodes[n].token /\ nodes'[n].endpoint = nodes[n].endpoint
                   /\ nodes'[n].operator = None <=> nodes[n].operator = None
        <4>1. CASE n \in Of(k)
          <5>1. nodes[n] # None /\ nodes[n].operator = k /\ nodes[n] \in NodeRows
            BY <4>1, RowTypes DEF Of
          <5>2. nodes'[n] = [nodes[n] EXCEPT !.operator = s, !.verified = TRUE, !.manifest = None]
            BY <2>5, <4>1 DEF RotateRows
          <5> QED
            BY <2>3, <5>1, <5>2 DEF NodeRows
        <4>2. CASE n \notin Of(k)
          BY <2>5, <3>1, <4>2 DEF RotateRows
        <4> QED
          BY <4>1, <4>2
      <3> QED
        BY <2>2, <3>1, RowsChange
    <2> QED
      BY <1>7, <2>1, <2>4, <2>5 DEF Rotate
  <1>8. ASSUME NEW d \in Desks, Revoke(d) PROVE OwnershipInv'
    <2>1. PICK k : k = desk[d].key
      OBVIOUS
    <2>2. UNCHANGED <<reg, tokens>>
      BY <1>8 DEF Revoke
    <2>3. CASE UNCHANGED nodes
      BY <1>1, <2>2, <2>3
    <2>4. CASE nodes' = [n \in Nodes |-> IF n \in Of(k) THEN RevokedNode(nodes[n]) ELSE nodes[n]]
      <3>1. ASSUME NEW n \in Nodes, nodes'[n] # None
            PROVE  /\ nodes[n] # None /\ nodes'[n].token = nodes[n].token /\ nodes'[n].endpoint = nodes[n].endpoint
                   /\ nodes'[n].operator = None <=> nodes[n].operator = None
        <4>1. CASE n \in Of(k)
          <5>1. nodes[n] # None /\ nodes[n] \in NodeRows
            BY <4>1, RowTypes DEF Of
          <5> QED
            BY <2>4, <4>1, <5>1 DEF NodeRows, RevokedNode
        <4>2. CASE n \notin Of(k)
          BY <2>4, <3>1, <4>2
        <4> QED
          BY <4>1, <4>2
      <3> QED
        BY <2>2, <3>1, RowsChange
    <2> QED
      BY <1>8, <2>1, <2>3, <2>4 DEF Revoke
  <1>9. ASSUME NEW d \in Desks, MutateDsr(d) PROVE OwnershipInv'
    <2>1. PICK k, kind : k = desk[d].key /\ kind = desk[d].kind
      OBVIOUS
    <2>2. UNCHANGED <<reg, tokens>>
      BY <1>9 DEF MutateDsr
    <2>3. CASE UNCHANGED nodes
      BY <1>1, <2>2, <2>3
    <2>4. CASE nodes' = [n \in Nodes |-> IF n \notin Of(k) THEN nodes[n]
                                          ELSE IF kind = "anonymize" THEN AnonymousNode(nodes[n]) ELSE HiddenNode(nodes[n])]
      <3>1. ASSUME NEW n \in Nodes, nodes'[n] # None
            PROVE  \/ /\ nodes[n] # None /\ nodes'[n].token = nodes[n].token /\ nodes'[n].endpoint = nodes[n].endpoint
                      /\ nodes'[n].operator = None <=> nodes[n].operator = None
                   \/ nodes'[n].token = 0 /\ nodes'[n].endpoint = None /\ nodes'[n].operator = None
        <4>1. CASE n \in Of(k) /\ kind = "anonymize"
          <5>1. nodes[n] # None /\ nodes[n] \in NodeRows
            BY <4>1, RowTypes DEF Of
          <5>2. nodes'[n] = AnonymousNode(nodes[n])
            BY <2>4, <4>1
          <5> QED
            BY <5>1, <5>2 DEF NodeRows, AnonymousNode
        <4>2. CASE n \in Of(k) /\ kind # "anonymize"
          <5>1. nodes[n] # None /\ nodes[n] \in NodeRows
            BY <4>2, RowTypes DEF Of
          <5>2. nodes'[n] = HiddenNode(nodes[n])
            BY <2>4, <4>2
          <5> QED
            BY <5>1, <5>2 DEF NodeRows, HiddenNode
        <4>3. CASE n \notin Of(k)
          BY <2>4, <3>1, <4>3
        <4> QED
          BY <4>1, <4>2, <4>3
      <3> QED
        BY <2>2, <3>1, RowsChange
    <2> QED
      BY <1>9, <2>1, <2>3, <2>4 DEF MutateDsr
  <1> QED
    BY <1>2, <1>3, <1>4, <1>5, <1>6, <1>7, <1>8, <1>9 DEF DeskStep

LEMMA PersistOwnership ==
  ASSUME TypeOK, OwnershipInv, NEW h \in Handlers, Persist(h)
  PROVE  OwnershipInv'
  <1>1. PICK ask, x : ask = reg[h].ask /\ x = (IF ask.key = None THEN Idle ELSE Asking("upsert", ask, 0))
    OBVIOUS
  <1>2. ask \in AskRecords /\ ask.node \in Nodes
    <2>1. reg[h] # Idle
      BY DEF Persist, Idle
    <2> QED
      BY <1>1, <2>1, RequestTypes
  <1> DEFINE row == UpsertNode(ask, tokens + 1)
  <1>3. tokens' = tokens + 1 /\ tokens \in Nat /\ nodes' = [nodes EXCEPT ![ask.node] = row] /\ reg' = [reg EXCEPT ![h] = x]
    BY <1>1, IdentityConstants DEF Persist, TypeOK
  <1>4. row.token = tokens + 1 /\ row # None
    <2>1. tokens + 1 \in 0..MaxTokens
      BY <1>3, IdentityConstants DEF Persist, TypeOK
    <2>2. row \in NodeRows
      BY <1>2, <2>1 DEF UpsertNode, NodeRows, AskRecords
    <2> QED
      BY <2>2, NoneIsNoRow DEF UpsertNode
  <1> HIDE DEF row
  <1>5. nodes'[ask.node] = row /\ \A n \in Nodes \ {ask.node} : nodes'[n] = nodes[n]
    BY <1>2, <1>3 DEF TypeOK
  <1>6. reg'[h] = x /\ \A g \in Handlers \ {h} : reg'[g] = reg[g]
    BY <1>3 DEF TypeOK
  <1>7. ASSUME NEW n \in Nodes, nodes'[n] # None PROVE RowSound(nodes'[n], tokens')
    <2>1. CASE n = ask.node
      BY <1>3, <1>4, <1>5, <2>1 DEF RowSound, ZeroIsAnonymous
    <2>2. CASE n # ask.node
      <3>1. nodes'[n] = nodes[n] /\ RowSound(nodes[n], tokens)
        BY <1>5, <1>7, <2>2 DEF OwnershipInv
      <3>2. nodes[n] \in NodeRows /\ nodes[n].token \in Nat
        BY <1>7, <3>1, RowTypes, IdentityConstants DEF NodeRows
      <3> QED
        BY <1>3, <3>1, <3>2 DEF RowSound
    <2> QED
      BY <2>1, <2>2
  <1>8. ASSUME NEW g \in Handlers, reg'[g] # Idle PROVE ClaimSound(reg'[g], nodes', tokens')
    <2>1. CASE g = h
      <3>1. reg'[g] = Asking("upsert", ask, 0)
        BY <1>1, <1>6, <1>8, <2>1
      <3>2. reg'[g].existing = None /\ reg'[g].pc = "upsert" /\ reg'[g].since = 0 /\ reg'[g].ask = ask
        BY <3>1 DEF Asking
      <3>3. Dated(reg'[g], nodes'[ask.node])
        BY <1>3, <1>4, <1>5, <3>2 DEF Dated
      <3> QED
        BY <1>3, <3>2, <3>3 DEF ClaimSound, StillRead, Allowed
    <2>2. CASE g # h
      <3>1. reg'[g] = reg[g] /\ ClaimSound(reg[g], nodes, tokens)
        BY <1>6, <1>8, <2>2 DEF OwnershipInv
      <3>2. reg[g] \in RegRequests /\ reg[g].ask.node \in Nodes
        BY <1>8, <3>1, RequestTypes
      <3>3. reg[g].existing # None => reg[g].existing.token \in Nat /\ reg[g].existing.token <= tokens
        BY <3>1, <3>2, IdentityConstants DEF ClaimSound, RowSound, RegRequests, NodeRows
      <3>4. reg[g].existing # None => RowSound(reg[g].existing, tokens')
        BY <1>3, <3>1, <3>3 DEF ClaimSound, RowSound
      <3>5. StillRead(reg[g], nodes'[reg[g].ask.node])
        <4>1. CASE reg[g].ask.node = ask.node
          <5>1. reg[g].existing # None => reg[g].existing.token # row.token
            BY <1>3, <1>4, <3>3
          <5> QED
            BY <1>5, <4>1, <5>1 DEF StillRead
        <4>2. CASE reg[g].ask.node # ask.node
          <5>1. nodes'[reg[g].ask.node] = nodes[reg[g].ask.node]
            BY <1>5, <3>2, <4>2
          <5> QED
            BY <3>1, <5>1 DEF ClaimSound
        <4> QED
          BY <4>1, <4>2
      <3>6. reg[g].since \in Nat /\ reg[g].since <= tokens
        BY <3>1, <3>2, IdentityConstants DEF ClaimSound, RegRequests
      <3>7. Dated(reg[g], nodes'[reg[g].ask.node])
        <4>1. CASE reg[g].ask.node = ask.node
          BY <1>3, <1>4, <1>5, <3>6, <4>1 DEF Dated
        <4>2. CASE reg[g].ask.node # ask.node
          BY <1>5, <3>1, <3>2, <4>2 DEF ClaimSound
        <4> QED
          BY <4>1, <4>2
      <3> QED
        BY <1>3, <3>1, <3>4, <3>5, <3>6, <3>7 DEF ClaimSound
    <2> QED
      BY <2>1, <2>2
  <1> QED
    BY <1>7, <1>8 DEF OwnershipInv

LEMMA RegistrationOwnership ==
  ASSUME TypeOK, OwnershipInv, NEW h \in Handlers,
         \/ \E ask \in Asks, token \in 0..tokens : StartRegister(h, ask, token)
         \/ CheckPolicyKey(h) \/ ReadExisting(h) \/ DecideOwnership(h) \/ CheckIdentity(h)
         \/ CheckName(h) \/ LookUpOperator(h) \/ WriteOperator(h) \/ ReadFails(h) \/ RegistrationFails(h)
  PROVE  OwnershipInv'
  <1> DEFINE q == reg[h]
  <1>0. q # Idle => ClaimSound(q, nodes, tokens) /\ q \in RegRequests /\ q.ask.node \in Nodes
    BY RequestTypes DEF OwnershipInv
  <1>1. UNCHANGED <<nodes, tokens>>
    BY DEF StartRegister, CheckPolicyKey, ReadExisting, DecideOwnership, CheckIdentity, CheckName, LookUpOperator, WriteOperator,
           ReadFails, RegistrationFails, tables
  <1>2. ASSUME End(h) PROVE OwnershipInv'
    BY <1>1, <1>2, ClaimMoves DEF End
  \* A step that reads nothing about the node keeps what the request knows.
  <1>3. ASSUME NEW x, reg' = [reg EXCEPT ![h] = x], q # Idle, x.ask = q.ask, x.existing = q.existing, x.own = q.own, x.dead = q.dead,
               x.since = q.since, x.blind \/ (x.blind <=> q.blind),
               x.pc \in {"policy", "existing"} => q.pc \in {"policy", "existing"},
               x.pc \in {"identity", "name", "persist"} => q.pc \in {"identity", "name", "persist"} \/ q.existing = None
        PROVE  OwnershipInv'
    <2>1. Dated(x, nodes[x.ask.node])
      BY <1>0, <1>3 DEF ClaimSound, Dated
    <2>2. ClaimSound(x, nodes, tokens)
      BY <1>0, <1>3, <2>1 DEF ClaimSound, StillRead, Allowed
    <2> QED
      BY <1>1, <1>3, <2>2, ClaimMoves
  <1>4. ASSUME NEW pc \in Pcs, Goto(h, pc), q # Idle,
               pc \in {"policy", "existing"} => q.pc \in {"policy", "existing"},
               pc \in {"identity", "name", "persist"} => q.pc \in {"identity", "name", "persist"} \/ q.existing = None
        PROVE  OwnershipInv'
    <2> DEFINE x == [q EXCEPT !.pc = pc]
    <2>1. reg' = [reg EXCEPT ![h] = x]
      BY <1>4 DEF Goto
    <2>2. x.pc = pc /\ x.ask = q.ask /\ x.existing = q.existing /\ x.own = q.own /\ x.dead = q.dead
          /\ x.since = q.since /\ x.blind = q.blind
      BY <1>0, <1>4 DEF RegRequests
    <2> HIDE DEF x
    <2> QED
      BY <1>3, <1>4, <2>1, <2>2
  <1>5. q.pc # "idle" => q # Idle
    BY DEF Idle
  <1>6. ASSUME NEW ask \in Asks, NEW token \in 0..tokens, StartRegister(h, ask, token) PROVE OwnershipInv'
    <2> DEFINE x == Asking("policy", ask, token)
    <2>1. x.existing = None /\ x.pc = "policy" /\ x.since = 0 /\ x.ask = ask /\ reg' = [reg EXCEPT ![h] = x]
      BY <1>6 DEF StartRegister, Asking
    <2> HIDE DEF x
    <2>2. tokens \in Nat /\ ask.node \in Nodes
      BY RegistrationConstants, IdentityConstants DEF TypeOK, AskRecords
    <2>3. nodes[ask.node] # None => nodes[ask.node].token \in Nat
      BY <2>2, RowTypes, IdentityConstants DEF NodeRows
    <2>4. Dated(x, nodes[ask.node])
      BY <2>1, <2>3 DEF Dated
    <2>5. ClaimSound(x, nodes, tokens)
      BY <2>1, <2>2, <2>4 DEF ClaimSound, StillRead, Allowed
    <2> QED
      BY <1>1, <2>1, <2>5, ClaimMoves
  <1>7. ASSUME CheckPolicyKey(h) PROVE OwnershipInv'
    BY <1>2, <1>4, <1>5, <1>7 DEF CheckPolicyKey, Pcs
  <1>8. ASSUME ReadExisting(h) PROVE OwnershipInv'
    <2> DEFINE row == nodes[q.ask.node]
               x == [q EXCEPT !.existing = row, !.pc = IF row = None THEN "identity" ELSE "decide", !.token = IF row = None THEN 0 ELSE @,
                            !.since = tokens]
    <2>1. q.pc = "existing" /\ q # Idle /\ reg' = [reg EXCEPT ![h] = x]
      BY <1>5, <1>8 DEF ReadExisting
    <2>2. q \in RegRequests /\ q.ask.node \in Nodes
      BY <1>0, <2>1
    <2>3. x.existing = row /\ x.ask = q.ask /\ x.since = tokens /\ x.pc = IF row = None THEN "identity" ELSE "decide"
      BY <2>2 DEF RegRequests
    <2>a. tokens \in Nat
      BY IdentityConstants DEF TypeOK
    <2> HIDE DEF x
    <2>4. ClaimSound(x, nodes, tokens)
      BY <2>2, <2>3, <2>a DEF ClaimSound, Dated, StillRead, Allowed, OwnershipInv
    <2> QED
      BY <1>1, <2>1, <2>4, ClaimMoves
  <1>9. ASSUME DecideOwnership(h) PROVE OwnershipInv'
    <2>1. q.pc = "decide" /\ q # Idle /\ q \in RegRequests
      BY <1>0, <1>5, <1>9 DEF DecideOwnership
    <2> DEFINE own == verify_node_token(q.ask.node, q.token)
               changed == q.existing.endpoint # q.ask.endpoint
               secured == q.existing.operator # None
               probed == changed /\ ~own /\ ~(StrictSecured /\ secured)
    <2>2. ASSUME NEW alive \in BOOLEAN, q.ask.cx = None \/ own, routing_change_allowed(secured, changed, own, alive),
                 reg' = [reg EXCEPT ![h].pc = "identity", ![h].own = own, ![h].dead = probed /\ ~alive, ![h].token = 0]
          PROVE  OwnershipInv'
      <3> DEFINE x == [q EXCEPT !.pc = "identity", !.own = own, !.dead = probed /\ ~alive, !.token = 0]
      <3>1. reg' = [reg EXCEPT ![h] = x]
        BY <2>2
      <3>2. x.pc = "identity" /\ x.ask = q.ask /\ x.existing = q.existing /\ x.own = own /\ x.dead = (probed /\ ~alive)
            /\ x.since = q.since /\ x.blind = q.blind
        BY <2>1 DEF RegRequests
      <3> HIDE DEF x
      <3>3. own \/ (q.ask.cx = None /\ (~changed \/ (probed /\ ~alive)) /\ ~(StrictSecured /\ secured))
        BY <2>2 DEF routing_change_allowed, endpoint_change_allowed
      <3>4. Allowed(x)
        BY <3>2, <3>3 DEF Allowed
      <3>5. ClaimSound(x, nodes, tokens)
        BY <1>0, <2>1, <3>2, <3>4 DEF ClaimSound, Dated, StillRead
      <3> QED
        BY <1>1, <3>1, <3>5, ClaimMoves
    <2> QED
      BY <1>2, <1>9, <2>2 DEF DecideOwnership
  <1>10. ASSUME CheckIdentity(h) PROVE OwnershipInv'
    BY <1>2, <1>4, <1>5, <1>10 DEF CheckIdentity, Pcs
  <1>11. ASSUME CheckName(h) PROVE OwnershipInv'
    BY <1>2, <1>4, <1>5, <1>11 DEF CheckName, Pcs
  <1>12. ASSUME LookUpOperator(h) PROVE OwnershipInv'
    <2> DEFINE x == [q EXCEPT !.pc = "write", !.found = operators[q.ask.key] # None]
    <2>1. q.pc = "upsert" /\ q # Idle /\ reg' = [reg EXCEPT ![h] = x]
      BY <1>5, <1>12 DEF LookUpOperator
    <2>2. x.pc = "write" /\ x.ask = q.ask /\ x.existing = q.existing /\ x.own = q.own /\ x.dead = q.dead
          /\ x.since = q.since /\ x.blind = q.blind
      BY <1>0, <2>1 DEF RegRequests
    <2> HIDE DEF x
    <2> QED
      BY <1>3, <2>1, <2>2
  <1>13. ASSUME WriteOperator(h) \/ RegistrationFails(h) PROVE OwnershipInv'
    BY <1>2, <1>13 DEF WriteOperator, RegistrationFails
  <1>14. ASSUME ReadFails(h) PROVE OwnershipInv'
    <2>1. CASE q.pc = "policy" /\ Goto(h, "existing")
      BY <1>4, <1>5, <2>1 DEF Pcs
    <2>2. CASE q.pc = "existing" /\ reg' = [reg EXCEPT ![h].pc = "identity", ![h].token = 0, ![h].blind = TRUE]
      <3> DEFINE x == [q EXCEPT !.pc = "identity", !.token = 0, !.blind = TRUE]
      <3>1. q # Idle /\ reg' = [reg EXCEPT ![h] = x]
        BY <1>5, <2>2
      <3>2. x.pc = "identity" /\ x.ask = q.ask /\ x.existing = q.existing /\ x.own = q.own /\ x.dead = q.dead
            /\ x.since = q.since /\ x.blind
        BY <1>0, <3>1 DEF RegRequests
      <3>3. q.existing = None
        BY <1>0, <2>2, <3>1 DEF ClaimSound, Allowed
      <3> HIDE DEF x
      <3> QED
        BY <1>3, <3>1, <3>2, <3>3
    <2>3. CASE q.pc = "identity" /\ Goto(h, "name")
      BY <1>4, <1>5, <2>3 DEF Pcs
    <2>4. CASE q.pc = "name" /\ Goto(h, "persist")
      BY <1>4, <1>5, <2>4 DEF Pcs
    <2>5. CASE q.pc = "upsert" /\ Goto(h, "write")
      BY <1>4, <1>5, <2>5 DEF Pcs
    <2> QED
      BY <1>14, <2>1, <2>2, <2>3, <2>4, <2>5 DEF ReadFails, Goto
  <1> QED
    BY <1>6, <1>7, <1>8, <1>9, <1>10, <1>11, <1>12, <1>13, <1>14

LEMMA NextOwnership == IdentityInv /\ OwnershipInv /\ [Next]_vars => OwnershipInv'
  <1> SUFFICES ASSUME IdentityInv, OwnershipInv, [Next]_vars PROVE OwnershipInv'
    OBVIOUS
  <1>0. TypeOK /\ DesksSound
    BY DEF IdentityInv
  <1>1. CASE UNCHANGED vars
    BY <1>1 DEF vars, OwnershipInv
  <1>2. CASE DeskStep
    BY <1>0, <1>2, DeskOwnership
  <1>3. ASSUME NEW h \in Handlers, Persist(h) PROVE OwnershipInv'
    BY <1>0, <1>3, PersistOwnership
  <1>4. ASSUME NEW h \in Handlers,
               \/ \E ask \in Asks, token \in 0..tokens : StartRegister(h, ask, token)
               \/ CheckPolicyKey(h) \/ ReadExisting(h) \/ DecideOwnership(h) \/ CheckIdentity(h)
               \/ CheckName(h) \/ LookUpOperator(h) \/ WriteOperator(h) \/ ReadFails(h) \/ RegistrationFails(h)
        PROVE  OwnershipInv'
    BY <1>0, <1>4, RegistrationOwnership
  <1>5. ASSUME NEW n \in Nodes, Deregister(n) PROVE OwnershipInv'
    <2>1. UNCHANGED <<reg, tokens>> /\ \A m \in Nodes : nodes'[m] # None => nodes'[m] = nodes[m]
      BY <1>0, <1>5 DEF Deregister, TypeOK
    <2> QED
      BY <1>0, <2>1, RowsChange
  <1>6. ASSUME NEW n \in Nodes, Heartbeat(n) PROVE OwnershipInv'
    <2>1. nodes[n] # None /\ nodes[n] \in NodeRows /\ UNCHANGED <<reg, tokens>>
      BY <1>0, <1>6, RowTypes DEF Heartbeat
    <2>2. nodes'[n] = [nodes[n] EXCEPT !.public = TRUE] /\ \A m \in Nodes \ {n} : nodes'[m] = nodes[m]
      BY <1>0, <1>6 DEF Heartbeat, TypeOK
    <2>3. nodes'[n].token = nodes[n].token /\ nodes'[n].endpoint = nodes[n].endpoint /\ nodes'[n].operator = nodes[n].operator
      BY <2>1, <2>2 DEF NodeRows
    <2> QED
      BY <1>0, <2>1, <2>2, <2>3, RowsChange
  <1> QED
    BY <1>1, <1>2, <1>3, <1>4, <1>5, <1>6 DEF Next

\* For any number of registrations, with or without strict mode: the row a registration
\* read is replaced only if it proved ownership, or found the old endpoint unchanged or
\* dead and asks for no key, and in strict mode not if an operator secures the node.  A
\* request whose read failed, or that was overtaken after it read, is not bound by it
\* (registration_ownership_rejection, commit_registration).
THEOREM TakeoversAreProved == Spec => TakeoverNeedsProof
  <1>1. Init => OwnershipInv
    BY DEF Init, OwnershipInv
  <1>2. IdentityInv /\ OwnershipInv /\ [Next]_vars =>
          [\A n \in Nodes : nodes[n] # None /\ tokens' # tokens /\ nodes'[n] # nodes[n] => \E h \in Handlers : Taken(n, h)]_vars
    <2> SUFFICES ASSUME IdentityInv, OwnershipInv, Next, NEW n \in Nodes, nodes[n] # None, tokens' # tokens, nodes'[n] # nodes[n]
                 PROVE  \E h \in Handlers : Taken(n, h)
      OBVIOUS
    <2>1. PICK h \in Handlers : Persist(h)
      <3>1. ~DeskStep
        <4>1. ASSUME NEW k \in Keys, Challenge(k) PROVE FALSE
          BY <4>1 DEF Challenge
        <4>2. ASSUME NEW c, ForgetChallenge(c) PROVE FALSE
          BY <4>2 DEF ForgetChallenge
        <4>3. ASSUME NEW d, NEW kind, NEW k, NEW c, NEW arg, NEW signed, Submit(d, kind, k, c, arg, signed) PROVE FALSE
          BY <4>3 DEF Submit
        <4>4. ASSUME NEW d, NEW k, NEW name, StartRename(d, k, name) PROVE FALSE
          BY <4>4 DEF StartRename
        <4>5. ASSUME NEW d, Rotate(d) \/ Revoke(d) \/ Accept(d) \/ LoadSubject(d) PROVE FALSE
          BY <4>5 DEF Rotate, Revoke, Accept, LoadSubject
        <4>6. ASSUME NEW d, MutateDsr(d) \/ Rename(d) \/ DeskFails(d) PROVE FALSE
          BY <4>6 DEF MutateDsr, Rename, DeskFails
        <4> QED
          BY <4>1, <4>2, <4>3, <4>4, <4>5, <4>6 DEF DeskStep
      <3>2. ASSUME NEW h \in Handlers,
                   \/ \E ask \in Asks, token \in 0..tokens : StartRegister(h, ask, token)
                   \/ CheckPolicyKey(h) \/ ReadExisting(h) \/ DecideOwnership(h) \/ CheckIdentity(h)
                   \/ CheckName(h) \/ LookUpOperator(h) \/ WriteOperator(h) \/ ReadFails(h) \/ RegistrationFails(h)
            PROVE  FALSE
        BY <3>2 DEF StartRegister, CheckPolicyKey, ReadExisting, DecideOwnership, CheckIdentity, CheckName, LookUpOperator,
                    WriteOperator, ReadFails, RegistrationFails, tables
      <3>3. ASSUME NEW m \in Nodes, Deregister(m) \/ Heartbeat(m) PROVE FALSE
        BY <3>3 DEF Deregister, Heartbeat
      <3> QED
        BY <3>1, <3>2, <3>3 DEF Next
    <2>2. reg[h].pc = "persist" /\ reg[h] # Idle /\ TypeOK
      BY <2>1 DEF Persist, Idle, IdentityInv
    <2>3. reg[h].ask.node = n
      BY <2>1, <2>2 DEF Persist, TypeOK
    <2>4. ClaimSound(reg[h], nodes, tokens)
      BY <2>2 DEF OwnershipInv
    <2> QED
      BY <2>2, <2>3, <2>4 DEF ClaimSound, Dated, StillRead, Allowed, Taken, Overtaken
  <1> QED
    BY <1>1, <1>2, InitIdentity, NextIdentity, NextOwnership, PTL DEF Spec, TakeoverNeedsProof
============================================================================
