----------------------- MODULE ReplicaRegistry_proofs -----------------------
(***************************************************************************)
(* The registry of replicas is safe for every set of DIDs and of requests. *)
(*                                                                         *)
(* Retired tokens are dealt with by saying where every token is: about to  *)
(* be stored, in one row, or retired.  What is promised of a DID whose     *)
(* requests did not overlap needs to be told of the steps of a request as  *)
(* well: between joins the DID is settled, and during one its row follows  *)
(* the request.                                                            *)
(***************************************************************************)
EXTENDS MCServices, TLAPS

\* An id belongs to one DID: rows and requests that have it are of that DID.
IdsOwned ==
  /\ \A d, c \in Dids : replicas[d] # None /\ replicas[c] # None /\ replicas[d].id = replicas[c].id => d = c
  /\ \A d \in Dids, j \in Joins : joining[j] # Idle /\ replicas[d] # None /\ replicas[d].id = joining[j].id => joining[j].did = d
  /\ \A j, k \in Joins : joining[j] # Idle /\ joining[k] # Idle /\ joining[j].id = joining[k].id => joining[j].did = joining[k].did
IdsMinted ==
  /\ \A d \in Dids : replicas[d] # None => replicas[d].id <= ids
  /\ \A j \in Joins : joining[j] # Idle => joining[j].id <= ids
  /\ \A t \in issued : jwts[t].sub <= ids
\* Tokens are issued before they are stored, sent or retired, and expire within a lifetime.
TokensIssued ==
  /\ retired \subseteq issued
  /\ \A d \in Dids : replicas[d] # None /\ replicas[d].token # 0 => replicas[d].token \in issued
  /\ \A j \in Joins : joining[j].pc \in {"store", "emit"} =>
       joining[j].token \in issued /\ jwts[joining[j].token].sub = joining[j].id
  /\ \A l \in Leaves : leaving[l] # Idle => leaving[l].token \in issued
  /\ \A t \in issued : jwts[t].exp <= now + Ttl
\* A token is in one place: about to be stored, in a row, or retired.
ToStore(t) == {j \in Joins : joining[j].pc = "store" /\ joining[j].token = t}
InRow(t) == {d \in Dids : replicas[d] # None /\ replicas[d].token = t}
TokensPlaced ==
  \A t \in issued :
    /\ \A j, k \in ToStore(t) : j = k
    /\ \A d, c \in InRow(t) : d = c
    /\ ToStore(t) # {} => InRow(t) = {} /\ t \notin retired
    /\ InRow(t) # {} => t \notin retired

\* A DID without overlapping or failed requests has at most one request under way.
Active(d) == replicas[d] # None /\ replicas[d].status = "active"
Joining(d) == {j \in Joins : joining[j] # Idle /\ joining[j].did = d}
Leaving(d) == {l \in Leaves : leaving[l] # Idle /\ d \in Holding(jwts[leaving[l].token].sub)}
\* Between its joins, the token that was answered is in its row and the mirror knows it.
Settled(d) ==
  IF Active(d)
  THEN /\ answered[d] = replicas[d].token /\ answered[d] \in issued /\ jwts[answered[d]].sub = replicas[d].id
       /\ mirror[d] = replicas[d].id
  ELSE answered[d] = 0 /\ mirror[d] = 0
\* During one, the row follows the request.
Follows(d, q) ==
  /\ q.pc = "upsert" => (\A t \in issued : jwts[t].sub # q.id) \/ (replicas[d] # None /\ replicas[d].id = q.id)
  /\ q.pc # "upsert" => Active(d) /\ replicas[d].id = q.id
  /\ q.pc = "emit" => replicas[d].token = q.token
CalmAt(d) ==
  IF Joining(d) = {} THEN Settled(d)
  ELSE Leaving(d) = {} /\ \A j \in Joining(d) : Joining(d) = {j} /\ Follows(d, joining[j])
Calm == \A d \in Dids \ disturbed : CalmAt(d)

RegistryInv == TypeOK /\ IdsOwned /\ IdsMinted /\ TokensIssued /\ TokensPlaced /\ RowOutlivesToken /\ Calm

---------------------------------------------------------------------------
(* Types *)

LEMMA JoinTypes ==
  ASSUME TypeOK, NEW j \in Joins
  PROVE  /\ joining[j] = Idle => joining[j].pc = "idle"
         /\ joining[j] # Idle =>
              /\ joining[j] \in JoinRequests /\ joining[j].did \in Dids /\ joining[j].id \in Ids /\ joining[j].token \in 0..MaxTokens
              /\ joining[j].pc \in {"upsert", "sign", "store", "emit"} /\ joining[j].id \in Nat /\ joining[j].id >= 1
  BY RegistryConstants DEF TypeOK, JoinRequests, Idle, Ids

LEMMA LeaveTypes ==
  ASSUME TypeOK, NEW l \in Leaves
  PROVE  /\ leaving[l] = Idle => leaving[l].pc = "idle"
         /\ leaving[l] # Idle => leaving[l] \in LeaveRequests /\ leaving[l].token \in 1..MaxTokens
  BY DEF TypeOK, LeaveRequests, Idle

LEMMA RowTypes ==
  ASSUME TypeOK, NEW d \in Dids, replicas[d] # None
  PROVE  /\ replicas[d] \in Rows /\ replicas[d].id \in Ids /\ replicas[d].id \in Nat /\ replicas[d].id >= 1
         /\ replicas[d].token \in 0..MaxTokens /\ replicas[d].until \in Nat
  BY RegistryConstants DEF TypeOK, Rows, Ids

LEMMA ClaimTypes ==
  ASSUME TypeOK, NEW t \in issued
  PROVE  t \in 1..MaxTokens /\ jwts[t] \in Claims /\ jwts[t] # None /\ jwts[t].sub \in Nat /\ jwts[t].exp \in Nat
  BY RegistryConstants DEF TypeOK, Claims, Ids, issued

---------------------------------------------------------------------------
(* What steps leave alone *)

LEMMA IdsFrame ==
  ASSUME RegistryInv, ids' = ids,
         \A d \in Dids : replicas'[d] # None => replicas[d] # None /\ replicas'[d].id = replicas[d].id,
         \A j \in Joins : joining'[j] # Idle => joining[j] # Idle /\ joining'[j].id = joining[j].id /\ joining'[j].did = joining[j].did,
         \A t \in issued' : jwts'[t].sub <= ids
  PROVE  IdsOwned' /\ IdsMinted'
  <1>1. Idle' = Idle
    BY DEF Idle
  <1>2. IdsOwned'
    BY <1>1 DEF RegistryInv, IdsOwned
  <1>3. IdsMinted'
    BY <1>1 DEF RegistryInv, IdsMinted
  <1> QED
    BY <1>2, <1>3

LEMMA TokensFrame ==
  ASSUME RegistryInv, jwts' = jwts, retired' = retired, now' \in Nat, now' >= now,
         \A d \in Dids : replicas'[d] # None =>
           replicas'[d].token = 0 \/ (replicas[d] # None /\ replicas'[d].token = replicas[d].token),
         \A j \in Joins : joining'[j].pc \in {"store", "emit"} => joining'[j] = joining[j],
         \A l \in Leaves : leaving'[l] # Idle => leaving'[l].token \in issued
  PROVE  TokensIssued' /\ TokensPlaced'
  <1>0. Idle' = Idle /\ issued' = issued
    BY DEF Idle, issued
  <1>1. TypeOK /\ now \in Nat /\ Ttl \in Nat
    BY RegistryConstants DEF RegistryInv, TypeOK
  <1>2. TokensIssued'
    <2>1. \A t \in issued : jwts[t].exp <= now' + Ttl
      BY <1>1, ClaimTypes DEF RegistryInv, TokensIssued
    <2> QED
      BY <1>0, <2>1 DEF RegistryInv, TokensIssued
  <1>3. \A t \in issued : InRow(t)' \subseteq InRow(t) /\ ToStore(t)' \subseteq ToStore(t)
    <2> SUFFICES ASSUME NEW t \in issued PROVE InRow(t)' \subseteq InRow(t) /\ ToStore(t)' \subseteq ToStore(t)
      OBVIOUS
    <2>1. t # 0
      BY <1>1, ClaimTypes
    <2> QED
      BY <2>1 DEF InRow, ToStore
  <1>4. TokensPlaced'
    <2> SUFFICES ASSUME NEW t \in issued
                 PROVE  /\ \A j, k \in ToStore(t)' : j = k
                        /\ \A d, c \in InRow(t)' : d = c
                        /\ ToStore(t)' # {} => InRow(t)' = {} /\ t \notin retired'
                        /\ InRow(t)' # {} => t \notin retired'
      BY <1>0 DEF TokensPlaced
    <2> QED
      BY <1>3 DEF RegistryInv, TokensPlaced
  <1> QED
    BY <1>2, <1>4

LEMMA RowsFrame ==
  ASSUME RegistryInv, \A t \in issued : jwts'[t] = jwts[t],
         \A d \in Dids : replicas'[d] = replicas[d]
  PROVE  RowOutlivesToken'
  BY DEF RegistryInv, RowOutlivesToken, TokensIssued

LEMMA CalmFrame ==
  ASSUME RegistryInv, NEW d \in Dids \ disturbed, replicas'[d] = replicas[d], answered'[d] = answered[d],
         Joining(d) = {} /\ Settled(d) => mirror'[d] = mirror[d],
         \A j \in Joins : (joining'[j] # Idle /\ joining'[j].did = d) <=> (joining[j] # Idle /\ joining[j].did = d),
         \A j \in Joins : joining[j] # Idle /\ joining[j].did = d => joining'[j] = joining[j],
         Joining(d) # {} => Leaving(d)' \subseteq Leaving(d),
         \A t \in issued : t \in issued' /\ jwts'[t] = jwts[t],
         \A t \in issued' : t \in issued \/ \A j \in Joining(d) : jwts'[t].sub # joining[j].id
  PROVE  CalmAt(d)'
  <1>1. Joining(d)' = Joining(d)
    BY DEF Joining, Idle
  <1>2. Joining(d) = {} /\ Settled(d) => Settled(d)'
    BY DEF Settled, Active
  <1>3. ASSUME NEW j \in Joining(d), Follows(d, joining[j]) PROVE Follows(d, joining[j])'
    <2>1. joining'[j] = joining[j]
      BY DEF Joining
    <2> QED
      BY <1>3, <2>1 DEF Follows, Active
  <1>4. CalmAt(d)
    BY DEF RegistryInv, Calm
  <1> QED
    BY <1>1, <1>2, <1>3, <1>4 DEF CalmAt

---------------------------------------------------------------------------
(* The steps of a join *)

LEMMA StartJoinKeeps ==
  ASSUME RegistryInv, NEW j \in Joins, NEW d \in Dids, StartJoin(j, d)
  PROVE  RegistryInv'
  <1>0. PICK existing \in replica_id_by_did(d) :
          LET i == IF existing = 0 THEN ids + 1 ELSE existing
          IN /\ joining[j] = Idle /\ i \in Ids
             /\ joining' = [joining EXCEPT ![j] = [pc |-> "upsert", did |-> d, id |-> i, token |-> 0]]
             /\ ids' = (IF existing = 0 THEN ids + 1 ELSE ids)
             /\ disturbed' = disturbed \cup (IF Busy(d) THEN {d} ELSE {})
             /\ UNCHANGED <<replicas, jwts, leaving, now, mirror, answered, retired>>
    BY DEF StartJoin, Disturb
  <1> DEFINE id == IF existing = 0 THEN ids + 1 ELSE existing
             q == [pc |-> "upsert", did |-> d, id |-> id, token |-> 0]
  <1>1. /\ joining[j] = Idle /\ id \in Ids /\ joining' = [joining EXCEPT ![j] = q]
        /\ ids' = (IF existing = 0 THEN ids + 1 ELSE ids)
        /\ disturbed' = disturbed \cup (IF Busy(d) THEN {d} ELSE {})
        /\ UNCHANGED <<replicas, jwts, leaving, now, mirror, answered, retired>>
    BY <1>0
  <1>2. TypeOK /\ ids \in Nat /\ MaxTokens \in Nat /\ joining \in [Joins -> JoinRequests \cup {Idle}]
    BY RegistryConstants DEF RegistryInv, TypeOK
  <1>3. /\ id \in Nat /\ id <= ids' /\ ids <= ids' /\ ids' \in 0..MaxIds
        /\ id > ids \/ (replicas[d] # None /\ id = replicas[d].id)
    <2>1. CASE existing = 0
      BY <2>1, <1>1, <1>2, RegistryConstants DEF Ids
    <2>2. CASE existing # 0
      <3>0. replicas[d] # None /\ existing = replicas[d].id
        BY <2>2, <1>0 DEF replica_id_by_did
      <3>1. id <= ids /\ ids \in 0..MaxIds
        BY <2>2, <3>0 DEF RegistryInv, IdsMinted, TypeOK
      <3>2. id \in Nat /\ ids' = ids
        BY <2>2, <1>1, RegistryConstants DEF Ids
      <3>3. id = replicas[d].id
        BY <2>2, <3>0
      <3> QED
        BY <3>0, <3>1, <3>2, <3>3, <1>2
    <2> QED
      BY <2>1, <2>2
  <1> HIDE DEF id
  <1>4. q \in JoinRequests /\ q # Idle
    BY <1>1, <1>2 DEF JoinRequests, Idle
  <1>5. \A k \in Joins : joining'[k] = IF k = j THEN q ELSE joining[k]
    BY <1>1, <1>2
  <1>6. q.pc = "upsert" /\ q.did = d /\ q.id = id
    OBVIOUS
  <1> HIDE DEF q
  <1>7. Idle' = Idle /\ issued' = issued
    BY <1>1 DEF Idle, issued
  <1>8. TypeOK'
    <2>1. joining' \in [Joins -> JoinRequests \cup {Idle}]
      BY <1>1, <1>2, <1>4
    <2>2. disturbed' \subseteq Dids
      BY <1>1 DEF RegistryInv, TypeOK
    <2> QED
      BY <1>1, <1>3, <2>1, <2>2 DEF RegistryInv, TypeOK
  <1>9. IdsOwned' /\ IdsMinted'
    <2>1. \A c \in Dids : replicas[c] # None => replicas[c].id <= ids /\ replicas[c].id \in Nat
      BY <1>2, RowTypes DEF RegistryInv, IdsMinted
    <2>2. \A k \in Joins : joining[k] # Idle => joining[k].id <= ids /\ joining[k].id \in Nat
      BY <1>2, JoinTypes DEF RegistryInv, IdsMinted
    <2>3. \A t \in issued : jwts[t].sub <= ids /\ jwts[t].sub \in Nat
      BY <1>2, ClaimTypes DEF RegistryInv, IdsMinted
    <2>4. \A c \in Dids : replicas[c] # None /\ replicas[c].id = id => c = d
      BY <1>2, <1>3, <2>1 DEF RegistryInv, IdsOwned
    <2>5. \A k \in Joins : joining[k] # Idle /\ joining[k].id = id => joining[k].did = d
      BY <1>2, <1>3, <2>2 DEF RegistryInv, IdsOwned
    <2>6. IdsOwned'
      BY <1>1, <1>5, <1>6, <1>7, <2>4, <2>5 DEF RegistryInv, IdsOwned
    <2>7. IdsMinted'
      <3>1. /\ \A c \in Dids : replicas[c] # None => replicas[c].id <= ids'
            /\ \A k \in Joins : joining[k] # Idle => joining[k].id <= ids'
            /\ \A t \in issued : jwts[t].sub <= ids'
        BY <1>2, <1>3, <2>1, <2>2, <2>3
      <3> QED
        BY <1>1, <1>3, <1>5, <1>6, <1>7, <3>1 DEF IdsMinted
    <2> QED
      BY <2>6, <2>7
  <1>10. TokensIssued' /\ TokensPlaced'
    <2>1. \A k \in Joins : joining'[k].pc \in {"store", "emit"} => joining'[k] = joining[k]
      BY <1>5, <1>6
    <2>2. \A l \in Leaves : leaving'[l] # Idle => leaving'[l].token \in issued
      BY <1>1 DEF RegistryInv, TokensIssued
    <2>3. now' \in Nat /\ now' >= now
      BY <1>1 DEF RegistryInv, TypeOK
    <2> QED
      BY <1>1, <2>1, <2>2, <2>3, TokensFrame
  <1>11. RowOutlivesToken'
    BY <1>1, RowsFrame
  <1>12. Calm'
    <2> SUFFICES ASSUME NEW c \in Dids, c \notin disturbed' PROVE CalmAt(c)'
      BY DEF Calm
    <2>0. c \in Dids \ disturbed
      BY <1>1
    <2>1. CASE c = d
      <3>1. ~Busy(d)
        BY <1>1, <2>1
      <3>2. Joining(d) = {} /\ Leaving(d) = {}
        BY <3>1 DEF Busy, Joining, Leaving
      <3>3. Joining(d)' = {j}
        BY <1>4, <1>5, <1>6, <1>7, <3>2 DEF Joining
      <3>4. Leaving(d)' = {}
        BY <1>1, <1>7, <3>2 DEF Leaving, Holding
      <3>5. id > ids => \A t \in issued : jwts[t].sub # id
        BY <1>2, <1>3, ClaimTypes DEF RegistryInv, IdsMinted
      <3>6. Follows(d, joining[j])'
        BY <1>1, <1>3, <1>5, <1>6, <1>7, <3>5 DEF Follows
      <3> QED
        BY <2>1, <3>3, <3>4, <3>6 DEF CalmAt
    <2>2. CASE c # d
      <3>1. Leaving(c)' \subseteq Leaving(c)
        BY <1>1, <1>7 DEF Leaving, Holding
      <3> QED
        BY <2>0, <2>2, <3>1, <1>1, <1>4, <1>5, <1>6, <1>7, CalmFrame
    <2> QED
      BY <2>1, <2>2
  <1> QED
    BY <1>8, <1>9, <1>10, <1>11, <1>12 DEF RegistryInv

LEMMA UpsertReplicaKeeps ==
  ASSUME RegistryInv, NEW j \in Joins, UpsertReplica(j)
  PROVE  RegistryInv'
  <1> DEFINE q == joining[j]
             d == q.did
             old == replicas[d]
             new == Upserted(old, q.id)
             next == [q EXCEPT !.pc = "sign"]
  <1>1. /\ q.pc = "upsert" /\ replicas' = [replicas EXCEPT ![d] = new] /\ joining' = [joining EXCEPT ![j] = next]
        /\ UNCHANGED <<jwts, ids, leaving, now, mirror, answered, retired, disturbed>>
    BY DEF UpsertReplica, history
  <1>2. /\ TypeOK /\ joining \in [Joins -> JoinRequests \cup {Idle}] /\ replicas \in [Dids -> Rows \cup {None}]
        /\ now \in 0..MaxNow /\ MaxNow \in Nat /\ Ttl \in Nat /\ MaxTokens \in Nat
    BY RegistryConstants DEF RegistryInv, TypeOK
  <1>3. q # Idle /\ q \in JoinRequests /\ d \in Dids /\ q.id \in Ids /\ q.id \in Nat
    BY <1>1, <1>2, JoinTypes DEF Idle
  <1>4. next \in JoinRequests /\ next.pc = "sign" /\ next.did = d /\ next.id = q.id
    BY <1>3 DEF JoinRequests
  <1>5. next # Idle
    BY <1>4 DEF Idle
  <1>6. /\ new \in Rows /\ new.id = q.id /\ new.status = "active" /\ new.until = now + Ttl
        /\ new.token = IF old = None THEN 0 ELSE old.token
    <2> DEFINE tok == IF old = None THEN 0 ELSE old.token
    <2>1. tok \in 0..MaxTokens
      BY <1>2, <1>3, RowTypes
    <2>2. new = [id |-> q.id, status |-> "active", token |-> tok, until |-> now + Ttl]
      BY DEF Upserted
    <2>3. now + Ttl \in 0..(MaxNow + Ttl)
      BY <1>2
    <2> HIDE DEF tok, new
    <2>4. new \in Rows
      BY <1>3, <2>1, <2>2, <2>3 DEF Rows
    <2> QED
      BY <2>2, <2>4 DEF tok
  <1>7. new # None
    BY <1>6, NoneIsNoRow
  <1> HIDE DEF next, new
  <1>8. /\ \A k \in Joins : joining'[k] = IF k = j THEN next ELSE joining[k]
        /\ \A c \in Dids : replicas'[c] = IF c = d THEN new ELSE replicas[c]
    BY <1>1, <1>2
  <1>9. Idle' = Idle /\ issued' = issued
    BY <1>1 DEF Idle, issued
  <1>10. TypeOK'
    <2>1. joining' \in [Joins -> JoinRequests \cup {Idle}] /\ replicas' \in [Dids -> Rows \cup {None}]
      BY <1>1, <1>2, <1>3, <1>4, <1>6
    <2> QED
      BY <1>1, <2>1 DEF RegistryInv, TypeOK
  <1>11. IdsOwned' /\ IdsMinted'
    <2>1. \A k \in Joins : /\ joining'[k] # Idle <=> joining[k] # Idle
                           /\ joining'[k] # Idle => joining'[k].id = joining[k].id /\ joining'[k].did = joining[k].did
      BY <1>3, <1>4, <1>5, <1>8
    <2>2. \A c \in Dids : replicas[c] # None /\ replicas[c].id = q.id => c = d
      BY <1>3 DEF RegistryInv, IdsOwned
    <2>3. IdsOwned'
      BY <1>3, <1>6, <1>7, <1>8, <1>9, <2>1, <2>2 DEF RegistryInv, IdsOwned
    <2>4. IdsMinted'
      BY <1>1, <1>3, <1>6, <1>8, <1>9, <2>1 DEF RegistryInv, IdsMinted
    <2> QED
      BY <2>3, <2>4
  <1>12. TokensIssued' /\ TokensPlaced'
    <2>1. \A k \in Joins : joining'[k].pc \in {"store", "emit"} => joining'[k] = joining[k]
      BY <1>4, <1>8
    <2>2. \A c \in Dids : replicas'[c] # None => replicas'[c].token = 0 \/ (replicas[c] # None /\ replicas'[c].token = replicas[c].token)
      BY <1>6, <1>8
    <2>3. \A l \in Leaves : leaving'[l] # Idle => leaving'[l].token \in issued
      BY <1>1 DEF RegistryInv, TokensIssued
    <2>4. now' \in Nat /\ now' >= now
      BY <1>1, <1>2
    <2> QED
      BY <1>1, <2>1, <2>2, <2>3, <2>4, TokensFrame
  <1>13. RowOutlivesToken'
    <2> SUFFICES ASSUME NEW c \in Dids, replicas'[c] # None, replicas'[c].status = "active", replicas'[c].token # 0
                 PROVE  replicas'[c].until >= jwts[replicas'[c].token].exp
      BY <1>1 DEF RowOutlivesToken
    <2>1. CASE c = d
      <3>1. replicas'[c] = new /\ old # None /\ new.token = old.token /\ old.token # 0
        BY <2>1, <1>6, <1>8
      <3>2. old.token \in issued
        BY <3>1, <1>3 DEF RegistryInv, TokensIssued
      <3>3. jwts[old.token].exp <= now + Ttl /\ jwts[old.token].exp \in Nat
        BY <3>2, <1>2, ClaimTypes DEF RegistryInv, TokensIssued
      <3> QED
        BY <3>1, <3>3, <1>2, <1>6
    <2>2. CASE c # d
      BY <2>2, <1>8 DEF RegistryInv, RowOutlivesToken
    <2> QED
      BY <2>1, <2>2
  <1>14. Calm'
    <2> SUFFICES ASSUME NEW c \in Dids, c \notin disturbed PROVE CalmAt(c)'
      BY <1>1 DEF Calm
    <2>0. CalmAt(c)
      BY DEF RegistryInv, Calm
    <2>1. CASE c = d
      <3>1. j \in Joining(c)
        BY <2>1, <1>3 DEF Joining
      <3>2. Joining(c) = {j} /\ Leaving(c) = {} /\ Follows(c, q)
        BY <2>0, <2>1, <3>1 DEF CalmAt
      <3>3. Joining(c)' = {j}
        BY <2>1, <1>3, <1>4, <1>5, <1>8, <1>9, <3>2 DEF Joining
      <3>4. (\A t \in issued : jwts[t].sub # q.id) \/ (old # None /\ old.id = q.id)
        BY <2>1, <3>2, <1>1 DEF Follows
      <3>5. Leaving(c)' = {}
        <4> SUFFICES ASSUME NEW l \in Leaves, leaving[l] # Idle, c \in Holding(jwts[leaving[l].token].sub)'
                     PROVE  FALSE
          BY <1>1, <1>9 DEF Leaving
        <4>1. jwts[leaving[l].token].sub = q.id
          BY <1>1, <1>3, <1>6, <1>8, <2>1 DEF Holding
        <4>2. leaving[l].token \in issued
          BY DEF RegistryInv, TokensIssued
        <4>3. c \in Holding(jwts[leaving[l].token].sub)
          BY <2>1, <1>3, <3>4, <4>1, <4>2 DEF Holding
        <4> QED
          BY <3>2, <4>3 DEF Leaving
      <3>6. Follows(c, joining[j])'
        BY <2>1, <1>3, <1>4, <1>6, <1>7, <1>8 DEF Follows, Active
      <3> QED
        BY <2>1, <3>3, <3>5, <3>6 DEF CalmAt
    <2>2. CASE c # d
      <3>1. Leaving(c)' \subseteq Leaving(c)
        BY <1>1, <1>8, <1>9, <2>2 DEF Leaving, Holding
      <3> QED
        BY <2>2, <3>1, <1>1, <1>3, <1>4, <1>5, <1>8, <1>9, CalmFrame
    <2> QED
      BY <2>1, <2>2
  <1> QED
    BY <1>10, <1>11, <1>12, <1>13, <1>14 DEF RegistryInv

\* A request that fails, or that goes on after a failure, disturbs its DID.
LEMMA JoinFailuresKeep ==
  ASSUME RegistryInv, NEW j \in Joins, UpsertFails(j) \/ JoinFails(j)
  PROVE  RegistryInv'
  <1> DEFINE q == joining[j]
             d == q.did
  <1>1. /\ q # Idle /\ TypeOK /\ joining \in [Joins -> JoinRequests \cup {Idle}]
    BY JoinTypes DEF UpsertFails, JoinFails, RegistryInv, TypeOK, Idle
  <1>2. q \in JoinRequests /\ d \in Dids
    BY <1>1, JoinTypes
  <1>3. PICK x \in JoinRequests \cup {Idle} :
          /\ joining' = [joining EXCEPT ![j] = x]
          /\ x # Idle => x.pc = "sign" /\ x.did = d /\ x.id = q.id
    <2>1. CASE UpsertFails(j)
      <3>1. [q EXCEPT !.pc = "sign"] \in JoinRequests
        BY <1>2 DEF JoinRequests
      <3>2. [q EXCEPT !.pc = "sign"].pc = "sign" /\ [q EXCEPT !.pc = "sign"].did = d /\ [q EXCEPT !.pc = "sign"].id = q.id
        BY <1>2 DEF JoinRequests
      <3>3. joining' = [joining EXCEPT ![j] = [q EXCEPT !.pc = "sign"]]
        BY <2>1 DEF UpsertFails
      <3> QED
        BY <3>1, <3>2, <3>3
    <2>2. CASE JoinFails(j)
      BY <2>2 DEF JoinFails
    <2> QED
      BY <2>1, <2>2
  <1>4. /\ disturbed' = disturbed \cup {d} /\ UNCHANGED <<replicas, jwts, ids, leaving, now, mirror, answered, retired>>
    BY DEF UpsertFails, JoinFails, Disturb
  <1>5. Idle' = Idle /\ issued' = issued /\ Idle.pc = "idle"
    BY <1>4 DEF Idle, issued
  <1>6. \A k \in Joins : joining'[k] = IF k = j THEN x ELSE joining[k]
    BY <1>1, <1>3
  <1>7. TypeOK'
    <2>1. joining' \in [Joins -> JoinRequests \cup {Idle}] /\ disturbed' \subseteq Dids
      BY <1>1, <1>2, <1>3, <1>4 DEF TypeOK
    <2> QED
      BY <1>4, <2>1 DEF RegistryInv, TypeOK
  <1>8. IdsOwned' /\ IdsMinted'
    <2>1. \A t \in issued' : jwts'[t].sub <= ids
      BY <1>4, <1>5 DEF RegistryInv, IdsMinted
    <2> QED
      BY <1>1, <1>3, <1>4, <1>6, <2>1, IdsFrame
  <1>9. TokensIssued' /\ TokensPlaced'
    <2>1. \A k \in Joins : joining'[k].pc \in {"store", "emit"} => joining'[k] = joining[k]
      BY <1>3, <1>5, <1>6
    <2>2. \A l \in Leaves : leaving'[l] # Idle => leaving'[l].token \in issued
      BY <1>4 DEF RegistryInv, TokensIssued
    <2>3. now' \in Nat /\ now' >= now
      BY <1>4 DEF RegistryInv, TypeOK
    <2> QED
      BY <1>4, <2>1, <2>2, <2>3, TokensFrame
  <1>10. RowOutlivesToken'
    BY <1>4, RowsFrame
  <1>11. Calm'
    <2> SUFFICES ASSUME NEW c \in Dids, c \notin disturbed' PROVE CalmAt(c)'
      BY DEF Calm
    <2>1. c \in Dids \ disturbed /\ c # d
      BY <1>4
    <2>2. Leaving(c)' \subseteq Leaving(c)
      BY <1>4, <1>5 DEF Leaving, Holding
    <2> QED
      BY <2>1, <2>2, <1>1, <1>3, <1>4, <1>5, <1>6, CalmFrame
  <1> QED
    BY <1>7, <1>8, <1>9, <1>10, <1>11 DEF RegistryInv

LEMMA SignTokenKeeps ==
  ASSUME RegistryInv, NEW j \in Joins, SignToken(j)
  PROVE  RegistryInv'
  <1> DEFINE q == joining[j]
  <1>1. PICK t \in 1..MaxTokens :
          /\ q.pc = "sign" /\ issued = 1..(t - 1)
          /\ jwts' = [jwts EXCEPT ![t] = [sub |-> q.id, exp |-> now + Ttl]]
          /\ joining' = [joining EXCEPT ![j] = [q EXCEPT !.pc = "store", !.token = t]]
          /\ UNCHANGED <<replicas, ids, leaving, now, mirror, answered, retired, disturbed>>
    BY DEF SignToken, history
  <1> DEFINE claim == [sub |-> q.id, exp |-> now + Ttl]
             next == [q EXCEPT !.pc = "store", !.token = t]
  <1>2. /\ TypeOK /\ joining \in [Joins -> JoinRequests \cup {Idle}] /\ jwts \in [1..MaxTokens -> Claims \cup {None}]
        /\ now \in 0..MaxNow /\ MaxNow \in Nat /\ Ttl \in Nat /\ MaxTokens \in Nat
    BY RegistryConstants DEF RegistryInv, TypeOK
  <1>3. q # Idle /\ q \in JoinRequests /\ q.id \in Ids /\ q.id \in Nat
    BY <1>1, <1>2, JoinTypes DEF Idle
  <1>4. /\ next \in JoinRequests /\ next.pc = "store" /\ next.did = q.did /\ next.id = q.id /\ next.token = t
        /\ next # Idle
    <2>0. t \in 0..MaxTokens
      BY <1>2
    <2>1. /\ next \in JoinRequests /\ next.pc = "store" /\ next.did = q.did /\ next.id = q.id /\ next.token = t
      BY <1>3, <2>0 DEF JoinRequests
    <2> QED
      BY <2>1 DEF Idle
  <1>5. claim \in Claims /\ claim # None /\ claim.sub = q.id /\ claim.exp = now + Ttl
    BY <1>2, <1>3, NoneIsNoRow DEF Claims
  <1> HIDE DEF claim, next
  <1>6. /\ \A k \in Joins : joining'[k] = IF k = j THEN next ELSE joining[k]
        /\ \A u \in 1..MaxTokens : jwts'[u] = IF u = t THEN claim ELSE jwts[u]
    BY <1>1, <1>2 DEF claim, next
  <1>7. t \notin issued
    BY <1>1
  <1>8. issued' = issued \cup {t} /\ Idle' = Idle
    BY <1>5, <1>6 DEF issued, Idle
  <1>9. \A u \in issued : u \in 1..MaxTokens /\ u # t /\ jwts'[u] = jwts[u]
    BY <1>6, <1>7 DEF issued
  <1>10. TypeOK'
    <2>1. joining' \in [Joins -> JoinRequests \cup {Idle}] /\ jwts' \in [1..MaxTokens -> Claims \cup {None}]
      BY <1>1, <1>2, <1>4, <1>5 DEF claim, next
    <2> QED
      BY <1>1, <2>1 DEF RegistryInv, TypeOK
  <1>11. IdsOwned' /\ IdsMinted'
    <2>1. \A u \in issued' : jwts'[u].sub <= ids
      BY <1>3, <1>5, <1>6, <1>8, <1>9 DEF RegistryInv, IdsMinted
    <2> QED
      BY <1>1, <1>3, <1>4, <1>6, <2>1, IdsFrame
  <1>12. TokensIssued'
    <2>1. \A k \in Joins : joining'[k].pc \in {"store", "emit"} =>
             joining'[k].token \in issued' /\ jwts'[joining'[k].token].sub = joining'[k].id
      <3> SUFFICES ASSUME NEW k \in Joins, joining'[k].pc \in {"store", "emit"}
                   PROVE  joining'[k].token \in issued' /\ jwts'[joining'[k].token].sub = joining'[k].id
        OBVIOUS
      <3>1. CASE k = j
        BY <3>1, <1>4, <1>5, <1>6, <1>8
      <3>2. CASE k # j
        BY <3>2, <1>6, <1>8, <1>9 DEF RegistryInv, TokensIssued
      <3> QED
        BY <3>1, <3>2
    <2>2. \A u \in issued' : jwts'[u].exp <= now + Ttl
      BY <1>2, <1>5, <1>6, <1>8, <1>9 DEF RegistryInv, TokensIssued
    <2> QED
      BY <1>1, <1>8, <2>1, <2>2 DEF RegistryInv, TokensIssued
  <1>13. TokensPlaced'
    <2> SUFFICES ASSUME NEW u \in issued'
                 PROVE  /\ \A k, m \in ToStore(u)' : k = m
                        /\ \A d, c \in InRow(u)' : d = c
                        /\ ToStore(u)' # {} => InRow(u)' = {} /\ u \notin retired'
                        /\ InRow(u)' # {} => u \notin retired'
      BY DEF TokensPlaced
    <2>0. InRow(u)' = InRow(u)
      BY <1>1 DEF InRow
    <2>1. CASE u = t
      <3>1. t \notin retired /\ InRow(t) = {} /\ ToStore(t) = {}
        <4>1. t # 0
          BY <1>2
        <4> QED
          BY <4>1, <1>7 DEF RegistryInv, TokensIssued, InRow, ToStore
      <3>2. ToStore(u)' = {j}
        BY <2>1, <3>1, <1>4, <1>6 DEF ToStore
      <3> QED
        BY <1>1, <2>0, <2>1, <3>1, <3>2
    <2>2. CASE u # t
      <3>1. u \in issued
        BY <2>2, <1>8
      <3>2. ToStore(u)' \subseteq ToStore(u)
        BY <2>2, <1>4, <1>6 DEF ToStore
      <3> QED
        BY <1>1, <2>0, <3>1, <3>2 DEF RegistryInv, TokensPlaced
    <2> QED
      BY <2>1, <2>2
  <1>14. RowOutlivesToken'
    BY <1>1, <1>9, RowsFrame
  <1>15. Calm'
    <2> SUFFICES ASSUME NEW c \in Dids, c \notin disturbed PROVE CalmAt(c)'
      BY <1>1 DEF Calm
    <2>0. CalmAt(c)
      BY DEF RegistryInv, Calm
    <2>3. Leaving(c)' = Leaving(c)
      <3>1. \A l \in Leaves : leaving[l] # Idle => leaving[l].token \in issued
        BY DEF RegistryInv, TokensIssued
      <3>2. \A l \in Leaves : leaving[l] # Idle => jwts'[leaving[l].token] = jwts[leaving[l].token]
        BY <3>1, <1>9
      <3> QED
        BY <1>1, <1>8, <3>2 DEF Leaving, Holding
    <2>1. CASE c = q.did
      <3>1. j \in Joining(c)
        BY <2>1, <1>3 DEF Joining
      <3>2. Joining(c) = {j} /\ Leaving(c) = {} /\ Follows(c, q)
        BY <2>0, <2>1, <3>1 DEF CalmAt
      <3>3. Joining(c)' = {j}
        BY <2>1, <1>3, <1>4, <1>6, <1>8, <3>2 DEF Joining
      <3>4. Follows(c, joining[j])'
        BY <2>1, <1>1, <1>4, <1>6, <3>2 DEF Follows, Active
      <3> QED
        BY <2>3, <3>2, <3>3, <3>4 DEF CalmAt
    <2>2. CASE c # q.did
      <3>1. \A k \in Joining(c) : joining[k].id # q.id
        BY <2>2, <1>3 DEF RegistryInv, IdsOwned, Joining
      <3>2. \A u \in issued' : u \in issued \/ \A k \in Joining(c) : jwts'[u].sub # joining[k].id
        BY <3>1, <1>5, <1>6, <1>8
      <3> QED
        BY <2>2, <2>3, <3>2, <1>1, <1>3, <1>4, <1>6, <1>8, <1>9, CalmFrame
    <2> QED
      BY <2>1, <2>2
  <1> QED
    BY <1>10, <1>11, <1>12, <1>13, <1>14, <1>15 DEF RegistryInv

LEMMA EmitRegisteredKeeps ==
  ASSUME RegistryInv, NEW j \in Joins, EmitRegistered(j)
  PROVE  RegistryInv'
  <1> DEFINE q == joining[j]
  <1>1. /\ q.pc = "emit" /\ mirror' = ReplicaRegistered(q.did, q.id) /\ answered' = [answered EXCEPT ![q.did] = q.token]
        /\ joining' = [joining EXCEPT ![j] = Idle]
        /\ UNCHANGED <<replicas, jwts, ids, leaving, now, retired, disturbed>>
    BY DEF EmitRegistered
  <1>2. /\ TypeOK /\ joining \in [Joins -> JoinRequests \cup {Idle}] /\ mirror \in [Dids -> 0..MaxIds] /\ MaxIds \in Nat
        /\ answered \in [Dids -> 0..MaxTokens]
    BY RegistryConstants DEF RegistryInv, TypeOK
  <1>3. q # Idle /\ q.did \in Dids /\ q.id \in Ids /\ q.id >= 1 /\ q.token \in 0..MaxTokens
    BY <1>1, <1>2, JoinTypes DEF Idle
  <1>4. Idle' = Idle /\ issued' = issued /\ Idle.pc = "idle"
    BY <1>1 DEF Idle, issued
  <1>5. \A k \in Joins : joining'[k] = IF k = j THEN Idle ELSE joining[k]
    BY <1>1, <1>2
  <1>6. /\ mirror' \in [Dids -> 0..MaxIds]
        /\ \A c \in Dids : mirror'[c] = IF c = q.did THEN q.id ELSE IF mirror[c] = q.id THEN 0 ELSE mirror[c]
    BY <1>1, <1>2, <1>3 DEF ReplicaRegistered, Ids
  <1>7. TypeOK'
    <2>1. joining' \in [Joins -> JoinRequests \cup {Idle}] /\ answered' \in [Dids -> 0..MaxTokens]
      BY <1>1, <1>2, <1>3
    <2> QED
      BY <1>1, <1>6, <2>1 DEF RegistryInv, TypeOK
  <1>8. IdsOwned' /\ IdsMinted'
    <2>1. \A t \in issued' : jwts'[t].sub <= ids
      BY <1>1, <1>4 DEF RegistryInv, IdsMinted
    <2> QED
      BY <1>1, <1>5, <2>1, IdsFrame
  <1>9. TokensIssued' /\ TokensPlaced'
    <2>1. \A k \in Joins : joining'[k].pc \in {"store", "emit"} => joining'[k] = joining[k]
      BY <1>4, <1>5
    <2>2. \A l \in Leaves : leaving'[l] # Idle => leaving'[l].token \in issued
      BY <1>1 DEF RegistryInv, TokensIssued
    <2>3. now' \in Nat /\ now' >= now
      BY <1>1 DEF RegistryInv, TypeOK
    <2> QED
      BY <1>1, <2>1, <2>2, <2>3, TokensFrame
  <1>10. RowOutlivesToken'
    BY <1>1, RowsFrame
  <1>11. Calm'
    <2> SUFFICES ASSUME NEW c \in Dids, c \notin disturbed PROVE CalmAt(c)'
      BY <1>1 DEF Calm
    <2>0. CalmAt(c)
      BY DEF RegistryInv, Calm
    <2>1. CASE c = q.did
      <3>1. j \in Joining(c)
        BY <2>1, <1>3 DEF Joining
      <3>2. Joining(c) = {j} /\ Follows(c, q)
        BY <2>0, <2>1, <3>1 DEF CalmAt
      <3>3. Joining(c)' = {}
        BY <1>4, <1>5, <3>2 DEF Joining
      <3>4. Active(c) /\ replicas[c].id = q.id /\ replicas[c].token = q.token
        BY <3>2, <1>1 DEF Follows
      <3>5. q.token \in issued /\ jwts[q.token].sub = q.id
        BY <1>1 DEF RegistryInv, TokensIssued
      <3>6. answered'[c] = q.token /\ mirror'[c] = q.id
        BY <2>1, <1>1, <1>2, <1>6
      <3>7. Settled(c)'
        BY <1>1, <1>4, <3>4, <3>5, <3>6 DEF Settled, Active
      <3> QED
        BY <3>3, <3>7 DEF CalmAt
    <2>2. CASE c # q.did
      <3>0. answered'[c] = answered[c] /\ replicas'[c] = replicas[c]
        BY <2>2, <1>1, <1>2
      <3>1. Joining(c) = {} /\ Settled(c) => mirror'[c] = mirror[c]
        <4>1. Settled(c) => mirror[c] # q.id
          BY <2>2, <1>3 DEF RegistryInv, IdsOwned, Settled, Active
        <4> QED
          BY <2>2, <4>1, <1>6
      <3>2. Leaving(c)' \subseteq Leaving(c)
        BY <1>1, <1>4 DEF Leaving, Holding
      <3> QED
        BY <2>2, <3>0, <3>1, <3>2, <1>1, <1>3, <1>4, <1>5, CalmFrame
    <2> QED
      BY <2>1, <2>2
  <1> QED
    BY <1>7, <1>8, <1>9, <1>10, <1>11 DEF RegistryInv

LEMMA StoreTokenKeeps ==
  ASSUME RegistryInv, NEW j \in Joins, StoreToken(j)
  PROVE  RegistryInv'
  <1> DEFINE q == joining[j]
  <1>1. q.pc = "store" /\ UNCHANGED <<jwts, ids, leaving, now, mirror, answered, disturbed>>
    BY DEF StoreToken
  <1>2. /\ TypeOK /\ joining \in [Joins -> JoinRequests \cup {Idle}] /\ replicas \in [Dids -> Rows \cup {None}]
        /\ now \in 0..MaxNow /\ MaxNow \in Nat /\ Ttl \in Nat /\ MaxTokens \in Nat /\ retired \subseteq 1..MaxTokens
    BY RegistryConstants DEF RegistryInv, TypeOK
  <1>3. q # Idle /\ q \in JoinRequests /\ q.did \in Dids /\ q.id \in Ids /\ q.id \in Nat
    BY <1>1, <1>2, JoinTypes DEF Idle
  <1>4. Idle' = Idle /\ issued' = issued /\ Idle.pc = "idle"
    BY <1>1 DEF Idle, issued
  <1>5. /\ \A l \in Leaves : leaving'[l] # Idle => leaving'[l].token \in issued
        /\ \A t \in issued' : jwts'[t].sub <= ids
        /\ now' \in Nat /\ now' >= now
    BY <1>1, <1>2, <1>4 DEF RegistryInv, TokensIssued, IdsMinted
  <1>6. q.token \in issued /\ jwts[q.token].sub = q.id /\ jwts[q.token].exp <= now + Ttl /\ jwts[q.token].exp \in Nat
    BY <1>1, <1>2, ClaimTypes DEF RegistryInv, TokensIssued
  <1>7. CASE Holding(q.id) = {}
    <2>1. joining' = [joining EXCEPT ![j] = Idle] /\ replicas' = replicas /\ retired' = retired
      BY <1>7 DEF StoreToken
    <2>2. \A k \in Joins : joining'[k] = IF k = j THEN Idle ELSE joining[k]
      BY <1>2, <2>1
    <2>3. TypeOK'
      <3>1. joining' \in [Joins -> JoinRequests \cup {Idle}]
        BY <1>2, <2>1
      <3> QED
        BY <1>1, <2>1, <3>1 DEF RegistryInv, TypeOK
    <2>4. IdsOwned' /\ IdsMinted'
      BY <1>1, <1>5, <2>1, <2>2, IdsFrame
    <2>5. TokensIssued' /\ TokensPlaced'
      <3>1. \A k \in Joins : joining'[k].pc \in {"store", "emit"} => joining'[k] = joining[k]
        BY <1>4, <2>2
      <3> QED
        BY <1>1, <1>5, <2>1, <3>1, TokensFrame
    <2>6. RowOutlivesToken'
      BY <1>1, <2>1, RowsFrame
    <2>7. Calm'
      <3> SUFFICES ASSUME NEW c \in Dids, c \notin disturbed PROVE CalmAt(c)'
        BY <1>1 DEF Calm
      <3>1. c # q.did
        <4> SUFFICES ASSUME c = q.did PROVE FALSE
          OBVIOUS
        <4>1. j \in Joining(c)
          BY <1>3 DEF Joining
        <4>2. Active(c) /\ replicas[c].id = q.id
          BY <4>1, <1>1 DEF RegistryInv, Calm, CalmAt, Follows
        <4> QED
          BY <4>2, <1>7 DEF Active, Holding
      <3>2. Leaving(c)' \subseteq Leaving(c)
        BY <1>1, <1>4, <2>1 DEF Leaving, Holding
      <3> QED
        BY <3>1, <3>2, <1>1, <1>3, <1>4, <2>1, <2>2, CalmFrame
    <2> QED
      BY <2>3, <2>4, <2>5, <2>6, <2>7 DEF RegistryInv
  <1>8. CASE Holding(q.id) # {}
    <2>1. PICK d \in Dids : d = q.did
      BY <1>3
    <2> DEFINE row == replicas[d]
               new == WithToken(row, q.token)
               next == [q EXCEPT !.pc = "emit"]
    <2>2. Holding(q.id) = {d} /\ row # None /\ row.id = q.id
      BY <1>3, <1>8, <2>1 DEF RegistryInv, IdsOwned, Holding
    <2>3. /\ replicas' = [c \in Dids |-> IF c \in Holding(q.id) THEN WithToken(replicas[c], q.token) ELSE replicas[c]]
          /\ retired' = retired \cup ({replicas[c].token : c \in Holding(q.id)} \ {0})
          /\ joining' = [joining EXCEPT ![j] = next]
      BY <1>8 DEF StoreToken
    <2>4. next \in JoinRequests /\ next.pc = "emit" /\ next.did = d /\ next.id = q.id /\ next.token = q.token
      BY <1>3, <2>1 DEF JoinRequests
    <2>5. next # Idle
      BY <2>4, <1>4
    <2>6. row \in Rows
      BY <1>2, <2>2
    <2>7. /\ new \in Rows /\ new.id = row.id /\ new.status = row.status /\ new.token = q.token /\ new.until = now + Ttl
      <3>1. q.token \in 0..MaxTokens /\ now + Ttl \in 0..(MaxNow + Ttl)
        BY <1>2, <1>3, JoinTypes
      <3> QED
        BY <2>6, <3>1 DEF WithToken, Rows
    <2>8. new # None
      BY <2>7, NoneIsNoRow
    <2>9. \A c \in Dids : replicas'[c] = IF c = d THEN new ELSE replicas[c]
      BY <2>2, <2>3
    <2>10. retired' = retired \cup ({row.token} \ {0})
      BY <2>2, <2>3
    <2> HIDE DEF new, next
    <2>11. \A k \in Joins : joining'[k] = IF k = j THEN next ELSE joining[k]
      BY <1>2, <2>3
    <2>12. row.token # 0 => row.token \in issued
      BY <2>2 DEF RegistryInv, TokensIssued
    <2>13. TypeOK'
      <3>1. joining' \in [Joins -> JoinRequests \cup {Idle}]
        BY <1>2, <2>3, <2>4
      <3>2. replicas' \in [Dids -> Rows \cup {None}]
        BY <1>2, <2>3, <2>7, <2>9
      <3>3. retired' \subseteq 1..MaxTokens
        BY <1>2, <2>10, <2>12, ClaimTypes
      <3> QED
        BY <1>1, <3>1, <3>2, <3>3 DEF RegistryInv, TypeOK
    <2>14. IdsOwned' /\ IdsMinted'
      BY <1>1, <1>3, <1>5, <2>1, <2>2, <2>4, <2>7, <2>9, <2>11, IdsFrame
    <2>15. TokensIssued'
      <3>1. retired' \subseteq issued
        BY <2>10, <2>12 DEF RegistryInv, TokensIssued
      <3>2. \A c \in Dids : replicas'[c] # None /\ replicas'[c].token # 0 => replicas'[c].token \in issued
        BY <1>6, <2>7, <2>9 DEF RegistryInv, TokensIssued
      <3>3. \A k \in Joins : joining'[k].pc \in {"store", "emit"} =>
              joining'[k].token \in issued /\ jwts[joining'[k].token].sub = joining'[k].id
        BY <1>6, <2>4, <2>11 DEF RegistryInv, TokensIssued
      <3> QED
        BY <1>1, <1>4, <1>5, <3>1, <3>2, <3>3 DEF RegistryInv, TokensIssued
    <2>16. TokensPlaced'
      <3> SUFFICES ASSUME NEW u \in issued
                   PROVE  /\ \A k, m \in ToStore(u)' : k = m
                          /\ \A e, c \in InRow(u)' : e = c
                          /\ ToStore(u)' # {} => InRow(u)' = {} /\ u \notin retired'
                          /\ InRow(u)' # {} => u \notin retired'
        BY <1>4 DEF TokensPlaced
      <3>1. /\ \A k, m \in ToStore(u) : k = m
            /\ \A e, c \in InRow(u) : e = c
            /\ ToStore(u) # {} => InRow(u) = {} /\ u \notin retired
            /\ InRow(u) # {} => u \notin retired
        BY DEF RegistryInv, TokensPlaced
      <3>2. ToStore(u)' = ToStore(u) \ {j}
        BY <2>4, <2>11 DEF ToStore
      <3>3. CASE u = q.token
        <4>1. j \in ToStore(u)
          BY <3>3, <1>1 DEF ToStore
        <4>2. ToStore(u)' = {} /\ InRow(u) = {} /\ u \notin retired
          BY <3>1, <3>2, <4>1
        <4>3. row.token # u
          BY <4>2, <2>2 DEF InRow
        <4>4. InRow(u)' = {d}
          BY <3>3, <4>2, <2>7, <2>8, <2>9 DEF InRow
        <4> QED
          BY <4>2, <4>3, <4>4, <2>10
      <3>4. CASE u # q.token
        <4>1. InRow(u)' = InRow(u) \ {d}
          BY <3>4, <2>7, <2>9 DEF InRow
        <4>2. CASE row.token = u
          <5>1. d \in InRow(u)
            BY <4>2, <2>2 DEF InRow
          <5> QED
            BY <3>1, <3>2, <4>1, <5>1
        <4>3. CASE row.token # u
          <5>1. u \in retired' <=> u \in retired
            BY <4>3, <2>10
          <5> QED
            BY <3>1, <3>2, <4>1, <5>1
        <4> QED
          BY <4>2, <4>3
      <3> QED
        BY <3>3, <3>4
    <2>17. RowOutlivesToken'
      <3>1. new.until >= jwts[q.token].exp
        BY <1>2, <1>6, <2>7
      <3> QED
        BY <1>1, <2>7, <2>9, <3>1 DEF RegistryInv, RowOutlivesToken
    <2>18. Calm'
      <3> SUFFICES ASSUME NEW c \in Dids, c \notin disturbed PROVE CalmAt(c)'
        BY <1>1 DEF Calm
      <3>0. CalmAt(c)
        BY DEF RegistryInv, Calm
      <3>1. Leaving(c)' = Leaving(c)
        BY <1>1, <1>4, <2>2, <2>7, <2>8, <2>9 DEF Leaving, Holding
      <3>2. CASE c = d
        <4>1. j \in Joining(c)
          BY <3>2, <1>3, <2>1 DEF Joining
        <4>2. Joining(c) = {j} /\ Leaving(c) = {} /\ Follows(c, q)
          BY <3>0, <4>1 DEF CalmAt
        <4>3. Joining(c)' = {j}
          BY <3>2, <1>4, <2>4, <2>5, <2>11, <4>2 DEF Joining
        <4>4. Follows(c, joining[j])'
          BY <3>2, <1>1, <2>4, <2>7, <2>8, <2>9, <2>11, <4>2 DEF Follows, Active
        <4> QED
          BY <3>1, <4>2, <4>3, <4>4 DEF CalmAt
      <3>3. CASE c # d
        BY <3>1, <3>3, <1>1, <1>3, <1>4, <2>1, <2>4, <2>5, <2>9, <2>11, CalmFrame
      <3> QED
        BY <3>2, <3>3
    <2> QED
      BY <2>13, <2>14, <2>15, <2>16, <2>17, <2>18 DEF RegistryInv
  <1> QED
    BY <1>7, <1>8

---------------------------------------------------------------------------
(* The steps of a leave *)

\* A leave that starts disturbs what is busy; one that goes on or ends changes nothing else.
LEMMA LeaveMoves ==
  ASSUME RegistryInv, NEW l \in Leaves, NEW x \in LeaveRequests \cup {Idle}, leaving' = [leaving EXCEPT ![l] = x],
         x # Idle => x.token \in issued,
         UNCHANGED <<replicas, jwts, ids, joining, now, mirror, answered, retired>>, disturbed' \subseteq Dids, disturbed \subseteq disturbed',
         \/ x = Idle
         \/ leaving[l] # Idle /\ x.token = leaving[l].token
         \/ \A d \in Holding(jwts[x.token].sub) : Joining(d) # {} => d \in disturbed'
  PROVE  RegistryInv'
  <1>1. leaving \in [Leaves -> LeaveRequests \cup {Idle}] /\ Idle' = Idle /\ issued' = issued
    BY DEF RegistryInv, TypeOK, Idle, issued
  <1>2. \A m \in Leaves : leaving'[m] = IF m = l THEN x ELSE leaving[m]
    BY <1>1
  <1>3. TypeOK'
    <2>1. leaving' \in [Leaves -> LeaveRequests \cup {Idle}]
      BY <1>1
    <2> QED
      BY <2>1 DEF RegistryInv, TypeOK
  <1>4. IdsOwned' /\ IdsMinted'
    <2>1. \A t \in issued' : jwts'[t].sub <= ids
      BY <1>1 DEF RegistryInv, IdsMinted
    <2> QED
      BY <2>1, IdsFrame
  <1>5. TokensIssued' /\ TokensPlaced'
    <2>1. \A m \in Leaves : leaving'[m] # Idle => leaving'[m].token \in issued
      BY <1>2 DEF RegistryInv, TokensIssued
    <2>2. now' \in Nat /\ now' >= now
      BY DEF RegistryInv, TypeOK
    <2> QED
      BY <2>1, <2>2, TokensFrame
  <1>6. RowOutlivesToken'
    BY RowsFrame
  <1>7. Calm'
    <2> SUFFICES ASSUME NEW c \in Dids, c \notin disturbed' PROVE CalmAt(c)'
      BY DEF Calm
    <2>1. Joining(c) # {} => Leaving(c)' \subseteq Leaving(c)
      BY <1>1, <1>2 DEF Leaving, Holding
    <2> QED
      BY <2>1, <1>1, CalmFrame
  <1> QED
    BY <1>3, <1>4, <1>5, <1>6, <1>7 DEF RegistryInv

LEMMA LeaveKeeps ==
  ASSUME RegistryInv, NEW l \in Leaves,
         (\E t \in issued : StartLeave(l, t)) \/ CompareHash(l) \/ LeaveFails(l)
  PROVE  RegistryInv'
  <1>0. TypeOK /\ disturbed \subseteq Dids /\ (leaving[l] # Idle => leaving[l] \in LeaveRequests /\ leaving[l].token \in issued)
    BY LeaveTypes DEF RegistryInv, TypeOK, TokensIssued
  <1>1. ASSUME NEW t \in issued, StartLeave(l, t) PROVE RegistryInv'
    <2> DEFINE x == [pc |-> "hash", token |-> t]
    <2>1. x \in LeaveRequests /\ x.token = t
      BY <1>0, ClaimTypes DEF LeaveRequests
    <2>2. /\ leaving' = [leaving EXCEPT ![l] = x] /\ UNCHANGED <<replicas, jwts, ids, joining, now, mirror, answered, retired>>
          /\ disturbed' = disturbed \cup {d \in Holding(jwts[t].sub) : Busy(d)}
      BY <1>1 DEF StartLeave, Disturb
    <2>3. \A d \in Holding(jwts[t].sub) : Joining(d) # {} => d \in disturbed'
      BY <2>2 DEF Joining, Busy
    <2>4. disturbed' \subseteq Dids
      BY <1>0, <2>2 DEF Holding
    <2> HIDE DEF x
    <2> QED
      BY <2>1, <2>2, <2>3, <2>4, LeaveMoves
  <1>2. CASE CompareHash(l)
    <2>1. leaving[l] # Idle
      BY <1>2 DEF CompareHash, Idle
    <2>2. PICK x \in LeaveRequests \cup {Idle} :
            leaving' = [leaving EXCEPT ![l] = x] /\ (x # Idle => x.token = leaving[l].token)
      <3>1. [leaving[l] EXCEPT !.pc = "decommission"] \in LeaveRequests
        BY <1>0, <2>1 DEF LeaveRequests
      <3>2. [leaving[l] EXCEPT !.pc = "decommission"].token = leaving[l].token
        BY <1>0, <2>1 DEF LeaveRequests
      <3> QED
        BY <1>2, <3>1, <3>2 DEF CompareHash
    <2>3. UNCHANGED <<replicas, jwts, ids, joining, now, mirror, answered, retired>> /\ disturbed' = disturbed
      BY <1>2 DEF CompareHash, history
    <2> QED
      BY <1>0, <2>1, <2>2, <2>3, LeaveMoves
  <1>3. CASE LeaveFails(l)
    <2>1. leaving' = [leaving EXCEPT ![l] = Idle]
      BY <1>3 DEF LeaveFails
    <2>2. UNCHANGED <<replicas, jwts, ids, joining, now, mirror, answered, retired>> /\ disturbed' = disturbed
      BY <1>3 DEF LeaveFails, history
    <2> QED
      BY <1>0, <2>1, <2>2, LeaveMoves
  <1> QED
    BY <1>1, <1>2, <1>3

LEMMA DecommissionKeeps ==
  ASSUME RegistryInv, NEW l \in Leaves, Decommission(l)
  PROVE  RegistryInv'
  <1>1. PICK id : id = jwts[leaving[l].token].sub
    OBVIOUS
  <1>2. leaving[l].pc = "decommission" /\ leaving' = [leaving EXCEPT ![l] = Idle] /\ UNCHANGED <<jwts, ids, joining, now, disturbed>>
    BY DEF Decommission
  <1>3. /\ TypeOK /\ leaving \in [Leaves -> LeaveRequests \cup {Idle}] /\ replicas \in [Dids -> Rows \cup {None}]
        /\ mirror \in [Dids -> 0..MaxIds] /\ answered \in [Dids -> 0..MaxTokens] /\ MaxTokens \in Nat /\ MaxIds \in Nat
        /\ now \in 0..MaxNow /\ MaxNow \in Nat /\ Ttl \in Nat /\ disturbed \subseteq Dids /\ retired \subseteq 1..MaxTokens
    BY RegistryConstants DEF RegistryInv, TypeOK
  <1>4. leaving[l] # Idle
    BY <1>2 DEF Idle
  <1>5. CASE ~replica_is_active(id)
    <2>1. UNCHANGED <<replicas, mirror, retired, answered>>
      BY <1>1, <1>5 DEF Decommission
    <2> QED
      BY <1>2, <1>3, <2>1, LeaveMoves
  <1>6. CASE replica_is_active(id)
    <2>1. PICK d \in Holding(id) : replicas[d].status = "active"
      BY <1>6 DEF replica_is_active
    <2>2. d \in Dids /\ Holding(id) = {d} /\ replicas[d] # None /\ replicas[d].id = id
      BY <2>1 DEF Holding, RegistryInv, IdsOwned
    <2> DEFINE row == replicas[d]
               new == Decommissioned(row)
    <2>3. /\ replicas' = [c \in Dids |-> IF c \in Holding(id) THEN Decommissioned(replicas[c]) ELSE replicas[c]]
          /\ mirror' = [c \in Dids |-> IF mirror[c] = id THEN 0 ELSE mirror[c]]
          /\ retired' = retired \cup ({replicas[c].token : c \in Holding(id)} \ {0})
          /\ answered' = [c \in Dids |-> IF c \in Holding(id) THEN 0 ELSE answered[c]]
      BY <1>1, <1>6 DEF Decommission, ReplicaDeregistered
    <2>4. row \in Rows
      BY <1>3, <2>2
    <2>5. new \in Rows /\ new.id = row.id /\ new.status = "decommissioned" /\ new.token = 0
      <3>1. 0 \in 0..MaxTokens /\ now \in 0..(MaxNow + Ttl)
        BY <1>3
      <3> QED
        BY <2>4, <3>1 DEF Decommissioned, Rows
    <2>6. new # None
      BY <2>5, NoneIsNoRow
    <2>7. /\ \A c \in Dids : replicas'[c] = IF c = d THEN new ELSE replicas[c]
          /\ \A c \in Dids : mirror'[c] = IF mirror[c] = id THEN 0 ELSE mirror[c]
          /\ \A c \in Dids : answered'[c] = IF c = d THEN 0 ELSE answered[c]
          /\ retired' = retired \cup ({row.token} \ {0})
      BY <2>2, <2>3
    <2> HIDE DEF new
    <2>8. Idle' = Idle /\ issued' = issued
      BY <1>2 DEF Idle, issued
    <2>9. \A m \in Leaves : leaving'[m] = IF m = l THEN Idle ELSE leaving[m]
      BY <1>2, <1>3
    <2>10. row.token # 0 => row.token \in issued
      BY <2>2 DEF RegistryInv, TokensIssued
    <2>11. TypeOK'
      <3>1. leaving' \in [Leaves -> LeaveRequests \cup {Idle}]
        BY <1>2, <1>3
      <3>2. replicas' \in [Dids -> Rows \cup {None}]
        BY <1>3, <2>3, <2>5, <2>7
      <3>3. mirror' \in [Dids -> 0..MaxIds] /\ answered' \in [Dids -> 0..MaxTokens]
        BY <1>3, <2>3
      <3>4. retired' \subseteq 1..MaxTokens
        BY <1>3, <2>7, <2>10, ClaimTypes
      <3> QED
        BY <1>2, <3>1, <3>2, <3>3, <3>4 DEF RegistryInv, TypeOK
    <2>12. IdsOwned' /\ IdsMinted'
      <3>1. \A t \in issued' : jwts'[t].sub <= ids
        BY <1>2, <2>8 DEF RegistryInv, IdsMinted
      <3> QED
        BY <1>2, <2>2, <2>5, <2>7, <3>1, IdsFrame
    <2>13. TokensIssued'
      <3>1. retired' \subseteq issued
        BY <2>7, <2>10 DEF RegistryInv, TokensIssued
      <3>2. \A c \in Dids : replicas'[c] # None /\ replicas'[c].token # 0 => replicas'[c].token \in issued
        BY <2>5, <2>7 DEF RegistryInv, TokensIssued
      <3> QED
        BY <1>2, <2>8, <2>9, <3>1, <3>2 DEF RegistryInv, TokensIssued
    <2>14. TokensPlaced'
      <3> SUFFICES ASSUME NEW u \in issued
                   PROVE  /\ \A k, m \in ToStore(u)' : k = m
                          /\ \A e, c \in InRow(u)' : e = c
                          /\ ToStore(u)' # {} => InRow(u)' = {} /\ u \notin retired'
                          /\ InRow(u)' # {} => u \notin retired'
        BY <2>8 DEF TokensPlaced
      <3>1. /\ \A k, m \in ToStore(u) : k = m
            /\ \A e, c \in InRow(u) : e = c
            /\ ToStore(u) # {} => InRow(u) = {} /\ u \notin retired
            /\ InRow(u) # {} => u \notin retired
        BY DEF RegistryInv, TokensPlaced
      <3>2. ToStore(u)' = ToStore(u) /\ u # 0
        BY <1>2, <1>3, ClaimTypes DEF ToStore
      <3>3. InRow(u)' = InRow(u) \ {d}
        BY <3>2, <2>5, <2>7 DEF InRow
      <3>4. CASE row.token = u
        <4>1. d \in InRow(u)
          BY <3>4, <2>2 DEF InRow
        <4> QED
          BY <3>1, <3>2, <3>3, <4>1
      <3>5. CASE row.token # u
        <4>1. u \in retired' <=> u \in retired
          BY <3>5, <2>7
        <4> QED
          BY <3>1, <3>2, <3>3, <4>1
      <3> QED
        BY <3>4, <3>5
    <2>15. RowOutlivesToken'
      BY <1>2, <2>5, <2>7 DEF RegistryInv, RowOutlivesToken
    <2>16. Calm'
      <3> SUFFICES ASSUME NEW c \in Dids, c \notin disturbed PROVE CalmAt(c)'
        BY <1>2 DEF Calm
      <3>0. CalmAt(c)
        BY DEF RegistryInv, Calm
      <3>1. CASE c = d
        <4>1. l \in Leaving(c)
          BY <3>1, <1>1, <1>4, <2>2 DEF Leaving
        <4>2. Joining(c) = {} /\ Settled(c)
          BY <3>0, <4>1 DEF CalmAt
        <4>3. Joining(c)' = {}
          BY <4>2, <1>2, <2>8 DEF Joining
        <4>4. mirror[c] = id
          BY <3>1, <4>2, <2>1, <2>2 DEF Settled, Active
        <4>5. Settled(c)'
          BY <3>1, <4>4, <2>5, <2>7 DEF Settled, Active
        <4> QED
          BY <4>3, <4>5 DEF CalmAt
      <3>2. CASE c # d
        <4>1. Joining(c) = {} /\ Settled(c) => mirror'[c] = mirror[c]
          BY <3>2, <2>2, <2>7 DEF RegistryInv, IdsOwned, Settled, Active
        <4>2. Leaving(c)' \subseteq Leaving(c)
          BY <3>2, <1>2, <2>7, <2>8, <2>9 DEF Leaving, Holding
        <4> QED
          BY <3>2, <4>1, <4>2, <1>2, <2>7, <2>8, CalmFrame
      <3> QED
        BY <3>1, <3>2
    <2> QED
      BY <2>11, <2>12, <2>13, <2>14, <2>15, <2>16 DEF RegistryInv
  <1> QED
    BY <1>5, <1>6

---------------------------------------------------------------------------
(* The invariant *)

LEMMA TickKeeps ==
  ASSUME RegistryInv, Tick
  PROVE  RegistryInv'
  <1>1. now' = now + 1 /\ now < MaxNow /\ UNCHANGED <<replicas, jwts, ids, joining, leaving, mirror, answered, retired, disturbed>>
    BY DEF Tick, history
  <1>2. Idle' = Idle /\ issued' = issued /\ now \in 0..MaxNow /\ MaxNow \in Nat
    BY <1>1, RegistryConstants DEF Idle, issued, RegistryInv, TypeOK
  <1>3. TypeOK'
    <2>1. now' \in 0..MaxNow
      BY <1>1, <1>2
    <2> QED
      BY <1>1, <2>1 DEF RegistryInv, TypeOK
  <1>4. IdsOwned' /\ IdsMinted' /\ RowOutlivesToken'
    BY <1>1, <1>2 DEF RegistryInv, IdsOwned, IdsMinted, RowOutlivesToken
  <1>5. TokensIssued' /\ TokensPlaced'
    <2>1. \A l \in Leaves : leaving'[l] # Idle => leaving'[l].token \in issued
      BY <1>1 DEF RegistryInv, TokensIssued
    <2>2. now' \in Nat /\ now' >= now
      BY <1>1, <1>2
    <2> QED
      BY <1>1, <2>1, <2>2, TokensFrame
  <1>6. Calm'
    <2> SUFFICES ASSUME NEW c \in Dids, c \notin disturbed PROVE CalmAt(c)'
      BY <1>1 DEF Calm
    <2>1. Leaving(c)' \subseteq Leaving(c)
      BY <1>1, <1>2 DEF Leaving, Holding
    <2> QED
      BY <2>1, <1>1, <1>2, CalmFrame
  <1> QED
    BY <1>3, <1>4, <1>5, <1>6 DEF RegistryInv

LEMMA RegistryKept == RegistryInv /\ [Next]_vars => RegistryInv'
  <1> SUFFICES ASSUME RegistryInv, [Next]_vars PROVE RegistryInv'
    OBVIOUS
  <1>1. CASE UNCHANGED vars
    <2>1. UNCHANGED <<replicas, jwts, ids, joining, leaving, now, mirror, answered, retired, disturbed>>
      BY <1>1 DEF vars, history
    <2>2. Idle' = Idle /\ issued' = issued
      BY <2>1 DEF Idle, issued
    <2>3. TypeOK' /\ IdsOwned' /\ IdsMinted' /\ TokensIssued' /\ RowOutlivesToken'
      BY <2>1, <2>2 DEF RegistryInv, TypeOK, IdsOwned, IdsMinted, TokensIssued, RowOutlivesToken
    <2>4. TokensPlaced'
      BY <2>1, <2>2 DEF RegistryInv, TokensPlaced, ToStore, InRow
    <2>5. Calm'
      <3> SUFFICES ASSUME NEW c \in Dids, c \notin disturbed PROVE CalmAt(c)'
        BY <2>1 DEF Calm
      <3>1. Leaving(c)' \subseteq Leaving(c)
        BY <2>1, <2>2 DEF Leaving, Holding
      <3> QED
        BY <2>1, <2>2, <3>1, CalmFrame
    <2> QED
      BY <2>3, <2>4, <2>5 DEF RegistryInv
  <1>2. ASSUME Next PROVE RegistryInv'
    BY <1>2, TickKeeps, StartJoinKeeps, UpsertReplicaKeeps, JoinFailuresKeep, SignTokenKeeps, StoreTokenKeeps,
       EmitRegisteredKeeps, LeaveKeeps, DecommissionKeeps DEF Next
  <1> QED
    BY <1>1, <1>2

LEMMA RegistryInitial == Init => RegistryInv
  <1> SUFFICES ASSUME Init PROVE RegistryInv
    OBVIOUS
  <1>1. TypeOK
    BY RegistryConstants DEF Init, TypeOK
  <1>2. issued = {} /\ Idle.pc = "idle"
    BY DEF Init, issued, Idle
  <1>3. IdsOwned /\ IdsMinted /\ TokensIssued /\ TokensPlaced /\ RowOutlivesToken
    BY <1>2 DEF Init, IdsOwned, IdsMinted, TokensIssued, TokensPlaced, RowOutlivesToken
  <1>4. Calm
    BY DEF Init, Calm, CalmAt, Joining, Settled, Active
  <1> QED
    BY <1>1, <1>3, <1>4 DEF RegistryInv

LEMMA RegistryInvSafe == RegistryInv => Safety
  <1> SUFFICES ASSUME RegistryInv PROVE Safety
    OBVIOUS
  <1>1. RetiredTokensStayRetired
    <2> SUFFICES ASSUME NEW t \in retired, Accepts(t) PROVE FALSE
      BY DEF RetiredTokensStayRetired
    <2>1. t \in issued
      BY DEF RegistryInv, TokensIssued
    <2>2. PICK d \in Dids : replicas[d] # None /\ replicas[d].token = t
      BY DEF Accepts, TokenCurrent, Holding
    <2> QED
      BY <2>1, <2>2 DEF RegistryInv, TokensPlaced, InRow
  <1>2. AnsweredTokenAccepted
    <2> SUFFICES ASSUME NEW d \in Dids, answered[d] # 0, d \notin disturbed, ~Busy(d), now < jwts[answered[d]].exp
                 PROVE  Accepts(answered[d])
      BY DEF AnsweredTokenAccepted
    <2>1. Joining(d) = {}
      BY DEF Busy, Joining
    <2>2. Settled(d)
      BY <2>1 DEF RegistryInv, Calm, CalmAt
    <2>3. /\ Active(d) /\ answered[d] = replicas[d].token /\ answered[d] \in issued
          /\ jwts[answered[d]].sub = replicas[d].id
      BY <2>2 DEF Settled
    <2>4. jwts[answered[d]].exp \in Nat /\ now \in Nat /\ replicas[d].until \in Nat /\ jwts[answered[d]] # None
      BY <2>3, ClaimTypes, RowTypes DEF RegistryInv, TypeOK, Active
    <2>5. replicas[d].until >= jwts[answered[d]].exp
      BY <2>3 DEF RegistryInv, RowOutlivesToken, Active
    <2>6. d \in Holding(jwts[answered[d]].sub)
      BY <2>3 DEF Holding, Active
    <2>7. replicas[d].until > now /\ jwts[answered[d]].exp >= now
      BY <2>4, <2>5
    <2> QED
      BY <2>3, <2>4, <2>6, <2>7 DEF Accepts, verify_replica_jwt, replica_is_active, TokenCurrent, Active
  <1>3. MirrorAgrees
    <2> SUFFICES ASSUME NEW d \in Dids \ disturbed, ~Busy(d)
                 PROVE  mirror[d] = IF replicas[d] # None /\ replicas[d].status = "active" THEN replicas[d].id ELSE 0
      BY DEF MirrorAgrees
    <2>1. Joining(d) = {}
      BY DEF Busy, Joining
    <2> QED
      BY <2>1 DEF RegistryInv, Calm, CalmAt, Settled, Active
  <1> QED
    BY <1>1, <1>2, <1>3 DEF RegistryInv, Safety

\* Overlapping, failing and repeated joins and leaves never revive a retired token, never
\* leave the token that was answered last without its row, and leave mirrors that agree
\* with the seed, for any number of replicas and of requests (replicas_register,
\* replicas_deregister, decommission_replica_with_event).
THEOREM RegistryIsSafe == Spec => []Safety
  <1> QED
    BY RegistryInitial, RegistryKept, RegistryInvSafe, PTL DEF Spec

\* The same in the composition with the other services of a directory, as it is checked.
THEOREM ServedRegistryIsSafe == MCSpec => []RegistrySafe
  <1>1. MCInit => RegistryInv
    BY RegistryInitial DEF MCInit
  <1>2. RegistryInv /\ [MCNext]_all => RegistryInv'
    <2>1. [MCNext]_all => [Next]_vars
      BY DEF MCNext, all
    <2> QED
      BY <2>1, RegistryKept
  <1>3. RegistryInv => RegistrySafe
    BY RegistryInvSafe DEF RegistrySafe
  <1> QED
    BY <1>1, <1>2, <1>3, PTL DEF MCSpec
=============================================================================
