--------------------------- MODULE ReplicaRegistry ---------------------------
(***************************************************************************)
(* The seed's registry of replicas (src/federation_handlers.rs, src/db.rs, *)
(* src/auth.rs): a replica joins with its DID and gets an id and a token,  *)
(* joins again to rotate the token, and leaves with the token.  Every      *)
(* repository call of a handler is a step.                                 *)
(*                                                                         *)
(* The row keeps the hash of one token, here the token's number, and 0 for *)
(* no token or the tombstone.  mirror is the registry of another replica   *)
(* that has applied the whole log (src/replica.rs).                        *)
(***************************************************************************)
EXTENDS Integers

CONSTANTS Dids,      \* the replicas' DIDs
          Joins,     \* concurrent POST /v1/replicas/register
          Leaves,    \* concurrent POST /v1/replicas/deregister
          None,      \* an absent row
          Ttl,       \* lifetime of a token and of a row: 90 days
          MaxTokens, \* bound on the tokens issued
          MaxIds,    \* bound on the ids minted
          MaxNow     \* bound on the clock

ASSUME RegistryConstants == /\ Ttl \in Nat \ {0} /\ MaxTokens \in Nat /\ MaxIds \in Nat /\ MaxNow \in Nat
                            /\ None \notin Dids

VARIABLES
  replicas,  \* the replicas table, by DID
  jwts,      \* the tokens issued: replica_jwt claims
  ids,       \* replica ids minted
  joining,   \* per register request
  leaving,   \* per deregister request
  now,
  mirror,    \* the id under which another replica lists each DID, 0 for not listed
  answered,  \* history: the token of the last registration that was answered
  retired,   \* history: tokens that were current and are not any more
  disturbed  \* history: DIDs with overlapping or failed requests

history == <<answered, retired, disturbed>>
vars == <<replicas, jwts, ids, joining, leaving, now, mirror, history>>

Ids == 1..MaxIds
Rows == [id : Ids, status : {"active", "decommissioned"}, token : 0..MaxTokens, until : 0..(MaxNow + Ttl)]
Claims == [sub : Ids, exp : 0..(MaxNow + Ttl)]
ASSUME NoneIsNoRow == None \notin Rows /\ None \notin Claims
Idle == [pc |-> "idle"]
JoinRequests == [pc : {"upsert", "sign", "store", "emit"}, did : Dids, id : Ids, token : 0..MaxTokens]
LeaveRequests == [pc : {"hash", "decommission"}, token : 1..MaxTokens]

issued == {t \in 1..MaxTokens : jwts[t] # None}
\* The DID that holds id, if any: replica_id is unique.
Holding(id) == {d \in Dids : replicas[d] # None /\ replicas[d].id = id}

Init ==
  /\ replicas = [d \in Dids |-> None]
  /\ jwts = [t \in 1..MaxTokens |-> None]
  /\ ids = 0
  /\ joining = [j \in Joins |-> Idle]
  /\ leaving = [l \in Leaves |-> Idle]
  /\ now = 0
  /\ mirror = [d \in Dids |-> 0]
  /\ answered = [d \in Dids |-> 0]
  /\ retired = {}
  /\ disturbed = {}

Tick ==
  /\ now < MaxNow
  /\ now' = now + 1
  /\ UNCHANGED <<replicas, jwts, ids, joining, leaving, mirror, history>>

---------------------------------------------------------------------------
\* replica_is_active
replica_is_active(id) == \E d \in Holding(id) : replicas[d].status = "active" /\ replicas[d].until > now
\* replica_token_hash, compared with the hash of the token.
TokenCurrent(t) == \E d \in Holding(jwts[t].sub) : replicas[d].token = t
\* verify_replica_jwt: signed by the seed and unexpired.
verify_replica_jwt(t) == jwts[t] # None /\ jwts[t].exp >= now
\* What snapshot and deregister ask of a token.
Accepts(t) == verify_replica_jwt(t) /\ replica_is_active(jwts[t].sub) /\ TokenCurrent(t)

Busy(d) == \/ \E j \in Joins : joining[j] # Idle /\ joining[j].did = d
           \/ \E l \in Leaves : leaving[l] # Idle /\ d \in Holding(jwts[leaving[l].token].sub)
Disturb(ds) == disturbed' = disturbed \cup ds

\* replica_id_by_did: the id of the DID's row, whatever its status, or None if there is no
\* row or the query fails.
replica_id_by_did(d) == {0} \cup (IF replicas[d] = None THEN {} ELSE {replicas[d].id})
\* replicas_register: that id, or a new one.
StartJoin(j, d) ==
  \E existing \in replica_id_by_did(d) :
    LET id == IF existing = 0 THEN ids + 1 ELSE existing
    IN /\ joining[j] = Idle
       /\ id \in Ids
       /\ joining' = [joining EXCEPT ![j] = [pc |-> "upsert", did |-> d, id |-> id, token |-> 0]]
       /\ ids' = IF existing = 0 THEN ids + 1 ELSE ids
       /\ Disturb(IF Busy(d) THEN {d} ELSE {})
       /\ UNCHANGED <<replicas, jwts, leaving, now, mirror, answered, retired>>

\* upsert_replica: an existing row of the DID takes the id and is active again, with
\* whatever token hash it has.
Upserted(row, id) ==
  [id |-> id, status |-> "active", token |-> IF row = None THEN 0 ELSE row.token, until |-> now + Ttl]
UpsertReplica(j) ==
  LET q == joining[j]
  IN /\ q.pc = "upsert"
     /\ replicas' = [replicas EXCEPT ![q.did] = Upserted(@, q.id)]
     /\ joining' = [joining EXCEPT ![j].pc = "sign"]
     /\ UNCHANGED <<jwts, ids, leaving, now, mirror, history>>

\* The upsert fails; its result is not looked at.
UpsertFails(j) ==
  /\ joining[j].pc = "upsert"
  /\ joining' = [joining EXCEPT ![j].pc = "sign"]
  /\ Disturb({joining[j].did})
  /\ UNCHANGED <<replicas, jwts, ids, leaving, now, mirror, answered, retired>>

\* issue_replica_jwt
SignToken(j) ==
  \E t \in 1..MaxTokens :
    /\ joining[j].pc = "sign"
    /\ issued = 1..(t - 1)
    /\ jwts' = [jwts EXCEPT ![t] = [sub |-> joining[j].id, exp |-> now + Ttl]]
    /\ joining' = [joining EXCEPT ![j].pc = "store", ![j].token = t]
    /\ UNCHANGED <<replicas, ids, leaving, now, mirror, history>>

\* set_replica_token_hash, by id; no row means that the request fails.
WithToken(row, t) == [row EXCEPT !.token = t, !.until = now + Ttl]
StoreToken(j) ==
  LET q == joining[j]
  IN /\ q.pc = "store"
     /\ IF Holding(q.id) = {}
        THEN /\ joining' = [joining EXCEPT ![j] = Idle]
             /\ UNCHANGED <<replicas, retired>>
        ELSE /\ replicas' = [d \in Dids |-> IF d \in Holding(q.id) THEN WithToken(replicas[d], q.token) ELSE replicas[d]]
             /\ retired' = retired \cup ({replicas[d].token : d \in Holding(q.id)} \ {0})
             /\ joining' = [joining EXCEPT ![j].pc = "emit"]
     /\ UNCHANGED <<jwts, ids, leaving, now, mirror, answered, disturbed>>

\* The event REPLICA_REGISTERED, in a transaction of its own, and the answer.  The
\* other replica upserts by DID; an id that it knows under another DID moves.
ReplicaRegistered(d, id) == [c \in Dids |-> IF c = d THEN id ELSE IF mirror[c] = id THEN 0 ELSE mirror[c]]
EmitRegistered(j) ==
  LET q == joining[j]
  IN /\ q.pc = "emit"
     /\ mirror' = ReplicaRegistered(q.did, q.id)
     /\ answered' = [answered EXCEPT ![q.did] = q.token]
     /\ joining' = [joining EXCEPT ![j] = Idle]
     /\ UNCHANGED <<replicas, jwts, ids, leaving, now, retired, disturbed>>

\* The handler dies, or its event is not appended.
JoinFails(j) ==
  /\ joining[j] # Idle
  /\ joining' = [joining EXCEPT ![j] = Idle]
  /\ Disturb({joining[j].did})
  /\ UNCHANGED <<replicas, jwts, ids, leaving, now, mirror, answered, retired>>

\* replicas_deregister: the token, the active row and, in another query, the hash.
StartLeave(l, t) ==
  /\ leaving[l] = Idle
  /\ verify_replica_jwt(t) /\ replica_is_active(jwts[t].sub)
  /\ leaving' = [leaving EXCEPT ![l] = [pc |-> "hash", token |-> t]]
  /\ Disturb({d \in Holding(jwts[t].sub) : Busy(d)})
  /\ UNCHANGED <<replicas, jwts, ids, joining, now, mirror, answered, retired>>

CompareHash(l) ==
  /\ leaving[l].pc = "hash"
  /\ leaving' = [leaving EXCEPT ![l] = IF TokenCurrent(leaving[l].token) THEN [@ EXCEPT !.pc = "decommission"] ELSE Idle]
  /\ UNCHANGED <<replicas, jwts, ids, joining, now, mirror, history>>

\* decommission_replica_with_event: the row, if it is still active, and the event
\* REPLICA_DEREGISTERED in one transaction.  The token is not looked at again.
M_Decommissioned(row) == [row EXCEPT !.status = "decommissioned", !.until = now]
Decommissioned(row) == [row EXCEPT !.status = "decommissioned", !.until = now, !.token = 0]
ReplicaDeregistered(id) == [d \in Dids |-> IF mirror[d] = id THEN 0 ELSE mirror[d]]
Decommission(l) ==
  LET id == jwts[leaving[l].token].sub
  IN /\ leaving[l].pc = "decommission"
     /\ IF replica_is_active(id)
        THEN /\ replicas' = [d \in Dids |-> IF d \in Holding(id) THEN Decommissioned(replicas[d]) ELSE replicas[d]]
             /\ mirror' = ReplicaDeregistered(id)
             /\ retired' = retired \cup ({replicas[d].token : d \in Holding(id)} \ {0})
             /\ answered' = [d \in Dids |-> IF d \in Holding(id) THEN 0 ELSE answered[d]]
        ELSE UNCHANGED <<replicas, mirror, retired, answered>>
     /\ leaving' = [leaving EXCEPT ![l] = Idle]
     /\ UNCHANGED <<jwts, ids, joining, now, disturbed>>

\* The transaction is rolled back, or the client is gone before it.
LeaveFails(l) ==
  /\ leaving[l] # Idle
  /\ leaving' = [leaving EXCEPT ![l] = Idle]
  /\ UNCHANGED <<replicas, jwts, ids, joining, now, mirror, history>>

Next ==
  \/ Tick
  \/ \E j \in Joins : \/ \E d \in Dids : StartJoin(j, d)
                      \/ UpsertReplica(j) \/ UpsertFails(j) \/ SignToken(j) \/ StoreToken(j)
                      \/ EmitRegistered(j) \/ JoinFails(j)
  \/ \E l \in Leaves : \/ \E t \in issued : StartLeave(l, t)
                       \/ CompareHash(l) \/ Decommission(l) \/ LeaveFails(l)

Spec == Init /\ [][Next]_vars

---------------------------------------------------------------------------
TypeOK ==
  /\ replicas \in [Dids -> Rows \cup {None}]
  /\ jwts \in [1..MaxTokens -> Claims \cup {None}]
  /\ ids \in 0..MaxIds
  /\ joining \in [Joins -> JoinRequests \cup {Idle}]
  /\ leaving \in [Leaves -> LeaveRequests \cup {Idle}]
  /\ now \in 0..MaxNow
  /\ mirror \in [Dids -> 0..MaxIds]
  /\ answered \in [Dids -> 0..MaxTokens]
  /\ retired \subseteq 1..MaxTokens
  /\ disturbed \subseteq Dids

\* A token that was rotated or decommissioned is never accepted again, not even between
\* the reactivation of its row and the next token, and whatever requests overlap
\* (decommission_replica_with_event writes a tombstone over the hash).
RetiredTokensStayRetired == \A t \in retired : ~Accepts(t)

\* The row of an active replica never expires before the token it stands for, although
\* the token is signed between two updates of the row (set_replica_token_hash).
RowOutlivesToken ==
  \A d \in Dids : replicas[d] # None /\ replicas[d].status = "active" /\ replicas[d].token # 0 =>
    replicas[d].until >= jwts[replicas[d].token].exp

\* The token of the last answered registration is accepted until it expires or its holder
\* leaves, unless requests for the DID overlapped or failed half-way.
AnsweredTokenAccepted ==
  \A d \in Dids : answered[d] # 0 /\ d \notin disturbed /\ ~Busy(d) /\ now < jwts[answered[d]].exp =>
    Accepts(answered[d])

\* Another replica that has applied the log lists a DID under the seed's id exactly if the
\* seed has it active, when no request for the DID is under way and none overlapped.
MirrorAgrees ==
  \A d \in Dids \ disturbed : ~Busy(d) =>
    mirror[d] = IF replicas[d] # None /\ replicas[d].status = "active" THEN replicas[d].id ELSE 0

\* Overlapping, failing and repeated joins and leaves never revive a retired token, never
\* strand the token that was answered last, and leave mirrors that agree with the seed
\* (replicas_register, replicas_deregister).
Safety == TypeOK /\ RetiredTokensStayRetired /\ RowOutlivesToken /\ AnsweredTokenAccepted /\ MirrorAgrees
=============================================================================
