------------------------------ MODULE Federation ------------------------------
(***************************************************************************)
(* A replica directory that mirrors a seed directory (replica.rs), with    *)
(* the seed's side of it (SeedDirectory, and the events, snapshot and      *)
(* replicas_register handlers of federation_handlers.rs).                  *)
(*                                                                         *)
(* run_replica_sync resolves the seed's key, joins, applies a snapshot and *)
(* then drains the seed's event log page by page on every tick, verifying  *)
(* signature and hash chain of each event before applying it.  Every       *)
(* request may fail, the seed goes on writing between any two of them, and *)
(* the replica process may restart; its database survives, its cursor does *)
(* not.                                                                    *)
(*                                                                         *)
(* Rows of the log never change, so a page that was fetched is held by the *)
(* positions of its rows, pos..last.                                       *)
(***************************************************************************)
EXTENDS SeedDirectory

CONSTANTS
    NoKey,                  \* pubkey = None
    PageLimit,              \* rows in a page of events: 100 in the code
    VerificationRequired,   \* ReplicaConfig.verification_required
    CursorExpires,          \* the seed may answer IICP-E045 (a PHP seed does)
    SeedDbFails,            \* reads of the seed's repository may fail
    ReplicaDbFails,         \* writes of the replica's repository may fail
    MaxBoots                \* bound on snapshots applied and restarts

ASSUME FederationAssumption ==
    /\ NoKey \notin SigningKeys
    /\ PageLimit \in Nat \ {0}
    /\ {VerificationRequired, CursorExpires, SeedDbFails, ReplicaDbFails}
          \subseteq BOOLEAN
    /\ MaxBoots \in Nat \ {0}

VARIABLES
    pc,             \* where run_replica_sync is
    ready,          \* the flag replica_readiness_gate reads
    pubkey,         \* the seed key it verifies with, or NoKey
    rnodes,         \* the replica's own nodes table
    since_seq,      \* the cursor: the last event accepted
    snapshot_seq,   \* the position of the last snapshot
    prev_sig,       \* signature of the last event accepted in this drain
    pos, last,      \* the rows of the page still to be applied
    has_more,       \* the seed said another page follows
    snap,           \* nodes the seed's snapshot handler has read
    base,           \* history: rnodes when the snapshot had been applied
    missed,         \* history: nodes whose last event here was not written
    served,         \* history: the length of the log when the page was read
    boots           \* bounded: snapshots applied and restarts

replicaVars == <<pc, ready, pubkey, rnodes, since_seq, snapshot_seq, prev_sig,
                 pos, last, has_more, snap, base, missed, served, boots>>
vars == <<seedVars, replicaVars>>

Mirror == [Nodes -> Endpoints \cup {Absent}]

Init ==
    /\ SeedInit
    /\ pc = "verifying"
    /\ ready = FALSE
    /\ pubkey = NoKey
    /\ rnodes = [n \in Nodes |-> Absent]
    /\ since_seq = 0 /\ snapshot_seq = 0
    /\ prev_sig = NoSig
    /\ pos = 1 /\ last = 0 /\ has_more = FALSE
    /\ snap = [n \in Nodes |-> Absent]
    /\ base = rnodes /\ missed = {}
    /\ served = 0
    /\ boots = 0

-----------------------------------------------------------------------------
(* Bootstrap.                                                              *)

NoNodes == [n \in Nodes |-> Absent]

(***************************************************************************)
(* A drain ends: prev_sig and the page are locals of its loop.             *)
(***************************************************************************)
EndDrain ==
    /\ prev_sig' = NoSig
    /\ pos' = 1 /\ last' = 0 /\ has_more' = FALSE
    /\ served' = 0

(***************************************************************************)
(* resolve_seed_pubkey reads the key from the seed's DID document, or None *)
(* when the request fails.  A replica that must verify tries until it has  *)
(* a key; one that need not goes on without.                               *)
(***************************************************************************)
VerifySeed ==
    /\ pc = "verifying"
    /\ pubkey' \in {signingKey} \cup (IF VerificationRequired THEN {} ELSE {NoKey})
    /\ pc' = "joining"
    /\ UNCHANGED <<seedVars, ready, rnodes, since_seq, snapshot_seq, prev_sig,
                   pos, last, has_more, snap, base, missed, served, boots>>

(***************************************************************************)
(* replicas_register records the replica, emits REPLICA_REGISTERED (or     *)
(* fails to) and answers with a token.  When the answer is lost the        *)
(* replica tries again.                                                    *)
(***************************************************************************)
JoinHandshake ==
    /\ pc = "joining"
    /\ \/ UNCHANGED events
       \/ /\ Len(events) < MaxEvents
          /\ Log!AppendEvent(signingKey,
                             Body("REPLICA_REGISTERED", ReplicaId, Absent))
    /\ pc' \in {"joining", "snapshotting"}
    /\ UNCHANGED <<nodes, pending, signingKey, rotations, lost, latest, astray,
                   ready, pubkey, rnodes, since_seq, snapshot_seq, prev_sig,
                   pos, last, has_more, snap, base, missed, served, boots>>

(***************************************************************************)
(* The seed's snapshot handler reads the nodes first ...                   *)
(***************************************************************************)
SnapshotRecords ==
    /\ pc = "snapshotting"
    /\ snap' \in {nodes} \cup
          (IF SeedDbFails THEN {NoNodes} ELSE {})
    /\ pc' = "snapshot_read"
    /\ UNCHANGED <<seedVars, ready, pubkey, rnodes, since_seq, snapshot_seq,
                   prev_sig, pos, last, has_more, base, missed, served, boots>>

(* Faulty variant: the tail starts at the since_seq of the handshake, 0. *)
ApplySnapshotFromJoin ==
    /\ pc = "snapshot_read"
    /\ boots < MaxBoots
    /\ rnodes' = [n \in Nodes |-> IF snap[n] = Absent THEN rnodes[n] ELSE snap[n]]
    /\ since_seq' = 0 /\ snapshot_seq' = 0
    /\ base' = rnodes' /\ missed' = {}
    /\ pc' = "waiting"
    /\ boots' = boots + 1
    /\ snap' = NoNodes
    /\ UNCHANGED <<seedVars, ready, pubkey, prev_sig, pos, last, has_more,
                   served>>

(***************************************************************************)
(* ... and the last seq of its log afterwards.  The replica registers each *)
(* node of the snapshot; nodes the snapshot does not have stay as they     *)
(* are, and so does a node whose write fails.                              *)
(***************************************************************************)
ApplySnapshot ==
    /\ pc = "snapshot_read"
    /\ boots < MaxBoots
    /\ \E failed \in SUBSET (IF ReplicaDbFails THEN Nodes ELSE {}) :
          rnodes' = [n \in Nodes |-> IF snap[n] = Absent \/ n \in failed
                                     THEN rnodes[n] ELSE snap[n]]
    /\ snapshot_seq' \in {Len(events)} \cup (IF SeedDbFails THEN {0} ELSE {})
    /\ since_seq' = snapshot_seq'
    /\ base' = rnodes' /\ missed' = {}
    /\ pc' = "waiting"
    /\ boots' = boots + 1
    /\ snap' = NoNodes
    /\ UNCHANGED <<seedVars, ready, pubkey, prev_sig, pos, last, has_more,
                   served>>

(***************************************************************************)
(* The snapshot request fails: bootstrap_replica joins again.              *)
(***************************************************************************)
SnapshotFails ==
    /\ pc = "snapshot_read"
    /\ pc' = "joining"
    /\ snap' = NoNodes
    /\ UNCHANGED <<seedVars, ready, pubkey, rnodes, since_seq, snapshot_seq,
                   prev_sig, pos, last, has_more, base, missed, served, boots>>

-----------------------------------------------------------------------------
(* Tailing the log.                                                        *)

(***************************************************************************)
(* interval.tick(): a key that a refresh lost is resolved again before     *)
(* anything is fetched, and a drain starts.                                *)
(***************************************************************************)
Tick ==
    /\ pc = "waiting"
    /\ pubkey' = IF VerificationRequired /\ pubkey = NoKey
                 THEN signingKey ELSE pubkey
    /\ pc' = "draining"
    /\ UNCHANGED <<seedVars, ready, rnodes, since_seq, snapshot_seq, prev_sig,
                   pos, last, has_more, snap, base, missed, served, boots>>

Least(a, b) == IF a < b THEN a ELSE b

(* Faulty variant: a full page is taken for the last one. *)
FullPageIsLast(to) == FALSE

(* has_more as the seed's handler computes it: the page is full. *)
HasMore(to) == to = since_seq + PageLimit

(***************************************************************************)
(* One page of the seed's log after the cursor.  A failing read of the     *)
(* seed's repository is answered like an empty log.  An empty page makes   *)
(* the replica ready and ends the drain.                                   *)
(***************************************************************************)
FetchEvents ==
    /\ pc = "draining"
    /\ \E to \in {Least(since_seq + PageLimit, Len(events))} \cup
                 (IF SeedDbFails THEN {since_seq} ELSE {}) :
          \/ /\ to = since_seq
             /\ pc' = "waiting"
             /\ ready' = TRUE
             /\ EndDrain
          \/ /\ to > since_seq
             /\ pc' = "applying"
             /\ pos' = since_seq + 1
             /\ last' = to
             /\ has_more' = HasMore(to)
             /\ served' = Len(events)
             /\ UNCHANGED <<ready, prev_sig>>
    /\ UNCHANGED <<seedVars, pubkey, rnodes, since_seq, snapshot_seq, snap, base,
                   missed, boots>>

(***************************************************************************)
(* EventPage::Failed: the next tick tries again; ready is left alone.      *)
(***************************************************************************)
FetchFails ==
    /\ pc = "draining"
    /\ pc' = "waiting"
    /\ EndDrain
    /\ UNCHANGED <<seedVars, ready, pubkey, rnodes, since_seq, snapshot_seq,
                   snap, base, missed, boots>>

(***************************************************************************)
(* EventPage::SnapshotRequired: not ready until bootstrapped again.        *)
(***************************************************************************)
SnapshotRequired ==
    /\ CursorExpires
    /\ boots < MaxBoots
    /\ pc = "draining"
    /\ ready' = FALSE
    /\ pc' = "joining"
    /\ EndDrain
    /\ UNCHANGED <<seedVars, pubkey, rnodes, since_seq, snapshot_seq, snap, base,
                   missed, boots>>

(* Faulty variant: the link to the event accepted before is not checked. *)
VerdictUnchained(row) ==
    IF row.seq <= since_seq THEN "replayed"
    ELSE IF pubkey = NoKey \/ Log!verify_event(pubkey, row) THEN "verified"
    ELSE "bad signature"

(***************************************************************************)
(* The checks of verify_and_apply before it calls apply_event.  Without a  *)
(* key nothing is checked but the seq; the first event of a drain has no   *)
(* predecessor to be linked to.                                            *)
(***************************************************************************)
Verdict(row) ==
    IF row.seq <= since_seq THEN "replayed"
    ELSE IF pubkey = NoKey THEN "verified"
    ELSE IF prev_sig # NoSig /\ row.prev_hash # Log!prev_hash_from(prev_sig)
         THEN "broken hash-chain"
    ELSE IF Log!verify_event(pubkey, row) THEN "verified"
    ELSE "bad signature"

(* Faulty variant: a node that is removed at the seed stays listed. *)
ApplyRegistersOnly(mirror, row) ==
    IF row.body.type = "REGISTER"
    THEN [mirror EXCEPT ![row.body.node] = row.body.endpoint]
    ELSE mirror

(***************************************************************************)
(* apply_event on the nodes table: REGISTER upserts the row, DEREGISTER    *)
(* deletes it, other types leave it alone.                                 *)
(***************************************************************************)
apply_event(mirror, row) ==
    IF row.body.type \in NodeTypes
    THEN [mirror EXCEPT ![row.body.node] = row.body.endpoint]
    ELSE mirror

Writes == IF ReplicaDbFails THEN BOOLEAN ELSE {TRUE}

(***************************************************************************)
(* The next event of the page passes the checks and is applied.  A failing *)
(* write rejects a REGISTER; a DEREGISTER is then skipped as if the node   *)
(* were unknown.  Applied and skipped events are accepted: they move the   *)
(* cursor and are what the next event must be linked to.                   *)
(***************************************************************************)
ApplyEvent ==
    LET row == events[pos] IN
    /\ pc = "applying" /\ pos <= last
    /\ Verdict(row) \in {"verified", "replayed"}
    /\ \E written \in Writes :
          LET fresh == Verdict(row) = "verified"
              accepted == ~fresh \/ written \/ row.body.type # "REGISTER"
          IN  /\ rnodes' = IF fresh /\ written THEN apply_event(rnodes, row)
                           ELSE rnodes
              /\ since_seq' = IF fresh /\ accepted THEN row.seq ELSE since_seq
              /\ prev_sig' = IF accepted THEN row.sig ELSE prev_sig
              /\ missed' = IF ~fresh \/ row.body.type \notin NodeTypes THEN missed
                           ELSE IF written THEN missed \ {row.body.node}
                           ELSE missed \cup {row.body.node}
    /\ pos' = pos + 1
    /\ UNCHANGED <<seedVars, pc, ready, pubkey, snapshot_seq, last, has_more,
                   snap, base, served, boots>>

(***************************************************************************)
(* Rejected("broken hash-chain"): the loop goes on with the next event.    *)
(***************************************************************************)
RejectBrokenChain ==
    /\ pc = "applying" /\ pos <= last
    /\ Verdict(events[pos]) = "broken hash-chain"
    /\ pos' = pos + 1
    /\ UNCHANGED <<seedVars, pc, ready, pubkey, rnodes, since_seq, snapshot_seq,
                   prev_sig, last, has_more, snap, base, missed, served, boots>>

(* Faulty variant: the cursor moves past an event that was refused. *)
PassBadSignature ==
    /\ pc = "applying" /\ pos <= last
    /\ Verdict(events[pos]) = "bad signature"
    /\ since_seq' = events[pos].seq
    /\ pc' = "refreshing"
    /\ EndDrain
    /\ UNCHANGED <<seedVars, ready, pubkey, rnodes, snapshot_seq, snap, base,
                   missed, boots>>

(* Faulty variant: the key is not refreshed after a bad signature. *)
RejectWithoutRefresh ==
    /\ pc = "applying" /\ pos <= last
    /\ Verdict(events[pos]) = "bad signature"
    /\ pc' = "waiting"
    /\ EndDrain
    /\ UNCHANGED <<seedVars, ready, pubkey, rnodes, since_seq, snapshot_seq,
                   snap, base, missed, boots>>

(***************************************************************************)
(* Rejected("bad signature"): the rest of the page is dropped and the key  *)
(* is resolved again; it is None when that request fails.                  *)
(***************************************************************************)
RejectSignature ==
    /\ pc = "applying" /\ pos <= last
    /\ Verdict(events[pos]) = "bad signature"
    /\ pc' = "refreshing"
    /\ EndDrain
    /\ UNCHANGED <<seedVars, ready, pubkey, rnodes, since_seq, snapshot_seq,
                   snap, base, missed, boots>>

(* Faulty variant: the loop goes on draining without looking at the key. *)
RefreshAndDrain ==
    /\ pc = "refreshing"
    /\ pubkey' \in {signingKey, NoKey}
    /\ pc' = "draining"
    /\ UNCHANGED <<seedVars, ready, rnodes, since_seq, snapshot_seq, prev_sig,
                   pos, last, has_more, snap, base, missed, served, boots>>

RefreshKey ==
    /\ pc = "refreshing"
    /\ pubkey' \in {signingKey, NoKey}
    /\ pc' = "waiting"
    /\ UNCHANGED <<seedVars, ready, rnodes, since_seq, snapshot_seq, prev_sig,
                   pos, last, has_more, snap, base, missed, served, boots>>

(***************************************************************************)
(* The page is done: fetch the next one, or be ready until the next tick.  *)
(***************************************************************************)
EndPage ==
    /\ pc = "applying" /\ pos > last
    /\ \/ /\ has_more
          /\ pc' = "draining"
          /\ UNCHANGED <<ready, prev_sig, pos, last, has_more, served>>
       \/ /\ ~has_more
          /\ pc' = "waiting"
          /\ ready' = TRUE
          /\ EndDrain
    /\ UNCHANGED <<seedVars, pubkey, rnodes, since_seq, snapshot_seq, snap, base,
                   missed, boots>>

-----------------------------------------------------------------------------

(***************************************************************************)
(* The replica process stops and starts again.  Its nodes are in MySQL;    *)
(* everything else was in memory.                                          *)
(***************************************************************************)
RestartReplica ==
    /\ pc # "verifying"
    /\ boots + 1 < MaxBoots
    /\ pc' = "verifying"
    /\ ready' = FALSE
    /\ pubkey' = NoKey
    /\ since_seq' = 0 /\ snapshot_seq' = 0
    /\ EndDrain
    /\ snap' = NoNodes
    /\ base' = rnodes /\ missed' = {}
    /\ boots' = boots + 1
    /\ UNCHANGED <<seedVars, rnodes>>

ReplicaNext ==
    \/ VerifySeed
    \/ JoinHandshake
    \/ SnapshotRecords \/ ApplySnapshot \/ SnapshotFails
    \/ Tick
    \/ FetchEvents \/ FetchFails \/ SnapshotRequired
    \/ ApplyEvent \/ RejectBrokenChain \/ RejectSignature
    \/ RefreshKey
    \/ EndPage
    \/ RestartReplica

Next ==
    \/ SeedNext /\ UNCHANGED replicaVars
    \/ ReplicaNext

Spec == Init /\ [][Next]_vars

(***************************************************************************)
(* The replica task is scheduled and its timers fire (weak fairness); a    *)
(* request to the seed that is made again and again succeeds at last       *)
(* (strong fairness).  Nothing is assumed of the seed's writers.           *)
(***************************************************************************)
Fairness ==
    /\ WF_vars(VerifySeed) /\ WF_vars(Tick) /\ WF_vars(SnapshotRecords)
    /\ WF_vars(ApplyEvent) /\ WF_vars(RejectBrokenChain)
    /\ WF_vars(RejectSignature) /\ WF_vars(RefreshKey) /\ WF_vars(EndPage)
    /\ SF_vars(JoinHandshake /\ pc' = "snapshotting")
    /\ SF_vars(ApplySnapshot) /\ SF_vars(FetchEvents)

FairSpec == Spec /\ Fairness

-----------------------------------------------------------------------------

Phases == {"verifying", "joining", "snapshotting", "snapshot_read", "waiting",
           "draining", "applying", "refreshing"}

(***************************************************************************)
(* The types of the variables and the bounds of the cursor, page and       *)
(* snapshot position: none of them is ever ahead of the seed's log.        *)
(***************************************************************************)
TypeOK ==
    /\ SeedTypeOK
    /\ pc \in Phases
    /\ ready \in BOOLEAN /\ has_more \in BOOLEAN
    /\ pubkey \in SigningKeys \cup {NoKey}
    /\ rnodes \in Mirror /\ snap \in Mirror /\ base \in Mirror
    /\ missed \in SUBSET (Nodes \cup {ReplicaId})
    /\ snapshot_seq \in Nat /\ since_seq \in Nat
    /\ snapshot_seq <= since_seq /\ since_seq <= Len(events)
    /\ prev_sig \in Log!Sigs \cup {NoSig}
    /\ pos \in Nat \ {0} /\ last \in Nat /\ last <= Len(events)
    /\ served \in Nat
    /\ boots \in 0..MaxBoots

(***************************************************************************)
(* The mirror is the snapshot with the events between its position and the *)
(* cursor applied in order: through rotations, failed requests, pages and  *)
(* restarts no accepted event is lost, repeated or applied out of order.   *)
(***************************************************************************)
MirrorFold ==
    \A n \in Nodes :
        Overlaid(events, snapshot_seq, since_seq, base[n], n, rnodes[n])

(***************************************************************************)
(* End to end: once the replica has taken the whole log, a node that has   *)
(* changed since the snapshot is in its table exactly as in the seed's,    *)
(* though handlers of the seed overlap and events are lost.  Three kinds   *)
(* of node are left out, because commit_registration and deregister write  *)
(* the row and the event apart and apply_event skips what it could not     *)
(* write: a handler has yet to report its last change (latest), that       *)
(* report was lost or an older one came after it (astray), or the          *)
(* replica's last write of it failed (missed).  The next write that is     *)
(* reported and applied puts each of them right again.                     *)
(***************************************************************************)
TailedNodesMirrored ==
    since_seq = Len(events) =>
        \A n \in Nodes \ (astray \cup missed) :
            /\ latest[n] = Idle
            /\ \E i \in snapshot_seq + 1..since_seq : NodeEvent(events, i, n)
            => rnodes[n] = nodes[n]

(***************************************************************************)
(* run_replica_sync raises ready only after it has accepted every event    *)
(* the seed's log held when the last page was read: discovery is not       *)
(* served from a mirror that is still catching up.                         *)
(***************************************************************************)
ReadyCaughtUp ==
    [][~ready /\ ready' =>
        since_seq' >= IF pc = "applying" THEN served ELSE Len(events)]_vars

(***************************************************************************)
(* A replica that must verify changes its nodes only while it holds a seed *)
(* key, also after a refresh that lost the key it had.                     *)
(***************************************************************************)
OnlyVerifiedChanges ==
    [][VerificationRequired /\ rnodes' # rnodes => pubkey # NoKey]_vars

(***************************************************************************)
(* Short of a restart of the process the cursor never moves back, not even *)
(* when the seed asks for another snapshot, if the reads of the seed's     *)
(* repository succeed: a failing read answers the snapshot with seq 0 and  *)
(* bootstrap_replica starts the tail there.                                *)
(***************************************************************************)
CursorNeverRegresses == [][pc' # "verifying" => since_seq' >= since_seq]_vars

(***************************************************************************)
(* What the hash chain buys: once an event was accepted in a drain, the    *)
(* rest of the drain never steps over one that was refused.                *)
(***************************************************************************)
NoGapWithinDrain ==
    [][/\ pc = "applying" /\ pubkey # NoKey /\ prev_sig # NoSig
       /\ since_seq' # since_seq
       /\ pc' = "applying"
       => since_seq' = since_seq + 1]_vars

(***************************************************************************)
(* The replica implements EventTail: from one bootstrap to the next it     *)
(* takes the events of the seed one by one, in order.                      *)
(***************************************************************************)
Tailing == INSTANCE EventTail WITH
            Copies <- Mirror, Applied <- apply_event,
            log <- events, copy <- rnodes, cursor <- since_seq, starts <- boots
ImplementsEventTail == Tailing!Spec

(***************************************************************************)
(* Whatever the seed logs, a replica comes to accept it and is ready, if   *)
(* requests do not fail for ever and the seed's key changes at most once.  *)
(***************************************************************************)
EventuallyMirrors ==
    \A i \in 1..MaxEvents : Len(events) >= i ~> (ready /\ since_seq >= i)

-----------------------------------------------------------------------------
(* What the source says of the replica and the code does not keep.         *)

(***************************************************************************)
(* bootstrap_replica: "primes local state and advances since_seq so we     *)
(* only tail events newer than the snapshot".  A replica that has taken    *)
(* the whole log of a quiet seed then has the seed's nodes.                *)
(***************************************************************************)
Mirrored ==
    Quiet /\ ready /\ since_seq = Len(events) => rnodes = nodes
=============================================================================
