--------------------------- MODULE NodeLifecycle ----------------------------
(***************************************************************************)
(* The life of a row of the nodes table: registration, heartbeats, the     *)
(* loop that marks silent nodes dormant, archival, data-subject actions    *)
(* and deregistration (src/db.rs, src/node_lifecycle.rs,                   *)
(* src/background.rs, src/reputation.rs).                                  *)
(*                                                                         *)
(* A heartbeat request is three steps of one handler: the token check, the *)
(* transaction of heartbeat_once and the rotation of the liveness          *)
(* challenge, between which every other actor may move.  A node sends the  *)
(* tasks since its last acknowledged heartbeat as one numbered batch and   *)
(* sends the batch again when no answer comes.                             *)
(*                                                                         *)
(* Scores are in hundredths.  The signed events these steps append and the *)
(* free credits of a heartbeat are the subject of SeedDirectory, EventLog  *)
(* and CreditLedger.                                                       *)
(***************************************************************************)
EXTENDS Integers, FiniteSets

CONSTANTS Nodes,          \* node ids
          Handlers,       \* concurrent heartbeat requests
          Reports,        \* what heartbeats say
          Window,         \* the 90 seconds a heartbeat keeps a node active
          Hour,           \* the 3600 seconds of a reputation window
          ArchiveAfter,   \* the 90 days from dormant to archived
          MAX_HOURLY_GAIN, \* the 0.20 a score may gain in one window
          Absent,         \* no row
          Never,          \* a NULL timestamp
          MaxTime,        \* bound on the clock
          MaxHeartbeats,  \* bound on the heartbeats sent
          MaxRegistrations \* bound on the registrations

ASSUME LifecycleConstants ==
  /\ Reports \subseteq
       [tasks_success : Nat, tasks_failed : Nat, available : BOOLEAN, has_batch_id : BOOLEAN]
  /\ Window \in Nat /\ Hour \in Nat \ {0} /\ ArchiveAfter \in Nat /\ MAX_HOURLY_GAIN \in Nat
  /\ Never \notin Int
  /\ MaxTime \in Nat /\ MaxHeartbeats \in Nat /\ MaxRegistrations \in Nat

VARIABLES
  now,         \* the database clock
  row,         \* the nodes table, Absent where there is no row
  request,     \* per handler: the heartbeat it works on
  expiry,      \* the pass of run_expire_nodes_loop
  sent,        \* heartbeats sent so far: challenges are numbered by them
  joined,      \* registrations so far
  batch,       \* a node's current metrics batch
  held,        \* the challenge a node holds, 0 for none
  counted,     \* history: how often the row took each batch
  proofs,      \* history: how often each challenge verified
  gained,      \* history: the row's reputation gain up to each time
  dormancies,  \* history: how often expire_stale made the node dormant
  reactivated, \* history: REACTIVATE events of the node
  hasty        \* history: nodes that sent a heartbeat before the last one ended

client  == <<sent, joined, batch, held>>
history == <<counted, proofs, gained, dormancies, reactivated, hasty>>
vars    == <<now, row, request, expiry, client, history>>

Times == 0..MaxTime
Idle == [pc |-> "idle"]
Sleeping == [pc |-> "sleep", ids |-> {}]
Registered(n) == row[n] # Absent
Serving(h, n) == request[h] # Idle /\ request[h].node = n

Init ==
  /\ now = 0
  /\ row = [n \in Nodes |-> Absent]
  /\ request = [h \in Handlers |-> Idle]
  /\ expiry = Sleeping
  /\ sent = 0 /\ joined = 0
  /\ batch = [n \in Nodes |-> 1]
  /\ held = [n \in Nodes |-> 0]
  /\ counted = [n \in Nodes |-> [b \in 1..MaxHeartbeats |-> 0]]
  /\ proofs = [c \in 1..MaxHeartbeats |-> 0]
  /\ gained = [n \in Nodes |-> [t \in Times |-> 0]]
  /\ dormancies = [n \in Nodes |-> 0]
  /\ reactivated = [n \in Nodes |-> 0]
  /\ hasty = {}

ClockTick ==
  /\ now < MaxTime
  /\ now' = now + 1
  /\ UNCHANGED <<row, request, expiry, client, history>>

-----------------------------------------------------------------------------
(* Registration, deregistration and data-subject actions.                  *)

STARTING_SCORE == 50

FreshRow ==
  [status |-> "active", available |-> TRUE, token |-> TRUE,
   last_seen |-> Never, dormant_since |-> Never, last_batch |-> 0,
   score |-> STARTING_SCORE, hourly_gain |-> 0, window_start |-> Never, challenge |-> 0]

\* upsert_node: a new row has never been seen; an old one becomes active and
\* available and keeps its timestamps, its score and its last batch.  Either has
\* a new node_hmac_key, so an answer on its way no longer verifies.
Register(n) ==
  /\ joined < MaxRegistrations
  /\ joined' = joined + 1
  /\ row' = [row EXCEPT ![n] =
               IF Registered(n)
               THEN [@ EXCEPT !.status = "active", !.available = TRUE, !.token = TRUE]
               ELSE FreshRow]
  /\ request' = [h \in Handlers |-> IF Serving(h, n)
                                   THEN [request[h] EXCEPT !.answer = 0] ELSE request[h]]
  /\ UNCHANGED <<now, expiry, sent, batch, held, history>>

\* DELETE FROM nodes.
Deregister(n) ==
  /\ Registered(n)
  /\ row' = [row EXCEPT ![n] = Absent]
  /\ counted' = [counted EXCEPT ![n] = [b \in 1..MaxHeartbeats |-> 0]]
  /\ gained' = [gained EXCEPT ![n] = [t \in Times |-> 0]]
  /\ UNCHANGED <<now, request, expiry, client, proofs, dormancies, reactivated, hasty>>

\* apply_mysql_dsr_restriction, on a node of the operator.
Restrict(n) ==
  /\ Registered(n) /\ row[n].token
  /\ row' = [row EXCEPT ![n].status = "archived", ![n].available = FALSE,
                        ![n].dormant_since = now]
  /\ UNCHANGED <<now, request, expiry, client, history>>

\* apply_mysql_dsr_anonymization also replaces the node's secrets and forgets
\* whose it was: the operator cannot act on it again.
Anonymize(n) ==
  /\ Registered(n) /\ row[n].token
  /\ row' = [row EXCEPT ![n].status = "archived", ![n].available = FALSE,
                        ![n].dormant_since = now, ![n].token = FALSE, ![n].challenge = 0]
  /\ UNCHANGED <<now, request, expiry, client, history>>

-----------------------------------------------------------------------------
(* Reputation (src/reputation.rs and heartbeat_once).                      *)

AtMost(x, y) == IF x < y THEN x ELSE y
AtLeast(x, y) == IF x > y THEN x ELSE y

\* 0.01 for a success, -0.05 for a failure, at most 0.10 per heartbeat.
compute_delta(success, failed) == AtMost(success - 5 * failed, 10)

apply_delta(score, delta) == AtLeast(0, AtMost(100, score + delta))

\* The hourly window of a row has run out, or was never opened.
WindowExpired(r) == r.window_start = Never \/ now - r.window_start >= Hour

\* Wrong: the window moves with every gain.
VelocitySliding(r, delta) ==
  LET current == IF WindowExpired(r) THEN 0 ELSE r.hourly_gain
      capped == AtMost(delta, AtLeast(0, MAX_HOURLY_GAIN - current))
  IN  IF delta > 0
      THEN [delta |-> capped, gain |-> capped, start |-> now]
      ELSE [delta |-> delta, gain |-> r.hourly_gain, start |-> r.window_start]

\* A gain is cut to what is left of the window's budget; a loss is not.
Velocity(r, delta) ==
  LET current == IF WindowExpired(r) THEN 0 ELSE r.hourly_gain
      capped == AtMost(delta, AtLeast(0, MAX_HOURLY_GAIN - current))
  IN  IF delta > 0
      THEN [delta |-> capped, gain |-> current + capped,
            start |-> IF WindowExpired(r) THEN now ELSE r.window_start]
      ELSE [delta |-> delta, gain |-> r.hourly_gain, start |-> r.window_start]

-----------------------------------------------------------------------------
(* Heartbeats.                                                             *)

\* The handler has verified the node's token.  A batch of 0 is a heartbeat
\* without a metrics_batch_id.
StartHeartbeat(h, n) ==
  /\ request[h] = Idle
  /\ Registered(n) /\ row[n].token
  /\ sent < MaxHeartbeats
  /\ sent' = sent + 1
  /\ \E m \in Reports :
       request' = [request EXCEPT ![h] =
         [pc |-> "heartbeat", node |-> n, batch |-> IF m.has_batch_id THEN batch[n] ELSE 0,
          answer |-> held[n], next |-> sent', available |-> m.available,
          delta |-> compute_delta(m.tasks_success, m.tasks_failed)]]
  /\ hasty' = IF \E g \in Handlers : Serving(g, n) THEN hasty \union {n} ELSE hasty
  /\ UNCHANGED <<now, row, expiry, joined, batch, held, counted, proofs, gained, dormancies, reactivated>>

\* Wrong: every delivery counts.
MetricsAlways(r, b) == b \in Nat

\* Wrong: an archived node comes back with a REACTIVATE as well.
was_inactive(r) == r.status # "active"

\* metrics_applied: the batch is not the last one this row took.
metrics_applied(r, b) == b = 0 \/ b # r.last_batch

was_dormant(r) == r.status = "dormant"

\* heartbeat_once: one transaction on the locked row, REACTIVATE included.
Heartbeat(h) ==
  LET q == request[h]
      n == q.node
      r == row[n]
      applied == metrics_applied(r, q.batch)
      v == Velocity(r, IF applied THEN q.delta ELSE 0)
  IN  /\ q.pc = "heartbeat" /\ Registered(n)
      /\ row' = [row EXCEPT ![n] =
                   [r EXCEPT !.available = q.available, !.status = "active",
                             !.dormant_since = Never, !.last_seen = now,
                             !.score = apply_delta(r.score, v.delta),
                             !.hourly_gain = v.gain, !.window_start = v.start,
                             !.last_batch = IF q.batch = 0 THEN @ ELSE q.batch]]
      /\ request' = [request EXCEPT ![h].pc = "rotate"]
      /\ counted' = IF applied /\ q.batch # 0 THEN [counted EXCEPT ![n][q.batch] = @ + 1] ELSE counted
      /\ gained' = [gained EXCEPT ![n] =
                      [t \in Times |-> IF t >= now THEN @[t] + AtLeast(0, v.delta) ELSE @[t]]]
      /\ reactivated' = IF was_dormant(r) THEN [reactivated EXCEPT ![n] = @ + 1] ELSE reactivated
      /\ UNCHANGED <<now, expiry, client, proofs, dormancies, hasty>>

\* Wrong: an answered challenge stays.
RotateUnanswered(h) ==
  LET q == request[h]
      verified == row[q.node].challenge # 0 /\ q.answer = row[q.node].challenge
  IN  /\ q.pc = "rotate" /\ Registered(q.node)
      /\ row' = IF verified THEN row ELSE [row EXCEPT ![q.node].challenge = q.next]
      /\ proofs' = IF verified THEN [proofs EXCEPT ![q.answer] = @ + 1] ELSE proofs
      /\ request' = [request EXCEPT ![h].pc = "answer"]
      /\ UNCHANGED <<now, expiry, client, counted, gained, dormancies, reactivated, hasty>>

\* verify_and_rotate_liveness_challenge: whatever the answer was, the next
\* challenge replaces the one it was an answer to.
Rotate(h) ==
  LET q == request[h]
      verified == row[q.node].challenge # 0 /\ q.answer = row[q.node].challenge
  IN  /\ q.pc = "rotate" /\ Registered(q.node)
      /\ row' = [row EXCEPT ![q.node].challenge = q.next]
      /\ proofs' = IF verified THEN [proofs EXCEPT ![q.answer] = @ + 1] ELSE proofs
      /\ request' = [request EXCEPT ![h].pc = "answer"]
      /\ UNCHANGED <<now, expiry, client, counted, gained, dormancies, reactivated, hasty>>

\* The node has its answer: the batch is accepted, the challenge is new.
Answer(h) ==
  LET q == request[h]
  IN  /\ q.pc = "answer"
      /\ request' = [request EXCEPT ![h] = Idle]
      /\ held' = [held EXCEPT ![q.node] = q.next]
      /\ batch' = IF q.batch = batch[q.node] THEN [batch EXCEPT ![q.node] = @ + 1] ELSE batch
      /\ UNCHANGED <<now, row, expiry, sent, joined, history>>

\* An error of the database, a row that is gone, a dropped connection: the
\* request ends where it is and the node does not learn how far it came.
Fail(h) ==
  /\ request[h] # Idle
  /\ request' = [request EXCEPT ![h] = Idle]
  /\ UNCHANGED <<now, row, expiry, client, history>>

-----------------------------------------------------------------------------
(* The loops of src/background.rs.                                         *)

\* What expire_stale selects.
Stale(n) ==
  /\ Registered(n) /\ row[n].status = "active"
  /\ row[n].last_seen # Never /\ row[n].last_seen < now - Window

ExpireSelect ==
  /\ expiry = Sleeping
  /\ \E n \in Nodes : Stale(n)
  /\ expiry' = [pc |-> "update", ids |-> {n \in Nodes : Stale(n)}]
  /\ UNCHANGED <<now, row, request, client, history>>

\* Wrong: the row keeps its availability.
MarkStatus(r) == [r EXCEPT !.status = "dormant", !.dormant_since = now]

MarkDormant(r) == [r EXCEPT !.status = "dormant", !.available = FALSE, !.dormant_since = now]

\* UPDATE ... WHERE id IN (...): the ids selected before, whatever happened to
\* them since.  The EVICT events that follow are an EmitNeutral of SeedDirectory.
ExpireUpdate ==
  LET ids == {n \in expiry.ids : Registered(n)}
  IN  /\ expiry.pc = "update"
      /\ row' = [n \in Nodes |-> IF n \in ids THEN MarkDormant(row[n]) ELSE row[n]]
      /\ dormancies' = [n \in Nodes |-> IF n \in ids THEN dormancies[n] + 1 ELSE dormancies[n]]
      /\ expiry' = Sleeping
      /\ UNCHANGED <<now, request, client, counted, proofs, gained, reactivated, hasty>>

\* The result of the UPDATE is not looked at.
ExpireUpdateFails ==
  /\ expiry.pc = "update"
  /\ expiry' = Sleeping
  /\ UNCHANGED <<now, row, request, client, history>>

\* Wrong: dormant is enough.
DormantAtAll(r) == r.status = "dormant"

LongDormant(r) ==
  /\ r.status = "dormant"
  /\ r.dormant_since # Never /\ r.dormant_since < now - ArchiveAfter

\* archive_dormant: one UPDATE.
ArchiveDormant ==
  /\ \E n \in Nodes : Registered(n) /\ LongDormant(row[n])
  /\ row' = [n \in Nodes |-> IF Registered(n) /\ LongDormant(row[n])
                             THEN [row[n] EXCEPT !.status = "archived"] ELSE row[n]]
  /\ UNCHANGED <<now, request, expiry, client, history>>

Next ==
  \/ ClockTick
  \/ \E n \in Nodes : Register(n) \/ Deregister(n) \/ Restrict(n) \/ Anonymize(n)
  \/ \E h \in Handlers, n \in Nodes : StartHeartbeat(h, n)
  \/ \E h \in Handlers : Heartbeat(h) \/ Rotate(h) \/ Answer(h) \/ Fail(h)
  \/ ExpireSelect \/ ExpireUpdate \/ ExpireUpdateFails
  \/ ArchiveDormant

Spec == Init /\ [][Next]_vars

-----------------------------------------------------------------------------
(* Properties.                                                             *)

Timestamps == Times \union {Never}

Rows ==
  [status : {"active", "dormant", "archived"}, available : BOOLEAN, token : BOOLEAN,
   last_seen : Timestamps, dormant_since : Timestamps, last_batch : Nat,
   score : 0..100, hourly_gain : 0..MAX_HOURLY_GAIN, window_start : Timestamps,
   challenge : 0..MaxHeartbeats]

ASSUME AbsentIsNoRow == Absent \notin Rows

Requests ==
  {Idle} \union
  [pc : {"heartbeat", "rotate", "answer"}, node : Nodes, batch : Nat,
   answer : 0..MaxHeartbeats, next : 1..MaxHeartbeats, available : BOOLEAN, delta : Int]

\* Type correctness of the table and of every request; a score stays between
\* 0 and 1 and the gain of a window within its budget.
TypeOK ==
  /\ now \in Times
  /\ row \in [Nodes -> Rows \union {Absent}]
  /\ request \in [Handlers -> Requests]
  /\ expiry \in [pc : {"sleep", "update"}, ids : SUBSET Nodes]
  /\ sent \in 0..MaxHeartbeats /\ joined \in 0..MaxRegistrations
  /\ batch \in [Nodes -> Nat]
  /\ held \in [Nodes -> 0..MaxHeartbeats]
  /\ counted \in [Nodes -> [1..MaxHeartbeats -> Nat]]
  /\ proofs \in [1..MaxHeartbeats -> Nat]
  /\ gained \in [Nodes -> [Times -> Nat]]
  /\ dormancies \in [Nodes -> Nat] /\ reactivated \in [Nodes -> Nat]
  /\ hasty \subseteq Nodes

\* A node that is not active is not available either, and has not been heard
\* of since it stopped being active, whichever of the expiry loop, a heartbeat,
\* a registration and a data-subject action comes last.
InactiveHidden ==
  \A n \in Nodes : Registered(n) /\ row[n].status # "active" =>
    /\ ~row[n].available
    /\ row[n].dormant_since # Never
    /\ row[n].last_seen # Never => row[n].last_seen <= row[n].dormant_since

\* archive_dormant only archives nodes that were silent for ArchiveAfter, also
\* when the expiry loop marked a node that had just come back.
ArchivesOnlySilent ==
  [][ArchiveDormant =>
       \A n \in Nodes : Registered(n) /\ row'[n] # row[n] =>
         row[n].last_seen = Never \/ row[n].last_seen < now - ArchiveAfter]_vars

\* One dormancy gives at most one REACTIVATE, however many heartbeats, retries
\* and registrations follow it (the test of db.rs asks it of two heartbeats).
ReactivatedOnce ==
  \A n \in Nodes :
    reactivated[n] + (IF Registered(n) /\ row[n].status = "dormant" THEN 1 ELSE 0) <= dormancies[n]

\* A batch that is sent again until it is acknowledged is counted once, also
\* when the heartbeat was committed and its answer lost, as long as the node
\* does not send it again while the directory still works on it.
CountedOnce == \A n \in Nodes \ hasty : \A b \in 1..MaxHeartbeats : counted[n][b] <= 1

\* No challenge verifies twice, even when requests of a node overlap.
VerifiesOnce == \A c \in 1..MaxHeartbeats : proofs[c] <= 1

\* Gain of a node from time t to time u, both included.
GainBetween(n, t, u) == gained[n][u] - (IF t = 0 THEN 0 ELSE gained[n][t - 1])

\* What a row gained since its window opened is its hourly_gain, at most
\* MAX_HOURLY_GAIN however the heartbeats of a node overlap; any hour, which may
\* touch two windows, sees at most two budgets.
HourlyBudget ==
  \A n \in Nodes :
    /\ Registered(n) /\ row[n].window_start # Never /\ ~WindowExpired(row[n]) =>
         /\ GainBetween(n, row[n].window_start, now) = row[n].hourly_gain
         /\ row[n].hourly_gain <= MAX_HOURLY_GAIN
    /\ \A t, u \in Times :
         t <= u /\ u - t < Hour => GainBetween(n, t, u) <= 2 * MAX_HOURLY_GAIN
=============================================================================
