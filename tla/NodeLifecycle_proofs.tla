------------------------ MODULE NodeLifecycle_proofs ------------------------
(***************************************************************************)
(* Theorems about NodeLifecycle, for any number of nodes and of concurrent *)
(* requests and any windows: inactive nodes are hidden, only silent nodes  *)
(* are archived, a dormancy ends in at most one REACTIVATE, a challenge    *)
(* verifies at most once, a batch is counted once and the gain of an hour  *)
(* keeps to its budgets.                                                   *)
(***************************************************************************)
EXTENDS NodeLifecycle, TLAPS

-----------------------------------------------------------------------------
(* Types.                                                                  *)

\* A row that is there has all its fields.
LEMMA RegisteredRow ==
  ASSUME TypeOK, NEW n \in Nodes, Registered(n)
  PROVE  row[n] \in Rows
  BY DEF TypeOK, Registered

\* A request that is under way has all its fields.
LEMMA BusyRequest ==
  ASSUME TypeOK, NEW h \in Handlers, request[h].pc \in {"heartbeat", "rotate", "answer"}
  PROVE  /\ request[h].node \in Nodes /\ request[h].batch \in Nat
         /\ request[h].answer \in 0..MaxHeartbeats /\ request[h].next \in 1..MaxHeartbeats
         /\ request[h].available \in BOOLEAN /\ request[h].delta \in Int
         /\ request[h] # Idle
  BY DEF TypeOK, Requests, Idle

\* The delta of a heartbeat and the score it leads to.
LEMMA ScoreFacts ==
  ASSUME NEW s \in Int, NEW d \in Int
  PROVE  /\ apply_delta(s, d) \in 0..100
         /\ AtLeast(0, d) \in Nat
         /\ \A x, y \in Nat : compute_delta(x, y) \in Int
  BY DEF apply_delta, AtLeast, AtMost, compute_delta

\* The budget of a window is a number.
LEMMA BudgetIsNat == MAX_HOURLY_GAIN \in Nat
  BY LifecycleConstants, Zenon

\* Velocity keeps the window's gain within the budget.
LEMMA VelocityFacts ==
  ASSUME TypeOK, NEW r \in Rows, NEW d \in Int
  PROVE  /\ Velocity(r, d).delta \in Int
         /\ Velocity(r, d).gain \in 0..MAX_HOURLY_GAIN
         /\ Velocity(r, d).start \in Timestamps
<1>1. r.hourly_gain \in 0..MAX_HOURLY_GAIN /\ r.window_start \in Timestamps /\ now \in Timestamps
  BY BudgetIsNat DEF TypeOK, Rows, Timestamps
<1> DEFINE current == IF WindowExpired(r) THEN 0 ELSE r.hourly_gain
           capped == AtMost(d, AtLeast(0, MAX_HOURLY_GAIN - current))
<1>2. current \in 0..MAX_HOURLY_GAIN
  BY <1>1, BudgetIsNat
<1>3. d > 0 => capped \in 0..MAX_HOURLY_GAIN /\ current + capped \in 0..MAX_HOURLY_GAIN
  BY <1>2, BudgetIsNat DEF AtMost, AtLeast
<1> QED
  BY <1>1, <1>2, <1>3, BudgetIsNat DEF Velocity

\* Counting keeps a counter a natural number.
LEMMA CountTyped ==
  ASSUME NEW D, NEW f \in [D -> Nat], NEW x
  PROVE  [f EXCEPT ![x] = @ + 1] \in [D -> Nat]
<1>1. [f EXCEPT ![x] = @ + 1] = [y \in D |-> IF y = x THEN f[x] + 1 ELSE f[y]]
  OBVIOUS
<1>2. \A y \in D : (IF y = x THEN f[x] + 1 ELSE f[y]) \in Nat
  OBVIOUS
<1> QED
  BY <1>1, <1>2

\* The row a heartbeat leaves.
HeartbeatRow(r, q, v) ==
  [r EXCEPT !.available = q.available, !.status = "active", !.dormant_since = Never,
            !.last_seen = now, !.score = apply_delta(r.score, v.delta),
            !.hourly_gain = v.gain, !.window_start = v.start,
            !.last_batch = IF q.batch = 0 THEN @ ELSE q.batch]

LEMMA TypeInit == Init => TypeOK
  BY LifecycleConstants
  DEF Init, TypeOK, Times, Requests, Idle, Sleeping

LEMMA TypeStep == TypeOK /\ [Next]_vars => TypeOK'
<1> SUFFICES ASSUME TypeOK, [Next]_vars PROVE TypeOK'
  OBVIOUS
<1>1. CASE ClockTick
  BY <1>1, LifecycleConstants DEF ClockTick, TypeOK, Times, client, history
<1>2. ASSUME NEW n \in Nodes, Register(n) PROVE TypeOK'
  <2>1. FreshRow \in Rows
    BY LifecycleConstants, BudgetIsNat DEF FreshRow, Rows, Timestamps, STARTING_SCORE
  <2>2. Registered(n) => [row[n] EXCEPT !.status = "active", !.available = TRUE, !.token = TRUE] \in Rows
    <3> SUFFICES ASSUME Registered(n) PROVE [row[n] EXCEPT !.status = "active", !.available = TRUE, !.token = TRUE] \in Rows
      OBVIOUS
    <3>1. row[n] \in Rows
      BY RegisteredRow
    <3> QED
      BY <3>1 DEF Rows
  <2>3. row' \in [Nodes -> Rows \union {Absent}]
    BY <1>2, <2>1, <2>2 DEF Register, TypeOK
  <2>4. \A h \in Handlers : Serving(h, n) => [request[h] EXCEPT !.answer = 0] \in Requests
    <3> SUFFICES ASSUME NEW h \in Handlers, Serving(h, n)
                 PROVE  [request[h] EXCEPT !.answer = 0] \in Requests
      OBVIOUS
    <3>1. request[h] \in Requests \ {Idle} /\ 0 \in 0..MaxHeartbeats
      BY LifecycleConstants DEF Serving, TypeOK
    <3> QED
      BY <3>1 DEF Requests
  <2>5. request' \in [Handlers -> Requests]
    BY <1>2, <2>4 DEF Register, TypeOK
  <2>6. joined' \in 0..MaxRegistrations
    BY <1>2, LifecycleConstants DEF Register, TypeOK
  <2> QED
    BY <1>2, <2>3, <2>5, <2>6 DEF Register, TypeOK, history
<1>3. ASSUME NEW n \in Nodes, Deregister(n) PROVE TypeOK'
  BY <1>3 DEF Deregister, TypeOK, client, Times
<1>4. ASSUME NEW n \in Nodes, Restrict(n) \/ Anonymize(n) PROVE TypeOK'
  <2>1. row[n] \in Rows /\ now \in Timestamps
    BY <1>4, RegisteredRow DEF Restrict, Anonymize, TypeOK, Timestamps
  <2>2. row' \in [Nodes -> Rows \union {Absent}]
    <3>1. CASE Restrict(n)
      BY <2>1, <3>1 DEF Restrict, TypeOK, Rows
    <3>2. CASE Anonymize(n)
      <4>1. 0 \in 0..MaxHeartbeats
        BY LifecycleConstants
      <4>2. [row[n] EXCEPT !.status = "archived", !.available = FALSE, !.dormant_since = now,
                           !.token = FALSE, !.challenge = 0] \in Rows
        BY <2>1, <4>1 DEF Rows
      <4> QED
        BY <3>2, <4>2 DEF Anonymize, TypeOK
    <3> QED
      BY <1>4, <3>1, <3>2
  <2> QED
    BY <1>4, <2>2 DEF Restrict, Anonymize, TypeOK, client, history
<1>5. ASSUME NEW h \in Handlers, NEW n \in Nodes, StartHeartbeat(h, n) PROVE TypeOK'
  <2>1. sent' \in 1..MaxHeartbeats
    BY <1>5, LifecycleConstants DEF StartHeartbeat, TypeOK
  <2>2. PICK m \in Reports :
          request' = [request EXCEPT ![h] =
            [pc |-> "heartbeat", node |-> n, batch |-> IF m.has_batch_id THEN batch[n] ELSE 0,
             answer |-> held[n], next |-> sent', available |-> m.available,
             delta |-> compute_delta(m.tasks_success, m.tasks_failed)]]
    BY <1>5 DEF StartHeartbeat
  <2>3. m.available \in BOOLEAN /\ compute_delta(m.tasks_success, m.tasks_failed) \in Int
    <3>1. m.tasks_success \in Nat /\ m.tasks_failed \in Nat /\ m.available \in BOOLEAN
      BY LifecycleConstants
    <3> QED
      BY <3>1 DEF compute_delta, AtMost
  <2>4. request' \in [Handlers -> Requests]
    BY <2>1, <2>2, <2>3 DEF TypeOK, Requests
  <2> QED
    BY <1>5, <2>1, <2>4 DEF StartHeartbeat, TypeOK
<1>6. ASSUME NEW h \in Handlers, Heartbeat(h) PROVE TypeOK'
  <2> DEFINE q == request[h]
             n == q.node
             r == row[n]
             d == IF metrics_applied(r, q.batch) THEN q.delta ELSE 0
             v == Velocity(r, d)
  <2>1. n \in Nodes /\ q.batch \in Nat /\ q.available \in BOOLEAN /\ d \in Int
    BY <1>6, BusyRequest DEF Heartbeat
  <2>2. r \in Rows
    BY <1>6, <2>1, RegisteredRow DEF Heartbeat
  <2>3. v.delta \in Int /\ v.gain \in 0..MAX_HOURLY_GAIN /\ v.start \in Timestamps
    BY <2>1, <2>2, VelocityFacts
  <2>4. apply_delta(r.score, v.delta) \in 0..100 /\ AtLeast(0, v.delta) \in Nat
    <3>1. r.score \in Int
      BY <2>2 DEF Rows
    <3> HIDE DEF v, r
    <3> QED
      BY <2>3, <3>1, ScoreFacts
  <2>5. now \in Timestamps /\ Never \in Timestamps
    BY DEF TypeOK, Timestamps
  <2>6. row' = [row EXCEPT ![n] = HeartbeatRow(r, q, v)]
    BY <1>6 DEF Heartbeat, HeartbeatRow
  <2> HIDE DEF v
  <2>7. HeartbeatRow(r, q, v) \in Rows
    BY <2>1, <2>2, <2>3, <2>4, <2>5 DEF HeartbeatRow, Rows
  <2>8. row' \in [Nodes -> Rows \union {Absent}]
    BY <2>6, <2>7 DEF TypeOK
  <2>9. request' \in [Handlers -> Requests]
    <3>1. [request[h] EXCEPT !.pc = "rotate"] \in Requests
      <4>1. request[h] \in Requests \ {Idle}
        BY <1>6, BusyRequest DEF Heartbeat, TypeOK
      <4> QED
        BY <4>1 DEF Requests
    <3> QED
      BY <1>6, <3>1 DEF Heartbeat, TypeOK
  <2>10. counted' \in [Nodes -> [1..MaxHeartbeats -> Nat]]
    <3>1. counted' = counted \/ counted' = [counted EXCEPT ![n][q.batch] = @ + 1]
      BY <1>6 DEF Heartbeat
    <3>2. counted \in [Nodes -> [1..MaxHeartbeats -> Nat]]
      BY DEF TypeOK
    <3>3. [counted[n] EXCEPT ![q.batch] = @ + 1] \in [1..MaxHeartbeats -> Nat]
      BY <2>1, <3>2, CountTyped
    <3> DEFINE c == [counted[n] EXCEPT ![q.batch] = @ + 1]
    <3>4. counted' = counted \/ counted' = [counted EXCEPT ![n] = c]
      BY <2>1, <3>1, <3>2
    <3> HIDE DEF c
    <3> QED
      BY <2>1, <3>2, <3>3, <3>4 DEF c
  <2>11. gained' = [gained EXCEPT ![n] =
                     [t \in Times |-> IF t >= now THEN @[t] + AtLeast(0, v.delta) ELSE @[t]]]
    BY <1>6 DEF Heartbeat, v
  <2>12. gained' \in [Nodes -> [Times -> Nat]]
    <3> DEFINE a == AtLeast(0, v.delta)
               g == gained[n]
    <3>1. g \in [Times -> Nat] /\ a \in Nat
      BY <2>1, <2>4 DEF TypeOK
    <3>2. gained' = [gained EXCEPT ![n] = [t \in Times |-> IF t >= now THEN g[t] + a ELSE g[t]]]
      BY <2>11, <2>1 DEF TypeOK
    <3> HIDE DEF a, g
    <3>3. [t \in Times |-> IF t >= now THEN g[t] + a ELSE g[t]] \in [Times -> Nat]
      BY <3>1
    <3> QED
      BY <3>2, <3>3 DEF TypeOK
  <2>13. reactivated' \in [Nodes -> Nat]
    <3>1. reactivated' = reactivated \/ reactivated' = [reactivated EXCEPT ![n] = @ + 1]
      BY <1>6 DEF Heartbeat
    <3>2. reactivated \in [Nodes -> Nat]
      BY DEF TypeOK
    <3>3. [reactivated EXCEPT ![n] = @ + 1] \in [Nodes -> Nat]
      BY <3>2, CountTyped
    <3> QED
      BY <3>1, <3>2, <3>3
  <2> QED
    BY <1>6, <2>8, <2>9, <2>10, <2>12, <2>13 DEF Heartbeat, TypeOK, client
<1>7. ASSUME NEW h \in Handlers, Rotate(h) PROVE TypeOK'
  <2>1. request[h].node \in Nodes /\ request[h].next \in 1..MaxHeartbeats
    BY <1>7, BusyRequest DEF Rotate
  <2>2. row[request[h].node] \in Rows
    BY <1>7, <2>1, RegisteredRow DEF Rotate
  <2>3. row' \in [Nodes -> Rows \union {Absent}]
    <3>1. [row[request[h].node] EXCEPT !.challenge = request[h].next] \in Rows
      BY <2>1, <2>2 DEF Rows
    <3> QED
      BY <1>7, <2>1, <3>1 DEF Rotate, TypeOK
  <2>4. request' \in [Handlers -> Requests]
    <3>1. [request[h] EXCEPT !.pc = "answer"] \in Requests
      <4>1. request[h] \in Requests \ {Idle}
        BY <1>7, BusyRequest DEF Rotate, TypeOK
      <4> QED
        BY <4>1 DEF Requests
    <3> QED
      BY <1>7, <3>1 DEF Rotate, TypeOK
  <2>5. proofs' \in [1..MaxHeartbeats -> Nat]
    <3>1. proofs' = proofs \/ proofs' = [proofs EXCEPT ![request[h].answer] = @ + 1]
      BY <1>7 DEF Rotate
    <3>2. proofs \in [1..MaxHeartbeats -> Nat]
      BY DEF TypeOK
    <3>3. [proofs EXCEPT ![request[h].answer] = @ + 1] \in [1..MaxHeartbeats -> Nat]
      BY <3>2, CountTyped
    <3> QED
      BY <3>1, <3>2, <3>3
  <2> QED
    BY <1>7, <2>3, <2>4, <2>5 DEF Rotate, TypeOK, client
<1>8. ASSUME NEW h \in Handlers, Answer(h) PROVE TypeOK'
  <2>1. request[h].node \in Nodes /\ request[h].next \in 1..MaxHeartbeats
    BY <1>8, BusyRequest DEF Answer
  <2> QED
    <3>1. request' \in [Handlers -> Requests] /\ held' \in [Nodes -> 0..MaxHeartbeats]
      BY <1>8, <2>1 DEF Answer, TypeOK, Requests
    <3>2. batch' = batch \/ batch' = [batch EXCEPT ![request[h].node] = @ + 1]
      BY <1>8 DEF Answer
    <3>3. batch' \in [Nodes -> Nat]
      <4>1. batch \in [Nodes -> Nat]
        BY DEF TypeOK
      <4>2. [batch EXCEPT ![request[h].node] = @ + 1] \in [Nodes -> Nat]
        BY <4>1, CountTyped
      <4> QED
        BY <3>2, <4>1, <4>2
    <3> QED
      BY <1>8, <3>1, <3>3 DEF Answer, TypeOK, history
<1>9. ASSUME NEW h \in Handlers, Fail(h) PROVE TypeOK'
  BY <1>9 DEF Fail, TypeOK, Requests, client, history
<1>10. CASE ExpireSelect
  BY <1>10 DEF ExpireSelect, TypeOK, client, history
<1>11. CASE ExpireUpdate
  <2>1. \A n \in Nodes : Registered(n) => MarkDormant(row[n]) \in Rows
    <3> SUFFICES ASSUME NEW n \in Nodes, Registered(n) PROVE MarkDormant(row[n]) \in Rows
      OBVIOUS
    <3>1. row[n] \in Rows /\ now \in Timestamps
      BY RegisteredRow DEF TypeOK, Timestamps
    <3> QED
      BY <3>1 DEF MarkDormant, Rows
  <2>2. row' \in [Nodes -> Rows \union {Absent}]
    BY <1>11, <2>1 DEF ExpireUpdate, TypeOK
  <2> QED
    BY <1>11, <2>2 DEF ExpireUpdate, TypeOK, client, Sleeping
<1>12. CASE ExpireUpdateFails
  BY <1>12 DEF ExpireUpdateFails, TypeOK, client, history, Sleeping
<1>13. CASE ArchiveDormant
  <2>1. \A n \in Nodes : Registered(n) => [row[n] EXCEPT !.status = "archived"] \in Rows
    <3>1. \A r \in Rows : [r EXCEPT !.status = "archived"] \in Rows
      BY DEF Rows
    <3> QED
      BY <3>1, RegisteredRow
  <2>2. row' \in [Nodes -> Rows \union {Absent}]
    BY <1>13, <2>1 DEF ArchiveDormant, TypeOK
  <2> QED
    BY <1>13, <2>2 DEF ArchiveDormant, TypeOK, client, history
<1>14. CASE UNCHANGED vars
  BY <1>14 DEF vars, TypeOK, client, history
<1> QED
  BY <1>1, <1>2, <1>3, <1>4, <1>5, <1>6, <1>7, <1>8, <1>9, <1>10, <1>11, <1>12, <1>13, <1>14
  DEF Next

\* Type correctness: in particular no heartbeat takes a score out of [0, 1] or
\* a window's gain beyond its budget (apply_delta, heartbeat_once).
THEOREM LifecycleTypeCorrect == Spec => []TypeOK
  BY TypeInit, TypeStep, PTL DEF Spec

-----------------------------------------------------------------------------
(* Inactive nodes are hidden.                                              *)

\* No row was last seen in the future.
SeenBefore ==
  \A n \in Nodes : Registered(n) /\ row[n].last_seen # Never => row[n].last_seen <= now

\* The fields InactiveHidden speaks of, as any one step may leave them: kept
\* (up to dormant to archived), active, or inactive as of now.
Kept(n) ==
  /\ Registered(n)
  /\ row'[n].status = "active" <=> row[n].status = "active"
  /\ row'[n].available = row[n].available
  /\ row'[n].dormant_since = row[n].dormant_since
  /\ row'[n].last_seen = row[n].last_seen

Activated(n) ==
  /\ row'[n].status = "active"
  /\ \/ row'[n].last_seen \in {Never, now}
     \/ Registered(n) /\ row'[n].last_seen = row[n].last_seen

Deactivated(n) ==
  /\ Registered(n)
  /\ ~row'[n].available /\ row'[n].dormant_since = now
  /\ row'[n].last_seen = row[n].last_seen

LEMMA RowSteps ==
  ASSUME TypeOK, [Next]_vars, NEW n \in Nodes, Registered(n)'
  PROVE  Kept(n) \/ Activated(n) \/ Deactivated(n)
<1>1. ASSUME row'[n] = row[n] PROVE Kept(n)
  BY <1>1 DEF Kept, Registered
<1>2. CASE row' = row
  BY <1>1, <1>2
<1>3. ASSUME NEW m \in Nodes, Register(m) PROVE Kept(n) \/ Activated(n)
  <2>1. CASE m # n
    BY <1>1, <1>3, <2>1 DEF Register, TypeOK
  <2>2. CASE m = n /\ Registered(n)
    <3>1. row[n] \in Rows
      BY <2>2, RegisteredRow
    <3>2. row'[n] = [row[n] EXCEPT !.status = "active", !.available = TRUE, !.token = TRUE]
      BY <1>3, <2>2 DEF Register, TypeOK
    <3> QED
      BY <2>2, <3>1, <3>2 DEF Activated, Rows
  <2>3. CASE m = n /\ ~Registered(n)
    <3>1. row'[n] = FreshRow
      BY <1>3, <2>3 DEF Register, TypeOK
    <3> QED
      BY <3>1 DEF Activated, FreshRow
  <2> QED
    BY <2>1, <2>2, <2>3
<1>4. ASSUME NEW m \in Nodes, Deregister(m) PROVE Kept(n)
  BY <1>1, <1>4 DEF Deregister, TypeOK, Registered
<1>5. ASSUME NEW m \in Nodes, Restrict(m) \/ Anonymize(m) PROVE Kept(n) \/ Deactivated(n)
  <2>1. CASE m # n
    BY <1>1, <1>5, <2>1 DEF Restrict, Anonymize, TypeOK
  <2>2. CASE m = n
    <3>1. Registered(n) /\ row[n] \in Rows
      BY <1>5, <2>2, RegisteredRow DEF Restrict, Anonymize
    <3>2. CASE Restrict(n)
      <4>1. row'[n] = [row[n] EXCEPT !.status = "archived", !.available = FALSE, !.dormant_since = now]
        BY <3>2 DEF Restrict, TypeOK
      <4> QED
        BY <3>1, <4>1 DEF Deactivated, Rows
    <3>3. CASE Anonymize(n)
      <4>1. row'[n] = [row[n] EXCEPT !.status = "archived", !.available = FALSE, !.dormant_since = now,
                                     !.token = FALSE, !.challenge = 0]
        BY <3>3 DEF Anonymize, TypeOK
      <4> QED
        BY <3>1, <4>1 DEF Deactivated, Rows
    <3> QED
      BY <1>5, <2>2, <3>2, <3>3
  <2> QED
    BY <2>1, <2>2
<1>6. ASSUME NEW h \in Handlers, Heartbeat(h) PROVE Kept(n) \/ Activated(n)
  <2> DEFINE q == request[h]
             v == Velocity(row[q.node], IF metrics_applied(row[q.node], q.batch) THEN q.delta ELSE 0)
  <2>1. row' = [row EXCEPT ![q.node] = HeartbeatRow(row[q.node], q, v)]
    BY <1>6 DEF Heartbeat, HeartbeatRow
  <2>2. q.node \in Nodes /\ Registered(q.node)
    BY <1>6, BusyRequest DEF Heartbeat
  <2> HIDE DEF v, q
  <2>3. CASE q.node # n
    BY <1>1, <2>1, <2>3 DEF TypeOK
  <2>4. CASE q.node = n
    <3>1. row[n] \in Rows
      BY <2>2, <2>4, RegisteredRow
    <3>2. row'[n] = HeartbeatRow(row[n], q, v)
      BY <2>1, <2>4 DEF TypeOK
    <3> QED
      BY <3>1, <3>2 DEF HeartbeatRow, Activated, Rows
  <2> QED
    BY <2>3, <2>4
<1>7. ASSUME NEW h \in Handlers, Rotate(h) PROVE Kept(n)
  <2>1. CASE request[h].node # n
    BY <1>1, <1>7, <2>1 DEF Rotate, TypeOK
  <2>2. CASE request[h].node = n
    <3>1. Registered(n) /\ row[n] \in Rows
      BY <1>7, <2>2, RegisteredRow DEF Rotate
    <3>2. row'[n] = [row[n] EXCEPT !.challenge = request[h].next]
      BY <1>7, <2>2 DEF Rotate, TypeOK
    <3> QED
      BY <3>1, <3>2 DEF Kept, Rows
  <2> QED
    BY <2>1, <2>2
<1>8. CASE ExpireUpdate
  <2>1. CASE row'[n] = row[n]
    BY <1>1, <2>1
  <2>2. CASE row'[n] # row[n]
    <3>1. Registered(n) /\ row'[n] = MarkDormant(row[n])
      BY <1>8, <2>2 DEF ExpireUpdate
    <3>2. row[n] \in Rows
      BY <3>1, RegisteredRow
    <3> QED
      BY <3>1, <3>2 DEF Deactivated, MarkDormant, Rows
  <2> QED
    BY <2>1, <2>2
<1>9. CASE ArchiveDormant
  <2>1. CASE row'[n] = row[n]
    BY <1>1, <2>1
  <2>2. CASE row'[n] # row[n]
    <3>1. Registered(n) /\ LongDormant(row[n]) /\ row'[n] = [row[n] EXCEPT !.status = "archived"]
      BY <1>9, <2>2 DEF ArchiveDormant
    <3>2. row[n] \in Rows /\ row[n].status = "dormant"
      BY <3>1, RegisteredRow DEF LongDormant
    <3> QED
      BY <3>1, <3>2 DEF Kept, Rows
  <2> QED
    BY <2>1, <2>2
<1>10. \/ row' = row \/ ExpireUpdate \/ ArchiveDormant
       \/ \E m \in Nodes : Register(m) \/ Deregister(m) \/ Restrict(m) \/ Anonymize(m)
       \/ \E h \in Handlers : Heartbeat(h) \/ Rotate(h)
  BY DEF Next, vars, ClockTick, StartHeartbeat, Answer, Fail, ExpireSelect, ExpireUpdateFails
<1> QED
  BY <1>2, <1>3, <1>4, <1>5, <1>6, <1>7, <1>8, <1>9, <1>10

\* Time does not go back.
LEMMA TimePasses == [Next]_vars => now' = now \/ now' = now + 1
  BY DEF Next, vars, ClockTick, Register, Deregister, Restrict, Anonymize,
         StartHeartbeat, Heartbeat, Rotate, Answer, Fail, ExpireSelect, ExpireUpdate,
         ExpireUpdateFails, ArchiveDormant

LEMMA HiddenStep ==
  TypeOK /\ SeenBefore /\ InactiveHidden /\ [Next]_vars => SeenBefore' /\ InactiveHidden'
<1> SUFFICES ASSUME TypeOK, SeenBefore, InactiveHidden, [Next]_vars,
                    NEW n \in Nodes, Registered(n)'
             PROVE  /\ row'[n].last_seen # Never => row'[n].last_seen <= now'
                    /\ row'[n].status # "active" =>
                         /\ ~row'[n].available
                         /\ row'[n].dormant_since # Never
                         /\ row'[n].last_seen # Never => row'[n].last_seen <= row'[n].dormant_since
  BY DEF SeenBefore, InactiveHidden
<1>1. now \in Int /\ now' \in Int /\ now' >= now /\ now # Never
  <2>1. now \in Int /\ now # Never
    BY LifecycleConstants DEF TypeOK, Times
  <2> QED
    BY <2>1, TimePasses
<1>2. Registered(n) => row[n].last_seen \in Int \union {Never} /\ row[n].dormant_since \in Int \union {Never}
  BY RegisteredRow DEF Rows, Timestamps, Times
<1>3. CASE Kept(n)
  BY <1>1, <1>2, <1>3 DEF Kept, SeenBefore, InactiveHidden
<1>4. CASE Activated(n)
  BY <1>1, <1>2, <1>4 DEF Activated, SeenBefore
<1>5. CASE Deactivated(n)
  BY <1>1, <1>2, <1>5 DEF Deactivated, SeenBefore
<1> QED
  BY <1>3, <1>4, <1>5, RowSteps

\* A node that is not active is not offered and was last heard of before it
\* stopped being active, whatever expire_stale, heartbeats, registrations and
\* data-subject actions do to the row between each other's statements.
THEOREM InactiveNodesHidden == Spec => []InactiveHidden
<1>1. Init => SeenBefore /\ InactiveHidden
  BY DEF Init, SeenBefore, InactiveHidden, Registered
<1> QED
  BY <1>1, HiddenStep, LifecycleTypeCorrect, PTL DEF Spec

\* archive_dormant archives only nodes that have been silent for ArchiveAfter.
THEOREM OnlySilentArchived == Spec => ArchivesOnlySilent
<1>1. ASSUME TypeOK, InactiveHidden, ArchiveDormant,
             NEW n \in Nodes, Registered(n), row'[n] # row[n]
      PROVE  row[n].last_seen = Never \/ row[n].last_seen < now - ArchiveAfter
  <2>1. LongDormant(row[n])
    BY <1>1 DEF ArchiveDormant
  <2>2. row[n].last_seen \in Int \union {Never} /\ row[n].dormant_since \in Int \union {Never}
    BY <1>1, RegisteredRow DEF Rows, Timestamps, Times
  <2>3. now \in Int /\ ArchiveAfter \in Int
    BY <1>1, LifecycleConstants DEF TypeOK, Times
  <2> QED
    BY <1>1, <2>1, <2>2, <2>3 DEF LongDormant, InactiveHidden
<1>2. TypeOK /\ InactiveHidden /\ [Next]_vars =>
        [ArchiveDormant => \A n \in Nodes : Registered(n) /\ row'[n] # row[n] =>
           row[n].last_seen = Never \/ row[n].last_seen < now - ArchiveAfter]_vars
  BY <1>1
<1> QED
  BY <1>2, LifecycleTypeCorrect, InactiveNodesHidden, PTL DEF Spec, ArchivesOnlySilent

-----------------------------------------------------------------------------
(* One REACTIVATE for a dormancy.                                          *)

Dormant(n) == Registered(n) /\ row[n].status = "dormant"

LEMMA ReactivatedStep == TypeOK /\ ReactivatedOnce /\ [Next]_vars => ReactivatedOnce'
<1> SUFFICES ASSUME TypeOK, ReactivatedOnce, [Next]_vars, NEW n \in Nodes
             PROVE  reactivated'[n] + (IF Dormant(n)' THEN 1 ELSE 0) <= dormancies'[n]
  BY DEF ReactivatedOnce, Dormant
<1>1. reactivated[n] \in Nat /\ dormancies[n] \in Nat
      /\ reactivated[n] + (IF Dormant(n) THEN 1 ELSE 0) <= dormancies[n]
  BY DEF TypeOK, ReactivatedOnce, Dormant
<1>2. CASE /\ reactivated'[n] = reactivated[n] /\ dormancies'[n] = dormancies[n]
           /\ Dormant(n)' => Dormant(n)
  BY <1>1, <1>2
<1>3. CASE row'[n] = row[n] /\ reactivated' = reactivated /\ dormancies' = dormancies
  BY <1>2, <1>3 DEF Dormant, Registered
<1>4. ASSUME NEW m \in Nodes, Register(m) \/ Deregister(m) \/ Restrict(m) \/ Anonymize(m)
      PROVE  Dormant(n)' => Dormant(n)
  <2>1. CASE m # n
    BY <1>4, <2>1 DEF Register, Deregister, Restrict, Anonymize, TypeOK, Dormant, Registered
  <2>2. CASE m = n /\ Registered(n)
    <3>1. row[n] \in Rows
      BY <2>2, RegisteredRow
    <3>2. CASE Register(n)
      <4>1. row'[n] = [row[n] EXCEPT !.status = "active", !.available = TRUE, !.token = TRUE]
        BY <2>2, <3>2 DEF Register, TypeOK
      <4> QED
        BY <3>1, <4>1 DEF Dormant, Rows
    <3>3. CASE Deregister(n)
      BY <3>3 DEF Deregister, TypeOK, Dormant, Registered
    <3>4. CASE Restrict(n)
      <4>1. row'[n] = [row[n] EXCEPT !.status = "archived", !.available = FALSE, !.dormant_since = now]
        BY <3>4 DEF Restrict, TypeOK
      <4> QED
        BY <3>1, <4>1 DEF Dormant, Rows
    <3>5. CASE Anonymize(n)
      <4>1. row'[n] = [row[n] EXCEPT !.status = "archived", !.available = FALSE, !.dormant_since = now,
                                     !.token = FALSE, !.challenge = 0]
        BY <3>5 DEF Anonymize, TypeOK
      <4> QED
        BY <3>1, <4>1 DEF Dormant, Rows
    <3> QED
      BY <1>4, <2>2, <3>2, <3>3, <3>4, <3>5
  <2>3. CASE m = n /\ ~Registered(n)
    BY <1>4, <2>3 DEF Register, Deregister, Restrict, Anonymize, TypeOK, Dormant, FreshRow
  <2> QED
    BY <2>1, <2>2, <2>3
<1>5. ASSUME NEW m \in Nodes, Register(m) \/ Deregister(m) \/ Restrict(m) \/ Anonymize(m)
      PROVE  reactivated' = reactivated /\ dormancies' = dormancies
  BY <1>5 DEF Register, Deregister, Restrict, Anonymize, history
<1>6. ASSUME NEW h \in Handlers, Heartbeat(h)
      PROVE  reactivated'[n] + (IF Dormant(n)' THEN 1 ELSE 0) <= dormancies'[n]
  <2>1. request[h].node \in Nodes /\ Registered(request[h].node)
    BY <1>6, BusyRequest DEF Heartbeat
  <2>2. dormancies' = dormancies
    BY <1>6 DEF Heartbeat
  <2>3. CASE request[h].node # n
    <3>1. row'[n] = row[n]
      BY <1>6, <2>3 DEF Heartbeat, TypeOK
    <3>2. reactivated'[n] = reactivated[n]
      BY <1>6, <2>3 DEF Heartbeat, TypeOK
    <3> QED
      BY <1>2, <2>2, <3>1, <3>2 DEF Dormant, Registered
  <2>4. CASE request[h].node = n
    <3>1. row[n] \in Rows
      BY <2>1, <2>4, RegisteredRow
    <3>2. row'[n].status = "active"
      BY <1>6, <2>4, <3>1 DEF Heartbeat, TypeOK, Rows
    <3>3. reactivated'[n] = IF Dormant(n) THEN reactivated[n] + 1 ELSE reactivated[n]
      BY <1>6, <2>1, <2>4 DEF Heartbeat, was_dormant, Dormant, TypeOK
    <3> QED
      BY <1>1, <2>2, <3>2, <3>3 DEF Dormant
  <2> QED
    BY <2>3, <2>4
<1>7. ASSUME NEW h \in Handlers, Rotate(h)
      PROVE  /\ Dormant(n)' => Dormant(n)
             /\ reactivated' = reactivated /\ dormancies' = dormancies
  <2>1. CASE request[h].node # n
    BY <1>7, <2>1 DEF Rotate, TypeOK, Dormant, Registered
  <2>2. CASE request[h].node = n
    <3>1. Registered(n) /\ row[n] \in Rows
      BY <1>7, <2>2, RegisteredRow DEF Rotate
    <3>2. row'[n] = [row[n] EXCEPT !.challenge = request[h].next]
      BY <1>7, <2>2 DEF Rotate, TypeOK
    <3> QED
      BY <1>7, <3>1, <3>2 DEF Rotate, Dormant, Rows
  <2> QED
    BY <2>1, <2>2
<1>8. CASE ExpireUpdate
  <2>1. reactivated' = reactivated
    BY <1>8 DEF ExpireUpdate
  <2>2. CASE n \in expiry.ids /\ Registered(n)
    <3>1. dormancies'[n] = dormancies[n] + 1
      BY <1>8, <2>2 DEF ExpireUpdate
    <3> QED
      BY <1>1, <2>1, <3>1
  <2>3. CASE ~(n \in expiry.ids /\ Registered(n))
    <3>1. row'[n] = row[n] /\ dormancies'[n] = dormancies[n]
      BY <1>8, <2>3 DEF ExpireUpdate
    <3> QED
      BY <1>2, <2>1, <3>1 DEF Dormant, Registered
  <2> QED
    BY <2>2, <2>3
<1>9. CASE ArchiveDormant
  <2>1. reactivated' = reactivated /\ dormancies' = dormancies
    BY <1>9 DEF ArchiveDormant, history
  <2>2. CASE row'[n] = row[n]
    BY <1>3, <2>1, <2>2
  <2>3. CASE row'[n] # row[n]
    <3>1. Registered(n) /\ LongDormant(row[n])
      BY <1>9, <2>3 DEF ArchiveDormant
    <3> QED
      BY <1>2, <2>1, <3>1 DEF Dormant, LongDormant
  <2> QED
    BY <2>2, <2>3
<1>10. \/ row' = row /\ reactivated' = reactivated /\ dormancies' = dormancies
       \/ ExpireUpdate \/ ArchiveDormant
       \/ \E m \in Nodes : Register(m) \/ Deregister(m) \/ Restrict(m) \/ Anonymize(m)
       \/ \E h \in Handlers : Heartbeat(h) \/ Rotate(h)
  BY DEF Next, vars, history, ClockTick, StartHeartbeat, Answer, Fail, ExpireSelect, ExpireUpdateFails
<1> QED
  BY <1>2, <1>3, <1>4, <1>5, <1>6, <1>7, <1>8, <1>9, <1>10

\* However many heartbeats of a node are under way, heartbeat_once writes at
\* most one REACTIVATE for each time expire_stale made the node dormant.
THEOREM OneReactivatePerDormancy == Spec => []ReactivatedOnce
<1>1. Init => ReactivatedOnce
  BY DEF Init, ReactivatedOnce, Registered
<1> QED
  BY <1>1, ReactivatedStep, LifecycleTypeCorrect, PTL DEF Spec

-----------------------------------------------------------------------------
(* No challenge verifies twice.                                            *)

\* A request that has yet to store its challenge.
Waiting(h) == request[h].pc \in {"heartbeat", "rotate"}

\* A challenge that is stored, or about to be, is in one place only and no
\* answer to it has been verified yet.
ChallengesFresh ==
  /\ \A c \in 1..MaxHeartbeats : proofs[c] <= 1 /\ (c > sent => proofs[c] = 0)
  /\ \A n \in Nodes : Registered(n) /\ row[n].challenge # 0 =>
       proofs[row[n].challenge] = 0 /\ row[n].challenge <= sent
  /\ \A n, m \in Nodes :
       Registered(n) /\ Registered(m) /\ row[n].challenge = row[m].challenge /\ row[n].challenge # 0
         => n = m
  /\ \A h \in Handlers : Waiting(h) =>
       /\ proofs[request[h].next] = 0 /\ request[h].next <= sent
       /\ \A n \in Nodes : Registered(n) => row[n].challenge # request[h].next
  /\ \A g, h \in Handlers :
       Waiting(g) /\ Waiting(h) /\ request[g].next = request[h].next => g = h

\* A step that stores no challenge and starts no request.
Quiet ==
  /\ sent' = sent /\ proofs' = proofs
  /\ \A n \in Nodes : Registered(n)' =>
       row'[n].challenge = 0 \/ (Registered(n) /\ row'[n].challenge = row[n].challenge)
  /\ \A h \in Handlers : Waiting(h)' => Waiting(h) /\ request'[h].next = request[h].next

LEMMA QuietKeepsFresh == TypeOK /\ TypeOK' /\ ChallengesFresh /\ Quiet => ChallengesFresh'
<1> SUFFICES ASSUME TypeOK, TypeOK', ChallengesFresh, Quiet PROVE ChallengesFresh'
  OBVIOUS
<1>1. \A h \in Handlers : Waiting(h)' => request'[h].next \in 1..MaxHeartbeats /\ request'[h].next # 0
  BY BusyRequest DEF Quiet, Waiting
<1>2. (\A c \in 1..MaxHeartbeats : proofs[c] <= 1 /\ (c > sent => proofs[c] = 0))'
  BY DEF Quiet, ChallengesFresh
<1>3. (\A n \in Nodes : Registered(n) /\ row[n].challenge # 0 =>
         proofs[row[n].challenge] = 0 /\ row[n].challenge <= sent)'
  BY DEF Quiet, ChallengesFresh
<1>4. (\A n, m \in Nodes :
         Registered(n) /\ Registered(m) /\ row[n].challenge = row[m].challenge /\ row[n].challenge # 0
           => n = m)'
  BY DEF Quiet, ChallengesFresh
<1>5. (\A h \in Handlers : Waiting(h) =>
         /\ proofs[request[h].next] = 0 /\ request[h].next <= sent
         /\ \A n \in Nodes : Registered(n) => row[n].challenge # request[h].next)'
  BY <1>1 DEF Quiet, ChallengesFresh
<1>6. (\A g, h \in Handlers :
         Waiting(g) /\ Waiting(h) /\ request[g].next = request[h].next => g = h)'
  BY DEF Quiet, ChallengesFresh
<1> QED
  BY <1>2, <1>3, <1>4, <1>5, <1>6 DEF ChallengesFresh

\* Every step but the start of a request and the rotation is quiet.
LEMMA MostStepsQuiet ==
  ASSUME TypeOK, [Next]_vars,
         ~\E h \in Handlers, n \in Nodes : StartHeartbeat(h, n),
         ~\E h \in Handlers : Rotate(h)
  PROVE  Quiet
<1>1. CASE row' = row /\ request' = request /\ sent' = sent /\ proofs' = proofs
  BY <1>1 DEF Quiet, Registered, Waiting
<1>2. ASSUME NEW m \in Nodes, Register(m) PROVE Quiet
  <2>1. sent' = sent /\ proofs' = proofs
    BY <1>2 DEF Register, history
  <2>2. ASSUME NEW n \in Nodes
        PROVE  row'[n].challenge = 0 \/ (Registered(n) /\ row'[n].challenge = row[n].challenge)
               \/ ~Registered(n)'
    <3>1. CASE n # m
      BY <1>2, <3>1 DEF Register, TypeOK, Registered
    <3>2. CASE n = m /\ Registered(n)
      <4>1. row[n] \in Rows
        BY <3>2, RegisteredRow
      <4>2. row'[n] = [row[n] EXCEPT !.status = "active", !.available = TRUE, !.token = TRUE]
        BY <1>2, <3>2 DEF Register, TypeOK
      <4> QED
        BY <3>2, <4>1, <4>2 DEF Rows
    <3>3. CASE n = m /\ ~Registered(n)
      <4>1. row'[n] = FreshRow
        BY <1>2, <3>3 DEF Register, TypeOK
      <4>2. row'[n].challenge = 0
        BY <4>1 DEF FreshRow
      <4> QED
        BY <4>2
    <3> QED
      BY <3>1, <3>2, <3>3
  <2>3. ASSUME NEW h \in Handlers, Waiting(h)'
        PROVE  Waiting(h) /\ request'[h].next = request[h].next
    <3>1. CASE ~Serving(h, m)
      BY <1>2, <2>3, <3>1 DEF Register, Waiting
    <3>2. CASE Serving(h, m)
      <4>1. request'[h] = [request[h] EXCEPT !.answer = 0]
        BY <1>2, <3>2 DEF Register
      <4>2. request[h] \in Requests \ {Idle}
        BY <3>2 DEF Serving, TypeOK
      <4> QED
        BY <2>3, <4>1, <4>2 DEF Waiting, Requests
    <3> QED
      BY <3>1, <3>2
  <2> QED
    BY <2>1, <2>2, <2>3 DEF Quiet
<1>3. ASSUME NEW m \in Nodes, Deregister(m) PROVE Quiet
  BY <1>3 DEF Deregister, TypeOK, client, Quiet, Registered, Waiting
<1>4. ASSUME NEW m \in Nodes, Restrict(m) \/ Anonymize(m) PROVE Quiet
  <2>1. sent' = sent /\ proofs' = proofs /\ request' = request
    BY <1>4 DEF Restrict, Anonymize, client, history
  <2>2. Registered(m) /\ row[m] \in Rows
    BY <1>4, RegisteredRow DEF Restrict, Anonymize
  <2>3. \A n \in Nodes : n # m => row'[n] = row[n]
    BY <1>4 DEF Restrict, Anonymize, TypeOK
  <2>4. row'[m].challenge \in {0, row[m].challenge}
    <3>1. CASE Restrict(m)
      <4>1. row'[m] = [row[m] EXCEPT !.status = "archived", !.available = FALSE, !.dormant_since = now]
        BY <3>1 DEF Restrict, TypeOK
      <4> QED
        BY <2>2, <4>1 DEF Rows
    <3>2. CASE Anonymize(m)
      <4>1. row'[m] = [row[m] EXCEPT !.status = "archived", !.available = FALSE, !.dormant_since = now,
                                     !.token = FALSE, !.challenge = 0]
        BY <3>2 DEF Anonymize, TypeOK
      <4> QED
        BY <2>2, <4>1 DEF Rows
    <3> QED
      BY <1>4, <3>1, <3>2
  <2>5. ASSUME NEW n \in Nodes, Registered(n)'
        PROVE  row'[n].challenge = 0 \/ (Registered(n) /\ row'[n].challenge = row[n].challenge)
    <3>1. CASE n = m
      <4>1. row'[n].challenge = 0 \/ row'[n].challenge = row[n].challenge
        BY <2>4, <3>1
      <4> QED
        BY <2>2, <3>1, <4>1, Zenon
    <3>2. CASE n # m
      BY <2>3, <2>5, <3>2 DEF Registered
    <3> QED
      BY <3>1, <3>2
  <2> QED
    BY <2>1, <2>5 DEF Quiet, Waiting
<1>5. ASSUME NEW h \in Handlers, Heartbeat(h) PROVE Quiet
  <2> DEFINE q == request[h]
             v == Velocity(row[q.node], IF metrics_applied(row[q.node], q.batch) THEN q.delta ELSE 0)
  <2>1. row' = [row EXCEPT ![q.node] = HeartbeatRow(row[q.node], q, v)]
    BY <1>5 DEF Heartbeat, HeartbeatRow
  <2>2. q.node \in Nodes /\ Registered(q.node) /\ row[q.node] \in Rows
    BY <1>5, BusyRequest, RegisteredRow DEF Heartbeat
  <2>3. sent' = sent /\ proofs' = proofs
    BY <1>5 DEF Heartbeat, client
  <2>4. Waiting(h) /\ request' = [request EXCEPT ![h] = [request[h] EXCEPT !.pc = "rotate"]]
    BY <1>5 DEF Heartbeat, TypeOK, Waiting
  <2>5. request[h] \in Requests \ {Idle}
    BY <1>5, BusyRequest DEF Heartbeat, TypeOK
  <2>6. \A g \in Handlers : Waiting(g)' => Waiting(g) /\ request'[g].next = request[g].next
    BY <2>4, <2>5 DEF TypeOK, Waiting, Requests
  <2> HIDE DEF v
  <2>7. HeartbeatRow(row[q.node], q, v).challenge = row[q.node].challenge
    BY <2>2 DEF HeartbeatRow, Rows
  <2>8. \A n \in Nodes : Registered(n)' => Registered(n) /\ row'[n].challenge = row[n].challenge
    BY <2>1, <2>2, <2>7 DEF TypeOK, Registered
  <2> QED
    BY <2>3, <2>6, <2>8 DEF Quiet
<1>6. ASSUME NEW h \in Handlers, Answer(h) \/ Fail(h) PROVE Quiet
  <2>1. row' = row /\ sent' = sent /\ proofs' = proofs /\ request' = [request EXCEPT ![h] = Idle]
    BY <1>6 DEF Answer, Fail, client, history
  <2> QED
    BY <2>1 DEF Quiet, Registered, Waiting, Idle, TypeOK
<1>7. CASE ExpireUpdate
  <2>1. \A n \in Nodes : Registered(n) => row[n] \in Rows /\ MarkDormant(row[n]).challenge = row[n].challenge
    BY RegisteredRow DEF MarkDormant, Rows
  <2>2. ASSUME NEW n \in Nodes, row'[n] # row[n]
        PROVE  Registered(n) /\ row'[n] = MarkDormant(row[n])
    BY <1>7, <2>2 DEF ExpireUpdate
  <2>3. sent' = sent /\ proofs' = proofs /\ request' = request
    BY <1>7 DEF ExpireUpdate, client
  <2> QED
    BY <2>1, <2>2, <2>3 DEF Quiet, Registered, Waiting
<1>8. CASE ArchiveDormant
  <2>1. \A r \in Rows : [r EXCEPT !.status = "archived"].challenge = r.challenge
    BY DEF Rows
  <2>2. \A n \in Nodes : Registered(n) => row[n] \in Rows
    BY RegisteredRow
  <2>3. ASSUME NEW n \in Nodes, row'[n] # row[n]
        PROVE  Registered(n) /\ row'[n] = [row[n] EXCEPT !.status = "archived"]
    BY <1>8, <2>3 DEF ArchiveDormant
  <2>4. sent' = sent /\ proofs' = proofs /\ request' = request
    BY <1>8 DEF ArchiveDormant, client, history
  <2>5. \A n \in Nodes : Registered(n)' => Registered(n) /\ row'[n].challenge = row[n].challenge
    BY <2>1, <2>2, <2>3 DEF Registered
  <2> QED
    BY <2>4, <2>5 DEF Quiet, Waiting
<1>9. \/ row' = row /\ request' = request /\ sent' = sent /\ proofs' = proofs
      \/ ExpireUpdate \/ ArchiveDormant
      \/ \E m \in Nodes : Register(m) \/ Deregister(m) \/ Restrict(m) \/ Anonymize(m)
      \/ \E h \in Handlers : Heartbeat(h) \/ Answer(h) \/ Fail(h)
  BY DEF Next, vars, client, history, ClockTick, ExpireSelect, ExpireUpdateFails
<1> QED
  BY <1>1, <1>2, <1>3, <1>4, <1>5, <1>6, <1>7, <1>8, <1>9

LEMMA StartKeepsFresh ==
  ASSUME TypeOK, TypeOK', ChallengesFresh,
         NEW h \in Handlers, NEW k \in Nodes, StartHeartbeat(h, k)
  PROVE  ChallengesFresh'
<1>1. row' = row /\ proofs' = proofs /\ sent' = sent + 1
  BY DEF StartHeartbeat
<1>2. PICK q : request' = [request EXCEPT ![h] = q] /\ q.next = sent + 1
  <2>1. PICK m \in Reports :
          request' = [request EXCEPT ![h] =
            [pc |-> "heartbeat", node |-> k, batch |-> IF m.has_batch_id THEN batch[k] ELSE 0,
             answer |-> held[k], next |-> sent', available |-> m.available,
             delta |-> compute_delta(m.tasks_success, m.tasks_failed)]]
    BY DEF StartHeartbeat
  <2> WITNESS [pc |-> "heartbeat", node |-> k, batch |-> IF m.has_batch_id THEN batch[k] ELSE 0,
               answer |-> held[k], next |-> sent', available |-> m.available,
               delta |-> compute_delta(m.tasks_success, m.tasks_failed)]
  <2> QED
    BY <1>1, <2>1
<1>3. sent \in Nat /\ sent + 1 \in 1..MaxHeartbeats
  BY <1>1, LifecycleConstants DEF TypeOK
<1>4. \A g \in Handlers : request'[g] = IF g = h THEN q ELSE request[g]
  BY <1>2 DEF TypeOK
<1>5. \A g \in Handlers : Waiting(g) => request[g].next \in Nat
  BY BusyRequest DEF Waiting
<1>6. \A n \in Nodes : Registered(n) => row[n].challenge \in Nat
  BY RegisteredRow DEF Rows
<1>7. (\A c \in 1..MaxHeartbeats : proofs[c] <= 1 /\ (c > sent => proofs[c] = 0))'
  BY <1>1, <1>3 DEF ChallengesFresh
<1>8. (\A n \in Nodes : Registered(n) /\ row[n].challenge # 0 =>
         proofs[row[n].challenge] = 0 /\ row[n].challenge <= sent)'
  BY <1>1, <1>3, <1>6 DEF ChallengesFresh, Registered
<1>9. (\A n, m \in Nodes :
         Registered(n) /\ Registered(m) /\ row[n].challenge = row[m].challenge /\ row[n].challenge # 0
           => n = m)'
  BY <1>1 DEF ChallengesFresh, Registered
<1>10. (\A g \in Handlers : Waiting(g) =>
         /\ proofs[request[g].next] = 0 /\ request[g].next <= sent
         /\ \A n \in Nodes : Registered(n) => row[n].challenge # request[g].next)'
  <2> SUFFICES ASSUME NEW g \in Handlers, Waiting(g)'
               PROVE  /\ proofs[request'[g].next] = 0 /\ request'[g].next <= sent + 1
                      /\ \A n \in Nodes : Registered(n) => row[n].challenge # request'[g].next
    BY <1>1 DEF Registered
  <2>1. CASE g = h
    <3>1. request'[g].next = sent + 1
      BY <1>2, <1>4, <2>1
    <3> QED
      BY <1>3, <1>6, <3>1 DEF ChallengesFresh
  <2>2. CASE g # h
    <3>1. Waiting(g) /\ request'[g] = request[g]
      BY <1>4, <2>2 DEF Waiting
    <3> QED
      BY <1>3, <1>5, <3>1 DEF ChallengesFresh
  <2> QED
    BY <2>1, <2>2
<1>11. (\A f, g \in Handlers :
         Waiting(f) /\ Waiting(g) /\ request[f].next = request[g].next => f = g)'
  <2> SUFFICES ASSUME NEW f \in Handlers, NEW g \in Handlers, Waiting(f)', Waiting(g)',
                      request'[f].next = request'[g].next
               PROVE  f = g
    OBVIOUS
  <2>1. \A e \in Handlers : Waiting(e)' /\ e # h =>
          Waiting(e) /\ request'[e].next = request[e].next /\ request[e].next <= sent
    BY <1>4 DEF Waiting, ChallengesFresh
  <2>2. request'[h].next = sent + 1
    BY <1>2, <1>4
  <2> QED
    BY <1>3, <1>5, <2>1, <2>2 DEF ChallengesFresh
<1> QED
  BY <1>7, <1>8, <1>9, <1>10, <1>11 DEF ChallengesFresh

LEMMA RotateKeepsFresh ==
  ASSUME TypeOK, TypeOK', ChallengesFresh, NEW h \in Handlers, Rotate(h)
  PROVE  ChallengesFresh'
<1> DEFINE q == request[h]
           k == q.node
           old == row[k].challenge
<1>1. /\ Waiting(h) /\ k \in Nodes /\ Registered(k) /\ row[k] \in Rows
      /\ q.next \in 1..MaxHeartbeats /\ old \in 0..MaxHeartbeats
  BY BusyRequest, RegisteredRow DEF Rotate, Waiting, Rows
<1>2. sent' = sent /\ sent \in Nat
  BY DEF Rotate, client, TypeOK
<1>3. \A n \in Nodes : (Registered(n)' => Registered(n))
        /\ (Registered(n)' => row'[n].challenge = IF n = k THEN q.next ELSE row[n].challenge)
  <2>1. row' = [row EXCEPT ![k] = [row[k] EXCEPT !.challenge = q.next]]
    BY DEF Rotate, TypeOK
  <2>2. [row[k] EXCEPT !.challenge = q.next].challenge = q.next
    BY <1>1 DEF Rows
  <2> QED
    BY <1>1, <2>1, <2>2 DEF TypeOK, Registered
<1>4. \A g \in Handlers : Waiting(g)' => g # h /\ Waiting(g) /\ request'[g] = request[g]
  <2>1. request' = [request EXCEPT ![h] = [request[h] EXCEPT !.pc = "answer"]]
    BY DEF Rotate, TypeOK
  <2>2. request[h] \in Requests \ {Idle}
    BY BusyRequest DEF Rotate, TypeOK
  <2>3. request'[h].pc = "answer"
    BY <2>1, <2>2 DEF Requests, TypeOK
  <2> QED
    BY <2>1, <2>3 DEF Waiting, TypeOK
<1>5. \/ proofs' = proofs
      \/ old # 0 /\ proofs' = [proofs EXCEPT ![old] = @ + 1]
  BY DEF Rotate
<1>6. old # 0 => proofs[old] = 0 /\ old <= sent /\ old # q.next
  BY <1>1 DEF ChallengesFresh
<1>7. \A c \in 1..MaxHeartbeats : proofs'[c] = proofs[c] \/ (c = old /\ old # 0 /\ proofs'[c] = 1)
  <2>1. proofs \in [1..MaxHeartbeats -> Nat]
    BY DEF TypeOK
  <2> HIDE DEF q, k, old
  <2>2. CASE proofs' = proofs
    BY <2>2
  <2>3. CASE old # 0 /\ proofs' = [proofs EXCEPT ![old] = @ + 1]
    <3>1. old \in 1..MaxHeartbeats /\ proofs[old] = 0
      BY <1>1, <1>6, <2>3
    <3>2. proofs'[old] = 1
      BY <2>1, <2>3, <3>1
    <3>3. \A c \in 1..MaxHeartbeats : c # old => proofs'[c] = proofs[c]
      BY <2>1, <2>3
    <3> QED
      BY <2>3, <3>2, <3>3
  <2> QED
    BY <1>5, <2>2, <2>3
<1> HIDE DEF q, k, old
<1>8. (\A c \in 1..MaxHeartbeats : proofs[c] <= 1 /\ (c > sent => proofs[c] = 0))'
  BY <1>2, <1>6, <1>7 DEF ChallengesFresh
<1>9. proofs'[q.next] = 0 /\ q.next <= sent
  BY <1>1, <1>6, <1>7 DEF ChallengesFresh, q
<1>10. ASSUME NEW n \in Nodes, Registered(n), n # k, row[n].challenge # 0
       PROVE  row[n].challenge # old /\ proofs'[row[n].challenge] = 0 /\ row[n].challenge <= sent
  <2>1. row[n].challenge \in 1..MaxHeartbeats
    BY <1>10, RegisteredRow DEF Rows
  <2>2. row[n].challenge # old
    BY <1>1, <1>10 DEF ChallengesFresh, old
  <2> QED
    BY <1>7, <1>10, <2>1, <2>2 DEF ChallengesFresh
<1>11. (\A n \in Nodes : Registered(n) /\ row[n].challenge # 0 =>
         proofs[row[n].challenge] = 0 /\ row[n].challenge <= sent)'
  BY <1>2, <1>3, <1>9, <1>10
<1>12. \A n \in Nodes : Registered(n) => row[n].challenge # q.next
  BY <1>1 DEF ChallengesFresh, q
<1>13. (\A n, m \in Nodes :
         Registered(n) /\ Registered(m) /\ row[n].challenge = row[m].challenge /\ row[n].challenge # 0
           => n = m)'
  BY <1>3, <1>12 DEF ChallengesFresh
<1>14. (\A g \in Handlers : Waiting(g) =>
         /\ proofs[request[g].next] = 0 /\ request[g].next <= sent
         /\ \A n \in Nodes : Registered(n) => row[n].challenge # request[g].next)'
  <2> SUFFICES ASSUME NEW g \in Handlers, Waiting(g)'
               PROVE  /\ proofs'[request'[g].next] = 0 /\ request'[g].next <= sent'
                      /\ \A n \in Nodes : Registered(n)' => row'[n].challenge # request'[g].next
    OBVIOUS
  <2>1. g # h /\ Waiting(g) /\ request'[g] = request[g]
    BY <1>4
  <2>2. request[g].next \in 1..MaxHeartbeats /\ proofs[request[g].next] = 0 /\ request[g].next <= sent
    BY <2>1, BusyRequest DEF Waiting, ChallengesFresh
  <2>3. request[g].next # old /\ request[g].next # q.next
    BY <1>1, <2>1 DEF ChallengesFresh, q, old
  <2> QED
    BY <1>2, <1>3, <1>7, <2>1, <2>2, <2>3 DEF ChallengesFresh
<1>15. (\A f, g \in Handlers :
         Waiting(f) /\ Waiting(g) /\ request[f].next = request[g].next => f = g)'
  BY <1>4 DEF ChallengesFresh
<1> QED
  BY <1>8, <1>11, <1>13, <1>14, <1>15 DEF ChallengesFresh

\* verify_and_rotate_liveness_challenge accepts one answer for a challenge:
\* no replayed or overlapping heartbeat refreshes liveness_verified_at with it
\* again.
THEOREM ChallengesVerifyOnce == Spec => []VerifiesOnce
<1>1. Init => ChallengesFresh
  BY DEF Init, ChallengesFresh, Registered, Waiting, Idle
<1>2. TypeOK /\ ChallengesFresh /\ [Next]_vars => ChallengesFresh'
  BY TypeStep, StartKeepsFresh, RotateKeepsFresh, MostStepsQuiet, QuietKeepsFresh
<1>3. ChallengesFresh => VerifiesOnce
  BY DEF ChallengesFresh, VerifiesOnce
<1> QED
  BY <1>1, <1>2, <1>3, LifecycleTypeCorrect, PTL DEF Spec

-----------------------------------------------------------------------------
(* A batch is counted once.                                                *)

\* What no step but a heartbeat or a deregistration of the node touches.
SameBooks(n) ==
  /\ Registered(n)'
  /\ row'[n].last_batch = row[n].last_batch
  /\ row'[n].hourly_gain = row[n].hourly_gain /\ row'[n].window_start = row[n].window_start

LEMMA BooksKept ==
  ASSUME TypeOK, [Next]_vars, NEW n \in Nodes, ~Deregister(n),
         \A h \in Handlers : ~(Heartbeat(h) /\ request[h].node = n)
  PROVE  IF Registered(n) THEN SameBooks(n) ELSE Registered(n)' => row'[n] = FreshRow
<1>1. CASE row'[n] = row[n]
  BY <1>1 DEF SameBooks, Registered
<1>2. CASE Registered(n) /\ row'[n] # row[n]
  <2> DEFINE r == row[n]
             Same(s) == /\ s \in Rows
                        /\ s.last_batch = r.last_batch
                        /\ s.hourly_gain = r.hourly_gain /\ s.window_start = r.window_start
  <2>1. r \in Rows /\ now \in Timestamps
    BY <1>2, RegisteredRow DEF TypeOK, Timestamps
  <2>2. ASSUME NEW m \in Nodes, Register(m)
        PROVE  Same(row'[n])
    <3>1. row'[n] = [r EXCEPT !.status = "active", !.available = TRUE, !.token = TRUE]
      BY <1>2, <2>2 DEF Register, TypeOK
    <3> QED
      BY <2>1, <3>1 DEF Rows
  <2>3. ASSUME NEW m \in Nodes, Restrict(m)
        PROVE  Same(row'[n])
    <3>1. row'[n] = [r EXCEPT !.status = "archived", !.available = FALSE, !.dormant_since = now]
      BY <1>2, <2>3 DEF Restrict, TypeOK
    <3> QED
      BY <2>1, <3>1 DEF Rows
  <2>4. ASSUME NEW m \in Nodes, Anonymize(m)
        PROVE  Same(row'[n])
    <3>1. row'[n] = [r EXCEPT !.status = "archived", !.available = FALSE, !.dormant_since = now,
                              !.token = FALSE, !.challenge = 0]
      BY <1>2, <2>4 DEF Anonymize, TypeOK
    <3>2. 0 \in 0..MaxHeartbeats
      BY LifecycleConstants
    <3>3. row'[n] \in Rows
      BY <2>1, <3>1, <3>2 DEF Rows
    <3> QED
      BY <2>1, <3>1, <3>3 DEF Rows
  <2>5. ASSUME NEW h \in Handlers, Rotate(h)
        PROVE  Same(row'[n])
    <3>1. row'[n] = [r EXCEPT !.challenge = request[h].next]
      BY <1>2, <2>5 DEF Rotate, TypeOK
    <3>2. request[h].next \in 0..MaxHeartbeats
      BY <2>5, BusyRequest DEF Rotate
    <3> QED
      BY <2>1, <3>1, <3>2 DEF Rows
  <2>6. ASSUME ExpireUpdate PROVE Same(row'[n])
    <3>1. row'[n] = MarkDormant(r)
      BY <1>2, <2>6 DEF ExpireUpdate
    <3>2. row'[n] \in Rows
      BY <2>1, <3>1 DEF Rows, MarkDormant
    <3> QED
      BY <2>1, <3>1, <3>2 DEF Rows, MarkDormant
  <2>7. ASSUME ArchiveDormant PROVE Same(row'[n])
    <3>1. row'[n] = [r EXCEPT !.status = "archived"]
      BY <1>2, <2>7 DEF ArchiveDormant
    <3>2. row'[n] \in Rows
      BY <2>1, <3>1 DEF Rows
    <3> QED
      BY <2>1, <3>1, <3>2 DEF Rows
  <2>8. \/ \E m \in Nodes : Register(m) \/ Restrict(m) \/ Anonymize(m)
        \/ \E h \in Handlers : Rotate(h)
        \/ ExpireUpdate \/ ArchiveDormant
    <3>1. ASSUME NEW m \in Nodes, Deregister(m)
          PROVE  FALSE
      BY <1>2, <3>1 DEF Deregister, TypeOK
    <3>2. ASSUME NEW h \in Handlers, Heartbeat(h)
          PROVE  FALSE
      BY <1>2, <3>2 DEF Heartbeat, TypeOK
    <3> QED
      BY <1>2, <3>1, <3>2
      DEF Next, vars, ClockTick, StartHeartbeat, Answer, Fail, ExpireSelect, ExpireUpdateFails
  <2> HIDE DEF Same
  <2>9. Same(row'[n])
    BY <2>2, <2>3, <2>4, <2>5, <2>6, <2>7, <2>8
  <2> QED
    BY <1>2, <2>9, AbsentIsNoRow DEF SameBooks, Registered, Same
<1>3. CASE ~Registered(n) /\ row'[n] # row[n]
  <2>1. ASSUME NEW m \in Nodes, Register(m) PROVE row'[n] = FreshRow
    BY <1>3, <2>1 DEF Register, TypeOK
  <2>2. ASSUME NEW m \in Nodes, Deregister(m) \/ Restrict(m) \/ Anonymize(m) PROVE FALSE
    BY <1>3, <2>2 DEF Deregister, Restrict, Anonymize, TypeOK
  <2>3. ASSUME NEW h \in Handlers, Heartbeat(h) \/ Rotate(h) PROVE FALSE
    BY <1>3, <2>3 DEF Heartbeat, Rotate, TypeOK
  <2>4. ~ExpireUpdate /\ ~ArchiveDormant
    BY <1>3 DEF ExpireUpdate, ArchiveDormant
  <2> QED
    BY <1>3, <2>1, <2>2, <2>3, <2>4
    DEF Next, vars, ClockTick, StartHeartbeat, Answer, Fail, ExpireSelect, ExpireUpdateFails
<1> QED
  BY <1>1, <1>2, <1>3

\* The heartbeats of a node that is not hasty come one at a time and carry its
\* current batch or none.
OneAtATime(n) ==
  /\ \A g, h \in Handlers : Serving(g, n) /\ Serving(h, n) => g = h
  /\ \A h \in Handlers : Serving(h, n) => request[h].batch \in {0, batch[n]}

\* Later batches were not counted, and a batch that was counted and is not
\* acknowledged yet is the last one of the row.
CountedUpTo(n) ==
  /\ batch[n] >= 1
  /\ \A b \in 1..MaxHeartbeats :
       /\ counted[n][b] <= 1
       /\ b > batch[n] => counted[n][b] = 0
       /\ b = batch[n] /\ counted[n][b] # 0 => Registered(n) /\ row[n].last_batch = b

Orderly == \A n \in Nodes \ hasty : OneAtATime(n) /\ CountedUpTo(n)

\* What a heartbeat does to its node's last batch and counts.
LEMMA HeartbeatCounts ==
  ASSUME TypeOK, NEW h \in Handlers, Heartbeat(h), NEW n, n = request[h].node
  PROVE  /\ n \in Nodes /\ Serving(h, n) /\ request[h].batch \in Nat
         /\ Registered(n) /\ Registered(n)'
         /\ row'[n].last_batch = IF request[h].batch = 0 THEN row[n].last_batch ELSE request[h].batch
         /\ \A b \in 1..MaxHeartbeats :
              counted'[n][b] = IF b = request[h].batch /\ b # row[n].last_batch
                               THEN counted[n][b] + 1 ELSE counted[n][b]
         /\ \A m \in Nodes : m # n => counted'[m] = counted[m] /\ row'[m] = row[m]
         /\ batch' = batch /\ hasty' = hasty
<1> DEFINE q == request[h]
           v == Velocity(row[n], IF metrics_applied(row[n], q.batch) THEN q.delta ELSE 0)
<1>1. /\ n \in Nodes /\ q.batch \in Nat /\ q # Idle /\ q.delta \in Int /\ q.available \in BOOLEAN
      /\ Registered(n)
  BY BusyRequest DEF Heartbeat
<1>2. /\ row' = [row EXCEPT ![n] = HeartbeatRow(row[n], q, v)]
      /\ counted' = IF metrics_applied(row[n], q.batch) /\ q.batch # 0
                    THEN [counted EXCEPT ![n][q.batch] = @ + 1] ELSE counted
      /\ batch' = batch /\ hasty' = hasty
  BY DEF Heartbeat, HeartbeatRow, client
<1>3. row[n] \in Rows
  BY <1>1, RegisteredRow
<1>4. /\ v.delta \in Int /\ v.gain \in 0..MAX_HOURLY_GAIN /\ v.start \in Timestamps
  BY <1>1, <1>3, VelocityFacts
<1>5. row[n].score \in Int /\ row[n].last_batch \in Nat
  BY <1>3 DEF Rows
<1>6. now \in Timestamps /\ Never \in Timestamps
  BY DEF TypeOK, Timestamps
<1>7. Serving(h, n)
  BY <1>1 DEF Serving
<1> HIDE DEF v, q
<1>8. apply_delta(row[n].score, v.delta) \in 0..100
  BY <1>4, <1>5, ScoreFacts
<1>9. row'[n] = HeartbeatRow(row[n], q, v) /\ \A m \in Nodes : m # n => row'[m] = row[m]
  BY <1>1, <1>2 DEF TypeOK
<1>10. /\ HeartbeatRow(row[n], q, v) \in Rows
       /\ HeartbeatRow(row[n], q, v).last_batch = IF q.batch = 0 THEN row[n].last_batch ELSE q.batch
  BY <1>1, <1>3, <1>4, <1>5, <1>6, <1>8 DEF HeartbeatRow, Rows
<1>11. Registered(n)'
  BY <1>9, <1>10, AbsentIsNoRow DEF Registered
<1>12. \A b \in 1..MaxHeartbeats :
         counted'[n][b] = IF b = q.batch /\ b # row[n].last_batch
                          THEN counted[n][b] + 1 ELSE counted[n][b]
  <2>1. counted \in [Nodes -> [1..MaxHeartbeats -> Nat]] /\ 0 \notin 1..MaxHeartbeats
    BY DEF TypeOK
  <2>2. CASE metrics_applied(row[n], q.batch) /\ q.batch # 0
    <3>1. counted' = [counted EXCEPT ![n][q.batch] = @ + 1] /\ q.batch # row[n].last_batch
      BY <1>2, <2>2 DEF metrics_applied
    <3>2. counted'[n] = [counted[n] EXCEPT ![q.batch] = @ + 1]
      BY <1>1, <2>1, <3>1
    <3> QED
      BY <1>1, <2>1, <3>1, <3>2
  <2>3. CASE ~(metrics_applied(row[n], q.batch) /\ q.batch # 0)
    <3>1. counted' = counted /\ (q.batch = 0 \/ q.batch = row[n].last_batch)
      BY <1>2, <2>3 DEF metrics_applied
    <3> QED
      BY <2>1, <3>1
  <2> QED
    BY <2>2, <2>3
<1>13. \A m \in Nodes : m # n => counted'[m] = counted[m]
  BY <1>1, <1>2 DEF TypeOK
<1> QED
  BY <1>1, <1>2, <1>7, <1>9, <1>10, <1>11, <1>12, <1>13 DEF q

\* The requests of a node and its current batch, as the steps leave them.
LEMMA RequestSteps ==
  ASSUME TypeOK, [Next]_vars, NEW n \in Nodes
  PROVE  \/ /\ batch'[n] = batch[n]
            /\ \A h \in Handlers : Serving(h, n)' => Serving(h, n) /\ request'[h].batch = request[h].batch
         \/ \E h \in Handlers : StartHeartbeat(h, n)
         \/ \E h \in Handlers : Answer(h) /\ request[h].node = n
<1> DEFINE Calm == /\ batch'[n] = batch[n]
                   /\ \A h \in Handlers :
                        Serving(h, n)' => Serving(h, n) /\ request'[h].batch = request[h].batch
<1>1. CASE batch' = batch /\ request' = request
  BY <1>1 DEF Serving
<1>2. ASSUME NEW m \in Nodes, Register(m) PROVE Calm
  <2>1. batch' = batch
    BY <1>2 DEF Register
  <2>2. ASSUME NEW h \in Handlers, Serving(h, m)
        PROVE  request'[h].node = request[h].node /\ request'[h].batch = request[h].batch
    <3>1. request[h] \in Requests \ {Idle} /\ request'[h] = [request[h] EXCEPT !.answer = 0]
      BY <1>2, <2>2 DEF Register, TypeOK, Serving
    <3> QED
      BY <3>1 DEF Requests
  <2>3. ASSUME NEW h \in Handlers, ~Serving(h, m)
        PROVE  request'[h] = request[h]
    BY <1>2, <2>3 DEF Register
  <2> QED
    BY <2>1, <2>2, <2>3 DEF Serving
<1>3. ASSUME NEW h \in Handlers, Heartbeat(h) \/ Rotate(h) PROVE Calm
  <2>1. batch' = batch /\ request[h] \in Requests \ {Idle}
    BY <1>3, BusyRequest DEF Heartbeat, Rotate, client, TypeOK
  <2>2. \E pc : request' = [request EXCEPT ![h].pc = pc]
    BY <1>3 DEF Heartbeat, Rotate
  <2>3. request'[h].node = request[h].node /\ request'[h].batch = request[h].batch
    BY <2>1, <2>2 DEF TypeOK, Requests
  <2>4. \A g \in Handlers : g # h => request'[g] = request[g]
    BY <2>2 DEF TypeOK
  <2> QED
    BY <2>1, <2>3, <2>4 DEF Serving
<1>4. ASSUME NEW h \in Handlers, Fail(h) PROVE Calm
  <2>1. batch' = batch /\ request'[h] = Idle /\ \A g \in Handlers : g # h => request'[g] = request[g]
    BY <1>4 DEF Fail, client, TypeOK
  <2> QED
    BY <2>1 DEF Serving
<1>5. ASSUME NEW h \in Handlers, NEW m \in Nodes, StartHeartbeat(h, m), m # n PROVE Calm
  <2>1. /\ batch' = batch /\ request'[h].node = m
        /\ \A g \in Handlers : g # h => request'[g] = request[g]
    BY <1>5 DEF StartHeartbeat, TypeOK
  <2> QED
    BY <1>5, <2>1 DEF Serving
<1>6. ASSUME NEW h \in Handlers, Answer(h), request[h].node # n PROVE Calm
  <2>1. /\ batch'[n] = batch[n] /\ request'[h] = Idle
        /\ \A g \in Handlers : g # h => request'[g] = request[g]
    BY <1>6 DEF Answer, TypeOK
  <2> QED
    BY <2>1 DEF Serving
<1>7. \/ batch' = batch /\ request' = request
      \/ \E m \in Nodes : Register(m)
      \/ \E h \in Handlers, m \in Nodes : StartHeartbeat(h, m)
      \/ \E h \in Handlers : Heartbeat(h) \/ Rotate(h) \/ Answer(h) \/ Fail(h)
  BY DEF Next, vars, client, ClockTick, Deregister, Restrict, Anonymize, ExpireSelect, ExpireUpdate,
         ExpireUpdateFails, ArchiveDormant
<1> QED
  BY <1>1, <1>2, <1>3, <1>4, <1>5, <1>6, <1>7

LEMMA OneAtATimeStep ==
  ASSUME TypeOK, Orderly, [Next]_vars, NEW n \in Nodes \ hasty'
  PROVE  n \notin hasty /\ OneAtATime(n)'
<1>1. n \notin hasty
  BY DEF Next, vars, history, ClockTick, Register, Deregister, Restrict, Anonymize,
         StartHeartbeat, Heartbeat, Rotate, Answer, Fail, ExpireSelect, ExpireUpdate,
         ExpireUpdateFails, ArchiveDormant
<1>2. OneAtATime(n)
  BY <1>1 DEF Orderly
<1>3. CASE /\ batch'[n] = batch[n]
           /\ \A h \in Handlers : Serving(h, n)' => Serving(h, n) /\ request'[h].batch = request[h].batch
  <2>1. \A g, h \in Handlers : Serving(g, n)' /\ Serving(h, n)' => g = h
    BY <1>2, <1>3 DEF OneAtATime
  <2>2. ASSUME NEW h \in Handlers, Serving(h, n)'
        PROVE  request'[h].batch = 0 \/ request'[h].batch = batch'[n]
    <3>1. Serving(h, n) /\ request'[h].batch = request[h].batch /\ batch'[n] = batch[n]
      BY <1>3, <2>2
    <3> QED
      BY <1>2, <3>1 DEF OneAtATime
  <2> QED
    BY <1>1, <2>1, <2>2 DEF OneAtATime
<1>4. ASSUME NEW h \in Handlers, StartHeartbeat(h, n)
      PROVE  OneAtATime(n)'
  <2>1. \A g \in Handlers : ~Serving(g, n)
    BY <1>4 DEF StartHeartbeat
  <2>2. \A g \in Handlers : g # h => request'[g] = request[g]
    BY <1>4 DEF StartHeartbeat, TypeOK
  <2>3. batch' = batch /\ request'[h].batch \in {0, batch[n]}
    BY <1>4 DEF StartHeartbeat, TypeOK
  <2>4. \A g \in Handlers : Serving(g, n)' => g = h
    BY <2>1, <2>2 DEF Serving
  <2> QED
    BY <2>3, <2>4 DEF OneAtATime
<1>5. ASSUME NEW h \in Handlers, Answer(h), request[h].node = n
      PROVE  OneAtATime(n)'
  <2>1. Serving(h, n)
    BY <1>5, BusyRequest DEF Answer, Serving
  <2>2. request'[h] = Idle /\ \A g \in Handlers : g # h => request'[g] = request[g]
    BY <1>5 DEF Answer, TypeOK
  <2>3. \A g \in Handlers : ~Serving(g, n)'
    BY <1>2, <2>1, <2>2 DEF Serving, OneAtATime
  <2> QED
    BY <2>3 DEF OneAtATime
<1> QED
  BY <1>1, <1>3, <1>4, <1>5, RequestSteps

LEMMA CountedStep ==
  ASSUME TypeOK, TypeOK', Orderly, [Next]_vars, NEW n \in Nodes \ hasty
  PROVE  CountedUpTo(n)'
<1>1. /\ OneAtATime(n) /\ CountedUpTo(n)
      /\ batch[n] \in Nat /\ batch[n] >= 1 /\ counted[n] \in [1..MaxHeartbeats -> Nat]
  BY DEF Orderly, TypeOK, CountedUpTo
<1>2. CASE Deregister(n)
  <2>1. batch' = batch /\ \A b \in 1..MaxHeartbeats : counted'[n][b] = 0
    BY <1>2 DEF Deregister, client, TypeOK
  <2> QED
    BY <1>1, <2>1 DEF CountedUpTo
<1>3. ASSUME NEW h \in Handlers, Heartbeat(h), request[h].node = n
      PROVE  CountedUpTo(n)'
  <2> DEFINE b0 == request[h].batch
  <2>1. /\ b0 \in Nat /\ Serving(h, n) /\ Registered(n) /\ Registered(n)' /\ batch' = batch
        /\ row'[n].last_batch = IF b0 = 0 THEN row[n].last_batch ELSE b0
        /\ \A b \in 1..MaxHeartbeats :
             counted'[n][b] = IF b = b0 /\ b # row[n].last_batch
                              THEN counted[n][b] + 1 ELSE counted[n][b]
    BY <1>3, HeartbeatCounts
  <2>2. b0 = 0 \/ b0 = batch[n]
    BY <1>1, <2>1 DEF OneAtATime
  <2> HIDE DEF b0
  <2>3. \A b \in 1..MaxHeartbeats : b \in Nat /\ b >= 1 /\ counted[n][b] \in Nat
    BY <1>1, LifecycleConstants
  <2> QED
    BY <1>1, <2>1, <2>2, <2>3 DEF CountedUpTo
<1>4. CASE /\ counted'[n] = counted[n]
           /\ Registered(n) => SameBooks(n)
    <2>1. CASE batch'[n] = batch[n]
      BY <1>1, <1>4, <2>1 DEF CountedUpTo, SameBooks
    <2>2. CASE batch'[n] = batch[n] + 1
      BY <1>1, <1>4, <2>2 DEF CountedUpTo, SameBooks
    <2>3. \/ batch'[n] = batch[n] \/ batch'[n] = batch[n] + 1
      <3>1. ASSUME NEW h \in Handlers, Answer(h)
            PROVE  batch'[n] = batch[n] \/ batch'[n] = batch[n] + 1
        BY <3>1 DEF Answer, TypeOK
      <3>2. ASSUME NEW h \in Handlers, StartHeartbeat(h, n)
            PROVE  batch'[n] = batch[n]
        BY <3>2 DEF StartHeartbeat
      <3> QED
        BY <3>1, <3>2, RequestSteps
    <2> QED
      BY <2>1, <2>2, <2>3
<1>5. CASE ~Deregister(n) /\ \A h \in Handlers : ~(Heartbeat(h) /\ request[h].node = n)
  <2>1. Registered(n) => SameBooks(n)
    BY <1>5, BooksKept
  <2>2. counted'[n] = counted[n]
    <3>1. ASSUME NEW h \in Handlers, Heartbeat(h)
          PROVE  counted'[n] = counted[n]
      BY <1>5, <3>1, HeartbeatCounts
    <3>2. ASSUME NEW m \in Nodes, Deregister(m)
          PROVE  counted'[n] = counted[n]
      BY <1>5, <3>2 DEF Deregister, TypeOK
    <3> QED
      BY <3>1, <3>2 DEF Next, vars, history, ClockTick, Register, Restrict, Anonymize,
         StartHeartbeat, Rotate, Answer, Fail, ExpireSelect, ExpireUpdate, ExpireUpdateFails,
         ArchiveDormant
  <2> QED
    BY <1>4, <2>1, <2>2
<1> QED
  BY <1>2, <1>3, <1>5

\* heartbeat_once adds the tasks of a batch to the row once, however often the
\* node sends it because an answer was lost, when a registration, a loop or a
\* data-subject action comes in between, too.
THEOREM BatchesCountedOnce == Spec => []CountedOnce
<1>1. Init => Orderly
  BY DEF Init, Orderly, OneAtATime, CountedUpTo, Serving
<1>2. TypeOK /\ Orderly /\ [Next]_vars => Orderly'
  <2> SUFFICES ASSUME TypeOK, Orderly, [Next]_vars, NEW n \in Nodes \ hasty'
               PROVE  OneAtATime(n)' /\ CountedUpTo(n)'
    BY DEF Orderly
  <2>1. TypeOK'
    BY TypeStep
  <2>2. n \notin hasty /\ OneAtATime(n)'
    BY OneAtATimeStep
  <2> QED
    BY <2>1, <2>2, CountedStep
<1>3. Orderly => CountedOnce
  BY DEF Orderly, CountedUpTo, CountedOnce
<1> QED
  BY <1>1, <1>2, <1>3, LifecycleTypeCorrect, PTL DEF Spec

-----------------------------------------------------------------------------
(* The hourly budget.                                                      *)

\* A history of gains before a time; GainBetween is a difference of two.
Before(g, t) == IF t = 0 THEN 0 ELSE g[t - 1]

\* The history g of a row's gains at time c: it grows, nothing is gained in the
\* future, and no hour sees more than two budgets.
History(g, c) ==
  /\ \A t, u \in Times : t <= u => g[t] <= g[u]
  /\ \A t \in Times : t >= c => g[t] = g[c]
  /\ \A t, u \in Times : t <= u /\ u - t < Hour => g[u] - Before(g, t) <= 2 * MAX_HOURLY_GAIN

\* The window that opened at ws: its gain is what was gained since it opened,
\* nothing is gained once it is over, and what was gained in the hour before it
\* opened was one budget at most.
InWindow(g, c, ws, gain) ==
  /\ ws <= c
  /\ g[c] - Before(g, ws) = gain
  /\ \A t \in Times : t - ws >= Hour => g[t] = Before(g, t)
  /\ \A t \in Times : t <= ws /\ ws - t < Hour => Before(g, ws) - Before(g, t) <= MAX_HOURLY_GAIN

\* The history after d more at time c.
Gains(g, c, d) == [t \in Times |-> IF t >= c THEN g[t] + d ELSE g[t]]

LEMMA BeforeFacts ==
  ASSUME NEW g \in [Times -> Nat], NEW c \in Times, History(g, c), NEW t \in Times
  PROVE  /\ Before(g, t) \in Nat /\ Before(g, t) <= g[t]
         /\ \A u \in Times : t < u => g[t] <= Before(g, u)
         /\ \A u \in Times : t <= u => Before(g, t) <= Before(g, u)
         /\ t > c => Before(g, t) = g[c]
<1>1. \A x \in Times : x \in Int /\ x >= 0 /\ (x # 0 => x - 1 \in Times)
  BY LifecycleConstants DEF Times
<1>2. \A x, y \in Times : x <= y => g[x] <= g[y]
  BY DEF History
<1>3. \A x \in Times : x >= c => g[x] = g[c]
  BY DEF History
<1>4. Before(g, t) \in Nat /\ Before(g, t) <= g[t]
  BY <1>1, <1>2 DEF Before
<1>5. ASSUME NEW u \in Times, t < u PROVE g[t] <= Before(g, u)
  BY <1>1, <1>2, <1>5 DEF Before
<1>6. ASSUME NEW u \in Times, t <= u PROVE Before(g, t) <= Before(g, u)
  BY <1>1, <1>2, <1>6 DEF Before
<1>7. t > c => Before(g, t) = g[c]
  BY <1>1, <1>3 DEF Before
<1> QED
  BY <1>4, <1>5, <1>6, <1>7

LEMMA GainsFacts ==
  ASSUME NEW g \in [Times -> Nat], NEW c \in Times, NEW d \in Nat, NEW t \in Times
  PROVE  /\ Gains(g, c, d) \in [Times -> Nat]
         /\ t >= c => Gains(g, c, d)[t] = g[t] + d
         /\ t < c => Gains(g, c, d)[t] = g[t]
         /\ t <= c => Before(Gains(g, c, d), t) = Before(g, t)
         /\ t > c => Before(Gains(g, c, d), t) = Before(g, t) + d
<1>1. \A x \in Times : x \in Int /\ x >= 0 /\ (x # 0 => x - 1 \in Times)
  BY LifecycleConstants DEF Times
<1>2. Gains(g, c, d) = [x \in Times |-> IF x >= c THEN g[x] + d ELSE g[x]]
  BY DEF Gains
<1>3. \A x \in Times : g[x] \in Nat
  OBVIOUS
<1>4. Gains(g, c, d) \in [Times -> Nat]
  BY <1>2, <1>3
<1>5. \A x \in Times : /\ x >= c => Gains(g, c, d)[x] = g[x] + d
                       /\ x < c => Gains(g, c, d)[x] = g[x]
  <2> SUFFICES ASSUME NEW x \in Times
               PROVE  /\ x >= c => Gains(g, c, d)[x] = g[x] + d
                      /\ x < c => Gains(g, c, d)[x] = g[x]
    OBVIOUS
  <2>1. Gains(g, c, d)[x] = IF x >= c THEN g[x] + d ELSE g[x]
    BY <1>2
  <2>2. x \in Int /\ c \in Int
    BY <1>1
  <2> QED
    BY <2>1, <2>2
<1>6. CASE t = 0
  BY <1>1, <1>4, <1>5, <1>6 DEF Before
<1>7. CASE t # 0
  <2>1. t - 1 \in Times /\ c \in Int /\ t \in Int
    BY <1>1, <1>7
  <2>2. Before(g, t) = g[t - 1] /\ Before(Gains(g, c, d), t) = Gains(g, c, d)[t - 1]
    BY <1>7 DEF Before
  <2>3. /\ t - 1 >= c => Gains(g, c, d)[t - 1] = g[t - 1] + d
        /\ t - 1 < c => Gains(g, c, d)[t - 1] = g[t - 1]
    BY <1>5, <2>1
  <2> QED
    BY <1>4, <1>5, <2>1, <2>2, <2>3
<1> QED
  BY <1>6, <1>7

\* A window a node gains d more in: the open one, or one that opens now.
LEMMA GainKeepsBudget ==
  ASSUME NEW g \in [Times -> Nat], NEW c \in Times, History(g, c), NEW d \in Nat,
         NEW ws \in Times, NEW gain \in 0..MAX_HOURLY_GAIN,
         InWindow(Gains(g, c, d), c, ws, gain)
  PROVE  History(Gains(g, c, d), c)
<1> DEFINE e == Gains(g, c, d)
<1>1. Hour \in Nat /\ \A x \in Times : x \in Int /\ x >= 0
  BY LifecycleConstants DEF Times
<1>2. /\ e \in [Times -> Nat]
      /\ \A t \in Times : t >= c => e[t] = g[t] + d
      /\ \A t \in Times : t < c => e[t] = g[t]
      /\ \A t \in Times : t <= c => Before(e, t) = Before(g, t)
      /\ \A t \in Times : t > c => Before(e, t) = Before(g, t) + d
  BY GainsFacts
<1> HIDE DEF e
<1>3. \A t, u \in Times : t <= u => e[t] <= e[u]
  <2> SUFFICES ASSUME NEW t \in Times, NEW u \in Times, t <= u PROVE e[t] <= e[u]
    OBVIOUS
  <2>1. g[t] <= g[u] /\ g[t] \in Nat /\ g[u] \in Nat
    BY DEF History
  <2> QED
    BY <1>1, <1>2, <2>1
<1>4. \A t \in Times : t >= c => e[t] = e[c]
  BY <1>1, <1>2 DEF History
<1>5. ASSUME NEW t \in Times, NEW u \in Times, t <= u, u - t < Hour
      PROVE  e[u] - Before(e, t) <= 2 * MAX_HOURLY_GAIN
  <2>1. CASE u < c
    BY <1>1, <1>2, <1>5, <2>1 DEF History
  <2>2. CASE u >= c /\ t > c
    <3>1. g[u] = g[c] /\ Before(g, t) = g[c] /\ g[c] \in Nat
      BY <1>5, <2>2, BeforeFacts DEF History
    <3> QED
      BY <1>1, <1>2, <2>2, <3>1, BudgetIsNat
  <2>3. CASE u >= c /\ t <= c
    <3>1. e[u] = e[c] /\ Before(e, t) = Before(g, t) /\ Before(g, t) \in Nat /\ e[c] \in Nat
      BY <1>2, <1>4, <2>3, BeforeFacts
    <3>2. /\ ws <= c /\ e[c] - Before(e, ws) = gain
          /\ Before(e, ws) = Before(g, ws) /\ Before(g, ws) \in Nat
      BY <1>1, <1>2, BeforeFacts DEF InWindow, e
    <3>3. CASE t <= ws
      <4>1. ws - t < Hour
        BY <1>1, <1>5, <2>3, <3>2
      <4>2. Before(e, ws) - Before(e, t) <= MAX_HOURLY_GAIN
        BY <3>3, <4>1 DEF InWindow, e
      <4> QED
        BY <3>1, <3>2, <4>2, BudgetIsNat
    <3>4. CASE t > ws
      <4>1. Before(g, ws) <= Before(g, t)
        BY <1>1, <3>4, BeforeFacts
      <4> QED
        BY <3>1, <3>2, <4>1, BudgetIsNat
    <3> QED
      BY <1>1, <3>3, <3>4
  <2> QED
    BY <1>1, <2>1, <2>2, <2>3
<1> QED
  BY <1>3, <1>4, <1>5 DEF History, e

\* A gain in the open window.
LEMMA GainInWindow ==
  ASSUME NEW g \in [Times -> Nat], NEW c \in Times, History(g, c), NEW d \in Nat,
         NEW ws \in Times, NEW gain \in 0..MAX_HOURLY_GAIN, InWindow(g, c, ws, gain), c - ws < Hour
  PROVE  InWindow(Gains(g, c, d), c, ws, gain + d)
<1> DEFINE e == Gains(g, c, d)
<1>1. Hour \in Nat /\ \A x \in Times : x \in Int /\ x >= 0
  BY LifecycleConstants DEF Times
<1>2. /\ e \in [Times -> Nat]
      /\ \A t \in Times : t >= c => e[t] = g[t] + d
      /\ \A t \in Times : t <= c => Before(e, t) = Before(g, t)
      /\ \A t \in Times : t > c => Before(e, t) = Before(g, t) + d
  BY GainsFacts
<1> HIDE DEF e
<1>3. ws <= c
  BY DEF InWindow
<1>4. e[c] - Before(e, ws) = gain + d
  <2>1. e[c] = g[c] + d /\ Before(e, ws) = Before(g, ws)
    BY <1>1, <1>2, <1>3
  <2>2. g[c] - Before(g, ws) = gain /\ g[c] \in Nat /\ Before(g, ws) \in Nat
    BY BeforeFacts DEF InWindow
  <2> QED
    BY <2>1, <2>2
<1>5. ASSUME NEW t \in Times, t - ws >= Hour PROVE e[t] = Before(e, t)
  BY <1>1, <1>2, <1>5 DEF InWindow
<1>6. ASSUME NEW t \in Times, t <= ws, ws - t < Hour PROVE Before(e, ws) - Before(e, t) <= MAX_HOURLY_GAIN
  <2>1. t <= c
    BY <1>1, <1>3, <1>6
  <2> QED
    BY <1>2, <1>3, <1>6, <2>1 DEF InWindow
<1> QED
  BY <1>3, <1>4, <1>5, <1>6 DEF InWindow, e

\* A gain that opens a window: nothing was gained right before it, and in the
\* hour before it at most one budget.
LEMMA GainOpensWindow ==
  ASSUME NEW g \in [Times -> Nat], NEW c \in Times, History(g, c), NEW d \in Nat,
         \/ \A t \in Times : g[t] = 0
         \/ \E ws \in Times, gain \in 0..MAX_HOURLY_GAIN : InWindow(g, c, ws, gain) /\ c - ws >= Hour
  PROVE  InWindow(Gains(g, c, d), c, c, d)
<1> DEFINE e == Gains(g, c, d)
<1>1. /\ Hour \in Nat /\ Hour >= 1 /\ c \in Int /\ c >= 0
      /\ \A x \in Times : x \in Int /\ x >= 0 /\ (x # 0 => x - 1 \in Times)
  BY LifecycleConstants DEF Times
<1>2. /\ e \in [Times -> Nat]
      /\ \A t \in Times : t >= c => e[t] = g[t] + d
      /\ \A t \in Times : t <= c => Before(e, t) = Before(g, t)
      /\ \A t \in Times : t > c => Before(e, t) = Before(g, t) + d
  BY GainsFacts
<1>7. \A t \in Times : Before(g, t) \in Nat /\ (t > c => Before(g, t) = g[c])
  BY BeforeFacts
<1> HIDE DEF e
<1>3. /\ g[c] = Before(g, c)
      /\ \A t \in Times : t <= c /\ c - t < Hour => Before(g, c) - Before(g, t) <= MAX_HOURLY_GAIN
  <2>1. CASE \A t \in Times : g[t] = 0
    BY <1>1, <2>1, BudgetIsNat DEF Before
  <2>2. ASSUME NEW ws \in Times, NEW gain \in 0..MAX_HOURLY_GAIN, InWindow(g, c, ws, gain), c - ws >= Hour
        PROVE  <1>3
    <3>1. g[c] = Before(g, c) /\ g[c] - Before(g, ws) = gain
      BY <2>2 DEF InWindow
    <3>2. ASSUME NEW t \in Times, t <= c, c - t < Hour
          PROVE  Before(g, c) - Before(g, t) <= MAX_HOURLY_GAIN
      <4>1. ws <= t
        <5>1. ws \in Int /\ t \in Int
          BY <1>1
        <5> QED
          BY <1>1, <2>2, <3>2, <5>1
      <4>2. Before(g, ws) <= Before(g, t)
        BY <4>1, BeforeFacts
      <4> QED
        BY <1>7, <3>1, <4>2, BudgetIsNat
    <3> QED
      BY <3>1, <3>2
  <2> QED
    BY <2>1, <2>2
<1>4. e[c] - Before(e, c) = d
  <2>1. e[c] = g[c] + d /\ Before(e, c) = Before(g, c) /\ g[c] \in Nat
    BY <1>1, <1>2
  <2> QED
    BY <1>3, <2>1
<1>5. ASSUME NEW t \in Times, t - c >= Hour PROVE e[t] = Before(e, t)
  <2>1. t \in Int
    BY <1>1
  <2>2. t > c /\ t >= c
    BY <1>1, <1>5, <2>1
  <2> QED
    BY <1>2, <1>7, <2>2 DEF History
<1>6. ASSUME NEW t \in Times, t <= c, c - t < Hour PROVE Before(e, c) - Before(e, t) <= MAX_HOURLY_GAIN
  <2>1. Before(e, c) = Before(g, c) /\ Before(e, t) = Before(g, t)
    BY <1>1, <1>2, <1>6
  <2> QED
    BY <1>3, <1>6, <2>1
<1> QED
  BY <1>1, <1>4, <1>5, <1>6 DEF InWindow, e

\* The clock moves on.
LEMMA TickKeepsBudget ==
  ASSUME NEW g \in [Times -> Nat], NEW c \in Times, c + 1 \in Times, History(g, c)
  PROVE  /\ History(g, c + 1)
         /\ \A ws \in Times, gain \in 0..MAX_HOURLY_GAIN :
              InWindow(g, c, ws, gain) => InWindow(g, c + 1, ws, gain)
<1>1. \A x \in Times : x \in Int /\ x >= 0
  BY LifecycleConstants DEF Times
<1>2. g[c + 1] = g[c]
  BY <1>1 DEF History
<1> QED
  BY <1>1, <1>2 DEF History, InWindow

\* The window a heartbeat leaves and the gain it adds: none, or one in the open
\* window, or one that opens a window.
LEMMA HeartbeatGains ==
  ASSUME TypeOK, NEW h \in Handlers, Heartbeat(h), NEW n, n = request[h].node
  PROVE  /\ now' = now
         /\ \A m \in Nodes : m # n => gained'[m] = gained[m]
         /\ \E d \in 0..MAX_HOURLY_GAIN :
              /\ gained'[n] = Gains(gained[n], now, d)
              /\ \/ /\ d = 0
                    /\ row'[n].hourly_gain = row[n].hourly_gain
                    /\ row'[n].window_start = row[n].window_start
                 \/ /\ ~WindowExpired(row[n])
                    /\ row'[n].hourly_gain = row[n].hourly_gain + d
                    /\ row'[n].window_start = row[n].window_start
                 \/ /\ WindowExpired(row[n])
                    /\ row'[n].hourly_gain = d /\ row'[n].window_start = now
<1> DEFINE q == request[h]
           r == row[n]
           d0 == IF metrics_applied(r, q.batch) THEN q.delta ELSE 0
           v == Velocity(r, d0)
           d == AtLeast(0, v.delta)
<1>1. n \in Nodes /\ q.delta \in Int /\ Registered(n) /\ d0 \in Int
  BY BusyRequest DEF Heartbeat
<1>2. /\ row' = [row EXCEPT ![n] = HeartbeatRow(r, q, v)]
      /\ gained' = [gained EXCEPT ![n] =
                      [t \in Times |-> IF t >= now THEN @[t] + d ELSE @[t]]]
      /\ now' = now
  BY DEF Heartbeat, HeartbeatRow
<1>3. r \in Rows
  BY <1>1, RegisteredRow
<1>4. r.hourly_gain \in 0..MAX_HOURLY_GAIN
  BY <1>3, BudgetIsNat DEF Rows
<1>5. row'[n] = HeartbeatRow(r, q, v)
  BY <1>1, <1>2 DEF TypeOK
<1>6. row'[n].hourly_gain = v.gain /\ row'[n].window_start = v.start
  BY <1>3, <1>5 DEF HeartbeatRow, Rows
<1>7. gained'[n] = Gains(gained[n], now, d) /\ \A m \in Nodes : m # n => gained'[m] = gained[m]
  BY <1>1, <1>2 DEF TypeOK, Gains
<1> HIDE DEF d0
<1> DEFINE Outcome ==
             \/ /\ d = 0
                /\ row'[n].hourly_gain = r.hourly_gain /\ row'[n].window_start = r.window_start
             \/ /\ ~WindowExpired(r)
                /\ row'[n].hourly_gain = r.hourly_gain + d /\ row'[n].window_start = r.window_start
             \/ /\ WindowExpired(r)
                /\ row'[n].hourly_gain = d /\ row'[n].window_start = now
<1>8. ASSUME d0 <= 0 PROVE d \in 0..MAX_HOURLY_GAIN /\ Outcome
  <2>1. v = [delta |-> d0, gain |-> r.hourly_gain, start |-> r.window_start]
    BY <1>1, <1>8 DEF Velocity
  <2>2. v.delta = d0 /\ v.gain = r.hourly_gain /\ v.start = r.window_start
    BY <2>1
  <2>3. d = 0
    BY <1>1, <1>8, <2>2 DEF AtLeast
  <2> HIDE DEF d, v, r
  <2> QED
    BY <1>6, <2>2, <2>3, BudgetIsNat
<1>9. ASSUME d0 > 0 PROVE d \in 0..MAX_HOURLY_GAIN /\ Outcome
  <2> DEFINE current == IF WindowExpired(r) THEN 0 ELSE r.hourly_gain
             capped == AtMost(d0, AtLeast(0, MAX_HOURLY_GAIN - current))
  <2>1. /\ v.delta = capped /\ v.gain = current + capped
        /\ v.start = IF WindowExpired(r) THEN now ELSE r.window_start
    BY <1>9 DEF Velocity
  <2>2. current \in 0..MAX_HOURLY_GAIN
    BY <1>4, BudgetIsNat
  <2>3. capped \in 0..MAX_HOURLY_GAIN
    BY <1>1, <1>9, <2>2, BudgetIsNat DEF AtMost, AtLeast
  <2> HIDE DEF capped, v
  <2>4. d = capped
    BY <2>1, <2>3 DEF AtLeast
  <2> HIDE DEF d, r
  <2>5. CASE WindowExpired(r)
    BY <1>6, <2>1, <2>3, <2>4, <2>5
  <2>6. CASE ~WindowExpired(r)
    BY <1>6, <2>1, <2>3, <2>4, <2>6
  <2> QED
    BY <2>5, <2>6
<1>10. d0 <= 0 \/ d0 > 0
  BY <1>1
<1>11. d \in 0..MAX_HOURLY_GAIN /\ Outcome
  <2> HIDE DEF Outcome, d
  <2> QED
    BY <1>8, <1>9, <1>10, Zenon
<1> HIDE DEF d
<1> QED
  BY <1>2, <1>7, <1>11, Zenon

\* Every node's gains are those of its window, or none when it has none.
Budgeted ==
  \A n \in Nodes :
    /\ History(gained[n], now)
    /\ IF Registered(n) /\ row[n].window_start # Never
       THEN InWindow(gained[n], now, row[n].window_start, row[n].hourly_gain)
       ELSE \A t \in Times : gained[n][t] = 0

\* Without gains there is nothing to limit, and adding nothing changes nothing.
LEMMA NoGains ==
  ASSUME NEW g \in [Times -> Nat], NEW c \in Times
  PROVE  /\ Gains(g, c, 0) = g
         /\ (\A t \in Times : g[t] = 0) => History(g, c)
<1>1. Gains(g, c, 0) = g
  BY DEF Gains
<1>2. ASSUME \A t \in Times : g[t] = 0 PROVE History(g, c)
  <2>1. \A t \in Times : t \in Int /\ (t # 0 => t - 1 \in Times)
    BY LifecycleConstants DEF Times
  <2>2. \A t \in Times : Before(g, t) = 0
    BY <1>2, <2>1 DEF Before
  <2> QED
    BY <1>2, <2>2, BudgetIsNat DEF History
<1> QED
  BY <1>1, <1>2

LEMMA BudgetStep ==
  ASSUME TypeOK, TypeOK', Budgeted, [Next]_vars, NEW n \in Nodes
  PROVE  /\ History(gained'[n], now')
         /\ IF Registered(n)' /\ row'[n].window_start # Never
            THEN InWindow(gained'[n], now', row'[n].window_start, row'[n].hourly_gain)
            ELSE \A t \in Times : gained'[n][t] = 0
<1> DEFINE g == gained[n]
           ws == row[n].window_start
           gain == row[n].hourly_gain
<1>1. /\ g \in [Times -> Nat] /\ now \in Times /\ now' \in Times /\ History(g, now)
      /\ now \in Int /\ Never \notin Int
  <2>1. g \in [Times -> Nat] /\ now \in Times /\ now' \in Times /\ History(g, now)
    BY DEF TypeOK, Budgeted
  <2> QED
    BY <2>1, LifecycleConstants DEF Times
<1>2. Registered(n) => gain \in 0..MAX_HOURLY_GAIN /\ (ws # Never => ws \in Times)
  BY RegisteredRow, BudgetIsNat DEF Rows, Timestamps
<1>3. /\ Registered(n) /\ ws # Never => InWindow(g, now, ws, gain)
      /\ ~Registered(n) \/ ws = Never => \A t \in Times : g[t] = 0
  BY DEF Budgeted
<1>4. CASE Deregister(n)
  <2>1. /\ gained'[n] = [t \in Times |-> 0] /\ now' = now
        /\ ~Registered(n)'
    BY <1>4 DEF Deregister, TypeOK, Registered
  <2>2. gained'[n] \in [Times -> Nat] /\ \A t \in Times : gained'[n][t] = 0
    BY <2>1
  <2>3. History(gained'[n], now')
    BY <1>1, <2>2, NoGains
  <2> QED
    BY <2>1, <2>2, <2>3
<1>5. ASSUME NEW h \in Handlers, Heartbeat(h), n = request[h].node
      PROVE  /\ History(gained'[n], now')
             /\ IF Registered(n)' /\ row'[n].window_start # Never
                THEN InWindow(gained'[n], now', row'[n].window_start, row'[n].hourly_gain)
                ELSE \A t \in Times : gained'[n][t] = 0
  <2>1. PICK d \in 0..MAX_HOURLY_GAIN :
          /\ gained'[n] = Gains(g, now, d)
          /\ \/ d = 0 /\ row'[n].hourly_gain = gain /\ row'[n].window_start = ws
             \/ /\ ~WindowExpired(row[n])
                /\ row'[n].hourly_gain = gain + d /\ row'[n].window_start = ws
             \/ /\ WindowExpired(row[n])
                /\ row'[n].hourly_gain = d /\ row'[n].window_start = now
    BY <1>5, HeartbeatGains
  <2>2. now' = now /\ Registered(n) /\ Registered(n)'
    BY <1>5, HeartbeatGains, HeartbeatCounts
  <2>3. row'[n].hourly_gain \in 0..MAX_HOURLY_GAIN
    BY <2>2, RegisteredRow, BudgetIsNat DEF TypeOK, Registered, Rows
  <2> HIDE DEF g, ws, gain
  <2>4. CASE d = 0 /\ row'[n].hourly_gain = gain /\ row'[n].window_start = ws
    <3>1. gained'[n] = g
      BY <1>1, <2>1, <2>4, NoGains
    <3> QED
      BY <1>1, <1>3, <2>2, <2>4, <3>1
  <2>5. CASE ~WindowExpired(row[n]) /\ row'[n].hourly_gain = gain + d /\ row'[n].window_start = ws
    <3>1. ws # Never /\ now - ws < Hour /\ ws \in Times /\ gain \in 0..MAX_HOURLY_GAIN
      <4>1. ws # Never /\ ~(now - ws >= Hour)
        BY <2>5 DEF WindowExpired, ws
      <4>2. ws \in Times /\ gain \in 0..MAX_HOURLY_GAIN /\ ws \in Int /\ Hour \in Int
        BY <1>2, <2>2, <4>1, LifecycleConstants DEF Times
      <4> QED
        BY <1>1, <4>1, <4>2
    <3>2. InWindow(Gains(g, now, d), now, ws, gain + d)
      <4>1. d \in Nat /\ InWindow(g, now, ws, gain)
        BY <1>3, <2>2, <3>1
      <4> QED
        BY <1>1, <3>1, <4>1, GainInWindow
    <3>3. History(Gains(g, now, d), now)
      BY <1>1, <2>3, <2>5, <3>1, <3>2, GainKeepsBudget
    <3> QED
      BY <2>1, <2>2, <2>5, <3>1, <3>2, <3>3
  <2>6. CASE WindowExpired(row[n]) /\ row'[n].hourly_gain = d /\ row'[n].window_start = now
    <3>1. \/ \A t \in Times : g[t] = 0
          \/ \E w \in Times, x \in 0..MAX_HOURLY_GAIN : InWindow(g, now, w, x) /\ now - w >= Hour
      <4>1. ws = Never \/ now - ws >= Hour
        BY <2>6 DEF WindowExpired, ws
      <4> QED
        BY <1>2, <1>3, <2>2, <4>1
    <3>2. InWindow(Gains(g, now, d), now, now, d)
      BY <1>1, <3>1, GainOpensWindow
    <3>3. History(Gains(g, now, d), now)
      BY <1>1, <3>2, GainKeepsBudget
    <3>4. now # Never
      BY <1>1
    <3> QED
      BY <2>1, <2>2, <2>6, <3>2, <3>3, <3>4
  <2> QED
    BY <2>1, <2>4, <2>5, <2>6
<1>6. CASE ~Deregister(n) /\ \A h \in Handlers : ~(Heartbeat(h) /\ request[h].node = n)
  <2>1. gained'[n] = g
    <3>1. ASSUME NEW h \in Handlers, Heartbeat(h)
          PROVE  gained'[n] = g
      BY <1>6, <3>1, HeartbeatGains
    <3>2. ASSUME NEW m \in Nodes, Deregister(m)
          PROVE  gained'[n] = g
      BY <1>6, <3>2 DEF Deregister, TypeOK
    <3> QED
      BY <3>1, <3>2 DEF Next, vars, history, ClockTick, Register, Restrict, Anonymize,
         StartHeartbeat, Rotate, Answer, Fail, ExpireSelect, ExpireUpdate, ExpireUpdateFails,
         ArchiveDormant
  <2>2. IF Registered(n)
        THEN Registered(n)' /\ row'[n].hourly_gain = gain /\ row'[n].window_start = ws
        ELSE Registered(n)' => row'[n].window_start = Never
    BY <1>6, BooksKept DEF SameBooks, FreshRow
  <2>3. /\ History(g, now')
        /\ Registered(n) /\ ws # Never => InWindow(g, now', ws, gain)
    <3>1. CASE now' = now
      BY <1>1, <1>3, <3>1
    <3>2. CASE now' = now + 1
      BY <1>1, <1>2, <1>3, <3>2, TickKeepsBudget
    <3> QED
      BY <3>1, <3>2, TimePasses
  <2> QED
    BY <1>3, <2>1, <2>2, <2>3
<1> QED
  BY <1>4, <1>5, <1>6

\* What heartbeats add to a score within an hour is at most two budgets and
\* within a window one, whatever the heartbeats report and however they overlap.
THEOREM GainsWithinBudget == Spec => []HourlyBudget
<1>1. Init => Budgeted
  <2> SUFFICES ASSUME Init, NEW n \in Nodes
               PROVE  /\ History(gained[n], now)
                      /\ ~Registered(n) /\ \A t \in Times : gained[n][t] = 0
    BY DEF Budgeted
  <2>1. ~Registered(n) /\ gained[n] = [t \in Times |-> 0] /\ now = 0
    BY DEF Init, Registered
  <2>2. gained[n] \in [Times -> Nat] /\ now \in Times /\ \A t \in Times : gained[n][t] = 0
    BY <2>1, LifecycleConstants DEF Times
  <2> QED
    BY <2>1, <2>2, NoGains
<1>2. TypeOK /\ Budgeted /\ [Next]_vars => Budgeted'
  <2> SUFFICES ASSUME TypeOK, Budgeted, [Next]_vars PROVE Budgeted'
    OBVIOUS
  <2>1. TypeOK'
    BY TypeStep
  <2>2. ASSUME NEW n \in Nodes
        PROVE  /\ History(gained'[n], now')
               /\ IF Registered(n)' /\ row'[n].window_start # Never
                  THEN InWindow(gained'[n], now', row'[n].window_start, row'[n].hourly_gain)
                  ELSE \A t \in Times : gained'[n][t] = 0
    BY <2>1, BudgetStep
  <2> QED
    BY <2>2 DEF Budgeted
<1>3. TypeOK /\ Budgeted => HourlyBudget
  <2> SUFFICES ASSUME TypeOK, Budgeted, NEW n \in Nodes
               PROVE  /\ Registered(n) /\ row[n].window_start # Never =>
                           /\ GainBetween(n, row[n].window_start, now) = row[n].hourly_gain
                           /\ row[n].hourly_gain <= MAX_HOURLY_GAIN
                      /\ \A t, u \in Times :
                           t <= u /\ u - t < Hour => GainBetween(n, t, u) <= 2 * MAX_HOURLY_GAIN
    BY DEF HourlyBudget
  <2>1. \A t, u : GainBetween(n, t, u) = gained[n][u] - Before(gained[n], t)
    BY DEF GainBetween, Before
  <2>2. Registered(n) => row[n].hourly_gain <= MAX_HOURLY_GAIN
    BY RegisteredRow, BudgetIsNat DEF Rows
  <2> QED
    BY <2>1, <2>2 DEF Budgeted, History, InWindow
<1> QED
  BY <1>1, <1>2, <1>3, LifecycleTypeCorrect, PTL DEF Spec

=============================================================================
