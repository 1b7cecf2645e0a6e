--------------------------- MODULE RuntimeHealth ---------------------------
(***************************************************************************)
(* Local runtime health and supervision (src/runtime_health.rs, runtime.rs,*)
(* systemd_notify.rs, background.rs, main.rs): two checkpoints that loops  *)
(* advance, the snapshot file they are written to, the healthcheck command *)
(* that reads it, and the notifier whose pulses keep systemd from killing  *)
(* the process.                                                            *)
(*                                                                         *)
(* Time passes in ticks.  A loop that is due runs before the next tick     *)
(* unless the runtime or the loop is stuck, as a query that never returns  *)
(* makes it; the stale checkpoints that inject_fault can set act like it.  *)
(* Ages stop growing where nothing depends on them any more.               *)
(***************************************************************************)
EXTENDS Integers

CONSTANTS RuntimePeriod,    \* run_runtime_progress_loop's interval
          RuntimeStale,     \* RUNTIME_STALE_AFTER
          SupervisorPeriod, \* run_expire_nodes_loop's interval
          SupervisorStale,  \* SUPERVISOR_STALE_AFTER
          Watchdog,         \* WatchdogSec of the unit
          Outages,          \* the subsystems that faults are injected into, of those below
          None

Cadence == Watchdog \div 2
\* What inject_fault can report unavailable: "directory" also stands for dns, the internet
\* and the tunnel, which count the same.
Remote == {"directory"}
Local == {"provider"}

VARIABLES
  lifecycle,  \* "down" without a process
  age,        \* ticks since last_runtime and last_supervisor
  due,        \* ticks until each loop's timer fires
  stuck,      \* environment: what hangs, of "runtime" and "supervisor"
  out,        \* subsystems that are unavailable
  ready_sent,
  writing,    \* the temporary file with a snapshot and its age, or None
  file,       \* the snapshot file, and its age
  unpulsed,   \* systemd: ticks since READY or the last pulse, or None while it does not watch
  quiet,      \* history: ticks since any process advanced the runtime
  lately      \* history: since the last pulse something was stuck or stale

vars == <<lifecycle, age, due, stuck, out, ready_sent, writing, file, unpulsed, quiet, lately>>

Timers == {"runtime", "supervisor", "notifier"}
Limit(k) == IF k = "runtime" THEN RuntimeStale ELSE SupervisorStale
Period(k) == CASE k = "runtime" -> RuntimePeriod [] k = "supervisor" -> SupervisorPeriod [] k = "notifier" -> Cadence
Cap(k) == Limit(k) + RuntimeStale + 1
Snapshots == [liveness : {"starting", "live", "not_live"}, readiness : {"ready", "degraded", "not_ready"}]
FileStates == [snapshot : Snapshots, age : 0..(RuntimeStale + 1)]

\* RuntimeHealth::new, and main up to the listener: the supervisor's first tick is skipped.
Fresh ==
  /\ lifecycle' = "starting"
  /\ age' = [k \in {"runtime", "supervisor"} |-> 0]
  /\ due' = [k \in Timers |-> IF k = "supervisor" THEN SupervisorPeriod ELSE 0]
  /\ out' = {"provider"}
  /\ ready_sent' = FALSE
  /\ writing' = None

Init ==
  /\ lifecycle = "down"
  /\ age = [k \in {"runtime", "supervisor"} |-> 0]
  /\ due = [k \in Timers |-> 0]
  /\ stuck = {} /\ out = {} /\ ready_sent = FALSE /\ writing = None /\ file = None
  /\ unpulsed = None /\ quiet = 0 /\ lately = FALSE

---------------------------------------------------------------------------
StaleAt(a) == \E k \in DOMAIN a : a[k] > Limit(k)

\* classify_input, for the given ages.
classify(a) ==
  CASE lifecycle = "starting" -> [liveness |-> "starting", readiness |-> "not_ready"]
    [] lifecycle # "starting" /\ StaleAt(a) -> [liveness |-> "not_live", readiness |-> "not_ready"]
    [] OTHER -> [liveness |-> "live",
                 readiness |-> IF lifecycle = "stopping" \/ out \cap Local # {} THEN "not_ready"
                               ELSE IF out \cap Remote # {} THEN "degraded" ELSE "ready"]

Alive == lifecycle # "down"
\* A loop can run: nothing of the process can while its runtime is stuck.
CanRun(k) == Alive /\ "runtime" \notin stuck /\ (k = "notifier" => lifecycle # "starting")
           /\ (k = "supervisor" => "supervisor" \notin stuck)
Due(k) == CanRun(k) /\ due[k] = 0

Older(f) == IF f = None THEN None ELSE [f EXCEPT !.age = IF @ <= RuntimeStale THEN @ + 1 ELSE @]
\* Time passes when every loop that can run has, and before systemd's patience ends.
Tick ==
  /\ \A k \in Timers : ~Due(k)
  /\ lifecycle # "starting" \/ "runtime" \in stuck
  /\ writing = None \/ "runtime" \in stuck
  /\ unpulsed # None => unpulsed < Watchdog
  /\ age' = [k \in DOMAIN age |-> IF age[k] < Cap(k) THEN age[k] + 1 ELSE age[k]]
  /\ due' = [k \in Timers |-> IF due[k] > 0 THEN due[k] - 1 ELSE 0]
  /\ file' = Older(file) /\ writing' = Older(writing)
  /\ unpulsed' = IF unpulsed = None THEN None ELSE unpulsed + 1
  /\ quiet' = IF quiet <= RuntimeStale THEN quiet + 1 ELSE quiet
  /\ lately' = (lately \/ stuck # {} \/ \E k \in DOMAIN age : age[k] >= Limit(k))
  /\ UNCHANGED <<lifecycle, stuck, out, ready_sent>>

\* The service manager starts the process.
Start ==
  /\ ~Alive
  /\ Fresh
  /\ UNCHANGED <<stuck, file, unpulsed, quiet, lately>>

\* mark_running
MarkRunning ==
  /\ lifecycle = "starting" /\ "runtime" \notin stuck
  /\ lifecycle' = "running"
  /\ out' = out \ {"provider"}
  /\ UNCHANGED <<age, due, stuck, ready_sent, writing, file, unpulsed, quiet, lately>>

\* run_runtime_progress_loop: advance_runtime, snapshot and the temporary file, with no
\* await between them.
ProgressLoop ==
  /\ Due("runtime") /\ writing = None
  /\ age' = [age EXCEPT !["runtime"] = 0]
  /\ due' = [due EXCEPT !["runtime"] = RuntimePeriod]
  /\ writing' = [snapshot |-> classify([age EXCEPT !["runtime"] = 0]), age |-> 0]
  /\ quiet' = 0
  /\ UNCHANGED <<lifecycle, stuck, out, ready_sent, file, unpulsed, lately>>
\* write_snapshot_atomic ends with the rename, or fails and leaves the old file.
Rename ==
  /\ Alive /\ writing # None /\ "runtime" \notin stuck
  /\ file' = writing
  /\ writing' = None
  /\ UNCHANGED <<lifecycle, age, due, stuck, out, ready_sent, unpulsed, quiet, lately>>
WriteFails ==
  /\ Alive /\ writing # None /\ "runtime" \notin stuck
  /\ writing' = None
  /\ UNCHANGED <<lifecycle, age, due, stuck, out, ready_sent, file, unpulsed, quiet, lately>>

\* run_expire_nodes_loop: expire_stale has returned.
SupervisorLoop ==
  /\ Due("supervisor")
  /\ age' = [age EXCEPT !["supervisor"] = 0]
  /\ due' = [due EXCEPT !["supervisor"] = SupervisorPeriod]
  /\ UNCHANGED <<lifecycle, stuck, out, ready_sent, writing, file, unpulsed, quiet, lately>>

\* systemd_notify::decision
M_live_running(snapshot) == lifecycle = "running"
M_ready_running(snapshot) == lifecycle = "running" /\ snapshot.readiness = "ready"
live_running(snapshot) == lifecycle = "running" /\ snapshot.liveness = "live"
\* One round of the notifier: READY once, and a pulse each time.
Notify ==
  /\ Due("notifier")
  /\ due' = [due EXCEPT !["notifier"] = Cadence]
  /\ IF live_running(classify(age))
     THEN ready_sent' = TRUE /\ unpulsed' = 0 /\ lately' = FALSE
     ELSE UNCHANGED <<ready_sent, unpulsed, lately>>
  /\ UNCHANGED <<lifecycle, age, stuck, out, writing, file, quiet>>

\* SIGINT: mark_stopping and notify_stopping, after which systemd no longer watches.
Stop ==
  /\ lifecycle = "running" /\ "runtime" \notin stuck
  /\ lifecycle' = "stopping"
  /\ unpulsed' = None
  /\ UNCHANGED <<age, due, stuck, out, ready_sent, writing, file, quiet, lately>>

\* What the process kept in memory is gone; the file is not.
Gone ==
  /\ lifecycle' = "down"
  /\ age' = [k \in DOMAIN age |-> 0] /\ due' = [k \in Timers |-> 0]
  /\ stuck' = {} /\ out' = {} /\ ready_sent' = FALSE /\ writing' = None /\ unpulsed' = None /\ lately' = FALSE
  /\ UNCHANGED <<file, quiet>>

\* The process ends, by itself or by a crash.
Exit == Alive /\ Gone

\* systemd kills a service that has not sent a pulse for WatchdogSec.
Kill ==
  /\ unpulsed = Watchdog
  /\ Gone

\* The database stops answering, or every worker thread blocks; and recovers.
Stall(what) ==
  /\ Alive
  /\ stuck' = stuck \cup {what}
  /\ lately' = TRUE
  /\ UNCHANGED <<lifecycle, age, due, out, ready_sent, writing, file, unpulsed, quiet>>
Resume(what) ==
  /\ what \in stuck
  /\ stuck' = stuck \ {what}
  /\ UNCHANGED <<lifecycle, age, due, out, ready_sent, writing, file, unpulsed, quiet, lately>>

\* inject_fault: an outage, or Clear.
Outage(what) ==
  /\ lifecycle = "running" /\ "runtime" \notin stuck
  /\ out' = out \cup {what}
  /\ UNCHANGED <<lifecycle, age, due, stuck, ready_sent, writing, file, unpulsed, quiet, lately>>
Clear ==
  /\ lifecycle = "running" /\ out # {} /\ "runtime" \notin stuck
  /\ out' = {}
  /\ age' = [k \in DOMAIN age |-> 0]
  /\ UNCHANGED <<lifecycle, due, stuck, ready_sent, writing, file, unpulsed, quiet, lately>>

Progress == ProgressLoop \/ Rename \/ WriteFails \/ SupervisorLoop \/ Notify \/ MarkRunning
Next ==
  \/ Tick \/ Start \/ Progress \/ Stop \/ Exit \/ Kill \/ Clear
  \/ \E w \in {"runtime", "supervisor"} : Stall(w) \/ Resume(w)
  \/ \E o \in Outages : Outage(o)

Spec == Init /\ [][Next]_vars

---------------------------------------------------------------------------
\* run_healthcheck, with --ready or without: the exit code.
Healthcheck(ready) ==
  IF file = None THEN 2
  ELSE IF file.age > RuntimeStale THEN 1
  ELSE IF ready THEN IF file.snapshot.readiness = "ready" THEN 0 ELSE 1
  ELSE CASE file.snapshot.liveness = "live" -> 0 [] file.snapshot.liveness = "not_live" -> 1 [] OTHER -> 2

TypeOK ==
  /\ lifecycle \in {"down", "starting", "running", "stopping"}
  /\ age \in [{"runtime", "supervisor"} -> Nat] /\ \A k \in DOMAIN age : age[k] <= Cap(k)
  /\ due \in [Timers -> Nat] /\ \A k \in Timers : due[k] <= Period(k)
  /\ stuck \subseteq {"runtime", "supervisor"} /\ out \subseteq Remote \cup Local
  /\ ready_sent \in BOOLEAN /\ lately \in BOOLEAN
  /\ writing \in FileStates \cup {None} /\ file \in FileStates \cup {None}
  /\ unpulsed \in (0..Watchdog) \cup {None} /\ quiet \in 0..(RuntimeStale + 1)

\* A healthcheck that exits with 0 is honest: some process made progress within the stale
\* time, and its supervisor within both stale times, also when the file was left behind
\* by a process that is gone, could not be replaced, or was half written.
CheckHonest ==
  Healthcheck(FALSE) = 0 \/ Healthcheck(TRUE) = 0 =>
    /\ quiet <= RuntimeStale
    /\ Alive => age["supervisor"] <= SupervisorStale + RuntimeStale

\* The watchdog kills a process only if its runtime or its supervisor was stuck or stale
\* since the last pulse, never for an outage of something remote or of the provider
\* (systemd_notify::decision, classify_input).
HealthyNeverKilled == unpulsed = Watchdog => lately

\* Neither the health check nor the watchdog errs about the process (run_healthcheck,
\* systemd_notify::decision).
Safety == TypeOK /\ CheckHonest /\ HealthyNeverKilled

\* A process that reported ready and whose supervisor or runtime hangs for good is
\* killed: a withheld pulse is always noticed (the notifier is no health source), unless
\* the hook of test builds clears the ages over and over.
StuckIsKilled ==
  \/ \A w \in {"runtime", "supervisor"} :
       (lifecycle = "running" /\ ready_sent /\ w \in stuck) ~> (lifecycle # "running" \/ w \notin stuck)
  \/ []<><<Clear>>_vars
=============================================================================
