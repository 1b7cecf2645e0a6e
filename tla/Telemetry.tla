----------------------------- MODULE Telemetry -----------------------------
(***************************************************************************)
(* Telemetry tables and their retention (src/maintenance.rs, background.rs,*)
(* db.rs, main.rs, directory_evidence.rs): probe results arrive row by     *)
(* row, dispatches are counted in one row a day, and two pruners, the      *)
(* daily loop and the command line, delete expired rows in bounded batches *)
(* while the attestation reads the latest conformance run in two queries.  *)
(*                                                                         *)
(* Time is in days.  Of the four tables that targets lists two are kept,   *)
(* in the order in which a pass comes to them; the other two are pruned by *)
(* the same code.  Pruners share nothing but the tables.                   *)
(***************************************************************************)
EXTENDS Integers, Sequences, FiniteSets

CONSTANTS Runs, Tests,  \* conformance runs, and the tests of each
          Retention,    \* RetentionPolicy: days for each table
          Batches,      \* the uploads there are, sets of results
          BatchSize,
          MaxBatches,
          MaxNow,       \* bound on the days
          MaxRows,      \* bound on the rows inserted
          None          \* no request

Tables == <<"probes", "usage">>   \* targets
Pruners == {"loop", "command"}    \* run_prune_telemetry_loop, and the command line

VARIABLES
  now,
  rows,     \* both tables
  next_id,
  batch,    \* results of an upload that are not inserted yet
  pass,     \* pass[p]: what the pruner does, or None
  attest,   \* compliance_attestation: the request, or None
  surplus   \* history: rows deleted by all pruners, less those that finished passes reported

vars == <<now, rows, next_id, batch, pass, attest, surplus>>

Results == [run : Runs, test : Tests, passed : BOOLEAN]
Rows == [table : {"probes"}, id : 1..MaxRows, at : 0..MaxNow, body : Results]
        \cup [table : {"usage"}, id : 1..MaxRows, at : 0..MaxNow, body : 1..2]
Passes == [apply : BOOLEAN, pc : {"select", "delete", "after"}, target : 1..Len(Tables), cutoff : Int,
           batches : Nat, ids : SUBSET (1..MaxRows), deleted : 0..MaxRows, total : 0..MaxRows]
Attests == [pc : {"rows", "done"}, run : Runs, begun : SUBSET (1..MaxRows), passed : SUBSET Tests, failed : SUBSET Tests]

Init ==
  /\ now = 0 /\ rows = {} /\ next_id = 1 /\ batch = {}
  /\ pass = [p \in Pruners |-> None]
  /\ attest = None
  /\ surplus = 0

\* A day passes.
Tick ==
  /\ now < MaxNow
  /\ now' = now + 1
  /\ UNCHANGED <<rows, next_id, batch, pass, attest, surplus>>

---------------------------------------------------------------------------
\* telemetry_probe: a batch is accepted, then record_probe_batch inserts it row by row;
\* a row that fails is skipped.
Upload(b) ==
  /\ batch = {} /\ next_id <= MaxRows
  /\ batch' = b
  /\ UNCHANGED <<now, rows, next_id, pass, attest, surplus>>
StoreProbe(x) ==
  /\ x \in batch /\ next_id <= MaxRows
  /\ rows' = rows \cup {[table |-> "probes", id |-> next_id, at |-> now, body |-> x]}
  /\ next_id' = next_id + 1
  /\ batch' = batch \ {x}
  /\ UNCHANGED <<now, pass, attest, surplus>>
SkipProbe(x) ==
  /\ x \in batch
  /\ batch' = batch \ {x}
  /\ UNCHANGED <<now, rows, next_id, pass, attest, surplus>>

\* record_dispatch_usage: the row of the day, inserted or counted up.
CountedUp(today) == (rows \ today) \cup {[r EXCEPT !.body = @ + 1] : r \in today}
RecordUsage ==
  LET today == {r \in rows : r.table = "usage" /\ r.at = now}
  IN /\ IF today = {}
        THEN /\ next_id <= MaxRows
             /\ rows' = rows \cup {[table |-> "usage", id |-> next_id, at |-> now, body |-> 1]}
             /\ next_id' = next_id + 1
        ELSE /\ \A r \in today : r.body < 2   \* bound
             /\ rows' = CountedUp(today)
             /\ UNCHANGED next_id
     /\ UNCHANGED <<now, batch, pass, attest, surplus>>

---------------------------------------------------------------------------
\* The WHERE clause of eligible_count and delete_bounded.
Expired(r, t, cutoff) == r.table = Tables[t] /\ r.at < cutoff
Eligible(t, cutoff) == {r.id : r \in {x \in rows : Expired(x, t, cutoff)}}

\* process_target for the next target.  What eligible_before counts is only reported.
AtTarget(t, apply, cutoff, total) ==
  [apply |-> apply, pc |-> IF apply THEN "select" ELSE "after", target |-> t, cutoff |-> cutoff, batches |-> 0, ids |-> {}, deleted |-> 0, total |-> total]

\* prune_telemetry begins: the time of all cutoffs is taken once.  Without apply it only
\* counts; the loop always applies.
Begin(p, apply) ==
  /\ pass[p] = None /\ (p = "loop" => apply)
  /\ pass' = [pass EXCEPT ![p] = AtTarget(1, apply, now, 0)]
  /\ UNCHANGED <<now, rows, next_id, batch, attest, surplus>>

\* delete_bounded: one SELECT of the lowest ids, then one DELETE of those still there.
CutoffOf(s) == s.cutoff - Retention[Tables[s.target]]
LowestIds(ids) == {i \in ids : Cardinality({j \in ids : j < i}) < BatchSize}
MoreBatches(s) == s.batches < MaxBatches
SelectBatch(p) ==
  LET s == pass[p]
      ids == LowestIds(Eligible(s.target, CutoffOf(s)))
  IN /\ s # None /\ s.pc = "select"
     /\ pass' = [pass EXCEPT ![p] = IF MoreBatches(s) /\ ids # {} THEN [s EXCEPT !.pc = "delete", !.ids = ids]
                                                                 ELSE [s EXCEPT !.pc = "after"]]
     /\ UNCHANGED <<now, rows, next_id, batch, attest, surplus>>

Affected(s) == {r \in rows : r.table = Tables[s.target] /\ r.id \in s.ids}
M_RowsAffected(s) == Cardinality(s.ids)
RowsAffected(s) == Cardinality(Affected(s))
DeleteBatch(p) ==
  LET s == pass[p]
      gone == Affected(s)
  IN /\ s # None /\ s.pc = "delete"
     /\ rows' = rows \ gone
     /\ pass' = [pass EXCEPT ![p] = [s EXCEPT !.pc = IF Cardinality(s.ids) < BatchSize THEN "after" ELSE "select",
                                              !.batches = @ + 1, !.ids = {}, !.deleted = @ + RowsAffected(s)]]
     /\ surplus' = surplus + Cardinality(gone)
     /\ UNCHANGED <<now, next_id, batch, attest>>

\* eligible_after, and the next table or the report.
M_MoreTargets(s) == s.target < Len(Tables) /\ s.deleted > 0
MoreTargets(s) == s.target < Len(Tables)
CountAfter(p) ==
  LET s == pass[p]
      total == s.total + s.deleted
  IN /\ s # None /\ s.pc = "after"
     /\ IF MoreTargets(s)
        THEN pass' = [pass EXCEPT ![p] = AtTarget(s.target + 1, s.apply, s.cutoff, total)] /\ UNCHANGED surplus
        ELSE pass' = [pass EXCEPT ![p] = None] /\ surplus' = surplus - total
     /\ UNCHANGED <<now, rows, next_id, batch, attest>>

\* Any query fails: the pass ends without a report, whatever it deleted, and the tables
\* after the one in hand wait for the next pass.
PassFails(p) ==
  /\ pass[p] # None
  /\ pass' = [pass EXCEPT ![p] = None]
  /\ UNCHANGED <<now, rows, next_id, batch, attest, surplus>>

---------------------------------------------------------------------------
\* latest_conformance_run: the run of the newest row, then the rows of that run.
Probes == {r \in rows : r.table = "probes"}
LatestRun(probes) == (CHOOSE r \in probes : \A x \in probes : x.id <= r.id).body.run
Failures(run) == {r \in Probes : r.body.run = run /\ ~r.body.passed}
AttestRun ==
  /\ attest = None /\ Probes # {}
  /\ attest' = [pc |-> "rows", run |-> LatestRun(Probes), begun |-> {r.id : r \in Failures(LatestRun(Probes))}, passed |-> {}, failed |-> {}]
  /\ UNCHANGED <<now, rows, next_id, batch, pass, surplus>>
OfRun(run, passed) == {r.body.test : r \in {x \in Probes : x.body.run = run /\ x.body.passed = passed}}
Verdicts(run) == [passed |-> OfRun(run, TRUE), failed |-> OfRun(run, FALSE)]
AttestRows ==
  LET v == Verdicts(attest.run) IN
  /\ attest # None /\ attest.pc = "rows"
  /\ attest' = [attest EXCEPT !.pc = "done", !.passed = v.passed, !.failed = v.failed]
  /\ UNCHANGED <<now, rows, next_id, batch, pass, surplus>>
AttestEnds ==
  /\ attest # None /\ attest.pc = "done"
  /\ attest' = None
  /\ UNCHANGED <<now, rows, next_id, batch, pass, surplus>>

Write == \/ Tick \/ RecordUsage
         \/ \E b \in Batches : Upload(b)
         \/ \E x \in batch : StoreProbe(x) \/ SkipProbe(x)
PassStep(p) == \/ \E apply \in BOOLEAN : Begin(p, apply)
               \/ SelectBatch(p) \/ DeleteBatch(p) \/ CountAfter(p) \/ PassFails(p)
Attest == AttestRun \/ AttestRows \/ AttestEnds
Next == Write \/ Attest \/ \E p \in Pruners : PassStep(p)

Spec == Init /\ [][Next]_vars

---------------------------------------------------------------------------
TypeOK ==
  /\ now \in 0..MaxNow /\ rows \subseteq Rows /\ next_id \in 1..(MaxRows + 1) /\ batch \subseteq Results
  /\ \A r, x \in rows : r.id = x.id => r = x
  /\ \A p \in Pruners : pass[p] # None => pass[p] \in Passes
  /\ attest # None => attest \in Attests
  /\ surplus \in 0..MaxRows

\* A pass deletes no more than its batches allow from a table, also when the other
\* pruner takes rows it has selected (delete_bounded; "at most 5,000 rows per daily
\* pass").
PassBounded == \A p \in Pruners : pass[p] # None => pass[p].deleted <= BatchSize * MaxBatches

\* What the pruners report as deleted is never more than what they deleted together: a
\* row that both selected is counted by one (delete_bounded's rows_affected).
InPass(p) == IF pass[p] = None THEN 0 ELSE pass[p].total + pass[p].deleted
CountedOnce == InPass("loop") + InPass("command") <= surplus

\* The attestation lists every failure of its run that was stored when the request began
\* and is still stored when it answers (latest_conformance_run).
AttestsFailures ==
  attest # None /\ attest.pc = "done" =>
    \A r \in rows : r.id \in attest.begun => r.body.test \in attest.failed

\* Overlapping passes stay within their bounds and count right, and the attestation hides
\* no failure that stays (prune_telemetry, latest_conformance_run).
Safety == TypeOK /\ PassBounded /\ CountedOnce /\ AttestsFailures

\* As long as passes of the daily loop come to an end, every expired row goes, in either
\* table, also when earlier passes failed (run_prune_telemetry_loop).
LoopFinishes == CountAfter("loop") /\ ~MoreTargets(pass["loop"])
ExpiredGo ==
  []<><<LoopFinishes>>_vars =>
    \A i \in 1..MaxRows : (\E r \in rows : r.id = i /\ r.at < now - Retention[r.table]) ~> (\A r \in rows : r.id # i)
=============================================================================
