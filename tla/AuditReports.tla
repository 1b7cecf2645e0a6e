--------------------------- MODULE AuditReports ---------------------------
(***************************************************************************)
(* Audit reports about nodes (src/main.rs audit_report, src/db.rs          *)
(* apply_audit_report): concurrent requests each check the reporter, count *)
(* the reporters of the last day in node_events, check the target and      *)
(* record themselves there, in four statements.                            *)
(*                                                                         *)
(* A reporter has passed verify_node_token and reports another node.  The  *)
(* row is inserted with sequence number 0, and the schema that the server  *)
(* requires of its database keeps the number unique.                       *)
(***************************************************************************)
EXTENDS Naturals, FiniteSets

CONSTANTS Requests,
          Reporters, Targets,
          Faults,  \* whether statements may fail for other reasons
          None

MAX_REPORTERS == 2

VARIABLES
  known,     \* targets that are registered
  trusted,   \* reporters that are old enough and well reputed
  log,       \* node_events: AUDIT_REPORT rows
  recent,    \* those of the last 24 hours
  request,   \* request[q]: what it does, or None
  accepted   \* history: reports accepted in the last 24 hours

vars == <<known, trusted, log, recent, request, accepted>>

Reports == [target : Targets, reporter : Reporters]
Answers == {"reporter_ineligible", "reporter_cap_reached", "target_not_found", "integrity_evidence_accepted"}
RequestStates == [pc : {"eligible", "count", "score", "insert"} \cup Answers, report : Reports]

Init ==
  /\ known = Targets /\ trusted \in SUBSET Reporters
  /\ log = {} /\ recent = {} /\ accepted = {}
  /\ request = [q \in Requests |-> None]

\* COUNT(DISTINCT reporter_node_id) of the last 24 hours.
ReportersOf(t) == Cardinality({e.reporter : e \in {x \in recent : x.target = t}})

Report(q, x) ==
  /\ request[q] = None
  /\ request' = [request EXCEPT ![q] = [pc |-> "eligible", report |-> x]]
  /\ UNCHANGED <<known, trusted, log, recent, accepted>>

Goes(q, pc) == request' = [request EXCEPT ![q].pc = pc]
At(q, pc) == request[q] # None /\ request[q].pc = pc

CheckReporter(q) ==
  /\ At(q, "eligible")
  /\ Goes(q, IF request[q].report.reporter \in trusted THEN "count" ELSE "reporter_ineligible")
  /\ UNCHANGED <<known, trusted, log, recent, accepted>>

Capped(n) == n >= MAX_REPORTERS
CountReporters(q) ==
  /\ At(q, "count")
  /\ Goes(q, IF Capped(ReportersOf(request[q].report.target)) THEN "reporter_cap_reached" ELSE "score")
  /\ UNCHANGED <<known, trusted, log, recent, accepted>>

\* A count that cannot be read is 0.
CountFails(q) ==
  /\ Faults /\ At(q, "count")
  /\ Goes(q, "score")
  /\ UNCHANGED <<known, trusted, log, recent, accepted>>

ReadScore(q) ==
  /\ At(q, "score")
  /\ Goes(q, IF request[q].report.target \in known THEN "insert" ELSE "target_not_found")
  /\ UNCHANGED <<known, trusted, log, recent, accepted>>

\* The INSERT, whose result is ignored: with the unique key only the first row ever goes in.
Recorded(x) == IF log # {} THEN {} ELSE {x}
Insert(q) ==
  LET row == Recorded(request[q].report) IN
  /\ At(q, "insert")
  /\ log' = log \cup row /\ recent' = recent \cup row
  /\ accepted' = accepted \cup {request[q].report}
  /\ Goes(q, "integrity_evidence_accepted")
  /\ UNCHANGED <<known, trusted>>
\* A reporter or a target that cannot be read is none.
ReadFails(q) ==
  /\ Faults
  /\ \/ At(q, "eligible") /\ Goes(q, "reporter_ineligible")
     \/ At(q, "score") /\ Goes(q, "target_not_found")
  /\ UNCHANGED <<known, trusted, log, recent, accepted>>
\* Any failure of the INSERT is ignored as well.
InsertFails(q) ==
  /\ Faults /\ At(q, "insert")
  /\ accepted' = accepted \cup {request[q].report}
  /\ Goes(q, "integrity_evidence_accepted")
  /\ UNCHANGED <<known, trusted, log, recent>>

Answer(q) ==
  /\ request[q] # None /\ request[q].pc \in Answers
  /\ request' = [request EXCEPT ![q] = None]
  /\ UNCHANGED <<known, trusted, log, recent, accepted>>

\* A reporter loses its standing; a target is deregistered; a day passes.
LoseStanding(r) ==
  /\ trusted' = trusted \ {r}
  /\ UNCHANGED <<known, log, recent, request, accepted>>
Deregister(t) ==
  /\ known' = known \ {t}
  /\ UNCHANGED <<trusted, log, recent, request, accepted>>
Day ==
  /\ \A q \in Requests : request[q] = None
  /\ recent' = {} /\ accepted' = {}
  /\ UNCHANGED <<known, trusted, log, request>>

Next ==
  \/ \E q \in Requests : \/ CheckReporter(q) \/ CountReporters(q) \/ CountFails(q) \/ ReadScore(q) \/ ReadFails(q)
                         \/ Insert(q) \/ InsertFails(q) \/ Answer(q) \/ \E x \in Reports : Report(q, x)
  \/ \E r \in Reporters : LoseStanding(r)
  \/ \E t \in Targets : Deregister(t)
  \/ Day

Spec == Init /\ [][Next]_vars

---------------------------------------------------------------------------
\* Types of the tables and of the requests.
TypeOK ==
  /\ known \subseteq Targets /\ trusted \subseteq Reporters
  /\ recent \subseteq log /\ log \subseteq Reports /\ accepted \subseteq Reports
  /\ \A q \in Requests : request[q] # None => request[q] \in RequestStates

\* No target has accepted reports of more than two reporters within a day
\* (audit_report: "capped at 2 distinct reporters per target per 24h").
ReportersCapped == \A t \in Targets : Cardinality({e.reporter : e \in {x \in accepted : x.target = t}}) <= MAX_REPORTERS
=============================================================================
