--------------------------- MODULE MCSupervision ---------------------------
(***************************************************************************)
(* What starts with the directory and runs for as long as it does, on      *)
(* small instances: the check of the schema, the reachability probe, the   *)
(* health checkpoints with their watchdog, and the pruning of telemetry.   *)
(* They share no state: a behaviour exercises one of them, its focus.      *)
(***************************************************************************)
EXTENDS Reachability

CONSTANTS Loops,  \* the parts of the instance
          Lone,   \* the nodes to look at: the others only keep them from being probed
          RuntimePeriod, RuntimeStale, SupervisorPeriod, SupervisorStale, Watchdog, Outages,
          Runs, Tests, BatchSize, MaxBatches, MaxNow, MaxRows,
          Servers, Commands, StartLimitBurst, MaxFails

VARIABLES
  focus,
  lifecycle, age, due, stuck, out, ready_sent, writing, file, unpulsed, quiet, lately,
  now, rows, next_id, batch, pass, attest, surplus,
  db, extra, genesis, proc, recent, creator, fails

healthVars == <<lifecycle, age, due, stuck, out, ready_sent, writing, file, unpulsed, quiet, lately>>
telemetryVars == <<now, rows, next_id, batch, pass, attest, surplus>>
schemaVars == <<db, extra, genesis, proc, recent, creator, fails>>

Health == INSTANCE RuntimeHealth
ASSUME HealthAssumption ==
  /\ {RuntimePeriod, RuntimeStale, SupervisorPeriod, SupervisorStale} \subseteq Nat /\ Watchdog \in Nat \ {0}
  /\ Outages \subseteq Health!Remote \cup Health!Local
  /\ None \notin Nat

\* Every change of a lone node, or more nodes than a round reads, at one endpoint, that are
\* neither removed nor restricted nor silent.
Routing == focus \in {"probes", "crowd"}
FewChanges ==
  IF focus = "probes" THEN \A n \in Nodes \ Lone : nodes'[n] = None
  ELSE /\ up' \subseteq Probeable /\ restricted' = {} /\ moved' = {}
       /\ \A n \in Nodes : nodes'[n] # None => nodes'[n].endpoint \in Probeable /\ nodes'[n].seen # "stale"

\* A test that passes and then fails, or the other way round, in one upload.
Batches == {{[run |-> r, test |-> t, passed |-> TRUE], [run |-> r, test |-> t, passed |-> FALSE]} : r \in Runs, t \in Tests}
Retention == [probes |-> 1, usage |-> 1]
Prune == INSTANCE Telemetry
ASSUME TelemetryAssumption == {BatchSize, MaxBatches, MaxNow, MaxRows} \subseteq Nat
Schema == INSTANCE SchemaContract
\* Starts of servers that are far apart, beside commands, or starts of servers alone, in
\* quick succession too; these go on once all serve.
Starting == focus \in {"schema", "starts"}
FewStarts ==
  IF focus = "schema" THEN \A p \in Servers : recent'[p] <= 1
  ELSE \A p \in Commands : proc'[p] = proc[p]
AllServe == focus = "starts" /\ \A p \in Servers : proc[p].pc = "serving"

\* None is neither a table's part of the contract nor the creator of one.
ASSUME NoneIsNoTable == \A P \in SUBSET Schema!Parts : P # None
ASSUME NoneIsNoCreator == None \notin Servers \cup Commands \cup {"operator", "dead"}
ASSUME SchemaAssumption == MaxFails \in Nat /\ StartLimitBurst \in Nat /\ Servers \cap Commands = {}

MCInit ==
  /\ focus \in Loops
  /\ Init
  /\ focus # "probes" => up = {}
  /\ Health!Init
  /\ Prune!Init
  /\ Schema!Init
  /\ ~Starting => Schema!Empty
MCNext ==
  \/ Routing /\ Next /\ FewChanges /\ UNCHANGED <<focus, healthVars, telemetryVars, schemaVars>>
  \/ focus = "health" /\ Health!Next /\ UNCHANGED <<focus, vars, telemetryVars, schemaVars>>
  \/ focus = "pruning" /\ (Prune!Write \/ \E p \in Prune!Pruners : Prune!PassStep(p)) /\ UNCHANGED <<focus, vars, healthVars, schemaVars>>
  \/ focus = "attestation" /\ (Prune!Write \/ Prune!Attest \/ Prune!PassStep("loop")) /\ UNCHANGED <<focus, vars, healthVars, schemaVars>>
  \/ Starting /\ Schema!Next /\ FewStarts /\ UNCHANGED <<focus, vars, healthVars, telemetryVars>>
  \/ AllServe /\ UNCHANGED <<focus, vars, healthVars, telemetryVars, schemaVars>>

\* The probe loop goes on; its reads, and its transactions for the
\* nodes to look at, succeed now and then.
ProbeFairness ==
  /\ WF_vars(Routing /\ (ProbeStep \/ Apply \/ ApplyFails))
  /\ SF_vars(Routing /\ ReadQueue)
  /\ \A n \in Lone : SF_vars(Routing /\ prober.pc = "apply" /\ prober.target.node = n /\ Apply)
\* Time passes, loops that are due run, and systemd acts when its patience ends.
HealthFairness ==
  /\ SF_healthVars(focus = "health" /\ Health!Tick)
  /\ SF_healthVars(focus = "health" /\ Health!Progress)
  /\ WF_healthVars(focus = "health" /\ Health!Kill)
\* systemd starts a server that has ended again, up to its limit, and a server goes on.
SchemaFairness == \A p \in Servers : WF_schemaVars(Starting /\ Schema!Steps(p))

MCSpec == /\ MCInit
          /\ [][MCNext]_<<focus, vars, healthVars, telemetryVars, schemaVars>>
          /\ ProbeFairness /\ HealthFairness /\ SchemaFairness

---------------------------------------------------------------------------
\* The state of a part that is not the focus does not change: its properties need no
\* evaluation there.

\* Reachability: routes are observed, logged and offered rightly (apply_probe_route_state).
RoutesSafe == Routing => Safety
\* A node that was marked dead is offered again, as long as rounds reach it
\* (run_probe_nodes_loop).
NodesRecover == Routing => \A n \in Lone : Recovers(n)
\* Runtime: an honest health check, and a watchdog that spares the healthy
\* (run_healthcheck, systemd_notify::decision).
HealthSafe == focus = "health" => Health!Safety
\* A process that hangs for good is killed (run_notifier).
StuckIsKilled == focus = "health" => Health!StuckIsKilled
\* Telemetry: bounded passes, deletions counted once, complete attestations
\* (prune_telemetry, latest_conformance_run).
TelemetrySafe == focus \in {"pruning", "attestation"} => Prune!Safety
\* Every expired row goes as long as passes come to an end (run_prune_telemetry_loop).
ExpiredGo == focus \in {"pruning", "attestation"} => Prune!ExpiredGo
\* Schema: only a whole schema of one creator is served (ensure_schema).
SchemaSafe == Starting => Schema!Safety
\* A schema that meets the contract is served, within systemd's limit of starts (ensure_schema).
WholeIsServed == focus = "starts" => Schema!WholeIsServed
=============================================================================
