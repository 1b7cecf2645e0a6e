---------------------------- MODULE MeshHealth ----------------------------
(***************************************************************************)
(* Health of the mesh (src/health.rs, replica.rs, db.rs, observability.rs):*)
(* a directory scores the nodes it lists, and replicas store the HEALTH    *)
(* events of several evaluators and resolve each node by majority, so that *)
(* any replica should report the same aggregate.                           *)
(*                                                                         *)
(* Module Federation has the tailing of the log; here a replica applies    *)
(* the HEALTH events in order, passes over those whose write fails, and a  *)
(* bootstrap moves its cursor to the seq of a snapshot, which holds no     *)
(* evaluations.  A score of an event is in units of 10^-4, a node's own in *)
(* percent.                                                                *)
(***************************************************************************)
EXTENDS Integers, Sequences, FiniteSets

CONSTANTS Nodes, Evaluators, Replicas,
          Reports,  \* the events that evaluators add, of the type below
          Signals,  \* what a directory may know of a node, of the type below
          Start,    \* the HEALTH events there may be at first
          MaxLog, MaxFailed,  \* bounds on the HEALTH events and on the writes that fail
          None      \* no measurement, no node

VARIABLES
  signals,  \* of the nodes that active_nodes returns, else None
  log,      \* HEALTH events of the seed
  cursor,   \* cursor[r]: since_seq, the events of the log that the replica is past
  table,    \* table[r]: node_health_observations
  applied,  \* history: events of which the replica has run the upsert
  failed    \* upserts that have failed

vars == <<signals, log, cursor, table, applied, failed>>

SignalTypes == [public_reachable : BOOLEAN, relay_capable : BOOLEAN, latency_ms : Nat \cup {None}]
FullScore == 10000
Events == [node : Nodes, evaluator : Evaluators, score : 0..FullScore, at : Nat]

\* The replicas have bootstrapped while the log was empty, or could not be read.
Init ==
  /\ signals = [n \in Nodes |-> None]
  /\ log \in Start
  /\ cursor = [r \in Replicas |-> 0]
  /\ table = [r \in Replicas |-> {}]
  /\ applied = [r \in Replicas |-> {}]
  /\ failed = 0

\* A node is listed, probed or measured, or is no longer listed.
Measure(n, s) ==
  /\ signals' = [signals EXCEPT ![n] = s]
  /\ UNCHANGED <<log, cursor, table, applied, failed>>

\* An evaluator adds a HEALTH event, whatever its clock says.
Emit(e) ==
  /\ Len(log) < MaxLog
  /\ log' = Append(log, e)
  /\ UNCHANGED <<signals, cursor, table, applied, failed>>

\* upsert_health_observation: an older evaluation never replaces a newer one.
Fresher(e, row) == e.at > row.at
M_Upserted(rows, e) == {x \in rows : x.node # e.node \/ x.evaluator # e.evaluator} \cup {e}
Upserted(rows, e) ==
  LET old == {x \in rows : x.node = e.node /\ x.evaluator = e.evaluator}
  IN IF \A x \in old : Fresher(e, x) THEN (rows \ old) \cup {e} ELSE rows
ApplyHealth(r) ==
  /\ cursor[r] < Len(log)
  /\ cursor' = [cursor EXCEPT ![r] = @ + 1]
  /\ table' = [table EXCEPT ![r] = Upserted(@, log[cursor'[r]])]
  /\ applied' = [applied EXCEPT ![r] = @ \cup {log[cursor'[r]]}]
  /\ UNCHANGED <<signals, log, failed>>

\* An upsert that fails is answered like one of an older evaluation: the event is skipped
\* and the replica goes past it.
SkipFailed(r) ==
  /\ cursor[r] < Len(log) /\ failed < MaxFailed
  /\ cursor' = [cursor EXCEPT ![r] = @ + 1]
  /\ failed' = failed + 1
  /\ UNCHANGED <<signals, log, table, applied>>

\* bootstrap_replica, after a restart or an expired cursor: a snapshot has the seed's last
\* seq, or 0 when the seed could not read its events.  The table is kept.
SnapshotSeqs == {Len(log), 0}
Bootstrap(r) ==
  /\ \E seq \in SnapshotSeqs : cursor' = [cursor EXCEPT ![r] = seq]
  /\ UNCHANGED <<signals, log, table, applied, failed>>

LocalNext == \E n \in Nodes, s \in Signals \cup {None} : Measure(n, s)
FederatedNext == \/ \E e \in Reports : Emit(e)
                 \/ \E r \in Replicas : ApplyHealth(r) \/ SkipFailed(r) \/ Bootstrap(r)
Next == LocalNext \/ FederatedNext
Spec == Init /\ [][Next]_vars

---------------------------------------------------------------------------
Labels == <<"critical", "impaired", "degraded", "healthy">>   \* worst first
\* label, as an index of Labels.
label(score) == IF score >= 85 THEN 4 ELSE IF score >= 65 THEN 3 ELSE IF score >= 40 THEN 2 ELSE 1
label01(score) == label((score + 50) \div 100)
round3(score) == ((score + 5) \div 10) * 10

\* percentile: nearest rank, of the values of a function.
AtMost(f, v) == Cardinality({x \in DOMAIN f : f[x] <= v})
Below(f, v) == Cardinality({x \in DOMAIN f : f[x] < v})
percentile(f, p) ==
  LET rank == (p * Cardinality(DOMAIN f) + 99) \div 100
      index == IF rank < 1 THEN 1 ELSE rank
  IN CHOOSE v \in {f[x] : x \in DOMAIN f} : Below(f, v) < index /\ index <= AtMost(f, v)

\* latency_score, in 450ths, and reachability_from_flags, in halves.
latency_score(ms) == IF ms = None \/ ms = 0 THEN 225 ELSE IF ms <= 50 THEN 450 ELSE IF ms >= 500 THEN 0 ELSE 500 - ms
reachability_from_flags(s) == IF s.public_reachable THEN 2 ELSE IF s.relay_capable THEN 1 ELSE 0
\* score_node: 70 % reachability, 30 % latency.
score_node(s) == (1050 * reachability_from_flags(s) + 2 * latency_score(s.latency_ms) + 15) \div 30

\* mesh_health: the median, and how many nodes have each label.
MIN_MESH_SAMPLE == 3
Distribution(of) == [l \in 1..4 |-> Cardinality({x \in DOMAIN of : of[x] = l})]
mesh_health ==
  LET listed == {n \in Nodes : signals[n] # None}
      score == [n \in listed |-> score_node(signals[n])]
  IN IF listed = {} THEN [label |-> "unavailable", sample |-> 0]
     ELSE [score |-> percentile(score, 50), p10 |-> percentile(score, 10), sample |-> Cardinality(listed),
           label |-> IF Cardinality(listed) < MIN_MESH_SAMPLE THEN "insufficient_sample" ELSE Labels[label(percentile(score, 50))],
           distribution |-> Distribution([n \in listed |-> label(score[n])])]

---------------------------------------------------------------------------
HEALTH_QUORUM == 3
Median(rows) == percentile([x \in rows |-> x.score], 50)
Resolved(score, how) == [score |-> round3(score), label |-> label01(round3(score)), resolution |-> how]
Freshest(rows) == {x \in rows : \A y \in rows : y.at <= x.at}
Bucket(rows, l) == {x \in rows : label01(x.score) = l}
needed(rows) == Cardinality(rows) \div 2 + 1
Majorities(rows) == {l \in 1..4 : Cardinality(Bucket(rows, l)) >= needed(rows)}
\* resolve_node: the results there may be, since neither the order of the rows nor that of
\* the buckets is fixed.  There is one row for each evaluator.
resolve_node(rows) ==
  IF Cardinality(rows) < HEALTH_QUORUM THEN {Resolved(x.score, "unconfirmed") : x \in Freshest(rows)}
  ELSE IF Majorities(rows) # {} THEN {Resolved(Median(Bucket(rows, l)), "majority") : l \in Majorities(rows)}
  ELSE {Resolved(x.score, "most_recent") : x \in Freshest(rows)}

RowsOf(rows, n) == {x \in rows : x.node = n}
\* federated_mesh_health, of one way to resolve the nodes.
Aggregate(resolved) ==
  LET score == [n \in DOMAIN resolved |-> resolved[n].score]
  IN [score |-> percentile(score, 50), p10 |-> percentile(score, 10), sample |-> Cardinality(DOMAIN score),
      label |-> IF Cardinality(DOMAIN score) < MIN_MESH_SAMPLE THEN "insufficient_sample"
                ELSE Labels[label01(percentile(score, 50))],
      distribution |-> Distribution([n \in DOMAIN score |-> resolved[n].label]),
      contested |-> Cardinality({n \in DOMAIN score : resolved[n].resolution = "most_recent"}),
      unconfirmed |-> Cardinality({n \in DOMAIN score : resolved[n].resolution = "unconfirmed"})]
Resolutions(rows) ==
  LET seen == {x.node : x \in rows}
  IN {f \in [seen -> UNION {resolve_node(RowsOf(rows, n)) : n \in seen}] : \A n \in seen : f[n] \in resolve_node(RowsOf(rows, n))}
\* An empty table is reported as null.
federated_mesh_health(rows) == IF rows = {} THEN {None} ELSE {Aggregate(f) : f \in Resolutions(rows)}

---------------------------------------------------------------------------
TypeOK ==
  /\ signals \in [Nodes -> SignalTypes \cup {None}]
  /\ log \in Seq(Events) /\ failed \in 0..MaxFailed
  /\ \A r \in Replicas : /\ cursor[r] \in 0..Len(log)
                         /\ table[r] \subseteq Events /\ applied[r] \subseteq Events
                         /\ \A x, y \in table[r] : x.node = y.node /\ x.evaluator = y.evaluator => x = y

\* In whatever order, and however often, evaluations reach a replica, it keeps of every
\* evaluator and node the newest one it has upserted, and none that it has not.  Those
\* whose write failed and those before its snapshot it never has
\* (upsert_health_observation, bootstrap_replica).
KeepsNewest ==
  /\ \A r \in Replicas : table[r] \subseteq applied[r]
  /\ \A r \in Replicas : \A e \in applied[r] :
       \E x \in table[r] : x.node = e.node /\ x.evaluator = e.evaluator /\ x.at >= e.at

\* Replicas that have upserted the same evaluations report the same aggregate, and each of
\* them always the same, wherever their cursors are and in whatever order they upserted,
\* provided no two of the evaluations of a node have the same time.  That they are at the
\* end of the same log is not enough (federated_mesh_health: "identical across replicas").
Tied(told) == \E x, y \in told : x # y /\ x.node = y.node /\ x.at = y.at
SameAggregate ==
  \A r, s \in Replicas : applied[r] = applied[s] /\ ~Tied(applied[r]) =>
    federated_mesh_health(table[r]) = federated_mesh_health(table[s]) /\ Cardinality(federated_mesh_health(table[r])) = 1

\* The reported label is honest: at least half of the nodes are no better and at least
\* half are no worse, so that neither good nor bad nodes mask the others (mesh_health,
\* federated_mesh_health).
NoBetter(d, l) == d[1] + (IF l >= 2 THEN d[2] ELSE 0) + (IF l >= 3 THEN d[3] ELSE 0) + (IF l = 4 THEN d[4] ELSE 0)
IsHonest(m) ==
  \A l \in 1..4 : m.label = Labels[l] =>
    2 * NoBetter(m.distribution, l) >= m.sample /\ 2 * (m.sample - NoBetter(m.distribution, l) + m.distribution[l]) >= m.sample
LabelHonest ==
  /\ IsHonest(mesh_health)
  /\ \A r \in Replicas : \A m \in federated_mesh_health(table[r]) \ {None} : IsHonest(m)

\* An evaluator outside the majority cannot move the score that a node has by majority:
\* had it reported anything else that it was ever told, outside the majority as well, the
\* node would be resolved the same (resolve_node).
OutlierIsIgnored ==
  \A r \in Replicas, n \in Nodes :
    LET rows == RowsOf(table[r], n)
    IN Cardinality(rows) >= HEALTH_QUORUM =>
         \A l \in Majorities(rows) : \A x \in rows \ Bucket(rows, l), y \in applied[r] :
           label01(y.score) # l =>
             resolve_node((rows \ {x}) \cup {[x EXCEPT !.score = y.score, !.at = y.at]}) = resolve_node(rows)

\* However evaluations reach replicas, they keep the newest they could write, and from the
\* same ones come to the same honest aggregate, which no minority moves
\* (upsert_health_observation, resolve_node, mesh_health, federated_mesh_health).
Safety == TypeOK /\ KeepsNewest /\ SameAggregate /\ LabelHonest /\ OutlierIsIgnored
=============================================================================
