# Verification of the IICP directory

`src/` is a directory service for the IICP mesh, written in Rust (axum, sqlx,
MySQL). Provider nodes register with a *seed* directory and send heartbeats;
clients discover nodes, operators own nodes and earn credits, and *replica*
directories mirror a seed. This project models the parts of it whose
correctness depends on the order in which things happen: transactions of
concurrent handlers, background loops that act on what they read a moment ago,
and a replica that follows another process over a network.

Run `tlc -config <cfg> <module>` for a run of `PROJECT.json` and
`tlapm <module>_proofs.tla` for a proof.

## 1. The system

| Component | State | Operations | Talks to |
|---|---|---|---|
| Signed event log (`db.rs` 29-84, 3226-3273, `federation.rs`) | `node_events`, `node_event_chain_heads` | `append_signed_event`, `append_signed_event_in_tx`, `events_since` | every handler that changes something replicas mirror |
| Seed write path (`node_lifecycle.rs`, `main.rs` 618-658, `registration_store.rs`) | `nodes`, `capabilities` | register, deregister, heartbeat | the event log, after its own transaction |
| Federation endpoints (`federation_handlers.rs`) | `replicas` | `events`, `snapshot`, `replicas_register`, `replicas_deregister` | replicas |
| Replica sync (`replica.rs`, gates in `router.rs`) | cursor, seed key, readiness, its own `nodes` | bootstrap, tail, verify, apply | the seed, over HTTP |
| Node lifecycle (`db.rs`, `background.rs`) | `status`, `available`, `last_seen`, challenge, reputation | heartbeat, expire, archive, probe, decay | event log |
| Credits (`db.rs`, `credits.rs`) | `credit_balance`, wallets, transactions | award, debit, idle expiry, free allocation | operators |
| Registration and ownership (`node_lifecycle.rs`, `registration*.rs`, `delegation.rs`) | per request: what its checks have read | check, take over, persist | operators, policy keys |
| Operator identity (`operator.rs`, `db.rs`) | `operators`, challenges, data-subject ledger | challenge, upsert, rename, accept, rotate, revoke, restrict, anonymize | registration, credits |
| Replica registry (`federation_handlers.rs`, `auth.rs`) | `replicas`, tokens | join, rotate the token, leave | event log |
| Restricted domains (`restricted_domain*.rs`) | memberships, epoch | issue, revoke, admit, bootstrap | discovery |
| Discovery (`discovery.rs`, `discovery_policy.rs`) | none of its own | filter, score and rank candidates, issue tickets | nodes table |
| Audit reports (`main.rs`, `db.rs`) | rows of `node_events` | report a node | event log table |
| Mesh health (`health.rs`, `observability.rs`) | `node_health_observations` | score, store, resolve, aggregate | HEALTH events |
| Reachability (`background.rs`, `db.rs`) | route state of a node | probe, demote, restore | event log |
| Telemetry (`maintenance.rs`, `directory_evidence.rs`) | probe results, usage counters | upload, count, prune, attest | |
| Runtime (`runtime*.rs`, `systemd_notify.rs`) | checkpoints, snapshot file | progress, health check, notify | systemd, load balancer |
| Schema (`schema.rs`) | the catalogue | bootstrap, verify | every start |
| In-memory repository (`repo.rs`) | every table, each under a mutex | the repository's calls | the handlers, without MySQL |
| Updater, CLI, provenance | release metadata | check for updates | operating system |

What is hard about it:

* **Interleaving.** Handlers run concurrently on one connection pool. The event
  log serialises its appends with one locked row; most other read-then-write
  pairs (snapshot records and seq, ownership check and upsert, stale check and
  update) are not in one transaction.
* **Atomicity.** A handler changes its table and then emits its event in another
  transaction whose result it ignores.
* **Failure.** Many repository reads answer a database error with an empty
  result (`unwrap_or_default`), which callers take for the truth.
* **Order and retry.** The replica checks signature and hash chain event by
  event, refreshes a rotated key, and starts over from a snapshot when its
  cursor has expired. Its cursor is lost on restart, its tables are not.
* **Ended identities.** Keys rotate and are revoked, nodes are restricted, tokens
  are retired, while requests that were admitted before are still under way.
* **Locks taken in turn.** The in-memory repository does with several mutexes
  what MySQL does in a transaction.
* **Partial work.** MySQL commits each statement of the baseline on its own, an
  upload is stored row by row, and a pass of the pruner ends after its batches.
* **Time.** Liveness is a comparison with `NOW()` in several queries that do
  not agree on nodes that were never seen.

`PROJECT.json` lists each hazard at its line with the property that covers it.

## 2. Modules

| Module | Models | Status |
|---|---|---|
| `SignedLog` | what the event log promises: one append at a time, linked and signed | abstract specification |
| `EventLog` | the transactions of `append_signed_event` | implements `SignedLog`, proved |
| `SeedDirectory` | table change, then emission, of the seed's handlers | base of `Federation` |
| `EventTail` | what tailing a log promises: every event once, in order | abstract specification |
| `Federation` | `run_replica_sync` against a seed | implements `EventTail`, proved |
| `CreditLedger` | the transactions and loops that move credit | proved about |
| `NodeLifecycle` | the row of a node from registration to archival | proved about |
| `OperatorIdentity` | the operators table and the signed requests on it | base of `Registration` |
| `Registration` | `POST /v1/register`, every repository call a step | proved about |
| `ReplicaRegistry` | the seed's registry of replicas, and a mirror of it | proved about |
| `RestrictedDomain` | memberships, assertions and the gate | proved about |
| `Discovery` | `discover` and `dispatch_ticket_issue`, each query a step | proved about |
| `AuditReports` | `apply_audit_report`, each statement a step | model-checked (`audit_cap`) |
| `MeshHealth` | scores, stored observations and the federated aggregate | proved about |
| `MemoryRepo` | calls of `InMemoryRepo` that take several mutexes | proved about |
| `Reachability` | the probe loop and what overlaps it | proved about |
| `RuntimeHealth` | checkpoints, snapshot file, health check, watchdog | proved about |
| `Telemetry` | uploads, usage counters, pruning, attestation | proved about |
| `SchemaContract` | bootstrap and verification of the schema | proved about |
| `EventLog_proofs`, `Federation_proofs`, `CreditLedger_proofs`, `NodeLifecycle_proofs`, `Registration_proofs`, `ReplicaRegistry_proofs` | the theorems on the module of that name | |
| `Services_proofs`, `Supervision_proofs` | the theorems on the components of `MCServices` and `MCSupervision` | |
| `MCEventLog`, `MCFederation`, `MCCreditLedger`, `MCNodeLifecycle`, `MCRegistration` | symmetry sets, requests and constants for the runs | |
| `MCServices`, `MCSupervision` | several components in one run, one per behaviour | |

### EventLog

`pc[c]` is where an invocation of `append_signed_event` is: `begin` (waiting for
the head row), `locked` (past `SELECT ... FOR UPDATE`), `done`. `LockHead` reads
the head under the lock; `Commit` makes insert and head update visible at once,
because both are in one transaction; `StatementFails` and `CommitFails` are the
error arms, with `Retry` for MySQL errors 1205 and 1213 while an attempt is left.
A failing COMMIT that is not transient may or may not have been applied.

### SeedDirectory and Federation

`nodes[n]` is the endpoint of a node's row (the part of a REGISTER payload that
tells two registrations apart), `pending[h]` the event a handler has yet to emit.
An append is one step here: `EventLog` shows that it behaves like one.
`EmitNeutral` stands for the events that leave the replica's nodes alone.

On the replica, `pc` is the place in `run_replica_sync`: `verifying` the seed's
key, `joining`, `snapshotting` (the seed's handler has two queries, so there is a
state `snapshot_read` between them), `waiting` for the tick, `draining` (about to
fetch), `applying` a page, `refreshing` the key. Rows of the log are immutable,
so a fetched page is kept as positions `pos..last`. `Verdict` is the order of
checks in `verify_and_apply`, `apply_event` the effect on the nodes table.
`base` and `served` are history variables that only properties read; so are `latest`,
the handler that has yet to report a node's last change, `astray`, the nodes whose last
report was lost or overtaken by an older one, and `missed`, those whose last event the
replica could not write.

A cursor that expired (IICP-E045) comes from PHP seeds only; it is switched on by
`CursorExpires`. `SeedDbFails` and `ReplicaDbFails` turn repository errors on.

### CreditLedger

Each transaction of `db.rs` that touches credit is one action, because it locks
the rows it reads; what a request or a loop read in an *earlier* transaction is
kept in its own state. `request[h]` is an award request (`credits_award`):
`RecordAward` is `record_credit_award_once`, then `LookupScope` reads whether the
consumer pays from one node or from an operator's wallet, and `DebitNode` or
`DebitWallet` is a second transaction that may never happen (`StopRequest`).
`sweep[n]` is the balance `expire_idle_node_credits` read for a node, which
`SweepNode` compares with what is there when its turn comes. `Heartbeat` is the
free allocation of a heartbeat with its two gates.

Amounts are in half ticks of the four stored decimals (`Tick` is 0.0001 and two
units), so that rounding on store (`Stored`) and the 0.0001 tolerance of the
debit are both visible. `credit_balance` and `credits` are the two copies of a
balance; a deregistration drops the first and leaves the second, which is why
`gone` remembers ids that left.

### NodeLifecycle

`row[n]` holds the columns that heartbeats, the two loops, registrations and
data-subject actions fight over. A heartbeat request is `StartHeartbeat` (token
check), `Heartbeat` (the transaction of `heartbeat_once`), `Rotate` (the
transaction of the liveness challenge) and `Answer`; `Fail` ends it anywhere,
which covers database errors, a row that is gone and a lost answer. The client
side is what the protocol documents: a node numbers its metrics batches and
repeats a batch until one is acknowledged, and answers the last challenge it
got. `expire_stale` is two actions, because its SELECT and its UPDATE are two
statements. Scores are in hundredths, so the arithmetic of `reputation.rs` is
exact.

### OperatorIdentity and Registration

`operators`, `nodes`, `policyKey`, `challenges` and `ledger` are tables. A signed
self-service request that is one transaction is one action; `desk[d]` keeps what a
request read before it: a data-subject request lists the operator's nodes first
and changes rows later, and a rename looks for an active row and writes by key.
`reg[h]` is a registration: policy key, existing row, decision on ownership,
identity, name, the transaction of `registration_store.rs`, then the operator
upsert in its two statements. With `ReadsFail` a read may fail, which the handler
takes for "nothing there" (`blind` remembers it of the read of the row, `since` how many
tokens there were then). Deregistration, heartbeats and operator requests come in
between. Names and signatures are tags.

### ReplicaRegistry

`joining[j]` and `leaving[l]` are the handlers of the two endpoints, one step for
each repository call; the row keeps the hash of one token. `replica_id_by_did` may
fail, and a join then mints a new id over the row of its DID. `mirror` is the registry of
another replica that applies the log.

### RestrictedDomain

`issuing[i]` is an administrator's `issue`, a process of its own: the membership
row is written in one transaction and the signed assertion in a second statement.
`inGate[r]` is a request that was admitted and will be answered with the decision
of that moment. Rotation, revocation, a raised epoch and expiry come in between.

### Discovery

`found` is what a request has read so far, each node with its place in the list:
rows by reputation up to the limit, then capabilities, then members. `eligible`,
`ranking_score` and `select_and_rank` are operators with the code's weights, in
ten-thousandths. The code sorts by score and node id, which no two nodes share, so
the place of a node in the result is one more than the nodes before it (`Place`,
`Sorted`). `Write` is a registration or a heartbeat between two reads. `Admitted` has the
refusals of both endpoints: a malformed intent is refused of a ticket only, and only
discovery asks for membership.

### AuditReports, MeshHealth, MemoryRepo

`AuditReports` has the unique `seq` of `node_events` that the schema contract
requires, so that only the first row with seq 0 ever goes in.
`MeshHealth` keeps HEALTH observations by node and evaluator and resolves
them as `resolve_node` does. A replica applies a log in order; an event whose write fails
is `Skipped` and the cursor passes it (`SkipFailed`), and a bootstrap moves the cursor to
the snapshot's seq, or to 0 when the seed's read fails, and leaves the table
(`Bootstrap`). `applied` is what a replica has upserted.
`MemoryRepo` has one action for what a call does while it holds a mutex; `held`
says who keeps a lock between two steps, so that waiting in a circle is visible. A
registration is the handler's `CheckIdentity`, the write of the record and the operator
upsert, three steps with other calls between them; `overtaken` are keys that ended while
a call that had found them in force was under way, `late` the nodes it bound afterwards.
`replica_is_active` releases one lock before it takes the other.

### Reachability, RuntimeHealth, Telemetry

`prober` is the loop of `run_probe_nodes_loop` with the endpoint it read, its first
failure and its confirmation; `up` is the environment. `newer[n]` are the nodes heard
after n, which is all that `ORDER BY last_seen DESC LIMIT 50` looks at:
`get_probeable_nodes` is the set of lists that the query may return. `RuntimeHealth`
counts ticks since each checkpoint and until each loop is due; `stuck` is what hangs,
and `unpulsed` how long systemd has waited. `Telemetry` has two pruners, the daily
loop and the command line, that delete in batches over two tables, and an attestation
that reads a run in two queries.

### SchemaContract

A table is the set of catalogues (columns, indexes, foreign keys) in which it
matches the contract. `proc[p]` is a start: is the database empty, the statements
of the baseline one by one, the genesis row, and the comparison. systemd starts an ended
server again until it has done so `StartLimitBurst` times in one interval; then the unit
is `failed` until an operator starts it (`ResetFailed`). A crash or a failing statement
leaves what was committed.

### MCServices and MCSupervision

The components of each of these two share no state, so their product would only
multiply states. A variable `focus` picks one for a whole behaviour, and the others
keep their initial state. The probes and the starts have two behaviours each: `probes`
and `schema` let everything happen to one node and few starts, `crowd` has more nodes
than a round reads, and `starts` servers that reach the start limit. Each component
keeps its own `Init`, `Next` and properties; nothing in it refers to `focus`. A
component's `Safety` is the conjunction of its type invariant and its named
invariants, each of which is stated and explained where it is defined.

## 3. Runs

| Run | Question | Instance |
|---|---|---|
| `event_log` | do concurrent, failing, retried appends leave one chain, with each event at most once, and does every call return? | 3 callers, 2 keys, 3 attempts |
| `federation` | is the mirror the snapshot plus the accepted events; is `ready` only raised when caught up; does the replica implement `EventTail`? | 2 nodes, 3 events, pages of 2, one key rotation, one restart, cursors that expire |
| `federation_faults` | with overlapping handlers, a lost event and failing databases on both sides: are nodes changed only under a key, does the chain prevent gaps within a drain, and which nodes may differ from the seed's? | 1 node, 2 write handlers, 3 events, one lost event |
| `federation_live` | does the replica eventually mirror the log? | 1 node, 2 events, pages of 1, one rotation, one restart |
| `credit_awards` | do two award requests, their debits and the sweep keep the books? | an operator with 2 nodes and a consumer, 2 receipts, amounts of 1 and 1.5 ticks |
| `credit_free` | do the gates of the free allocation hold across deregistration, and is idle credit swept? | 2 nodes, 2 addresses, 3 points in time |
| `node_lifecycle` | is an inactive node hidden; do REACTIVATE, a batch, a challenge count once; does the reputation budget hold; are only silent nodes archived? | 1 node, 2 overlapping requests, 3 heartbeats, 2 registrations, 3 points in time |
| `registration` | do identities, challenges, handles, restrictions and the ownership of a node survive two registrations and two operator requests with failing reads? | 1 node, 2 keys, 1 name, 2 endpoints, 3 kinds of registration, strict mode |
| `services` | are retired tokens and credentials refused for good; is what is offered suitable, a member and in order; do replicas with the same observations agree on mesh health; what do the mutexes of the in-memory repository keep? | 1 DID with 3 tokens; 1 member, 2 issuers; 3 nodes, 14 queries; 3 evaluators, 2 replicas, 1 failed write; 2 calls |
| `supervision` | is a node that answers and is probed offered again; is a process that hangs killed and a healthy one not; do expired rows go; is only a whole schema served, and is it served while starts are left? | 2 nodes, rounds of 1, 2 endpoints; a watchdog of 2 ticks; 2 rows, 3 days; 2 servers with 2 starts each, 1 command, 1 failure |

Two more runs end in a violation; each is a finding:

* `snapshot_gap`: the snapshot's nodes and its seq come from two reads; an event
  in between is in neither.
* `audit_cap`: every AUDIT_REPORT is inserted with seq 0; where the baseline's
  unique key is in force the second one is not stored (the error is ignored), so
  the cap on distinct reporters never applies.

### Why the bounds are enough

* Appends: the third caller is the first that can meet a head written by a
  second one while a first one retries; three attempts are the code's own limit.
* Federation: with pages of two and three events there is a full page, a short
  page and a boundary; two handlers are the least that write and report in opposite
  orders; one rotation covers the refresh, a second one is the known
  stall of section 5. One restart meets every state of the mirror left behind.
* Credits: two requests are what it takes to interleave, two nodes what it takes
  to split a debit. The amounts are one tick and one and a half, so both sides of the
  tolerance occur and a debit that falls between two ticks.
* Lifecycle: the budget is 0.13 instead of 0.20 (`MAX_HOURLY_GAIN`), so that the second
  gain of 0.10 is cut and three, 0.30, are more than two budgets; three
  heartbeats in two handlers give a request that overlaps two others in turn. A
  window of zero means that a node is stale one tick after it was seen, so
  eviction, archival and return fit in the clock. Nodes share no state but the
  expiry loop's list, so one is enough; the theorems cover any number.
* Registration: what can go wrong needs a check and a write of one request around
  one other request; `MCRegistration` bounds the requests under way to two, and
  lets a registration in only before the second challenge. The node id, its two
  endpoints and two keys give every ownership decision; `StrictSecured` is on, so that a
  node without an operator takes the decisions of the other mode and one with an operator
  the strict ones. The other checks compare for equality.
* Services: a third token is the first that can be issued while an older one is
  being retired by another request; two issuers and an epoch of 2 give a rotation
  between the two statements of an issue. Three nodes with a limit of 2 give a
  cut, a tie and a gap; the five rows and 14 queries take both sides of every
  filter. Three evaluators are the least with a majority and an outlier; one failed
  write tells two replicas of one log apart.
* Supervision: nodes share only the round, so one node and another that keeps it out of a
  round of one (`ProbeLimit`) are enough; two starts (`StartLimitBurst`) leave one after a
  failure and none after the next (`MaxFails` is 1); periods of one tick
  and a watchdog of two are the least with `Cadence` above zero. Batches of one row
  with two rows make a pass stop at its bound. Two servers and a command meet a
  half-built schema from both sides, and one failure is enough to leave one behind.

Symmetry is used only in runs without liveness. Deadlock checking is off where
the clock or the events are bounded and the system then simply stops.

### Fairness

* `EventLog`: a call that can take a step takes one; the executor polls every
  task, and MySQL bounds lock waits.
* `Federation`: the replica's task runs and its interval fires (weak); a request
  that is repeated for ever succeeds at last (strong). Nothing is assumed of the
  seed's writers. Without strong fairness on requests a partition that never
  ends is a counterexample.
* `CreditLedger`: the daily loop reads again and again (weak), and the database
  does not fail the sweep of a node for ever (strong).
* `Reachability`: the loop goes on (weak); its query does not fail for ever, and neither
  does the transaction for the node that is looked at (strong). `NodesRecover` is about
  a node that stays registered, available and up, and that stays among the newest nodes
  or is in a round's list again and again: nothing makes a round reach any other node.
* `RuntimeHealth`: time passes, loops that are due and not stuck run, systemd acts
  when its patience ends. A loop that hangs need not ever come back.
* `Telemetry`: passes that come to an end for ever are the antecedent of
  `ExpiredGo`, not an assumption on the specification.
* `SchemaContract`: systemd starts an ended server again (`Restart=always`) and a
  server goes on. The unit's limit of starts is part of the model, so `WholeIsServed` is
  about a unit that has a start left; an operator need never start a failed one.

`NodeLifecycle` and the components of `registration` and `services` assume no
fairness: all they are asked is safety.

## 4. Proofs

All theorems hold for every value of the constants under the named assumptions
of the modules, which TLC evaluates on the runs. Those assumptions say that bounds
and periods are natural numbers (positive where the code divides or waits by
them), that the value standing for "no row", "no call" or "no membership" is none
of the rows, calls or memberships, and that sets whose members are counted
(handlers, reporters, rows) are finite. A further antecedent is written into the
theorem that needs it.

* `EventLog_proofs`. The chain is intact, each event is appended at most once and
  a returned seq is right; the transactions implement `SignedLog`. The inductive
  invariant says that the head row is the last committed row (`HeadIsLast`) and
  that whoever holds the lock has read the current head (`LockProtectsHead`):
  without the second, a commit could extend a chain that has moved on.
* `Federation_proofs`. Types hold, with cursor and page never beyond the seed's
  log, whatever fails.
  * `MirrorFold` and the refinement of `EventTail` hold when the replica's own
    writes succeed (`~ReplicaDbFails`). The induction needs `DrainOK`: the
    signature the replica carries is that of the event at its cursor, so the row
    that passes the chain check is the next one. The refinement takes each step of
    the seed or the loop to `Grow`, `Take`, `Start` or a stutter.
  * `NoGapWithinDrain` holds whatever fails. `SigsBindSeq` says that a signature
    binds the position it was made for, and `LinkOK` is what remains of `DrainOK` when a
    write may fail: the carried signature is the cursor's, but the page may be ahead.
  * `OnlyVerifiedChanges` holds whatever fails, by `KeyHeld`: wherever the loop may
    change a node it has a key, although a refresh can lose it. `CursorNeverRegresses`
    needs `~SeedDbFails`: a seed whose reads fail answers a snapshot with seq 0.
    `ReadyCaughtUp` needs both databases; `ShortPageIsLast` says that a page below the
    limit reached the end of the log.
  * `TailedNodesMirrored` is end to end and holds whatever fails, for any handlers
    that overlap and any events that are lost: the nodes that may differ are named
    (`latest`, `astray`, `missed`). `LatestTellsTable` and `LogTellsTable` tie the
    seed's table to the event about to be emitted or to the last one in the log;
    `WrittenFold` is `MirrorFold` for the nodes whose last event was written, and
    `SteppedOverMissed` says that what a drain has stepped over is a REGISTER that
    could not be.
* `CreditLedger_proofs`. The two balances of a node agree, no balance falls
  below minus one tick, a balance is earned less spent but for one tick for each debit
  that fell between two ticks, free allocations are a gate apart, and what was earned is
  covered by distinct receipts and free allocations (`EarnsBacked`, with finite sets of
  nonces counted along), for award amounts of any size. `Floor` adds that a debit within
  the tolerance cannot be repeated, `Whole` and `Booked` that what is stored is a whole
  tick and how far it is from the books; `DebitRounds` and `AwardRounds` say what the two
  roundings of one amount differ by. `GatesRecent` says that the gate rows are at least as
  new as each allocation. The wallet debit rests on `WalletTakes`, a lemma on what the
  loop takes from one node.
* `NodeLifecycle_proofs`. Types, with score and budget; inactive nodes are hidden;
  only silent nodes are archived; one REACTIVATE per dormancy; one verification per
  challenge; a batch counts once; gains stay within the hourly bound. `InactiveHidden`
  needs `SeenBefore` (no row was seen in the future). `ChallengesFresh` says that a
  challenge which is stored or about to be is in one place only and has not been
  verified: that is why a rotation cannot bring an answered challenge back.
  `CountedOnce` needs `Orderly`: a node that is not hasty has one request under way,
  with its current batch or none, and a current batch that was counted is the last one
  of the row. `HourlyBudget` needs `Budgeted`: what was gained since a window opened
  is the row's gain, nothing is gained once it is over, and the hour before it saw one
  budget at most.
* `Registration_proofs`. The whole `Safety` of identities and registrations
  (`IdentitiesAreSafe`) and `TakeoverNeedsProof`. `IdentityInv` says of every request
  what it may still rely on of what it read (`HandlerSound`, `DeskSound`), with the
  keys and names excepted that were disturbed meanwhile; `NodeSound`, `KeySound` and
  `PairSound` say what then holds of the rows. `OwnershipInv` says that a request past
  the ownership decision has proof or found the endpoint unchanged or dead
  (`RowSound`, `ClaimSound`), and that a row which is not the one it read was written
  after its read (`Dated`): so the only proofless takeovers are those of a request
  whose read failed or that was overtaken. The proof of `HandlesDistinct` as it was
  first stated failed: a rotation moves a name to the successor while a registration
  of the old key is past its check of that name, which excludes only the old key. That
  needs three keys, and the run has two. Such a name is now among the contended ones
  that the statement excepts (`NameMoves`).
* `ReplicaRegistry_proofs`. The whole `Safety` of the registry, on its own and in the
  composition. A token is in one place, about to be stored, in one row, or retired
  (`TokensPlaced`), ids belong to one DID (`IdsOwned`), and a DID whose requests did not
  overlap or fail is `Calm`: settled between its joins, following the request during one.
* `Services_proofs`.
  * Restricted domains (`MembershipIsSafe`): credentials are numbered and differ, a row
    with a retired one is revoked, envelopes fit the rows beside them (`EnvelopesFit`,
    `StoreKnows`), and an admitted request's generation is not above its row's
    (`GateKnows`).
  * Discovery (`OffersAreSuitable`): the whole `Safety`, for any nodes, rows, rosters
    and queries of the types of `DiscoveryAssumption`. `FoundIsCurrent` says that what a
    request read of a node that did not change is still so, `NoneMissed` that no such
    node which matches was missed when one query returns all that match, and
    `AnswersInOrder` that each answered node is behind whoever is before it. Every node
    of a list has a place of its own (`PlacesInOrder`, from cardinalities: an injection
    of a finite set into an interval of its size is onto), so `Sorted` is the ranked
    list; `BetterScoresHigher` is the monotonicity of the weights.
  * Mesh health (`MeshHealthIsSafe`): the whole `Safety`, for any mirrors, log and
    events of the types of `MeshAssumption`, whichever writes fail and wherever
    bootstraps move the cursors. The newest of the upserted evaluations are kept, so
    mirrors that upserted the same ones, without ties, have the same table, and a
    table has one aggregate: percentiles exist as least elements (`PercentileFound`),
    two labels cannot both have a majority (`OneMajority`), and the counts of the
    labels add up to the sample (`DistributionSums`), from which the median's label is
    honest (`MedianIsHonest`).
  * In-memory repository (`RepositoryIsSafe`): the whole `Safety`. The invariant has a
    part for each group of calls. `VerifiedInForce`: a verified node's key is in
    force, or ended while a call that had found it in force was under way and bound
    the node afterwards, or the call that ended it is about to reach the node;
    `TokensKnown`: a decommission past its hash step has left its token to nobody;
    `LogKnown`: a call about a replica that no other call has mixed with is alone, and
    the log is what its place in the call says; `LocksKnown`: who holds which mutex
    follows from where the calls are, so only `all_replicas` and `upsert_replica` wait
    with one in hand that the other wants.
* `Supervision_proofs`. Four components, each with its invariant: probes
  (`RouteInv`: a target that is pending is the row's endpoint unless the node moved,
  a miss before the confirmation is one miss), schema (`SchemaIsSafe`, for any start
  limit; `SchemaInv`: what a start has seen
  to match is there and stays, the creator's row comes before every table of nodes),
  health (`HealthInv`: the file is as old as it says, and ages stay within a period of
  the loop's next turn while it is not stuck) and telemetry (`PruneInv`: deletions
  counted by the passes add up to the rows that went, and an attestation between its
  two queries knows the run it read).

The composition modules `MCServices` and `MCSupervision` are small, so their theorems
reduce at once to the component in `focus`.

Only model-checked:

* every liveness property: the prover has no rule for fairness or ENABLED;
* what the recursive overlay of `Federation` and the loops of `CreditLedger` compute as a
  whole: the proofs use their defining equations.

## 5. Disagreements without a run

Met while modelling, by reading or with a run that is not kept. A property of a
run that excludes one of these cases says so in its comment.

Event log and federation:

* A registration that overlaps a deregistration of the node writes first and emits
  last, so the log ends with the event of the row that is gone (`main.rs` 645),
  against "so replicas mirror the removal over /v1/events" (643); the same when the
  event is lost. `TailedNodesMirrored` names such nodes (`astray`) and says that no other
  node is wrong.
* A REGISTER whose write fails on the replica is rejected, and the first event of
  the next drain is accepted without a chain check and moves the cursor past it
  (`replica.rs` 541), against "Advance the high-water mark only when the event was
  accepted" (1059).
* `apply_snapshot` (`replica.rs` 1146) removes no node that the snapshot lacks,
  although the snapshot is "mirroring the seed's full discoverable state" (1098).
* `events_since` (`db.rs` 3729) answers a database error with no rows; a replica
  takes that for the end of the log and becomes ready.
* Two key rotations between two polls leave events of the middle key that no
  refresh can verify: the replica stops there.

Credits and lifecycle:

* A deregistered node keeps its `credits` row, against "Credits (on
  nodes.credit_balance) are lost" (`db.rs` 1949): when it comes back the two
  balances disagree and its awards and debits are refused.
* The sweep's compare-and-swap accepts a balance that was spent and earned again
  since it was read, and sweeps a fresh earn (`db.rs` 295), against "a fresh earn
  resets the TTL forward" (2552).
* A debit of an amount halfway between two ticks is rounded twice, in the balance
  that is left and in its transaction (`db.rs` 128-168, 230-284): the balance may end
  one tick above earned less spent, against `credits.rs` 114, "balance MUST equal
  earned - spent". `Reconciles` allows one tick for each such debit and no more.
* A heartbeat between the SELECT and the UPDATE of `expire_stale` (`db.rs` 2058) is
  still marked dormant; EVICT is logged whether or not the UPDATE succeeded.
* A metrics batch that is sent again while its first delivery is still under way
  can count twice, since only the last batch id is kept; `CountedOnce` excludes
  such nodes (`hasty`).
* A node that registered and never sent a heartbeat has no `last_seen` and is
  never evicted. Mirrored nodes of a replica are all of this kind.
* When the challenge rotation fails after the heartbeat committed, the node's
  retry is a known batch and REPUTATION_UPDATE is never logged.
* A gain window opens with the first gain, so an hour that touches two windows
  sees up to two budgets; `HourlyBudget` states that bound.

Registration and operators:

* "The change is allowed ONLY if the caller proves ownership" or the old endpoint is
  gone (`node_lifecycle.rs` 240-242) does not hold of two requests: one whose `get`
  failed, which reads as a node that does not exist, and one that another registration
  overtook between its read and its write, like the second of two first registrations.
  `TakeoverNeedsProof` names both.
* The query of `get` does not select `cx_public_key`, so a re-registration with a
  key always meets E049. A changed transport or relay endpoint alone decides
  nothing. Failing reads make every check of a registration pass.
* Rotation does not copy the acceptance of terms in MySQL and does in memory;
  `rotation_epoch` is never copied. A foreign manifest survives the rotation of
  its signer (`db.rs` 3459, PARITY.md 152).
* A rename checks no other handle, and renames and upserts write by key whatever
  the row's status. A request with a bad signature uses up its challenge.
* A restriction leaves `operator_verified` set and the node its token: the node's
  next heartbeat publishes it again. An anonymization that was loaded before a
  revocation frees the revoked key.

Replicas, restricted domains, audit:

* A replica's deregistration that passed its hash check decommissions a token
  issued since; two first registrations of one DID may leave mirrors with the
  other id.
* A generation is one more than the subject's last one, so a subject that was
  rotated often stays valid when the epoch is raised (README.md 157, OPERATIONS.md
  145-147). An issue without an assertion leaves the old envelope. Dispatch
  tickets are not filtered by membership, discovery is (README.md 153, 189).
* The audit cap can also be passed by concurrent reports, and when the count
  fails and reads as zero.

Serving and supervision:

* "Identical across replicas" (`health.rs` 347) fails when two evaluations of a node
  carry the same time, when the write of one fails at a replica, which skips it
  (`db.rs` 3038, `replica.rs` 909, 1062), and for what precedes a replica's snapshot.
  A score of 0.6446 is voted as impaired and resolved as degraded, because it is
  rounded twice. Nothing in `src/` emits HEALTH events.
* Limits are applied before filters (a ticket's limit, the 50 rows before the
  membership filter); a request may combine the row of one registration with the
  capabilities of the next. MySQL rows are never cip-capable, so that filter finds
  nothing. An availability share of 0 is ranked as 1.
* A node that was never reachable is never marked dead; a re-registration keeps
  the mark and the flag of the old endpoint. A round probes the 50 available nodes heard
  last (`db.rs` 3907): a demoted node that stays outside them is never restored, however
  long it answers.
* `created_at` of proxy telemetry and of nodes is never set, so the proxy quorum
  stays 0, proxy rows are not pruned, and nodes registered by this program are
  never old enough to report. With FOUND_ROWS an unchanged duplicate counts as
  applied.
* `set_subsystem` and `set_external` are called by tests only: "degraded" occurs in
  fault-injection builds alone.
* A bootstrap that a crash cuts off leaves a schema that every later start refuses
  (`schema.rs` 6: it "never repairs"). After five starts in ten minutes systemd gives up
  (`service.rs` 64), and a schema repaired later is not served until an operator starts
  the unit.
* In memory, `all_replicas` can deadlock with `upsert_replica`; a registration whose
  identity is revoked or rotated between the handler's check (`node_lifecycle.rs` 898)
  and the write (`repo.rs` 1201) leaves a node verified by an ended key; "Atomically
  rotate" (`repo.rs` 474) and "Seed-side atomic lifecycle write" (603) are sequences
  of locks; a restriction leaves the identity active; discovery ranks by the score of
  the registration.

## 6. Plan

The components that keep state are modelled, and every safety invariant of the
runs is proved. What is left, in this order:

1. The balances that replicas set from CREDIT_AWARD events, whose order is the one
   listed hazard without a property.
2. The rate limiter of registrations and the moving average of proxy latency,
   which no reachable state of the program feeds today.

## 7. Not modelled

Policy documents and canonical JSON (pure, character-level code with vectors of
its own), token issuance, peers and delegation signatures (one read, one answer;
a delegation's verdict is an input of `Registration`), public projections and
metrics (read only), the updater, the CLI and local announcement (I/O), and the
operations of the in-memory repository that do under one mutex what their MySQL
counterparts do. Cryptography is ideal: a signature is a tag that only the key's
holder can make, a hash is injective. Left out of modelled
components: `rotate_reputation_windows`, `sd_notify` messages that are lost, failing reads
of an attestation, and a telemetry table that does not exist (`table_exists`). HTTP
validation that only rejects malformed
requests is left out of the actions' guards. `PROJECT.json` lists every component
with its status.
