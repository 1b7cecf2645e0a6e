SPECIFICATION MCSpec
CONSTANTS
  None = None
  Services = {"registry", "domain", "discovery", "listing", "mesh", "identity", "replicas", "beats"}
  Dids = {a}
  Joins = {j1, j2}
  Leaves = {l}
  Ttl = 1
  MaxTokens = 3
  MaxIds = 2
  MaxNow = 1
  Subjects = {s}
  Issuers = {i1, i2}
  Requests = {r}
  MaxTtl = 2
  MaxEpoch = 2
  N = 3
  NodeRows <- MCNodeRows
  Rosters <- MCRosters
  Queries <- MCQueries
  Restricted = TRUE
  MaxLimit = 2
  MaxWrites = 1
  Evaluators = {1, 2, 3}
  Mirrors = {m1, m2}
  Start <- MCStart
  Evaluations <- MCEvaluations
  Signals <- MCSignals
  MaxLog = 5
  MaxFailed = 1
  Calls = {c1, c2}
  Keys = {k1, k2}
  Hosts = {h}
  MaxLines = 1
  MaxEvents = 4
  MaxBatches = 3
SYMMETRY Symmetry
INVARIANTS RegistrySafe DomainSafe DiscoverySafe MeshSafe MemorySafe
CHECK_DEADLOCK FALSE
