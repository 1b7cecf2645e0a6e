SPECIFICATION MCSpec
CONSTANTS
  None = None
  Loops = {"probes", "crowd", "health", "pruning", "attestation", "schema", "starts"}
  Nodes = {n1, n2}
  Lone = {n1}
  ProbeLimit = 1
  Endpoints = {e, p}
  Probeable = {e}
  RuntimePeriod = 1
  RuntimeStale = 1
  SupervisorPeriod = 1
  SupervisorStale = 2
  Watchdog = 2
  Outages = {"directory"}
  Runs = {r1}
  Tests = {"t"}
  BatchSize = 1
  MaxBatches = 1
  MaxNow = 2
  MaxRows = 2
  Servers = {v1, v2}
  Commands = {c}
  StartLimitBurst = 2
  MaxFails = 1
INVARIANTS RoutesSafe HealthSafe TelemetrySafe SchemaSafe
PROPERTIES NodesRecover StuckIsKilled ExpiredGo WholeIsServed
