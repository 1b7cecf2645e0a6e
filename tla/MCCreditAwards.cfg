SPECIFICATION Spec
CONSTANTS
  Nodes = {n1, n2, s}
  Leavers = {}
  Fleet = {n1, n2}
  Operator = Operator
  NoOperator = NoOperator
  OperatorOf <- MCOperatorOf
  Handlers = {h1, h2}
  NoNode = NoNode
  Nonces = {k1, k2}
  Ips = {}
  Amounts = {2, 3}
  FreeAmount = 4
  TTL = 0
  Gate = 1
  NoRow = NoRow
  MaxTime = 1
SYMMETRY Symmetric
INVARIANTS LedgerAgrees NoOverdraft Reconciles EarnsBacked
CHECK_DEADLOCK FALSE
