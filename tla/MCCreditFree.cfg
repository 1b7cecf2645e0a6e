SPECIFICATION FairSpec
CONSTANTS
  Nodes = {n1, s}
  Leavers = {n1}
  Fleet = {}
  Operator = Operator
  NoOperator = NoOperator
  OperatorOf <- MCOperatorOf
  Handlers = {h1}
  NoNode = NoNode
  Nonces = {k1}
  Ips = {ip1, ip2}
  Amounts = {4}
  FreeAmount = 4
  TTL = 0
  Gate = 2
  NoRow = NoRow
  MaxTime = 2
INVARIANT FreeGate
PROPERTY IdleIsSwept
CHECK_DEADLOCK FALSE
