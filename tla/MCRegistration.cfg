SPECIFICATION Spec
CONSTANTS
  n1 = n1
  e1 = e1
  e2 = e2
  k1 = k1
  k2 = k2
  x = x
  c = c
  None = None
  Keys = {k1, k2}
  Nodes = {n1}
  Names = {x}
  Endpoints = {e1, e2}
  CxKeys = {c}
  Tracking = {t}
  Desks = {d1, d2}
  Handlers = {h1, h2}
  MaxChallenges = 2
  MaxTokens = 2
  Asks <- MCAsks
  StrictSecured = TRUE
  ReadsFail = TRUE
SYMMETRY Symmetry
INVARIANT Safety
PROPERTY TakeoverNeedsProof
CONSTRAINT Bound
CHECK_DEADLOCK FALSE
