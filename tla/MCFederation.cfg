SPECIFICATION Spec
CONSTANTS
    Nodes = {n1, n2}
    Endpoints = {e1}
    Absent = Absent
    Handlers = {h1}
    Idle = Idle
    ReplicaId = ReplicaId
    SigningKeys = {k1, k2}
    NoSig = NoSig
    NoKey = NoKey
    MaxEvents = 3
    MaxRotations = 1
    MaxLost = 0
    PageLimit = 2
    VerificationRequired = TRUE
    CursorExpires = TRUE
    SeedDbFails = FALSE
    ReplicaDbFails = FALSE
    MaxBoots = 2
SYMMETRY Symmetry
INVARIANT MirrorFold
PROPERTIES ReadyCaughtUp CursorNeverRegresses ImplementsEventTail
