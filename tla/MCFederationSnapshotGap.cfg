SPECIFICATION Spec
CONSTANTS
    Nodes = {n1}
    Endpoints = {e1}
    Absent = Absent
    Handlers = {h1}
    Idle = Idle
    ReplicaId = ReplicaId
    SigningKeys = {k1}
    NoSig = NoSig
    NoKey = NoKey
    MaxEvents = 2
    MaxRotations = 0
    MaxLost = 0
    PageLimit = 2
    VerificationRequired = TRUE
    CursorExpires = FALSE
    SeedDbFails = FALSE
    ReplicaDbFails = FALSE
    MaxBoots = 1
INVARIANT Mirrored
