SPECIFICATION FairSpec
CONSTANTS
    Nodes = {n1}
    Endpoints = {e1}
    Absent = Absent
    Handlers = {h1}
    Idle = Idle
    ReplicaId = ReplicaId
    SigningKeys = {k1, k2}
    NoSig = NoSig
    NoKey = NoKey
    MaxEvents = 2
    MaxRotations = 1
    MaxLost = 0
    PageLimit = 1
    VerificationRequired = TRUE
    CursorExpires = TRUE
    SeedDbFails = FALSE
    ReplicaDbFails = FALSE
    MaxBoots = 2
PROPERTY EventuallyMirrors
