SPECIFICATION Spec
CONSTANTS
    Nodes = {n1}
    Endpoints = {e1}
    Absent = Absent
    Handlers = {h1, h2}
    Idle = Idle
    ReplicaId = ReplicaId
    SigningKeys = {k1, k2}
    NoSig = NoSig
    NoKey = NoKey
    MaxEvents = 3
    MaxRotations = 1
    MaxLost = 1
    PageLimit = 3
    VerificationRequired = TRUE
    CursorExpires = FALSE
    SeedDbFails = TRUE
    ReplicaDbFails = TRUE
    MaxBoots = 1
SYMMETRY Symmetry
INVARIANT TailedNodesMirrored
PROPERTIES OnlyVerifiedChanges NoGapWithinDrain
