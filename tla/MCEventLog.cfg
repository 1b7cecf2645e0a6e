SPECIFICATION FairSpec
CONSTANTS
    Calls = {c1, c2, c3}
    SigningKeys = {k1, k2}
    NoSig = NoSig
    NoCall = NoCall
    ATTEMPTS = 3
INVARIANTS ChainIntact AppendedOnceAsReported
PROPERTIES ImplementsSignedLog EveryCallReturns
