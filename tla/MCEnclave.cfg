SPECIFICATION FairSpec
CONSTANTS
    Digest = {d1}
    BadDigest = bad
    Nonce = {n1, n2, n3}
    NoProof = none
    Conn = {c1, c2}
    NoConn = nobody
    MaxEpoch = 2
INVARIANTS
    TypeOK
    UnbrokenSequence
    NonceBoundOnce
PROPERTIES
    AtomicBind
    EveryRequestEnds
