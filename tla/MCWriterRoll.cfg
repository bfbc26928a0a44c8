SPECIFICATION Spec
CONSTANTS
    r1 = r1
    r2 = r2
    Record = {r1, r2}
    EpochOf <- MCEpochOf
    Epochs = 2
    RollRoot = TRUE
    Budgets <- OneFault
    None = none
CHECK_DEADLOCK FALSE
INVARIANTS
    TypeOK
    NoRecordLost
    SignedBytesKept
    BatchFliesAlone
    FinalIsCanonical
    SidecarBacked
PROPERTIES
    ClosedIsWritten
