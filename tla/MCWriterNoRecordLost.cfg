SPECIFICATION Spec
CONSTANTS
    r1 = r1
    r2 = r2
    Record = {r1}
    EpochOf <- MCEpochOf
    Epochs = 1
    RollRoot = FALSE
    Budgets <- CrashAndReorg
    None = none
CHECK_DEADLOCK FALSE
INVARIANTS
    NoRecordLost
