SPECIFICATION Spec
CONSTANTS
    r1 = r1
    r2 = r2
    Record = {r1}
    EpochOf <- MCEpochOf
    Epochs = 2
    RollRoot = TRUE
    Budgets <- LossAndPublish
    None = none
CHECK_DEADLOCK FALSE
INVARIANTS
    NonceSingleFile
