SPECIFICATION Spec
CONSTANTS
    Worlds <- MCWorlds
    MaxCounter = 2
    BaseLead = 2
    Cast <- MCCast
    Claims <- MCClaims
    MaxDepth = 2
INVARIANTS
    TypeOK
    HashLinkedHolds
    AssumptionsSuffice
    BoundsHold
    PairsHold
    PairsCarried
    VerdictHolds
PROPERTY
    VerdictNeverReversed
CHECK_DEADLOCK FALSE
