SPECIFICATION Spec
CONSTANTS
    batch = batch
    single = single
    Req = {batch}
    Digests <- MCDigests
    Anchors = {}
    Boot = boot
    Reader = reader
    Genesis = genesis
    End = end
    None = none
    TimelineOn = TRUE
    DropFloor = TRUE
    MaxBinds = 16
    MaxReads = 1
    MaxEpochs = 2
    MaxStarts = 2
    MaxFaults = 1
CHECK_DEADLOCK FALSE
INVARIANTS
    TypeOK
    FloorDirectlyBefore
    NotesNameTheirEpoch
    NoDigestBoundTwice
PROPERTIES
    GenesisSettled
