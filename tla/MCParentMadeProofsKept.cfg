SPECIFICATION FairSpec
CONSTANTS
    batch = batch
    single = single
    Req = {batch}
    Digests <- MCDigests
    Anchors = {}
    Boot = boot
    Reader = reader
    Genesis = genesis
    End = end
    None = none
    TimelineOn = FALSE
    DropFloor = FALSE
    MaxBinds = 16
    MaxReads = 0
    MaxEpochs = 1
    MaxStarts = 1
    MaxFaults = 1
CHECK_DEADLOCK FALSE
PROPERTIES
    MadeProofsKept
