SPECIFICATION FairSpec
CONSTANTS
    batch = batch
    single = single
    Req = {batch, single}
    Digests <- MCDigests
    Anchors = {single}
    Boot = boot
    Reader = reader
    Genesis = genesis
    End = end
    None = none
    TimelineOn = FALSE
    DropFloor = TRUE
    MaxBinds = 16
    MaxReads = 0
    MaxEpochs = 2
    MaxStarts = 1
    MaxFaults = 1
CHECK_DEADLOCK FALSE

    
PROPERTIES
    EveryCommitEnds
    EveryStopEnds
