SPECIFICATION Spec
CONSTANTS
    batch = batch
    single = single
    Req = {batch}
    Digests <- MCDigests
    Anchors = {}
    Boot = boot
    Reader = reader
    Genesis = genesis
    End = end
    None = none
    TimelineOn = TRUE
    DropFloor = FALSE
    MaxBinds = 16
    MaxReads = 1
    MaxEpochs = 1
    MaxStarts = 1
    MaxFaults = 0
CHECK_DEADLOCK FALSE
INVARIANTS
    EndIsLast
