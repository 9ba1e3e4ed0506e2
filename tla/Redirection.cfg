\* Lines of one and of two pieces; pipes of two pieces.
SPECIFICATION FairSpec
CONSTANTS
    Stream = {"stdout", "stderr"}
    LineEnds = {1, 3}
    Configs <- MCConfigs
    Faults = {"read", "write", "rename", "copy", "reopen", "open", "pipe", "inherit", "duplicate"}
    IORetryMax = 1
    PipeSize = 2
    MaxPieces <- MCPieces
    MaxRequests = 2
INVARIANT NothingLost
INVARIANT RotatesAtLineEnds
INVARIANT StampsAtLineStarts
INVARIANT OutputComplete
INVARIANT HandlesReleased
PROPERTY RequestHonoured
PROPERTY WritersGoOn
CHECK_DEADLOCK FALSE
