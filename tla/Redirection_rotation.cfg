\* The default disposition, and a log file that cannot be opened again after a rotation.
SPECIFICATION Spec
CONSTANTS
    Stream = {"stdout", "stderr"}
    LineEnds = {1, 3}
    Configs <- MCDefaults
    Faults = {"reopen"}
    IORetryMax = 1
    PipeSize = 2
    MaxPieces <- MCPieces
    MaxRequests = 1
INVARIANT RotationNeverStopsRelay
CHECK_DEADLOCK FALSE
