SPECIFICATION FairSpec
CONSTANTS
    Pid = {1, 2, 3, 4}
    Stray = 1
    Root = 2
    MaxBirths = 5
    Methods = {{"terminate"}}
    Faults = {}
INVARIANT DescendantsHandled
CHECK_DEADLOCK FALSE
