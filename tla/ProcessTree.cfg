SPECIFICATION FairSpec
CONSTANTS
    Pid = {1, 2, 3}
    Stray = 1
    Root = 2
    MaxBirths = 5
    Methods = {{"console", "window", "terminate"}, {"threads"}}
    Faults = {"wait", "terminate", "open", "snapshot", "times", "childTimes"}
INVARIANT OnlyDescendants
INVARIANT NoSurvivors
PROPERTY StopEnds
CHECK_DEADLOCK FALSE
