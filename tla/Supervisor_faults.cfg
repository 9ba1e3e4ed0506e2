SPECIFICATION Spec
CONSTANTS
    ThrottleBase = 1
    ThrottleExponentMax = 1
    Process = {p1, p2}
    NoProcess = nil
    Controls = {"Stop", "Continue", "Interrogate", "Rotate", "PowerEvent"}
    Configs <- MCConfigs
    ConfiguredHooks = {"Start/Pre", "Stop/Pre", "Exit/Post", "Rotate/Pre", "Power"}
    ExitActions = {"Restart", "Ignore", "Exit", "Suicide"}
    Faults = {"report", "load", "redirect", "start", "wait", "tree"}
    EventQueueCapacity = 1
    StatusReportInterval = 1
    RestartRetrySleep = 1
    MaxInFlight = 2
    MaxHooks = 1
INVARIANT TypeOK
INVARIANT NoStaleExit
INVARIANT LogsReleasedBetweenRuns
INVARIANT NoStartAfterStopHook
INVARIANT StoppedIsQuiet
INVARIANT OneChild
INVARIANT AtMostOneLateStart
CHECK_DEADLOCK FALSE
