SPECIFICATION FairSpec
CONSTANTS
    ThrottleBase = 1
    ThrottleExponentMax = 1
    Process = {p1}
    NoProcess = nil
    Controls = {"Stop", "Continue", "Rotate"}
    Configs <- MCConfigs
    ConfiguredHooks = {"Start/Pre", "Stop/Pre", "Exit/Post"}
    ExitActions = {"Restart", "Ignore", "Exit", "Suicide"}
    Faults = {"start"}
    EventQueueCapacity = 1
    StatusReportInterval = 1
    RestartRetrySleep = 1
    MaxInFlight = 2
    MaxHooks = 1
PROPERTY ImplementsLifecycle
PROPERTY ExitNoticed
CHECK_DEADLOCK FALSE
