\* Delays of 1, 2 and 4 units, slices of 2, thresholds and restart delays on both
\* sides of a slice and of the throttle delays.
SPECIFICATION FairSpec
CONSTANTS
    ThrottleBase = 1
    ThrottleExponentMax = 3
    Thresholds = {0, 1, 3}
    RestartDelays = {0, 1, 3, 5}
    StatusReportInterval = 2
    MaxAge = 9
    MaxCount = 5
    MaxNotify = 2
INVARIANT AtMostOneEagerRestart
INVARIANT RestartDelayRecordIsTrue
PROPERTY HealthyRestartDelayed
PROPERTY BackoffNeverShrinks
PROPERTY WaitLeadsToStart
