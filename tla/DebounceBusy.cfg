CONSTANTS
    NumEvents = 3
    SecondReg = 0
    SuspendEvents = {0, 1, 2}
    PollCount <- OneSample
    Forced <- BothForced
    Inputs = {0}
    MaxToggles = 4
    QueueMax = 3
    MaxOverlaps = 0
SPECIFICATION DebounceSpec
INVARIANT BusyBlocksSuspend
CHECK_DEADLOCK FALSE
