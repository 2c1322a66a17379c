\* Power key, headset and its key debounced at the same time; two usable slots.
CONSTANTS
    NumEvents = 3
    SecondReg = 0
    SuspendEvents = {0, 1, 2}
    PollCount <- OneSample
    Forced <- BothForced
    Inputs = {0, 1, 2}
    MaxToggles = 2
    QueueMax = 3
    MaxOverlaps = 2
SPECIFICATION DebounceFairSpec
INVARIANTS TypeOK MaskedIsInProgress ReportedIsCurrent KeyIsCurrent PowerQueuedOnce
PROPERTIES QueueIsPaidFor FinallyReported SuspendReleased
CHECK_DEADLOCK FALSE
