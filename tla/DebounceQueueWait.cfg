\* The queue never fills up.
CONSTANTS
    QueueMax = 8
    MaxAdds = 4
SPECIFICATION Spec
INVARIANT NoSelfWait
CHECK_DEADLOCK FALSE
