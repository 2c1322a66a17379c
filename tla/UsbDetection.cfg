\* One cable per behaviour, plugged and unplugged up to four times; two opens.
CONSTANTS
    NumEvents = 24
    SecondReg = 24
    SuspendEvents = {}
    EmuEvents = {16, 19}
    Swaps = FALSE
    MaxPlugs = 4
    MaxOpens = 2
SPECIFICATION UsbFairSpec
INVARIANTS TypeOK MaskedIsWatched
PROPERTY RemovalIsReported
CHECK_DEADLOCK FALSE
