\* Four devices, two of them late; other processes register, remove and write
\* at any time they can.
CONSTANTS
    bus = bus
    late = late
    hub = hub
    leaf = leaf
    NoDevice = NoDevice
    Devices = {bus, late, hub, leaf}
    Parent <- Tree
    Late = {bus, late}
    HotPlug = {late, hub, leaf}
    Meanwhile = {"add", "remove", "runtime"}
    LowStates = {1, 2}
    MaxAttempts = 3
    MaxChanges = 4
SPECIFICATION FairSpec
INVARIANTS TypeOK OnOneList AsleepAllOff Restored
PROPERTIES TreeOrder AttemptEnds
CHECK_DEADLOCK FALSE
