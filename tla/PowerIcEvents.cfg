\* Two events in the second register; event 1 keeps the phone awake; clients make every call.
CONSTANTS
    NumEvents = 2
    SecondReg = 0
    SuspendEvents = {1}
    ClientOps = {"unmask", "mask", "clear"}
SPECIFICATION FairSpec
INVARIANTS TypeOK NoLostEdge
PROPERTIES MaskChangesAsAsked ImplementsService UnmaskedIsHandled
