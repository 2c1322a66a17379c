\* Two clients and another application, with every fault.
CONSTANTS
    NumEvents = 1
    SecondReg = 1
    SuspendEvents = {}
    Apps = {charger, tcmd, monitor}
    Clients = {charger, tcmd}
    Timings = {"OUT_OF_BURST"}
    Faults = {"signal", "channel"}
SPECIFICATION AtodFairSpec
INVARIANTS TypeOK OutstandingIsArmed ExclusiveUndisturbed
PROPERTY OutstandingCompletes
