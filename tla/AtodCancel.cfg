\* One client and one other application, without faults.
CONSTANTS
    NumEvents = 1
    SecondReg = 1
    SuspendEvents = {}
    Apps = {charger, monitor}
    Clients = {charger}
    Timings = {"OUT_OF_BURST"}
    Faults = {}
SPECIFICATION AtodSpec
INVARIANT CancelledIsOver
