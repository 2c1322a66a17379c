\* Three drivers on bit arrays of two bits, a ring that keeps two events.
CONSTANTS
    MpmEvents = {insert, remove}
    MPM_MAX_EVENTS = 3
    Drivers = {nand, wlan, sdio}
    NULL = NULL
    BITS_PER_LONG = 2
SPECIFICATION Spec
INVARIANTS TypeOK BusyIsAdvised OwnNumber
PROPERTIES ImplementsQueue
