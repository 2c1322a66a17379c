\* The two kernel threads and a writing application notify of two accessories;
\* two applications open, read and close in the middle of it.
CONSTANTS
    NumAccy = 2
    MaxOpens = 2
    Headsets = {1}
    Masks = {{2}, {1, 2}}
    Notifiers = {"debounce", "usb", "write"}
    MaxNotifies = 2
SPECIFICATION FairSpec
INVARIANTS TypeOK InStep SleeperIsWoken
PROPERTY ChangeIsRead
CHECK_DEADLOCK FALSE
