---------------------------- MODULE UsbDetection ----------------------------
(***************************************************************************)
(* USB cable detection before user space takes over, and the hand-over:    *)
(* drivers/power_ic/module/usb_detection.c (state machine, thread and      *)
(* interrupt handler), the open, release, read and interrupt-mask calls    *)
(* and the interrupt handler of module/emu_glue_utils.c, and the callback  *)
(* lists of core/event.c that both subscribe to.  The chip's events are    *)
(* those of EventService, numbered as POWER_IC_EVENT_T numbers them.       *)
(*                                                                         *)
(* Three threads: the interrupt thread (priority 99), the detection thread *)
(* (THREAD_PRIORITY_EMU, 90) and an application that opens /proc/emu.  A   *)
(* lower one runs when the higher ones sleep or wait for                   *)
(* power_ic_access_mutex, which any thread of the system may hold.         *)
(***************************************************************************)
EXTENDS EventService, SequencesExt

CONSTANTS
    EmuEvents,   \* the events EMU uses, among USBI, IDI and SE1I
    Swaps,       \* whether the cable may be another one each time
    MaxPlugs,    \* bound: changes of VBUS
    MaxOpens     \* bound: opens of /proc/emu

USBI == 16              \* EMU_INT_VBUS
IDI  == 19              \* EMU_INT_ID
SE1I == 21              \* EMU_INT_SE1

ASSUME UsbAssumption ==
    /\ EmuEvents \subseteq Events \cap {USBI, IDI, SE1I}
    /\ USBI \in EmuEvents
    /\ Swaps \in BOOLEAN
    /\ EmuEvents \cap SuspendEvents = {}
    /\ MaxPlugs \in Nat /\ MaxOpens \in Nat

USB_DEBOUNCED == 3

VARIABLES
    \* The connector
    vbus,               \* VBUS is above 2.0 V
    cable,              \* what the ID and SE1 lines tell of the cable
    plugs,
    \* usb_detection.c
    usb_detection_event_flag,
    state,
    cable_attached,
    prev_vbus_state,
    debounce_counter,
    upc,                \* where usb_detection_state_machine_thread is
    result,             \* what the state handler is about to return
    connected,          \* cables known to the accessory driver
    \* emu_glue_utils.c and the callback lists
    callbacks,          \* power_ic_events[], the callbacks of each event
    emu_proc_opened,
    emu_proc_event_int,
    apc,                \* where the application is in emu_proc_open
    entry,              \* the list entry that its unsubscribe has come to
    opens

connector == <<vbus, cable, plugs>>
detection == <<cable_attached, prev_vbus_state, debounce_counter, result, connected>>
glue == <<callbacks, emu_proc_opened, emu_proc_event_int, apc, entry, opens>>
vars == <<serviceVars, connector, usb_detection_event_flag, state, detection, upc, glue>>

Cables == {"USB", "FACTORY", "OTHER"}
States == {"DISCONNECTED", "DEBOUNCING", "POLLING_REMOVAL"}

TypeOK ==
    /\ stat \in SUBSET EmuEvents /\ serviced \in SUBSET EmuEvents /\ todo \in SUBSET EmuEvents
    /\ mask \in SUBSET Events /\ pm_suspend_mask = {}
    /\ vbus \in BOOLEAN /\ cable \in Cables /\ plugs \in 0 .. MaxPlugs
    /\ usb_detection_event_flag \in BOOLEAN
    /\ state \in States /\ result \in States
    /\ cable_attached \in {"NONE", "USB", "FACTORY"}
    /\ connected \in SUBSET {"USB", "FACTORY"}
    /\ prev_vbus_state \in BOOLEAN
    /\ debounce_counter \in 0 .. (USB_DEBOUNCED - 1)
    /\ upc \in {"loop", "handler", "clear", "unmask", "assign", "branch", "waitInt",
                "waitTimeout", "reset", "gone", "null"}
    /\ callbacks \in [EmuEvents -> Seq({"usb", "emu"})]
    /\ emu_proc_opened \in BOOLEAN
    /\ emu_proc_event_int \in SUBSET EmuEvents
    /\ apc \in {"idle", "mask", "unsubscribe", "subscribe"}
    /\ entry \in 1 .. (Len(callbacks[USBI]) + 1)
    /\ opens \in 0 .. MaxOpens

(* emu_init: the light driver's handler is subscribed to VBUS and its      *)
(* thread is started; a cable may be in at power-up.                       *)
UsbInit ==
    /\ stat \in SUBSET {USBI} /\ mask = Events
    /\ serviced = {} /\ todo = {} /\ pm_suspend_mask = {}
    /\ vbus \in BOOLEAN /\ cable \in Cables /\ plugs = 0
    /\ usb_detection_event_flag = FALSE
    /\ state = "DEBOUNCING" /\ result = "DEBOUNCING"
    /\ cable_attached = "NONE" /\ connected = {}
    /\ prev_vbus_state = FALSE /\ debounce_counter = 0
    /\ upc = "loop"
    /\ callbacks = [e \in EmuEvents |-> IF e = USBI THEN <<"usb">> ELSE <<>>]
    /\ emu_proc_opened = FALSE
    /\ emu_proc_event_int = {}
    /\ apc = "idle" /\ entry = 1 /\ opens = 0

-----------------------------------------------------------------------------
(* VBUS comes or goes; another cable comes with a rise of VBUS.            *)
Plug ==
    /\ plugs < MaxPlugs
    /\ plugs' = plugs + 1
    /\ vbus' = ~vbus
    /\ IF Swaps /\ ~vbus THEN cable' \in Cables ELSE cable' = cable
    /\ Raise(USBI)
    /\ UNCHANGED <<usb_detection_event_flag, state, detection, upc, glue>>

(* The interrupt thread.                                                   *)
IntService ==
    /\ stat \ mask # {}
    /\ \E r \in {0, 1} : Service(r)
    /\ UNCHANGED <<connector, usb_detection_event_flag, state, detection, upc, glue>>

IntCollect ==
    /\ serviced # {}
    /\ BeginDispatch
    /\ UNCHANGED <<connector, usb_detection_event_flag, state, detection, upc, glue>>

(* execute_handlers stops at the first callback that returns non-zero, and *)
(* both handlers return 1: the first of the list is the only one called.   *)
FirstCallback(e, c) == callbacks[e] # <<>> /\ Head(callbacks[e]) = c

NoCallback(e) ==
    /\ callbacks[e] = <<>>
    /\ Dispatched(e)
    /\ UNCHANGED <<connector, usb_detection_event_flag, state, detection, upc, glue>>

(* Mutant: the handler does not tell the thread.                           *)
IntHandlerSilent(e) ==
    /\ FirstCallback(e, "usb")
    /\ Dispatched(e)
    /\ state' = "DEBOUNCING"
    /\ UNCHANGED <<connector, usb_detection_event_flag, detection, upc, glue>>

(* The mask call changes nothing: the service has just masked the event.   *)
usb_detection_int_handler(e) ==
    /\ FirstCallback(e, "usb")
    /\ Dispatched(e)
    /\ usb_detection_event_flag' = TRUE
    /\ state' = "DEBOUNCING"
    /\ UNCHANGED <<connector, detection, upc, glue>>

emu_glue_int_handler(e) ==
    /\ FirstCallback(e, "emu")
    /\ Dispatched(e)
    /\ emu_proc_event_int' = emu_proc_event_int \cup {e}
    /\ UNCHANGED <<connector, usb_detection_event_flag, state, detection, upc,
                   callbacks, emu_proc_opened, apc, entry, opens>>

-----------------------------------------------------------------------------
(* usb_detection_state_machine_thread.                                     *)
At(pc) == upc = pc /\ serviced = {} /\ todo = {}

(* The loop's condition; the state table has no handler for DISCONNECTED.  *)
ThreadLoop ==
    /\ At("loop")
    /\ IF emu_proc_opened
       THEN upc' = "gone" /\ state' = "DISCONNECTED"
       ELSE /\ upc' = IF state = "DISCONNECTED" THEN "null" ELSE "handler"
            /\ UNCHANGED state
    /\ UNCHANGED <<serviceVars, connector, usb_detection_event_flag, detection, glue>>

(* One sample of VBUS.                                                     *)
Sampled == IF vbus = prev_vbus_state THEN debounce_counter + 1 ELSE 0

Debouncing ==
    /\ At("handler")
    /\ state = "DEBOUNCING"
    /\ prev_vbus_state' = vbus

ContinueDebouncing ==
    /\ Debouncing
    /\ Sampled < USB_DEBOUNCED
    /\ debounce_counter' = Sampled
    /\ result' = "DEBOUNCING"
    /\ upc' = "assign"
    /\ UNCHANGED <<serviceVars, connector, usb_detection_event_flag, state, cable_attached,
                   connected, glue>>

(* Mutant: the counter is not reset.                                       *)
InsertionCounting ==
    /\ Debouncing
    /\ Sampled >= USB_DEBOUNCED
    /\ debounce_counter' = Sampled
    /\ vbus
    /\ cable # "OTHER"
    /\ cable_attached' = cable
    /\ connected' = connected \cup {cable}
    /\ result' = IF cable = "USB" THEN "POLLING_REMOVAL" ELSE "DISCONNECTED"
    /\ upc' = "assign"
    /\ UNCHANGED <<serviceVars, connector, usb_detection_event_flag, state, glue>>

(* moto_accy_notify_insert; nobody polls for the removal of a factory      *)
(* cable.                                                                  *)
Insertion ==
    /\ Debouncing
    /\ Sampled >= USB_DEBOUNCED
    /\ debounce_counter' = 0
    /\ vbus
    /\ cable # "OTHER"
    /\ cable_attached' = cable
    /\ connected' = connected \cup {cable}
    /\ result' = IF cable = "USB" THEN "POLLING_REMOVAL" ELSE "DISCONNECTED"
    /\ upc' = "assign"
    /\ UNCHANGED <<serviceVars, connector, usb_detection_event_flag, state, glue>>

UnsupportedCable ==
    /\ Debouncing
    /\ Sampled >= USB_DEBOUNCED
    /\ debounce_counter' = 0
    /\ vbus
    /\ cable = "OTHER"
    /\ result' = "DISCONNECTED"
    /\ upc' = "clear"
    /\ UNCHANGED <<serviceVars, connector, usb_detection_event_flag, state, cable_attached,
                   connected, glue>>

Removal ==
    /\ Debouncing
    /\ Sampled >= USB_DEBOUNCED
    /\ debounce_counter' = 0
    /\ ~vbus
    /\ cable_attached' = "NONE"
    /\ connected' = connected \ {cable_attached}
    /\ result' = "DISCONNECTED"
    /\ upc' = "clear"
    /\ UNCHANGED <<serviceVars, connector, usb_detection_event_flag, state, glue>>

(* Mutant: a removal is taken as debounced at once.                        *)
PollingStops ==
    /\ At("handler")
    /\ state = "POLLING_REMOVAL"
    /\ result' = IF vbus THEN "POLLING_REMOVAL" ELSE "DISCONNECTED"
    /\ upc' = "assign"
    /\ UNCHANGED <<serviceVars, connector, usb_detection_event_flag, state, cable_attached,
                   prev_vbus_state, debounce_counter, connected, glue>>

usb_detection_removal_polling_handler ==
    /\ At("handler")
    /\ state = "POLLING_REMOVAL"
    /\ result' = IF vbus THEN "POLLING_REMOVAL" ELSE "DEBOUNCING"
    /\ upc' = "assign"
    /\ UNCHANGED <<serviceVars, connector, usb_detection_event_flag, state, cable_attached,
                   prev_vbus_state, debounce_counter, connected, glue>>

(* power_ic_event_clear and power_ic_event_unmask, two register accesses.  *)
ThreadClear ==
    /\ At("clear")
    /\ Clear(USBI)
    /\ upc' = "unmask"
    /\ UNCHANGED <<connector, usb_detection_event_flag, state, detection, glue>>

ThreadUnmask ==
    /\ At("unmask")
    /\ Unmask(USBI)
    /\ upc' = "assign"
    /\ UNCHANGED <<connector, usb_detection_event_flag, state, detection, glue>>

(* state = state_table[state].handler()                                    *)
ThreadAssign ==
    /\ At("assign")
    /\ state' = result
    /\ upc' = "branch"
    /\ UNCHANGED <<serviceVars, connector, usb_detection_event_flag, detection, glue>>

ThreadBranch ==
    /\ At("branch")
    /\ upc' = IF state = "DISCONNECTED" THEN "waitInt" ELSE "waitTimeout"
    /\ UNCHANGED <<serviceVars, connector, usb_detection_event_flag, state, detection, glue>>

(* Both waits end when the flag is set, the second one also in time; the   *)
(* flag is reset after either.                                             *)
ThreadWoken ==
    /\ \/ At("waitInt") /\ usb_detection_event_flag
       \/ At("waitTimeout")
    /\ upc' = "reset"
    /\ UNCHANGED <<serviceVars, connector, usb_detection_event_flag, state, detection, glue>>

ThreadReset ==
    /\ At("reset")
    /\ usb_detection_event_flag' = FALSE
    /\ upc' = "loop"
    /\ UNCHANGED <<serviceVars, connector, state, detection, glue>>

-----------------------------------------------------------------------------
(* The application runs while the detection thread sleeps or waits for     *)
(* power_ic_access_mutex.                                                  *)
AppAt(pc) ==
    /\ apc = pc
    /\ serviced = {} /\ todo = {}
    /\ upc \in {"handler", "clear", "unmask", "waitInt", "waitTimeout", "gone", "null"}
    /\ upc = "waitInt" => ~usb_detection_event_flag

(* emu_proc_open, under emu_proc_opened_mutex; -EBUSY changes nothing.     *)
emu_proc_open ==
    /\ AppAt("idle")
    /\ opens < MaxOpens
    /\ ~emu_proc_opened
    /\ emu_proc_opened' = TRUE
    /\ opens' = opens + 1
    /\ apc' = "mask"
    /\ UNCHANGED <<serviceVars, connector, usb_detection_event_flag, state, detection, upc,
                   callbacks, emu_proc_event_int, entry>>

OpenMask ==
    /\ AppAt("mask")
    /\ Mask(USBI)
    /\ apc' = "unsubscribe"
    /\ UNCHANGED <<connector, usb_detection_event_flag, state, detection, upc,
                   callbacks, emu_proc_opened, emu_proc_event_int, entry, opens>>

(* power_ic_event_unsubscribe walks the list and takes every instance off  *)
(* it, with interrupts on and without a lock.                              *)
OpenUnsubscribe ==
    /\ AppAt("unsubscribe")
    /\ entry <= Len(callbacks[USBI])
    /\ IF callbacks[USBI][entry] = "usb"
       THEN callbacks' = [callbacks EXCEPT ![USBI] = RemoveAt(@, entry)] /\ UNCHANGED entry
       ELSE entry' = entry + 1 /\ UNCHANGED callbacks
    /\ UNCHANGED <<serviceVars, connector, usb_detection_event_flag, state, detection, upc,
                   emu_proc_opened, emu_proc_event_int, apc, opens>>

UnsubscribeEnds ==
    /\ AppAt("unsubscribe")
    /\ entry > Len(callbacks[USBI])
    /\ entry' = 1
    /\ apc' = "subscribe"
    /\ UNCHANGED <<serviceVars, connector, usb_detection_event_flag, state, detection, upc,
                   callbacks, emu_proc_opened, emu_proc_event_int, opens>>

(* power_ic_event_subscribe adds at the head and does not look for         *)
(* duplicates.                                                             *)
OpenSubscribe ==
    /\ AppAt("subscribe")
    /\ callbacks' = [e \in EmuEvents |-> <<"emu">> \o callbacks[e]]
    /\ apc' = "idle"
    /\ UNCHANGED <<serviceVars, connector, usb_detection_event_flag, state, detection, upc,
                   emu_proc_opened, emu_proc_event_int, entry, opens>>

emu_proc_release ==
    /\ AppAt("idle")
    /\ emu_proc_opened
    /\ emu_proc_opened' = FALSE
    /\ UNCHANGED <<serviceVars, connector, usb_detection_event_flag, state, detection, upc,
                   callbacks, emu_proc_event_int, apc, entry, opens>>

emu_proc_read ==
    /\ AppAt("idle")
    /\ emu_proc_opened
    /\ emu_proc_event_int' = {}
    /\ UNCHANGED <<serviceVars, connector, usb_detection_event_flag, state, detection, upc,
                   callbacks, emu_proc_opened, apc, entry, opens>>

(* POWER_IC_IOCTL_CMD_EMU_GLUE_SET_{VBUS,ID,SE1}_INT_MASK.                 *)
emu_proc_int_mask(e) ==
    /\ AppAt("idle")
    /\ emu_proc_opened
    /\ Mask(e) \/ Unmask(e)
    /\ UNCHANGED <<connector, usb_detection_event_flag, state, detection, upc, glue>>

-----------------------------------------------------------------------------
IntThread ==
    \/ IntService
    \/ IntCollect
    \/ \E e \in EmuEvents :
           NoCallback(e) \/ usb_detection_int_handler(e) \/ emu_glue_int_handler(e)

DetectionThread ==
    \/ ThreadLoop
    \/ ContinueDebouncing \/ Insertion \/ UnsupportedCable \/ Removal
    \/ usb_detection_removal_polling_handler
    \/ ThreadClear \/ ThreadUnmask \/ ThreadAssign \/ ThreadBranch
    \/ ThreadWoken \/ ThreadReset

Application ==
    \/ emu_proc_open \/ OpenMask \/ OpenUnsubscribe \/ UnsubscribeEnds \/ OpenSubscribe
    \/ emu_proc_release \/ emu_proc_read
    \/ \E e \in EmuEvents : emu_proc_int_mask(e)

UsbNext == Plug \/ IntThread \/ DetectionThread \/ Application

UsbSpec == UsbInit /\ [][UsbNext]_vars

(* The two kernel threads run when they can, and a timeout comes.          *)
UsbFairSpec == UsbSpec /\ WF_vars(IntThread) /\ WF_vars(DetectionThread)

-----------------------------------------------------------------------------
(* While the light driver is in charge, VBUS stays masked only while       *)
(* somebody will look at it again: its event is being dispatched, the      *)
(* thread has been told, or it is not waiting for an interrupt.  ("Do not  *)
(* umask the VBUS INT" after a factory cable is the exception meant.)      *)
MaskedIsWatched ==
    USBI \in mask /\ callbacks[USBI] = <<"usb">> /\ ~emu_proc_opened =>
        \/ USBI \in serviced \cup todo
        \/ usb_detection_event_flag
        \/ upc # "waitInt"
        \/ cable_attached = "FACTORY"

(* A USB cable is not left attached for ever: when VBUS stays away, its    *)
(* removal is found by polling, debounced and reported, whatever happened  *)
(* before, as long as user space has not taken over.  The other way out    *)
(* is the thread's call through the table's null entry, after which there  *)
(* is no thread (see WokenHasHandler).                                     *)
RemovalIsReported ==
    <>[](~vbus /\ opens = 0) => <>[]("USB" \notin connected \/ upc = "null")

(* "The handler sets the state machine state to USB DEBOUCING and wakes up *)
(* the thread": a thread that was woken finds a state with a handler.      *)
WokenHasHandler ==
    upc = "loop" /\ ~emu_proc_opened => state # "DISCONNECTED"
=============================================================================
