-------------------------------- MODULE Atod --------------------------------
(***************************************************************************)
(* The A/D converter driver, drivers/power_ic/module/atod.c: immediate     *)
(* ("exclusive") conversions of any application steal the converter from   *)
(* the hardware-timed ("postponable") battery/current conversion that the  *)
(* charger began, and restart it when they are done.  One step per         *)
(* register access; the event ADCDONEI is served by EventService.          *)
(*                                                                         *)
(* Applications preempt each other anywhere.  The interrupt thread         *)
(* preempts them all and, once it has taken ADCDONEI, runs the handler     *)
(* before any of them goes on.                                             *)
(***************************************************************************)
EXTENDS EventService

CONSTANTS
    Apps,        \* threads that use the converter
    Clients,     \* those that also use the non-blocking calls
    Timings,     \* the hardware timings, in and out of the transmit burst
    Faults       \* which errors occur: signals and bad user buffers, bad channels

ASSUME AtodAssumption ==
    /\ Clients \subseteq Apps
    /\ Timings # {} /\ "IMMEDIATE" \notin Timings
    /\ Faults \subseteq {"signal", "channel"}

ADCDONEI == 0
ASSUME AdcDoneIsEvent == ADCDONEI \in Events

VARIABLES
    \* The converter
    chan,           \* what it is set up for: the battery/current pair or other
    aden,           \* ADEN
    asc,            \* ASC: an immediate conversion is under way
    shot,           \* the one-shot trigger: "fresh", "armed" or "used"
    \* atod.c
    hardware_mutex,
    postponable_mutex,
    postponable_conversion_started,
    postponable_conversion_event_flag,
    postponable_conversion_timing,
    last_conversion,
    \* The applications
    pc,
    request,        \* the timing an application asked for
    dummy,          \* the exclusive conversion under way is a begin's dummy
    spoiled         \* history: what has come in the way of the last begin or restart

chip == <<chan, aden, asc, shot>>
locks == <<hardware_mutex, postponable_mutex>>
flags == <<postponable_conversion_started, postponable_conversion_event_flag>>
timing == <<postponable_conversion_timing, last_conversion>>
call == <<request, dummy>>
vars == <<serviceVars, chip, locks, flags, timing, pc, call, spoiled>>

ExclusivePcs == {"xDown", "xMask", "xSetUp", "xStart", "xPoll", "xDisable", "xStarted",
                 "xFlag", "xBatt", "xClear", "xUnmask", "xTime", "xArm", "xUp"}
BeginPcs == {"bDownP", "bDownH", "bSetUp", "bClear", "bUnmask", "bTime", "bArm", "bUp"}
EndPcs == {"rDown", "rReset", "cDown", "cMask", "cReset"}

(* The lines of a restart, from the test of its second condition on.       *)
RestartPcs == {"xFlag", "xBatt", "xClear", "xUnmask", "xTime", "xArm"}

(* What may spoil an outstanding conversion: an exclusive conversion of a  *)
(* channel the chip does not have; a read or cancel that comes into a      *)
(* restart or leaves the interrupt unmasked; a begin on top of another     *)
(* one, or after a look at a last_conversion that is no longer the last.   *)
Spoils == {"channel", "ended", "twice", "stale"}

TypeOK ==
    /\ stat \in SUBSET Events /\ mask \in SUBSET Events
    /\ chan \in {"batt", "other"} /\ aden \in BOOLEAN /\ asc \in BOOLEAN
    /\ shot \in {"fresh", "armed", "used"}
    /\ hardware_mutex \in {0, 1} /\ postponable_mutex \in {0, 1}
    /\ postponable_conversion_started \in BOOLEAN
    /\ postponable_conversion_event_flag \in BOOLEAN
    /\ postponable_conversion_timing \in Timings
    /\ last_conversion \in Timings \cup {"IMMEDIATE"}
    /\ pc \in [Apps -> {"idle"} \cup ExclusivePcs \cup BeginPcs \cup EndPcs]
    /\ request \in [Apps -> Timings]
    /\ dummy \in SUBSET Apps
    /\ spoiled \subseteq Spoils

AtodInit ==
    /\ stat = {} /\ mask = Events
    /\ serviced = {} /\ todo = {} /\ pm_suspend_mask = {}
    /\ chan = "other" /\ aden = FALSE /\ asc = FALSE /\ shot = "fresh"
    /\ hardware_mutex = 1 /\ postponable_mutex = 1
    /\ postponable_conversion_started = FALSE
    /\ postponable_conversion_event_flag = FALSE
    /\ postponable_conversion_timing = CHOOSE t \in Timings : TRUE
    /\ last_conversion = "IMMEDIATE"
    /\ pc = [a \in Apps |-> "idle"]
    /\ request = [a \in Apps |-> CHOOSE t \in Timings : TRUE]
    /\ dummy = {}
    /\ spoiled = {}

-----------------------------------------------------------------------------
(* The converter (external).  A transmit burst triggers the armed one-shot *)
(* if the converter is enabled; an immediate conversion ends by itself.    *)
Burst ==
    /\ shot = "armed" /\ aden
    /\ shot' = "used"
    /\ Raise(ADCDONEI)
    /\ UNCHANGED <<chan, aden, asc, locks, flags, timing, pc, call, spoiled>>

ImmediateEnds ==
    /\ asc
    /\ asc' = FALSE
    /\ Raise(ADCDONEI)
    /\ UNCHANGED <<chan, aden, shot, locks, flags, timing, pc, call, spoiled>>

(* "one shot doesn't function for consecutive hardware-trigged atod": it   *)
(* needs an immediate conversion in between.                               *)
Armed == IF shot = "fresh" THEN "armed" ELSE "used"

(* ADTRIGIGN set: the trigger is ignored, whatever it was.                 *)
Ignored == IF shot = "armed" THEN "used" ELSE shot

-----------------------------------------------------------------------------
(* A conversion that was begun, has not completed and is not cancelled.    *)
Outstanding == postponable_conversion_started /\ ~postponable_conversion_event_flag

(* The interrupt thread.                                                   *)
IntService ==
    /\ stat \ mask # {}
    /\ Service(0)
    /\ UNCHANGED <<chip, locks, flags, timing, pc, call, spoiled>>

IntCollect ==
    /\ serviced # {}
    /\ BeginDispatch
    /\ UNCHANGED <<chip, locks, flags, timing, pc, call, spoiled>>

atod_complete_event_handler ==
    /\ Dispatched(ADCDONEI)
    /\ postponable_conversion_event_flag' = TRUE
    /\ aden' = FALSE /\ shot' = Ignored
    /\ UNCHANGED <<chan, asc, locks, postponable_conversion_started, timing, pc, call, spoiled>>

-----------------------------------------------------------------------------
At(a, p) == pc[a] = p /\ serviced = {} /\ todo = {}

Go(a, p) == pc' = [pc EXCEPT ![a] = p]

(* A register access that sets up the converter, by application a.         *)
SetUp(a, p, q, c) ==
    /\ At(a, p)
    /\ chan' = c /\ aden' = TRUE
    /\ Go(a, q)
    /\ UNCHANGED <<serviceVars, asc, shot, locks, timing, call>>

ClearDone(a, p, q) ==
    /\ At(a, p)
    /\ Clear(ADCDONEI)
    /\ Go(a, q)
    /\ UNCHANGED <<chip, locks, flags, timing, call, spoiled>>

UnmaskDone(a, p, q) ==
    /\ At(a, p)
    /\ Unmask(ADCDONEI)
    /\ Go(a, q)
    /\ UNCHANGED <<chip, locks, flags, timing, call, spoiled>>

(* start_conversion with a hardware timing: the delay, then arm_one_shot.  *)
SetTime(a, p, q, t) ==
    /\ At(a, p)
    /\ last_conversion' = t
    /\ shot' = Ignored
    /\ Go(a, q)
    /\ UNCHANGED <<serviceVars, chan, aden, asc, locks, flags, postponable_conversion_timing,
                   call, spoiled>>

arm_one_shot(a, p, q) ==
    /\ At(a, p)
    /\ shot' = Armed
    /\ Go(a, q)
    /\ UNCHANGED <<serviceVars, chan, aden, asc, locks, flags, last_conversion, call>>

-----------------------------------------------------------------------------
(* exclusive_conversion.                                                   *)
ExclusiveCall(a) ==
    /\ At(a, "idle")
    /\ Go(a, "xDown")
    /\ UNCHANGED <<serviceVars, chip, locks, flags, timing, call, spoiled>>

(* Mutant: the mutex is released although a signal kept it from being had. *)
ExclusiveSignalledUp(a) ==
    /\ "signal" \in Faults
    /\ At(a, "xDown")
    /\ hardware_mutex' = hardware_mutex + 1
    /\ dummy' = dummy \ {a}
    /\ Go(a, "idle")
    /\ UNCHANGED <<serviceVars, chip, postponable_mutex, flags, timing, request, spoiled>>

(* A signal while waiting for the mutex: -EINTR.                           *)
ExclusiveSignalled(a) ==
    /\ "signal" \in Faults
    /\ At(a, "xDown")
    /\ dummy' = dummy \ {a}
    /\ Go(a, "idle")
    /\ UNCHANGED <<serviceVars, chip, locks, flags, timing, request, spoiled>>

ExclusiveDown(a) ==
    /\ At(a, "xDown")
    /\ hardware_mutex > 0
    /\ hardware_mutex' = hardware_mutex - 1
    /\ Go(a, "xMask")
    /\ UNCHANGED <<serviceVars, chip, postponable_mutex, flags, timing, call, spoiled>>

(* Mutant: the interrupt is left unmasked.                                 *)
ExclusiveMaskNot(a) ==
    /\ At(a, "xMask")
    /\ Go(a, "xSetUp")
    /\ UNCHANGED <<serviceVars, chip, locks, flags, timing, call, spoiled>>

ExclusiveMask(a) ==
    /\ At(a, "xMask")
    /\ \/ postponable_conversion_started /\ Mask(ADCDONEI)
       \/ ~postponable_conversion_started /\ UNCHANGED serviceVars
    /\ Go(a, "xSetUp")
    /\ UNCHANGED <<chip, locks, flags, timing, call, spoiled>>

set_up_hardware_exclusive_conversion(a) ==
    /\ \E c \in {"batt", "other"} : SetUp(a, "xSetUp", "xStart", c)
    /\ UNCHANGED <<flags, spoiled>>

(* -EINVAL for a channel the chip does not have, with the interrupt still  *)
(* masked: the outstanding conversion is not restarted.  A dummy           *)
(* conversion is of the whole bank.                                        *)
ExclusiveInvalid(a) ==
    /\ "channel" \in Faults
    /\ At(a, "xSetUp")
    /\ a \notin dummy
    /\ spoiled' = IF Outstanding THEN spoiled \cup {"channel"} ELSE spoiled
    /\ Go(a, "xUp")
    /\ UNCHANGED <<serviceVars, chip, locks, flags, timing, call>>

ExclusiveStart(a) ==
    /\ At(a, "xStart")
    /\ last_conversion' = "IMMEDIATE"
    /\ asc' = TRUE /\ shot' = "fresh"
    /\ Go(a, "xPoll")
    /\ UNCHANGED <<serviceVars, chan, aden, locks, flags, postponable_conversion_timing, call, spoiled>>

(* ASC has cleared; the results are read.                                  *)
ExclusivePoll(a) ==
    /\ At(a, "xPoll")
    /\ ~asc
    /\ Go(a, "xDisable")
    /\ UNCHANGED <<serviceVars, chip, locks, flags, timing, call, spoiled>>

disable_converter(a) ==
    /\ At(a, "xDisable")
    /\ aden' = FALSE /\ shot' = Ignored
    /\ Go(a, "xStarted")
    /\ UNCHANGED <<serviceVars, chan, asc, locks, flags, timing, call, spoiled>>

(* if (postponable_conversion_started && !postponable_conversion_event_flag) *)
ExclusiveStarted(a) ==
    /\ At(a, "xStarted")
    /\ Go(a, IF postponable_conversion_started THEN "xFlag" ELSE "xUp")
    /\ UNCHANGED <<serviceVars, chip, locks, flags, timing, call, spoiled>>

(* Mutant: the test is the wrong way round.                                *)
ExclusiveFlagInverted(a) ==
    /\ At(a, "xFlag")
    /\ Go(a, IF postponable_conversion_event_flag THEN "xBatt" ELSE "xUp")
    /\ UNCHANGED <<serviceVars, chip, locks, flags, timing, call, spoiled>>

ExclusiveFlag(a) ==
    /\ At(a, "xFlag")
    /\ Go(a, IF postponable_conversion_event_flag THEN "xUp" ELSE "xBatt")
    /\ UNCHANGED <<serviceVars, chip, locks, flags, timing, call, spoiled>>

(* Mutant: the converter, just disabled, is not enabled again.             *)
RestartSetUpDisabled(a) ==
    /\ At(a, "xBatt")
    /\ chan' = "batt"
    /\ Go(a, "xClear")
    /\ UNCHANGED <<serviceVars, aden, asc, shot, locks, flags, timing, call, spoiled>>

RestartSetUp(a) == SetUp(a, "xBatt", "xClear", "batt") /\ UNCHANGED <<flags, spoiled>>

RestartClear(a) == ClearDone(a, "xClear", "xUnmask")

RestartUnmask(a) == UnmaskDone(a, "xUnmask", "xTime")

RestartTime(a) == SetTime(a, "xTime", "xArm", postponable_conversion_timing)

RestartArm(a) ==
    /\ arm_one_shot(a, "xArm", "xUp")
    /\ spoiled' = IF postponable_conversion_started THEN {} ELSE spoiled
    /\ UNCHANGED postponable_conversion_timing

(* The end of the call; a dummy conversion is followed by the begin.       *)
ExclusiveUp(a) ==
    /\ At(a, "xUp")
    /\ hardware_mutex' = hardware_mutex + 1
    /\ Go(a, IF a \in dummy THEN "bDownP" ELSE "idle")
    /\ dummy' = dummy \ {a}
    /\ UNCHANGED <<serviceVars, chip, postponable_mutex, flags, timing, request, spoiled>>

-----------------------------------------------------------------------------
(* POWER_IC_IOCTL_ATOD_BEGIN_CONVERSION: a dummy conversion if the last    *)
(* one was hardware-timed, then non_blocking_conversion.                   *)
BeginCall(a, t) ==
    /\ At(a, "idle")
    /\ a \in Clients
    /\ request' = [request EXCEPT ![a] = t]
    /\ \/ /\ last_conversion # "IMMEDIATE"
          /\ dummy' = dummy \cup {a}
          /\ Go(a, "xDown")
       \/ /\ last_conversion = "IMMEDIATE"
          /\ UNCHANGED dummy
          /\ Go(a, "bDownP")
    /\ UNCHANGED <<serviceVars, chip, locks, flags, timing, spoiled>>

BeginDownP(a) ==
    /\ At(a, "bDownP")
    /\ postponable_mutex > 0
    /\ postponable_mutex' = postponable_mutex - 1
    /\ Go(a, "bDownH")
    /\ UNCHANGED <<serviceVars, chip, hardware_mutex, flags, timing, call, spoiled>>

BeginDownH(a) ==
    /\ At(a, "bDownH")
    /\ hardware_mutex > 0
    /\ hardware_mutex' = hardware_mutex - 1
    /\ Go(a, "bSetUp")
    /\ UNCHANGED <<serviceVars, chip, postponable_mutex, flags, timing, call, spoiled>>

(* -EINTR from either wait; the second return keeps postponable_mutex.     *)
BeginSignalled(a) ==
    /\ "signal" \in Faults
    /\ At(a, "bDownP") \/ At(a, "bDownH")
    /\ Go(a, "idle")
    /\ UNCHANGED <<serviceVars, chip, locks, flags, timing, call, spoiled>>

BeginSetUp(a) ==
    /\ SetUp(a, "bSetUp", "bClear", "batt")
    /\ postponable_conversion_started' = TRUE
    /\ postponable_conversion_event_flag' = FALSE
    /\ spoiled' = spoiled \cup
           {w \in {"twice"} : shot # "fresh" /\ postponable_conversion_started}
           \cup {w \in {"stale"} : shot # "fresh" /\ ~postponable_conversion_started}

BeginClear(a) == ClearDone(a, "bClear", "bUnmask")

BeginUnmask(a) == UnmaskDone(a, "bUnmask", "bTime")

BeginTime(a) == SetTime(a, "bTime", "bArm", request[a])

BeginArm(a) ==
    /\ arm_one_shot(a, "bArm", "bUp")
    /\ postponable_conversion_timing' = request[a]
    /\ spoiled' = IF shot = "fresh" THEN {} ELSE spoiled

BeginUp(a) ==
    /\ At(a, "bUp")
    /\ hardware_mutex' = hardware_mutex + 1
    /\ postponable_mutex' = postponable_mutex + 1
    /\ Go(a, "idle")
    /\ UNCHANGED <<serviceVars, chip, flags, timing, call, spoiled>>

-----------------------------------------------------------------------------
(* atod_read with a result to read, and                                    *)
(* power_ic_atod_nonblock_cancel_conversion with one to cancel; without,   *)
(* they return at once.                                                    *)
ReadCall(a) ==
    /\ At(a, "idle")
    /\ a \in Clients
    /\ postponable_conversion_event_flag
    /\ Go(a, "rDown")
    /\ UNCHANGED <<serviceVars, chip, locks, flags, timing, call, spoiled>>

CancelCall(a) ==
    /\ At(a, "idle")
    /\ a \in Clients
    /\ postponable_conversion_started
    /\ Go(a, "cDown")
    /\ UNCHANGED <<serviceVars, chip, locks, flags, timing, call, spoiled>>

EndDown(a) ==
    /\ postponable_mutex > 0
    /\ postponable_mutex' = postponable_mutex - 1
    /\ \/ At(a, "rDown") /\ Go(a, "rReset")
       \/ At(a, "cDown") /\ Go(a, "cMask")
    /\ UNCHANGED <<serviceVars, chip, hardware_mutex, flags, timing, call, spoiled>>

(* -EINTR from the wait, or -EFAULT, which keeps postponable_mutex.        *)
EndFails(a) ==
    /\ "signal" \in Faults
    /\ At(a, "rDown") \/ At(a, "cDown") \/ At(a, "rReset")
    /\ Go(a, "idle")
    /\ UNCHANGED <<serviceVars, chip, locks, flags, timing, call, spoiled>>

CancelMask(a) ==
    /\ At(a, "cMask")
    /\ Mask(ADCDONEI)
    /\ Go(a, "cReset")
    /\ UNCHANGED <<chip, locks, flags, timing, call, spoiled>>

EndReset(a) ==
    /\ At(a, "rReset") \/ At(a, "cReset")
    /\ postponable_conversion_started' = FALSE
    /\ postponable_conversion_event_flag' = FALSE
    /\ postponable_mutex' = postponable_mutex + 1
    /\ Go(a, "idle")
    /\ spoiled' = IF ADCDONEI \notin mask \/ \E b \in Apps : pc[b] \in RestartPcs
                  THEN spoiled \cup {"ended"} ELSE spoiled
    /\ UNCHANGED <<serviceVars, chip, hardware_mutex, timing, call>>

-----------------------------------------------------------------------------
Converter == Burst \/ ImmediateEnds

IntThread == IntService \/ IntCollect \/ atod_complete_event_handler

exclusive_conversion(a) ==
    \/ ExclusiveDown(a) \/ ExclusiveMask(a)
    \/ set_up_hardware_exclusive_conversion(a)
    \/ ExclusiveStart(a) \/ ExclusivePoll(a) \/ disable_converter(a)
    \/ ExclusiveStarted(a) \/ ExclusiveFlag(a)
    \/ RestartSetUp(a) \/ RestartClear(a) \/ RestartUnmask(a)
    \/ RestartTime(a) \/ RestartArm(a)
    \/ ExclusiveUp(a)

non_blocking_conversion(a) ==
    \/ BeginDownP(a) \/ BeginDownH(a) \/ BeginSetUp(a) \/ BeginClear(a)
    \/ BeginUnmask(a) \/ BeginTime(a) \/ BeginArm(a) \/ BeginUp(a)

EndConversion(a) == EndDown(a) \/ CancelMask(a) \/ EndReset(a)

InCall(a) == exclusive_conversion(a) \/ non_blocking_conversion(a) \/ EndConversion(a)

AtodNext ==
    \/ Converter
    \/ IntThread
    \/ \E a \in Apps :
           \/ InCall(a)
           \/ ExclusiveCall(a) \/ ReadCall(a) \/ CancelCall(a)
           \/ \E t \in Timings : BeginCall(a, t)
           \/ ExclusiveSignalled(a) \/ ExclusiveInvalid(a)
           \/ BeginSignalled(a) \/ EndFails(a)

AtodSpec == AtodInit /\ [][AtodNext]_vars

(* Bursts come, conversions end, and every thread runs when it can.        *)
AtodFairSpec ==
    /\ AtodSpec
    /\ WF_vars(Burst) /\ WF_vars(ImmediateEnds) /\ WF_vars(IntThread)
    /\ \A a \in Apps : WF_vars(InCall(a))

-----------------------------------------------------------------------------
(* When the converter is nobody's, the outstanding conversion is armed, on *)
(* the right channels and with its interrupt unmasked, or its completion   *)
(* is on its way to the handler.                                           *)
ArmedAtRest ==
    /\ Outstanding
    /\ hardware_mutex = 1
    /\ \A a \in Apps : pc[a] # "cReset"
    => \/ ADCDONEI \in serviced \cup todo
       \/ /\ ADCDONEI \notin mask
          /\ ADCDONEI \in stat \/ (shot = "armed" /\ aden /\ chan = "batt")

(* However often it was stolen and whichever calls came together: the      *)
(* conversion that is outstanding is armed, or one of four things has come *)
(* in its way since it was begun or restarted last (exclusive_conversion:  *)
(* "Once this conversion is complete, the other conversion will be         *)
(* restarted").                                                            *)
OutstandingIsArmed == spoiled = {} => ArmedAtRest

(* The same for a conversion that was not begun on top of another,         *)
(* whatever a cancel of the one before it has come across:                 *)
(* postponable_conversion_started "must only be modified when the          *)
(* converter lock is held", and so a cancelled conversion is over.         *)
CancelledIsOver == "twice" \notin spoiled => ArmedAtRest

(* An exclusive conversion "cannot be interrupted by any other             *)
(* conversion": the handler, which reads the results and turns the         *)
(* converter off without the hardware mutex, never runs in the middle,     *)
(* unless a read or a cancel has come into a restart.                      *)
ExclusiveUndisturbed ==
    "ended" \notin spoiled /\ ADCDONEI \in todo =>
        \A a \in Apps : pc[a] \notin {"xStart", "xPoll", "xDisable"}

(* Once exclusive conversions leave the converter alone, a conversion that *)
(* was begun completes, unless it is cancelled or spoiled.                 *)
OutstandingCompletes ==
    <>[](\A a \in Apps : pc[a] # "xMask") =>
        (Outstanding ~> ~Outstanding \/ spoiled # {})
=============================================================================
