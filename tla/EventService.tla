---------------------------- MODULE EventService ----------------------------
(***************************************************************************)
(* What drivers/power_ic/core/event.c promises its clients, with the       *)
(* register traffic left out: a pending unmasked event is taken            *)
(* ("serviced") by clearing and masking it in one indivisible step, every  *)
(* event taken is dispatched to its callbacks exactly once, lowest event   *)
(* number first, and nothing but a client's own call or such a step ever   *)
(* masks or clears an event.                                               *)
(*                                                                         *)
(* PowerIcEvents implements this specification; Debounce is built on it    *)
(* (and adds the clearing of pm_suspend_mask, which is debounce.c's).      *)
(***************************************************************************)
EXTENDS Integers

CONSTANTS
    NumEvents,      \* POWER_IC_EVENT_NUM_EVENTS
    SecondReg,      \* POWER_IC_EVENT_ATLAS_SECOND_REG
    SuspendEvents   \* events whose service forbids suspend until released

(* Events are numbered as POWER_IC_EVENT_T numbers them.                   *)
Events == 0 .. (NumEvents - 1)

ASSUME EventsAssumption ==
    /\ NumEvents \in Nat \ {0}
    /\ SecondReg \in Nat
    /\ SuspendEvents \subseteq Events

(* The events whose bits are in the status, mask and sense registers r.    *)
RegEvents(r) == {e \in Events : (r = 1) <=> (e >= SecondReg)}

VARIABLES
    stat,               \* INT_STAT_0/1: events pending in the chip
    mask,               \* INT_MASK_0/1: events masked in the chip
    serviced,           \* events taken in this pass, not yet up for dispatch
    todo,               \* events whose callbacks are still to be run
    pm_suspend_mask     \* power_ic_pm_suspend_mask_tbl, as a set of events

serviceVars == <<stat, mask, serviced, todo, pm_suspend_mask>>

Init ==
    /\ stat \in SUBSET Events
    /\ mask = Events
    /\ serviced = {}
    /\ todo = {}
    /\ pm_suspend_mask = {}

-----------------------------------------------------------------------------
(* The chip latches an event.                                              *)
Raise(e) ==
    /\ stat' = stat \cup {e}
    /\ UNCHANGED <<mask, serviced, todo, pm_suspend_mask>>

(* power_ic_event_unmask, power_ic_event_mask and power_ic_event_clear.    *)
Unmask(e) ==
    /\ mask' = mask \ {e}
    /\ UNCHANGED <<stat, serviced, todo, pm_suspend_mask>>

Mask(e) ==
    /\ mask' = mask \cup {e}
    /\ UNCHANGED <<stat, serviced, todo, pm_suspend_mask>>

Clear(e) ==
    /\ stat' = stat \ {e}
    /\ UNCHANGED <<mask, serviced, todo, pm_suspend_mask>>

(* The bottom half takes pending, unmasked events of one register.         *)
Service(r) ==
    \E S \in SUBSET (stat \cap RegEvents(r)) :
        /\ S \cap mask = {}
        /\ stat' = stat \ S
        /\ mask' = mask \cup S
        /\ serviced' = serviced \cup S
        /\ UNCHANGED <<todo, pm_suspend_mask>>

(* The events taken from both registers are put up for dispatch, and those *)
(* that must keep the phone awake are noted.                               *)
BeginDispatch ==
    /\ todo = {}
    /\ todo' = serviced
    /\ serviced' = {}
    /\ pm_suspend_mask' = pm_suspend_mask \cup (serviced \cap SuspendEvents)
    /\ UNCHANGED <<stat, mask>>

(* The callbacks of the lowest-numbered event have run.                    *)
Dispatched(e) ==
    /\ e \in todo
    /\ \A f \in todo : e <= f
    /\ todo' = todo \ {e}
    /\ UNCHANGED <<stat, mask, serviced, pm_suspend_mask>>

Next ==
    \/ \E e \in Events : \/ Raise(e) \/ Unmask(e) \/ Mask(e) \/ Clear(e)
                         \/ Dispatched(e)
    \/ \E r \in {0, 1} : Service(r)
    \/ BeginDispatch

Spec == Init /\ [][Next]_serviceVars
=============================================================================
