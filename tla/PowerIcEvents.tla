---------------------------- MODULE PowerIcEvents ----------------------------
(***************************************************************************)
(* Interrupt handling of the power IC: drivers/power_ic/core/event.c, the  *)
(* interrupt line of core/gpio.c and the locking of core/external.c.       *)
(*                                                                         *)
(* The chip drives one line high while some event is pending and not       *)
(* masked.  The line is edge triggered: a rising edge runs                 *)
(* power_ic_irq_handler, which sets interrupt_flag and wakes the           *)
(* interrupt thread; the thread runs power_ic_bh_handler, which polls the  *)
(* line and reads, clears and masks over a serial bus, register by         *)
(* register.  Clients call power_ic_event_mask, _unmask and _clear from    *)
(* threads of their own meanwhile.                                         *)
(*                                                                         *)
(* Every register access takes power_ic_access_mutex, but the bottom       *)
(* half's read-modify-write of a mask register is two accesses and         *)
(* releases it in between.  What keeps a client out of that gap is         *)
(* scheduling alone: the interrupt thread has the highest real-time        *)
(* priority of the driver (core/thread.h), there is one processor, and     *)
(* from one access to the next the thread does not block.  MayCall below   *)
(* states exactly that.                                                    *)
(***************************************************************************)
EXTENDS Integers

CONSTANTS
    NumEvents,      \* POWER_IC_EVENT_NUM_EVENTS
    SecondReg,      \* POWER_IC_EVENT_ATLAS_SECOND_REG
    SuspendEvents,  \* POWER_IC_ONOFF_MASK | POWER_IC_MB2_MASK | POWER_IC_HSDET_MASK
    ClientOps       \* the calls clients make, among "unmask", "mask", "clear"

Events == 0 .. (NumEvents - 1)

ASSUME PowerIcAssumption ==
    /\ NumEvents \in Nat \ {0}
    /\ SecondReg \in Nat
    /\ SuspendEvents \subseteq {e \in Events : e >= SecondReg}
    /\ ClientOps \subseteq {"unmask", "mask", "clear"}

(* The events whose bits are in status, mask and sense register r.         *)
RegEvents(r) == {e \in Events : (r = 1) <=> (e >= SecondReg)}

(* The register pair of an event.                                          *)
RegOf(e) == IF e >= SecondReg THEN 1 ELSE 0

VARIABLES
    \* The chip and the interrupt controller
    stat,               \* INT_STAT_0/1, the pending events
    mask,               \* INT_MASK_0/1, the masked events
    irq,                \* an edge is latched and the top half has not run
    \* The driver
    interrupt_flag,
    pm_suspend_mask,    \* power_ic_pm_suspend_mask_tbl, as a set of events
    call,               \* the client call that holds power_ic_access_mutex
    \* The interrupt thread
    pc,
    reg,                \* the register pair the bottom half works on
    isr, imr,           \* isr0/isr1 and imr0/imr1
    enabled             \* enabled_ints0 and enabled_ints1

chip == <<stat, mask, irq>>
locals == <<reg, isr, imr, enabled>>
vars == <<stat, mask, irq, interrupt_flag, pm_suspend_mask, call,
          pc, reg, isr, imr, enabled>>

NoCall == [op |-> "none", event |-> 0, old |-> {}]
Calls == [op : {"none", "unmask", "mask", "clear"}, event : Events, old : SUBSET Events]

PCs == {"wait", "reset", "line", "rdStat", "rdMask", "wrStat", "wrMask",
        "collect", "dispatch", "handlers"}

TypeOK ==
    /\ stat \in SUBSET Events
    /\ mask \in SUBSET Events
    /\ irq \in BOOLEAN
    /\ interrupt_flag \in BOOLEAN
    /\ pm_suspend_mask \in SUBSET SuspendEvents
    /\ call \in Calls
    /\ pc \in PCs
    /\ reg \in {0, 1}
    /\ isr \in [{0, 1} -> SUBSET Events]
    /\ imr \in [{0, 1} -> SUBSET Events]
    /\ enabled \in SUBSET Events

(* initialize_atlas_registers masks every event before                     *)
(* power_ic_event_initialize starts the thread and requests the interrupt. *)
Init ==
    /\ stat \in SUBSET Events
    /\ mask = Events
    /\ irq = FALSE
    /\ interrupt_flag = FALSE
    /\ pm_suspend_mask = {}
    /\ call = NoCall
    /\ pc = "wait"
    /\ reg = 0
    /\ isr = [r \in {0, 1} |-> {}]
    /\ imr = [r \in {0, 1} |-> {}]
    /\ enabled = {}

-----------------------------------------------------------------------------
(* power_ic_gpio_event_read_priint: the level of the line.                 *)
Line(st, mk) == st \ mk # {}

(* The chip's registers change; the controller latches a rising edge.      *)
SetChip(st, mk) ==
    /\ stat' = st
    /\ mask' = mk
    /\ irq' = (irq \/ (~Line(stat, mask) /\ Line(st, mk)))

(* The chip latches an event, at any time.                                 *)
Raise(e) ==
    /\ e \notin stat
    /\ SetChip(stat \cup {e}, mask)
    /\ UNCHANGED <<interrupt_flag, pm_suspend_mask, call, pc, locals>>

(* The top half.                                                           *)
power_ic_irq_handler ==
    /\ irq
    /\ irq' = FALSE
    /\ interrupt_flag' = TRUE
    /\ UNCHANGED <<stat, mask, pm_suspend_mask, call, pc, locals>>

-----------------------------------------------------------------------------
(* Mutant: no priority keeps clients out of the bottom half's passes.      *)
MayCallAnywhere == TRUE

(* Where a client can get at power_ic_access_mutex: anywhere but between   *)
(* two accesses of one pass over the registers.                            *)
MayCall ==
    \/ pc \in {"wait", "reset", "line", "collect", "dispatch", "handlers"}
    \/ pc = "rdStat" /\ reg = 0

(* A client call enters power_ic_set_reg_mask: it takes the mutex and, for *)
(* a mask register, reads the register from the chip (status registers are *)
(* NO_SPECIAL_READ and their RAM copy is zero).                            *)
BeginCall(op, e) ==
    /\ call = NoCall
    /\ MayCall
    /\ call' = [op |-> op, event |-> e,
                old |-> IF op = "clear" THEN {} ELSE mask \cap RegEvents(RegOf(e))]
    /\ UNCHANGED <<chip, interrupt_flag, pm_suspend_mask, pc, locals>>

(* The other events' half of the mask, which the call does not write.      *)
OtherReg(e) == mask \ RegEvents(RegOf(e))

(* The call writes the register back and releases the mutex.  Writing a    *)
(* one to a status bit clears it.                                          *)
EndCall ==
    /\ \/ /\ call.op = "unmask"
          /\ SetChip(stat, OtherReg(call.event) \cup (call.old \ {call.event}))
       \/ /\ call.op = "mask"
          /\ SetChip(stat, OtherReg(call.event) \cup (call.old \cup {call.event}))
       \/ /\ call.op = "clear"
          /\ SetChip(stat \ (call.old \cup {call.event}), mask)
    /\ call' = NoCall
    /\ UNCHANGED <<interrupt_flag, pm_suspend_mask, pc, locals>>

-----------------------------------------------------------------------------
(* interrupt_thread_loop.  wait_event_interruptible returns once the flag  *)
(* is set; the flag is reset before the bottom half runs.                  *)
ThreadWait ==
    /\ pc = "wait"
    /\ interrupt_flag
    /\ pc' = "reset"
    /\ UNCHANGED <<chip, interrupt_flag, pm_suspend_mask, call, locals>>

ThreadReset ==
    /\ pc = "reset"
    /\ interrupt_flag' = FALSE
    /\ pc' = "line"
    /\ UNCHANGED <<chip, pm_suspend_mask, call, locals>>

(* power_ic_bh_handler: loop while the chip asserts its line.              *)
BhLine ==
    /\ pc = "line"
    /\ pc' = IF Line(stat, mask) THEN "rdStat" ELSE "wait"
    /\ reg' = 0
    /\ UNCHANGED <<chip, interrupt_flag, pm_suspend_mask, call, isr, imr, enabled>>

(* Each register access waits for the mutex.                               *)
BhReadStat ==
    /\ pc = "rdStat"
    /\ call = NoCall
    /\ isr' = [isr EXCEPT ![reg] = stat \cap RegEvents(reg)]
    /\ pc' = "rdMask"
    /\ UNCHANGED <<chip, interrupt_flag, pm_suspend_mask, call, reg, imr, enabled>>

BhReadMask ==
    /\ pc = "rdMask"
    /\ call = NoCall
    /\ imr' = [imr EXCEPT ![reg] = mask \cap RegEvents(reg)]
    /\ pc' = "wrStat"
    /\ UNCHANGED <<chip, interrupt_flag, pm_suspend_mask, call, reg, isr, enabled>>

(* Mutant: clears every pending status bit, the masked ones included.      *)
BhWriteStatAll ==
    /\ pc = "wrStat"
    /\ call = NoCall
    /\ SetChip(stat \ isr[reg], mask)
    /\ pc' = "wrMask"
    /\ UNCHANGED <<interrupt_flag, pm_suspend_mask, call, locals>>

(* Clear the status bits of the unmasked interrupts only.                  *)
BhWriteStat ==
    /\ pc = "wrStat"
    /\ call = NoCall
    /\ SetChip(stat \ (isr[reg] \ imr[reg]), mask)
    /\ pc' = "wrMask"
    /\ UNCHANGED <<interrupt_flag, pm_suspend_mask, call, locals>>

(* Mask all interrupts about to be serviced, then go on to register 1.     *)
BhWriteMask ==
    /\ pc = "wrMask"
    /\ call = NoCall
    /\ SetChip(stat, (mask \ RegEvents(reg)) \cup imr[reg] \cup isr[reg])
    /\ pc' = IF reg = 0 THEN "rdStat" ELSE "collect"
    /\ reg' = 1
    /\ UNCHANGED <<interrupt_flag, pm_suspend_mask, call, isr, imr, enabled>>

(* Mutant: forgets the second register.                                    *)
BhCollectFirst ==
    /\ pc = "collect"
    /\ enabled' = isr[0] \ imr[0]
    /\ pm_suspend_mask' = pm_suspend_mask \cup ((isr[1] \ imr[1]) \cap SuspendEvents)
    /\ pc' = "dispatch"
    /\ UNCHANGED <<chip, interrupt_flag, call, reg, isr, imr>>

(* Mutant: collects every pending event, masked or not.                    *)
BhCollectPending ==
    /\ pc = "collect"
    /\ enabled' = isr[0] \cup isr[1]
    /\ pm_suspend_mask' = pm_suspend_mask \cup isr[1]
    /\ pc' = "dispatch"
    /\ UNCHANGED <<chip, interrupt_flag, call, reg, isr, imr>>

(* enabled_ints0/1, and the suspend bits of the interrupts received (only  *)
(* those of register 1).                                                   *)
BhCollect ==
    /\ pc = "collect"
    /\ enabled' = (isr[0] \ imr[0]) \cup (isr[1] \ imr[1])
    /\ pm_suspend_mask' = pm_suspend_mask \cup ((isr[1] \ imr[1]) \cap SuspendEvents)
    /\ pc' = "dispatch"
    /\ UNCHANGED <<chip, interrupt_flag, call, reg, isr, imr>>

(* Mutant: one pass per interrupt, `if' for `while'.                       *)
BhDispatchOnce ==
    /\ pc = "dispatch"
    /\ pc' = IF enabled = {} THEN "wait" ELSE "handlers"
    /\ UNCHANGED <<chip, interrupt_flag, pm_suspend_mask, call, locals>>

(* ffs picks the lowest bit, register 0 first; execute_handlers runs the   *)
(* callbacks, then the bit is cleared.  When none is left, look at the     *)
(* line again.                                                             *)
BhDispatch ==
    /\ pc = "dispatch"
    /\ pc' = IF enabled = {} THEN "line" ELSE "handlers"
    /\ UNCHANGED <<chip, interrupt_flag, pm_suspend_mask, call, locals>>

Handled(e) ==
    /\ pc = "handlers"
    /\ e \in enabled
    /\ \A f \in enabled : e <= f
    /\ enabled' = enabled \ {e}
    /\ pc' = "dispatch"
    /\ UNCHANGED <<chip, interrupt_flag, pm_suspend_mask, call, reg, isr, imr>>

Thread ==
    \/ ThreadWait \/ ThreadReset \/ BhLine \/ BhReadStat \/ BhReadMask
    \/ BhWriteStat \/ BhWriteMask \/ BhCollect \/ BhDispatch
    \/ \E e \in Events : Handled(e)

Next ==
    \/ \E e \in Events : Raise(e)
    \/ power_ic_irq_handler
    \/ \E op \in ClientOps, e \in Events : BeginCall(op, e)
    \/ EndCall
    \/ Thread

Spec == Init /\ [][Next]_vars

(* The controller delivers a latched interrupt, the threads that can run   *)
(* do run, and a thread that waits for the mutex is first in its queue     *)
(* some day: BhReadStat is where the interrupt thread can wait for it.     *)
Fairness ==
    /\ WF_vars(power_ic_irq_handler)
    /\ WF_vars(EndCall)
    /\ WF_vars(Thread)
    /\ SF_vars(BhReadStat)

FairSpec == Spec /\ Fairness

-----------------------------------------------------------------------------
(* Edge-triggered interrupts are not lost: whenever the line is high, an   *)
(* edge is latched, interrupt_flag is set, or the interrupt thread is in   *)
(* its loop and will look at the line before it sleeps.  The line could    *)
(* otherwise stay high for ever with nobody left to notice.                *)
NoLostEdge ==
    Line(stat, mask) => irq \/ interrupt_flag \/ pc # "wait"

(* A mask bit changes only where somebody meant it to: it is set by a      *)
(* client's mask call or by the bottom half for an event it goes on to     *)
(* dispatch ("Mask all interrupts that we are about to service"), and it   *)
(* is cleared by a client's unmask call.  The bottom half writes back a    *)
(* mask it read earlier, so this is where a client's call could be lost.   *)
MaskStep ==
    /\ \A e \in mask' \ mask :
            \/ call.op = "mask" /\ call.event = e
            \/ pc = "wrMask" /\ e \in isr[reg] \ imr[reg]
    /\ \A e \in mask \ mask' : call.op = "unmask" /\ call.event = e

MaskChangesAsAsked == [][MaskStep]_vars

(* What the bottom half has taken in this pass and not yet collected.      *)
Collected ==
    (IF pc \in {"wrMask", "collect"} \/ (reg = 1 /\ pc \in {"rdStat", "rdMask", "wrStat"})
     THEN isr[0] \ imr[0] ELSE {})
    \cup
    (IF pc = "collect" \/ (reg = 1 /\ pc = "wrMask") THEN isr[1] \ imr[1] ELSE {})

(* An event counts as masked from the moment its status bit is cleared.    *)
MaskOnceTaken ==
    IF pc = "wrMask" THEN mask \cup (isr[reg] \ imr[reg]) ELSE mask

Service == INSTANCE EventService
    WITH mask <- MaskOnceTaken, serviced <- Collected, todo <- enabled

(* The register traffic implements the abstract service: taking an event   *)
(* is indivisible although it is two bus writes with the chip free to      *)
(* raise events and the clients free to run around them.                   *)
ImplementsService == Service!Spec

(* An event that is pending and not masked has its callbacks run, unless   *)
(* a client masks or clears it first.  This is what power_ic_event_unmask  *)
(* promises of an event unmasked while pending, and it must hold whatever  *)
(* other events and other clients' calls come in between.                  *)
UnmaskedIsHandled ==
    \A e \in Events :
        e \in stat \ mask ~>
            \/ pc = "handlers" /\ e \in enabled /\ \A f \in enabled : e <= f
            \/ call.op \in {"mask", "clear"} /\ call.event = e
=============================================================================
