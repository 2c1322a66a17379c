------------------------------ MODULE DevicePm ------------------------------
(***************************************************************************)
(* System suspend: enter_state of kernel/power/main.c and the walks over   *)
(* the device lists of drivers/base/power/{main,suspend,resume}.c, with    *)
(* what other processes do to the same devices: registration, removal and  *)
(* the runtime power states written through sysfs (runtime.c, sysfs.c).    *)
(*                                                                         *)
(* dpm_sem is held during each walk with interrupts on, dpm_list_sem is    *)
(* let go around every driver call.  As CONFIG_MOT_FEAT_PM compiles        *)
(* freeze_processes out, other processes run whenever interrupts are on.   *)
(* Drivers, the platform code and MPM's verdict are external.              *)
(***************************************************************************)
EXTENDS Integers, SequencesExt

CONSTANTS
    Devices,
    Parent,         \* [d |-> its parent, or NoDevice]
    NoDevice,
    Late,           \* devices whose driver says -EAGAIN while interrupts are on
    HotPlug,        \* devices that come and go
    Meanwhile,      \* what others do during an attempt: "add", "remove", "runtime"
    LowStates,      \* low-power states that may be written to sysfs
    MaxAttempts,    \* bound: suspend attempts
    MaxChanges      \* bound: operations of other processes

ASSUME DevicePmAssumption ==
    /\ IsFiniteSet(Devices) /\ NoDevice \notin Devices
    /\ Parent \in [Devices -> Devices \cup {NoDevice}]
    /\ Late \subseteq Devices
    /\ HotPlug \subseteq Devices
    /\ Meanwhile \subseteq {"add", "remove", "runtime"}
    /\ LowStates \subseteq Nat \ {0}
    /\ MaxAttempts \in Nat /\ MaxChanges \in Nat

VARIABLES
    registered,     \* devices known to the driver model
    dpm_active, dpm_off, dpm_off_irq,
    power_state,    \* dev->power.power_state: 0 is on
    prev_state,     \* dev->power.prev_state
    hw,             \* whether the device is powered
    pc,             \* where the suspending process is
    cur,            \* the device whose driver was called
    error,
    walk,           \* devices of dpm_off_irq still to be powered down
    attempts, changes,
    meddled,        \* history: devices that others changed in the middle of an attempt
    misplaced       \* history: devices registered behind the back of a walk

lists == <<dpm_active, dpm_off, dpm_off_irq>>
states == <<power_state, prev_state, hw>>
history == <<meddled, misplaced>>
vars == <<registered, lists, states, pc, cur, error, walk, attempts, changes, history>>

Children(d) == {c \in registered : Parent[c] = d}

TypeOK ==
    /\ registered \subseteq Devices
    /\ \A l \in {dpm_active, dpm_off, dpm_off_irq} : l \in Seq(Devices) /\ IsInjective(l)
    /\ power_state \in [Devices -> LowStates \cup {0}]
    /\ prev_state \in [Devices -> LowStates \cup {0}]
    /\ hw \in [Devices -> BOOLEAN]
    /\ pc \in {"idle", "suspend", "move", "ready", "down", "asleep", "up", "finish", "resume"}
    /\ cur \in Devices \cup {NoDevice}
    /\ error \in {"none", "EBUSY", "EAGAIN"}
    /\ walk \in 0 .. Len(dpm_off_irq)
    /\ attempts \in 0 .. MaxAttempts /\ changes \in 0 .. MaxChanges
    /\ meddled \subseteq Devices /\ misplaced \subseteq Devices

(* All devices have been discovered, parents first.                        *)
Init ==
    /\ registered = Devices
    /\ dpm_active \in {s \in [1 .. Cardinality(Devices) -> Devices] :
                          /\ IsInjective(s) /\ ToSet(s) = Devices
                          /\ \A i \in DOMAIN s : \A j \in 1 .. i : Parent[s[j]] # s[i]}
    /\ dpm_off = <<>> /\ dpm_off_irq = <<>>
    /\ power_state = [d \in Devices |-> 0]
    /\ prev_state = [d \in Devices |-> 0]
    /\ hw = [d \in Devices |-> TRUE]
    /\ pc = "idle" /\ cur = NoDevice /\ error = "none" /\ walk = 0
    /\ attempts = 0 /\ changes = 0
    /\ meddled = {} /\ misplaced = {}

-----------------------------------------------------------------------------
(* suspend_device, with the outcomes its driver can have: none, and no     *)
(* call of the driver, for a device already in a low-power state.          *)
Outcomes(d, irqs) ==
    IF power_state[d] # 0 THEN {"none"}
    ELSE IF irqs /\ d \in Late THEN {"EAGAIN"}
    ELSE {"none", "EBUSY"}

(* Mutant: the state before the suspend is not kept.                       *)
SuspendForgets(d, outcome) ==
    /\ UNCHANGED prev_state
    /\ hw' = [hw EXCEPT ![d] = @ /\ (power_state[d] # 0 \/ outcome # "none")]

suspend_device(d, outcome) ==
    /\ prev_state' = [prev_state EXCEPT ![d] = power_state[d]]
    /\ hw' = [hw EXCEPT ![d] = @ /\ (power_state[d] # 0 \/ outcome # "none")]

-----------------------------------------------------------------------------
(* enter_state, suspend_prepare: device_suspend takes dpm_sem.  What       *)
(* others did in an earlier attempt matters no more, unless they left the  *)
(* device in what is recorded as a low-power state.                        *)
EnterState ==
    /\ pc = "idle"
    /\ attempts < MaxAttempts
    /\ attempts' = attempts + 1
    /\ error' = "none"
    /\ pc' = "suspend"
    /\ meddled' = {d \in meddled : power_state[d] # 0}
    /\ UNCHANGED <<registered, lists, states, cur, walk, changes, misplaced>>

(* device_suspend: the last device's driver is called without              *)
(* dpm_list_sem.                                                           *)
SuspendDevice ==
    /\ pc = "suspend"
    /\ error = "none" /\ dpm_active # <<>>
    /\ cur' = Last(dpm_active)
    /\ \E o \in Outcomes(Last(dpm_active), TRUE) :
           suspend_device(Last(dpm_active), o) /\ error' = o
    /\ pc' = "move"
    /\ UNCHANGED <<registered, lists, power_state, walk, attempts, changes, history>>

(* list_del: a device has one entry, on whichever list it is.              *)
Without(l, d) ==
    IF d \in ToSet(l) THEN RemoveAt(l, CHOOSE k \in 1 .. Len(l) : l[k] = d) ELSE l

(* Mutant: no look whether the device was removed meanwhile.               *)
MoveUnchecked ==
    /\ pc = "move"
    /\ dpm_active' = IF error = "EBUSY" THEN dpm_active ELSE Without(dpm_active, cur)
    /\ dpm_off' = IF error = "none" THEN <<cur>> \o dpm_off ELSE dpm_off
    /\ dpm_off_irq' = IF error = "EAGAIN" THEN <<cur>> \o dpm_off_irq ELSE dpm_off_irq
    /\ error' = IF error = "EAGAIN" THEN "none" ELSE error
    /\ pc' = "suspend"
    /\ UNCHANGED <<registered, states, cur, walk, attempts, changes, history>>

(* Mutant: the device goes to the back of its list.                        *)
MoveToBack ==
    /\ pc = "move"
    /\ cur \in registered
    /\ dpm_active' = IF error = "EBUSY" THEN dpm_active ELSE Without(dpm_active, cur)
    /\ dpm_off' = IF error = "none" THEN Append(dpm_off, cur) ELSE dpm_off
    /\ dpm_off_irq' = IF error = "EAGAIN" THEN Append(dpm_off_irq, cur) ELSE dpm_off_irq
    /\ error' = IF error = "EAGAIN" THEN "none" ELSE error
    /\ pc' = "suspend"
    /\ UNCHANGED <<registered, states, cur, walk, attempts, changes, history>>

(* A device that is still registered moves to the front of its list.       *)
MoveSuspended ==
    /\ pc = "move"
    /\ cur \in registered
    /\ dpm_active' = IF error = "EBUSY" THEN dpm_active ELSE Without(dpm_active, cur)
    /\ dpm_off' = IF error = "none" THEN <<cur>> \o dpm_off ELSE dpm_off
    /\ dpm_off_irq' = IF error = "EAGAIN" THEN <<cur>> \o dpm_off_irq ELSE dpm_off_irq
    /\ error' = IF error = "EAGAIN" THEN "none" ELSE error
    /\ pc' = "suspend"
    /\ UNCHANGED <<registered, states, cur, walk, attempts, changes, history>>

MoveRemoved ==
    /\ pc = "move"
    /\ cur \notin registered
    /\ pc' = "suspend"
    /\ UNCHANGED <<registered, lists, states, cur, error, walk, attempts, changes, history>>

(* Mutant: the error is not passed on.                                     *)
SuspendEndsWell ==
    /\ pc = "suspend"
    /\ error # "none" \/ dpm_active = <<>>
    /\ pc' = "ready"
    /\ UNCHANGED <<registered, lists, states, cur, error, walk, attempts, changes, history>>

(* Mutant: only an empty list ends the walk.                               *)
SuspendEndsEmpty ==
    /\ pc = "suspend"
    /\ dpm_active = <<>>
    /\ pc' = IF error # "none" THEN "resume" ELSE "ready"
    /\ UNCHANGED <<registered, lists, states, cur, error, walk, attempts, changes, history>>

(* The end of device_suspend: after an error it calls dpm_resume, still    *)
(* holding dpm_sem; suspend_prepare then fails.                            *)
SuspendEnds ==
    /\ pc = "suspend"
    /\ error # "none" \/ dpm_active = <<>>
    /\ pc' = IF error # "none" THEN "resume" ELSE "ready"
    /\ UNCHANGED <<registered, lists, states, cur, error, walk, attempts, changes, history>>

(* suspend_enter, from here on with interrupts off: MPM's verdict ...      *)
MpmReadyToSleep ==
    /\ pc = "ready"
    /\ \/ pc' = "down" /\ walk' = Len(dpm_off_irq)
       \/ pc' = "finish" /\ UNCHANGED walk
    /\ UNCHANGED <<registered, lists, states, cur, error, attempts, changes, history>>

(* ... device_power_down, from the back of dpm_off_irq ...                 *)
PowerDownDevice ==
    /\ pc = "down"
    /\ walk > 0
    /\ \E o \in Outcomes(dpm_off_irq[walk], FALSE) :
           /\ suspend_device(dpm_off_irq[walk], o)
           /\ pc' = IF o = "none" THEN "down" ELSE "up"
           /\ walk' = IF o = "none" THEN walk - 1 ELSE 0
    /\ UNCHANGED <<registered, lists, power_state, cur, error, attempts, changes, history>>

(* ... and sysdev_suspend, which may fail.                                 *)
SysdevSuspend ==
    /\ pc = "down"
    /\ walk = 0
    /\ pc' \in {"asleep", "up"}
    /\ UNCHANGED <<registered, lists, states, cur, error, walk, attempts, changes, history>>

Wake ==
    /\ pc = "asleep"
    /\ pc' = "up"
    /\ UNCHANGED <<registered, lists, states, cur, error, walk, attempts, changes, history>>

(* dpm_power_up does not look at prev_state.                               *)
PowerUpDevice ==
    /\ pc = "up"
    /\ dpm_off_irq # <<>>
    /\ dpm_off_irq' = Tail(dpm_off_irq)
    /\ dpm_active' = Append(dpm_active, Head(dpm_off_irq))
    /\ hw' = [hw EXCEPT ![Head(dpm_off_irq)] = TRUE]
    /\ UNCHANGED <<registered, dpm_off, power_state, prev_state, pc, cur, error, walk,
                   attempts, changes, history>>

PowerUpEnds ==
    /\ pc = "up"
    /\ dpm_off_irq = <<>>
    /\ pc' = "finish"
    /\ UNCHANGED <<registered, lists, states, cur, error, walk, attempts, changes, history>>

(* suspend_finish: device_resume takes dpm_sem.                            *)
SuspendFinish ==
    /\ pc = "finish"
    /\ pc' = "resume"
    /\ UNCHANGED <<registered, lists, states, cur, error, walk, attempts, changes, history>>

ResumeDevice ==
    /\ pc = "resume"
    /\ dpm_off # <<>>
    /\ LET d == Head(dpm_off) IN
           /\ dpm_off' = Tail(dpm_off)
           /\ dpm_active' = Append(dpm_active, d)
           /\ hw' = [hw EXCEPT ![d] = @ \/ prev_state[d] = 0]
    /\ UNCHANGED <<registered, dpm_off_irq, power_state, prev_state, pc, cur, error, walk,
                   attempts, changes, history>>

ResumeEnds ==
    /\ pc = "resume"
    /\ dpm_off = <<>>
    /\ pc' = "idle"
    /\ UNCHANGED <<registered, lists, states, cur, error, walk, attempts, changes, history>>

-----------------------------------------------------------------------------
(* Other processes, while interrupts are on.                               *)
Others(op) ==
    /\ pc \notin {"down", "asleep", "up"}
    /\ pc = "idle" \/ op \in Meanwhile
    /\ changes < MaxChanges
    /\ changes' = changes + 1

(* Device d is registered when its parent has been taken, or is being      *)
(* taken, from dpm_active: it is on a list before its parent from now on.  *)
(* An early device with a late parent is not, as long as the walk over     *)
(* dpm_active is still to come.                                            *)
BehindParent(d) ==
    \/ Parent[d] \in ToSet(dpm_off)
    \/ Parent[d] \in ToSet(dpm_off_irq) /\ (d \in Late \/ pc = "ready")
    \/ /\ pc = "move" /\ Parent[d] = cur
       /\ error = "none" \/ (error = "EAGAIN" /\ d \in Late)

device_pm_add(d) ==
    /\ Others("add")
    /\ d \in HotPlug \ registered
    /\ Parent[d] \in registered \cup {NoDevice}
    /\ registered' = registered \cup {d}
    /\ dpm_active' = Append(dpm_active, d)
    /\ power_state' = [power_state EXCEPT ![d] = 0]
    /\ prev_state' = [prev_state EXCEPT ![d] = 0]
    /\ hw' = [hw EXCEPT ![d] = TRUE]
    /\ meddled' = IF pc = "ready" THEN meddled \cup {d} ELSE meddled \ {d}
    /\ misplaced' = IF BehindParent(d) THEN misplaced \cup {d} ELSE misplaced \ {d}
    /\ UNCHANGED <<dpm_off, dpm_off_irq, pc, cur, error, walk, attempts>>

(* The entry of a device whose driver is being called is empty from now    *)
(* on, even if the same device is registered again.                        *)
device_pm_remove(d) ==
    /\ Others("remove")
    /\ d \in HotPlug \cap registered
    /\ Children(d) = {}
    /\ registered' = registered \ {d}
    /\ dpm_active' = Without(dpm_active, d)
    /\ dpm_off' = Without(dpm_off, d)
    /\ dpm_off_irq' = Without(dpm_off_irq, d)
    /\ cur' = IF cur = d THEN NoDevice ELSE cur
    /\ UNCHANGED <<states, pc, error, walk, attempts, history>>

(* state_store of sysfs.c; both need dpm_sem.                              *)
Runtime(d) ==
    /\ Others("runtime")
    /\ pc \in {"idle", "ready", "finish"}
    /\ d \in registered
    /\ meddled' = IF pc = "idle" THEN meddled \ {d} ELSE meddled \cup {d}
    /\ UNCHANGED <<registered, lists, pc, cur, error, walk, attempts, misplaced>>

dpm_runtime_resume(d) ==
    /\ Runtime(d)
    /\ power_state[d] # 0
    /\ hw' = [hw EXCEPT ![d] = TRUE]
    /\ power_state' = [power_state EXCEPT ![d] = 0]
    /\ UNCHANGED prev_state

(* A device in another low-power state is resumed first, so the driver is  *)
(* called for one that is on; it may refuse.                               *)
dpm_runtime_suspend(d, s) ==
    /\ Runtime(d)
    /\ power_state[d] # s
    /\ prev_state' = [prev_state EXCEPT ![d] = 0]
    /\ \/ /\ d \notin Late
          /\ hw' = [hw EXCEPT ![d] = FALSE]
          /\ power_state' = [power_state EXCEPT ![d] = s]
       \/ /\ hw' = [hw EXCEPT ![d] = @ \/ power_state[d] # 0]
          /\ power_state' = [power_state EXCEPT ![d] = 0]

-----------------------------------------------------------------------------
Attempt ==
    \/ SuspendDevice \/ MoveSuspended \/ MoveRemoved \/ SuspendEnds
    \/ MpmReadyToSleep \/ PowerDownDevice \/ SysdevSuspend
    \/ Wake \/ PowerUpDevice \/ PowerUpEnds
    \/ SuspendFinish \/ ResumeDevice \/ ResumeEnds

Next ==
    \/ EnterState
    \/ Attempt
    \/ \E d \in Devices :
           \/ device_pm_add(d) \/ device_pm_remove(d)
           \/ dpm_runtime_resume(d)
           \/ \E s \in LowStates : dpm_runtime_suspend(d, s)

Spec == Init /\ [][Next]_vars

(* The suspending process goes on, drivers return, and something wakes the *)
(* phone.                                                                  *)
FairSpec == Spec /\ WF_vars(Attempt)

-----------------------------------------------------------------------------
(* A registered device is on exactly one list and a removed one on none,   *)
(* although it may go while its driver is being called ("Check if the      *)
(* device got removed").                                                   *)
OnOneList ==
    /\ ToSet(dpm_active \o dpm_off \o dpm_off_irq) = registered
    /\ IsInjective(dpm_active \o dpm_off \o dpm_off_irq)

(* "Save state and stop all devices in system": when the platform sleeps,  *)
(* no device is powered, except those that others registered after the     *)
(* walk or wrote to in the middle of an attempt.                           *)
AsleepAllOff == pc = "asleep" => \A d \in registered \ meddled : ~hw[d]

(* After an attempt, however it ended, nothing is left suspended: every    *)
(* device that others left alone during it is in the power state that is   *)
(* recorded for it.                                                        *)
Restored ==
    pc = "idle" => /\ dpm_off = <<>>
                   /\ \A d \in registered \ meddled : hw[d] <=> power_state[d] = 0

(* The walks cannot keep device d in its place in the tree: it was         *)
(* registered behind the back of a walk, or is a late child of an early    *)
(* parent.                                                                 *)
Astray(d) == d \in misplaced \/ (d \in Late /\ Parent[d] \notin Late)

(* "we operate on the leaves of the device tree first [...] the ancestors  *)
(* will be accessed before their descendents": a walk takes power from a   *)
(* device only when its children have none, and gives it only when its     *)
(* parent has it (or was put to sleep by hand), after any failed attempts  *)
(* and whatever others have registered, removed or written meanwhile,      *)
(* except to those very children.                                          *)
TreeOrder ==
    [][Attempt =>
         \A d \in registered :
             /\ hw[d] /\ ~hw'[d] =>
                    \A c \in Children(d) : ~hw[c] \/ c \in meddled \/ Astray(c)
             /\ ~hw[d] /\ hw'[d] => \/ Parent[d] = NoDevice
                                    \/ hw[Parent[d]]
                                    \/ power_state[Parent[d]] # 0
                                    \/ Astray(d)]_vars

(* Every attempt ends.                                                     *)
AttemptEnds == pc # "idle" ~> pc = "idle"
=============================================================================
