------------------------------ MODULE Debounce ------------------------------
(***************************************************************************)
(* Debouncing of the power key, the 3.5 mm headset and its send/end key:   *)
(* drivers/power_ic/module/debounce.c on top of the event service.         *)
(*                                                                         *)
(* An interrupt puts a table index on a queue; the debounce thread polls   *)
(* the event's sense bit, with a timer between polls, until it has seen    *)
(* the same value often enough, calls the entry's callback and unmasks the *)
(* interrupt.  A press of the headset key goes through three entries one   *)
(* after the other (MB2I, MB2I_DELAY, MB2I_FINAL), because it looks just   *)
(* like the headset being pulled out.                                      *)
(*                                                                         *)
(* The interrupt thread has the higher priority: the debounce thread does  *)
(* not run while the other has events in hand (IntThreadBlocked).          *)
(*                                                                         *)
(* A call of add_index is one step here, of which IndexQueue says what it  *)
(* may do; DebounceQueue models its lines.                                 *)
(***************************************************************************)
EXTENDS EventService, IndexQueue, FiniteSets

CONSTANTS
    PollCount,      \* poll_count of each table entry
    Forced,         \* the entries enabled in the table, put on the queue at init
    Inputs,         \* the events whose input the environment toggles
    MaxToggles,     \* bound: how often it does
    MaxOverlaps     \* bound: calls of add_index that another one overlaps

(* The three debounced events, in bit order, all in register 1.            *)
ONOFD1I == 0
MC2BI == 1
HSDETI == 2

(* DEBOUNCE_EVENT_INDEX_T and debounce_events[].                           *)
Index == {"POWER", "HEADSET", "MB2I", "MB2I_DELAY", "MB2I_FINAL"}

ASSUME DebounceAssumption ==
    /\ NumEvents = 3 /\ SecondReg = 0 /\ SuspendEvents = Events
    /\ PollCount \in [Index -> Nat]
    /\ \A i \in Index : PollCount[i] = 0 <=> i = "MB2I_DELAY"
    /\ Forced \in Seq({"POWER", "HEADSET"})
    /\ \A m, n \in 1 .. Len(Forced) : Forced[m] = Forced[n] => m = n
    /\ Inputs \subseteq Events
    /\ MaxToggles \in Nat /\ MaxOverlaps \in Nat
    /\ Len(Forced) < QueueMax

EventOf(i) ==
    CASE i = "POWER" -> ONOFD1I
      [] i = "HEADSET" -> HSDETI
      [] OTHER -> MC2BI

(* get_event_index: the primary entry of an event.                         *)
get_event_index(e) ==
    CASE e = ONOFD1I -> "POWER"
      [] e = HSDETI -> "HEADSET"
      [] e = MC2BI -> "MB2I"

VARIABLES
    sense,              \* INT_SENSE_1: the inputs that are high
    toggles,            \* how many times an input has changed
    overlaps,           \* how many calls of add_index have been overlapped
    self_wait,          \* the thread that waits for a mutex it holds, or "none"
    timers,             \* entries whose timer is pending
    enabled,            \* entries with .enabled set
    poll_current,
    previous_status,
    \* The debounce thread
    dpc,
    i,                  \* the entry in hand, "NONE" between entries
    status,
    hsdet_status,
    further,            \* further_handling_needed of the entry in hand
    saved,              \* the suspend mask as loaded by `&='
    \* What has been reported
    connected,          \* 3.5 mm headsets known to the accessory driver
    previous_key_state,
    power_key,          \* last KEYPAD_HANGUP event generated
    headset_key         \* last KEYPAD_HEADSET event generated

queueVars == <<indexVars, overlaps, self_wait>>
table == <<enabled, poll_current, previous_status>>
locals == <<i, status, hsdet_status, further, saved>>
reports == <<connected, previous_key_state, power_key, headset_key>>
debounceVars == <<sense, toggles, queueVars, timers, table, dpc, locals, reports>>
vars == <<serviceVars, debounceVars>>

ThreadPCs == {"idle", "begin", "clear", "sense", "decide", "callback", "attach",
              "attach2", "hsdet", "finish", "load", "store", "reset"}

TypeOK ==
    /\ stat \in SUBSET Events /\ mask \in SUBSET Events /\ sense \in SUBSET Events
    /\ serviced \in SUBSET Events /\ todo \in SUBSET Events
    /\ pm_suspend_mask \in SUBSET Events /\ saved \in SUBSET Events
    /\ toggles \in 0 .. MaxToggles
    /\ QueueTypeOK(Index)
    /\ overlaps \in 0 .. MaxOverlaps
    /\ self_wait \in {"none", "int", "deb"}
    /\ timers \in SUBSET Index
    /\ enabled \in SUBSET Index
    /\ poll_current \in [Index -> Nat]
    /\ previous_status \in [Index -> {-1, 0, 1}]
    /\ dpc \in ThreadPCs
    /\ i \in Index \cup {"NONE"}
    /\ status \in {-1, 0, 1}
    /\ hsdet_status \in {0, 1}
    /\ further \in {0, 1}
    /\ connected \in SUBSET {"STEREO", "STEREO_MIC"}
    /\ previous_key_state \in {"UNKNOWN", "PRESS", "RELEASE"}
    /\ power_key \in {"NONE", "KEYUP", "KEYDOWN"}
    /\ headset_key \in {"NONE", "KEYUP", "KEYDOWN"}

(* power_ic_debounce_init: the two enabled entries are forced onto the     *)
(* queue, so that the state at power-up gets reported.                     *)
DebounceInit ==
    /\ Init
    /\ sense \in SUBSET Events
    /\ toggles = 0
    /\ event_queue = Forced
    /\ queue_tail = Len(Forced)
    /\ lost = {}
    /\ overlaps = 0
    /\ self_wait = "none"
    /\ timers = {}
    /\ enabled = {Forced[n] : n \in 1 .. Len(Forced)}
    /\ poll_current = [k \in Index |-> 0]
    /\ previous_status = [k \in Index |-> -1]
    /\ dpc = "idle"
    /\ i = "NONE"
    /\ status = -1
    /\ hsdet_status = 0
    /\ further = 0
    /\ saved = {}
    /\ connected = {}
    /\ previous_key_state = "UNKNOWN"
    /\ power_key = "NONE"
    /\ headset_key = "NONE"

-----------------------------------------------------------------------------
(* The chip: an input changes level and its status bit is latched.         *)
Toggle(e) ==
    /\ toggles < MaxToggles
    /\ toggles' = toggles + 1
    /\ Raise(e)
    /\ sense' = (sense \ {e}) \cup ({e} \ sense)
    /\ UNCHANGED <<queueVars, timers, table, dpc, locals, reports>>

(* The interrupt thread.                                                   *)
IntService ==
    /\ self_wait # "int"
    /\ \E r \in {0, 1} : Service(r)
    /\ UNCHANGED debounceVars

IntCollect ==
    /\ self_wait # "int"
    /\ serviced # {}
    /\ BeginDispatch
    /\ UNCHANGED debounceVars

(* add_index: down() needs the mutex, and next_event may have been         *)
(* computed before another context's call.                                 *)
add_index(k) ==
    /\ self_wait = "none"
    /\ \/ Add(k, FreshNext) /\ UNCHANGED overlaps
       \/ /\ overlaps < MaxOverlaps
          /\ overlaps' = overlaps + 1
          /\ \E n \in StaleNexts : Add(k, n)
    /\ UNCHANGED self_wait

(* debounce_interrupt_handler returns 1: it is the only callback run.      *)
debounce_interrupt_handler(e) ==
    /\ Dispatched(e)
    /\ add_index(get_event_index(e))
    /\ UNCHANGED <<sense, toggles, timers, table, dpc, locals, reports>>

(* Mutant: timers are cyclic.                                              *)
TimerCyclic(k) ==
    /\ k \in timers
    /\ add_index(k)
    /\ UNCHANGED <<serviceVars, sense, toggles, timers, table, dpc, locals, reports>>

(* A timer fires once; the thread starts it again by hand.                 *)
debounce_timer_handler(k) ==
    /\ k \in timers
    /\ timers' = timers \ {k}
    /\ add_index(k)
    /\ UNCHANGED <<serviceVars, sense, toggles, table, dpc, locals, reports>>

-----------------------------------------------------------------------------
(* debounce_thread.  The thread runs while the interrupt thread sleeps or  *)
(* has not been scheduled yet.                                             *)
IntThreadBlocked == self_wait = "int" \/ (serviced = {} /\ todo = {})

At(pc) == dpc = pc /\ IntThreadBlocked /\ self_wait # "deb"

(* Back to the head of the loop: nothing of the entry in hand is used      *)
(* again.                                                                  *)
ThreadDone ==
    /\ dpc' = "idle"
    /\ i' = "NONE"
    /\ status' = -1
    /\ hsdet_status' = 0
    /\ further' = 0
    /\ saved' = {}

(* Take the next index; an entry that is not enabled is dropped.           *)
ThreadPop ==
    /\ At("idle")
    /\ self_wait = "none"
    /\ Take
    /\ IF Head(event_queue) \in enabled
       THEN i' = Head(event_queue) /\ dpc' = "begin"
       ELSE UNCHANGED <<i, dpc>>
    /\ UNCHANGED <<serviceVars, sense, toggles, overlaps, self_wait, timers, table, status,
                   hsdet_status, further, saved, reports>>

(* headset_3mm5_pre_debounce masks the key while the headset is debounced. *)
ThreadBegin ==
    /\ At("begin")
    /\ dpc' = IF PollCount[i] # 0 THEN "clear" ELSE "decide"
    /\ IF i = "HEADSET" /\ poll_current[i] = 0
       THEN Mask(MC2BI)
       ELSE UNCHANGED serviceVars
    /\ UNCHANGED <<sense, toggles, queueVars, timers, table, locals, reports>>

(* The interrupt flag is always cleared before the sense bit is read.      *)
ThreadClear ==
    /\ At("clear")
    /\ Clear(EventOf(i))
    /\ dpc' = "sense"
    /\ UNCHANGED <<sense, toggles, queueVars, timers, table, locals, reports>>

(* power_ic_event_sense_read.                                              *)
SenseBit(e) == IF e \in sense THEN 1 ELSE 0

ThreadSense ==
    /\ At("sense")
    /\ status' = SenseBit(EventOf(i))
    /\ IF status' = previous_status[i] /\ poll_current[i] <= PollCount[i]
       THEN /\ poll_current' = [poll_current EXCEPT ![i] = @ + 1]
            /\ UNCHANGED previous_status
       ELSE /\ poll_current' = [poll_current EXCEPT ![i] = 1]
            /\ previous_status' = [previous_status EXCEPT ![i] = status']
    /\ dpc' = "decide"
    /\ UNCHANGED <<serviceVars, sense, toggles, queueVars, timers, enabled, i, hsdet_status,
                   further, saved, reports>>

(* Mutant: one sample more than the counter can reach.                     *)
DecideTooLate ==
    /\ At("decide")
    /\ IF poll_current[i] > PollCount[i] + 1
       THEN dpc' = "callback" /\ UNCHANGED <<timers, locals>>
       ELSE ThreadDone /\ timers' = timers \cup {i}
    /\ UNCHANGED <<serviceVars, sense, toggles, queueVars, table, reports>>

(* Enough equal samples: call back.  Otherwise start the timer (add_timer  *)
(* of a pending timer moves its expiry).                                   *)
ThreadDecide ==
    /\ At("decide")
    /\ IF poll_current[i] > PollCount[i]
       THEN dpc' = "callback" /\ UNCHANGED <<timers, poll_current, locals>>
       ELSE /\ ThreadDone
            /\ timers' = timers \cup {i}
            /\ poll_current' = IF PollCount[i] = 0 THEN [poll_current EXCEPT ![i] = 1]
                                                   ELSE poll_current
    /\ UNCHANGED <<serviceVars, sense, toggles, queueVars, enabled, previous_status, reports>>

-----------------------------------------------------------------------------
(* The callbacks.  Polarity is 0 in every entry: a sense bit of 1 means    *)
(* "not pressed" for the keys and "attached" for the headset.              *)
Callback(k) == At("callback") /\ i = k

(* generate_key_event(KEYPAD_HANGUP, ...).                                 *)
power_key_handler ==
    /\ Callback("POWER")
    /\ power_key' = IF status # 0 THEN "KEYUP" ELSE "KEYDOWN"
    /\ dpc' = "finish"
    /\ UNCHANGED <<serviceVars, sense, toggles, queueVars, timers, table, locals, connected,
                   previous_key_state, headset_key>>

(* headset_3mm5_handler, headset not attached.                             *)
HeadsetRemoved ==
    /\ Callback("HEADSET")
    /\ status = 0
    /\ enabled' = enabled \ {"MB2I"}
    /\ headset_key' = IF "STEREO_MIC" \in connected /\ previous_key_state = "PRESS"
                      THEN "KEYUP" ELSE headset_key
    /\ connected' = {}
    /\ previous_key_state' = "UNKNOWN"
    /\ dpc' = "finish"
    /\ UNCHANGED <<serviceVars, sense, toggles, queueVars, timers, poll_current,
                   previous_status, locals, power_key>>

(* headset_3mm5_handler, headset attached: clear the key's status, read    *)
(* its sense bit to tell a headset with microphone, report, and let key    *)
(* interrupts in.                                                          *)
HeadsetAttached ==
    /\ Callback("HEADSET")
    /\ status # 0
    /\ Clear(MC2BI)
    /\ dpc' = "attach"
    /\ UNCHANGED <<sense, toggles, queueVars, timers, table, locals, reports>>

HeadsetReport ==
    /\ At("attach")
    /\ connected' = IF MC2BI \in sense THEN {"STEREO_MIC"} ELSE {"STEREO"}
    /\ dpc' = "attach2"
    /\ UNCHANGED <<serviceVars, sense, toggles, queueVars, timers, table, locals,
                   previous_key_state, power_key, headset_key>>

HeadsetKeyOn ==
    /\ At("attach2")
    /\ Unmask(MC2BI)
    /\ enabled' = enabled \cup {"MB2I"}
    /\ previous_key_state' = "UNKNOWN"
    /\ dpc' = "finish"
    /\ UNCHANGED <<sense, toggles, queueVars, timers, poll_current, previous_status, locals,
                   connected, power_key, headset_key>>

(* Mutant: the next entry is enabled but not queued.                       *)
SetupNotQueued(next) ==
    /\ further' = 1
    /\ enabled' = (enabled \ {i}) \cup {next}
    /\ UNCHANGED queueVars

(* setup_for_next_handler.                                                 *)
setup_for_next_handler(next) ==
    /\ further' = 1
    /\ enabled' = (enabled \ {i}) \cup {next}
    /\ add_index(next)

(* headset_key_preliminary_handler: a release is reported at once; without *)
(* a microphone known the headset is detected again.                       *)
KeyReleased ==
    /\ Callback("MB2I")
    /\ "STEREO_MIC" \in connected
    /\ status # 0
    /\ headset_key' = "KEYUP"
    /\ previous_key_state' = "RELEASE"
    /\ dpc' = "finish"
    /\ UNCHANGED <<serviceVars, sense, toggles, queueVars, timers, table, locals, connected,
                   power_key>>

KeyNoMic ==
    /\ Callback("MB2I")
    /\ "STEREO_MIC" \notin connected
    /\ add_index("HEADSET")
    /\ dpc' = "finish"
    /\ UNCHANGED <<serviceVars, sense, toggles, timers, table, locals, reports>>

(* A press, in the preliminary and in the final handler: read the headset  *)
(* detect status, then its sense bit; it counts only if the headset is in  *)
(* and has not moved.                                                      *)
KeyPressed ==
    /\ \/ Callback("MB2I") /\ "STEREO_MIC" \in connected
       \/ Callback("MB2I_FINAL")
    /\ status = 0
    /\ hsdet_status' = IF HSDETI \in stat THEN 1 ELSE 0
    /\ dpc' = "hsdet"
    /\ UNCHANGED <<serviceVars, sense, toggles, queueVars, timers, table, i, status, further,
                   saved, reports>>

PressCounts == hsdet_status = 0 /\ HSDETI \in sense

KeyPressedPreliminary ==
    /\ At("hsdet")
    /\ i = "MB2I"
    /\ IF PressCounts
       THEN setup_for_next_handler("MB2I_DELAY")
       ELSE UNCHANGED <<further, enabled, queueVars>>
    /\ dpc' = "finish"
    /\ UNCHANGED <<serviceVars, sense, toggles, timers, poll_current, previous_status, i, status,
                   hsdet_status, saved, reports>>

headset_key_delay_handler ==
    /\ Callback("MB2I_DELAY")
    /\ setup_for_next_handler("MB2I_FINAL")
    /\ dpc' = "finish"
    /\ UNCHANGED <<serviceVars, sense, toggles, timers, poll_current, previous_status, i, status,
                   hsdet_status, saved, reports>>

(* headset_key_final_handler.  If the key is up again by now, the press    *)
(* and the release are both reported.                                      *)
FinalEnables == enabled' = (enabled \ {"MB2I_FINAL"}) \cup {"MB2I"}

KeyFinalReleased ==
    /\ Callback("MB2I_FINAL")
    /\ status # 0
    /\ headset_key' = "KEYUP"
    /\ previous_key_state' = "RELEASE"
    /\ FinalEnables
    /\ dpc' = "finish"
    /\ UNCHANGED <<serviceVars, sense, toggles, queueVars, timers, poll_current,
                   previous_status, locals, connected, power_key>>

(* Mutant: a press that does not count is remembered as one to ignore.     *)
KeyFinalIgnored ==
    /\ At("hsdet")
    /\ i = "MB2I_FINAL"
    /\ IF PressCounts
       THEN headset_key' = "KEYDOWN" /\ previous_key_state' = "PRESS"
       ELSE previous_key_state' = "IGNORE" /\ UNCHANGED headset_key
    /\ FinalEnables
    /\ dpc' = "finish"
    /\ UNCHANGED <<serviceVars, sense, toggles, queueVars, timers, poll_current,
                   previous_status, locals, connected, power_key>>

KeyFinalPressed ==
    /\ At("hsdet")
    /\ i = "MB2I_FINAL"
    /\ IF PressCounts
       THEN headset_key' = "KEYDOWN" /\ previous_key_state' = "PRESS"
       ELSE UNCHANGED <<headset_key, previous_key_state>>
    /\ FinalEnables
    /\ dpc' = "finish"
    /\ UNCHANGED <<serviceVars, sense, toggles, queueVars, timers, poll_current,
                   previous_status, locals, connected, power_key>>

-----------------------------------------------------------------------------
(* The thread is in a critical section of its own: the pop or an add_index. *)
ThreadInMutex ==
    \/ At("idle") /\ queue_tail > 0
    \/ Callback("MB2I") /\ "STEREO_MIC" \notin connected
    \/ Callback("MB2I_DELAY")
    \/ At("hsdet") /\ i = "MB2I" /\ PressCounts

(* A timer that expires while the thread it interrupts holds the mutex:    *)
(* down() in the handler puts that very thread to sleep, and no index is   *)
(* added or taken ever again.                                              *)
TimerSelfWait(k) ==
    /\ k \in timers
    /\ self_wait = "none"
    /\ \/ todo # {} /\ self_wait' = "int"
       \/ ThreadInMutex /\ self_wait' = "deb"
    /\ timers' = timers \ {k}
    /\ lost' = Index
    /\ UNCHANGED <<serviceVars, sense, toggles, event_queue, queue_tail, overlaps, table, dpc,
                   locals, reports>>

-----------------------------------------------------------------------------
(* Mutant: the status bit is cleared when the interrupt is unmasked.       *)
UnmaskAndClear ==
    /\ At("finish")
    /\ IF further = 0
       THEN /\ mask' = mask \ {EventOf(i)}
            /\ stat' = stat \ {EventOf(i)}
            /\ dpc' = "load"
            /\ UNCHANGED <<serviced, todo, pm_suspend_mask>>
       ELSE UNCHANGED serviceVars /\ dpc' = "reset"
    /\ UNCHANGED <<sense, toggles, queueVars, timers, table, locals, reports>>

(* Unmask the interrupt, unless another entry carries on with the event.   *)
ThreadUnmask ==
    /\ At("finish")
    /\ IF further = 0
       THEN Unmask(EventOf(i)) /\ dpc' = "load"
       ELSE UNCHANGED serviceVars /\ dpc' = "reset"
    /\ UNCHANGED <<sense, toggles, queueVars, timers, table, locals, reports>>

(* power_ic_pm_suspend_mask_tbl[] &= ~bit: a load and a store.             *)
ThreadLoad ==
    /\ At("load")
    /\ saved' = pm_suspend_mask
    /\ dpc' = "store"
    /\ UNCHANGED <<serviceVars, sense, toggles, queueVars, timers, table, i, status,
                   hsdet_status, further, reports>>

(* Mutant: the suspend bit is written back as it was.                      *)
StoreUnchanged ==
    /\ At("store")
    /\ pm_suspend_mask' = saved
    /\ dpc' = "reset"
    /\ UNCHANGED <<stat, mask, serviced, todo, sense, toggles, queueVars, timers, table,
                   locals, reports>>

ThreadStore ==
    /\ At("store")
    /\ pm_suspend_mask' = saved \ {EventOf(i)}
    /\ dpc' = "reset"
    /\ UNCHANGED <<stat, mask, serviced, todo, sense, toggles, queueVars, timers, table,
                   locals, reports>>

(* The entry's counters are reset once its callback has run.               *)
ThreadReset ==
    /\ At("reset")
    /\ poll_current' = [poll_current EXCEPT ![i] = 0]
    /\ previous_status' = [previous_status EXCEPT ![i] = -1]
    /\ ThreadDone
    /\ UNCHANGED <<serviceVars, sense, toggles, queueVars, timers, enabled, reports>>

-----------------------------------------------------------------------------
IntThread ==
    \/ IntService
    \/ IntCollect
    \/ \E e \in Events : debounce_interrupt_handler(e)

Timers == \E k \in Index : debounce_timer_handler(k) \/ TimerSelfWait(k)

Callbacks ==
    \/ power_key_handler
    \/ HeadsetRemoved \/ HeadsetAttached \/ HeadsetReport \/ HeadsetKeyOn
    \/ KeyReleased \/ KeyNoMic \/ KeyPressed \/ KeyPressedPreliminary
    \/ headset_key_delay_handler
    \/ KeyFinalReleased \/ KeyFinalPressed

debounce_thread ==
    \/ ThreadPop \/ ThreadBegin \/ ThreadClear \/ ThreadSense \/ ThreadDecide
    \/ Callbacks
    \/ ThreadUnmask \/ ThreadLoad \/ ThreadStore \/ ThreadReset

DebounceNext ==
    \/ \E e \in Inputs : Toggle(e)
    \/ IntThread
    \/ Timers
    \/ debounce_thread

DebounceSpec == DebounceInit /\ [][DebounceNext]_vars

(* The threads run when they can, and a pending timer expires.             *)
DebounceFairness ==
    /\ WF_vars(IntThread)
    /\ \A k \in Index : WF_vars(debounce_timer_handler(k))
    /\ WF_vars(debounce_thread)

DebounceFairSpec == DebounceSpec /\ DebounceFairness

-----------------------------------------------------------------------------
(* An entry is in progress: its index is queued, in hand, or its timer is  *)
(* pending.                                                                *)
Queued(k) == \E n \in 1 .. queue_tail : event_queue[n] = k
InProgress(k) == Queued(k) \/ i = k \/ k \in timers
EventInProgress(e) ==
    \/ e \in serviced \cup todo
    \/ \E k \in Index : EventOf(k) = e /\ InProgress(k)

(* An index of one of the event's entries was dropped by a full queue or   *)
(* left out by overlapping calls of add_index.                             *)
EventLost(e) == \E k \in lost : EventOf(k) = e

(* "Once debouncing is complete, the interrupt is unmasked": an event that *)
(* some enabled entry debounces and that is masked is on its way to being  *)
(* unmasked.  The send/end key may also wait for the headset's debouncing. *)
(* Nothing else strands an event but the loss of its own index.            *)
MaskedIsInProgress ==
    \A k \in enabled :
        EventOf(k) \in mask =>
            \/ EventInProgress(EventOf(k)) \/ EventLost(EventOf(k))
            \/ EventOf(k) = MC2BI /\ (EventInProgress(HSDETI) \/ EventLost(HSDETI))

(* "the interrupt flag is always cleared whenever the interrupt sense is   *)
(* read ... when the interrupt is unmasked, the status is NOT cleared":    *)
(* whenever an input is at rest (nothing latched, masked or in progress),  *)
(* what was last reported is what the input reads.  (A redetection of the  *)
(* headset debounces without masking: if it has cleared a change that came *)
(* meanwhile and then loses its index, the headset rests unreported.)      *)
AtRest(e) == e \notin stat \cup mask /\ ~EventInProgress(e) /\ ~EventLost(e)

ReportedIsCurrent ==
    /\ AtRest(ONOFD1I) => power_key = IF ONOFD1I \in sense THEN "KEYUP" ELSE "KEYDOWN"
    /\ AtRest(HSDETI) => connected # {} <=> HSDETI \in sense

(* The same for the headset's key: while a headset is in and it and its    *)
(* key are at rest, a key state that was reported is the one the key is    *)
(* in.  (Without a headset the state may be stale: the final handler of a  *)
(* press that began before the removal records a release, and a second one *)
(* leaves it there, until the next headset resets it.)                     *)
KeyIsCurrent ==
    /\ AtRest(MC2BI) /\ AtRest(HSDETI)
    /\ connected # {} /\ previous_key_state # "UNKNOWN"
    => previous_key_state = IF MC2BI \in sense THEN "RELEASE" ELSE "PRESS"

(* "it is impossible for the queue to fill up".  Masking an interrupt      *)
(* while it is debounced keeps the power key to one index in the array,    *)
(* what overlapping calls have left past the tail included.                *)
Count(q, k) == Cardinality({n \in 1 .. Len(q) : q[n] = k})

PowerQueuedOnce == Count(event_queue, "POWER") <= 1

(* For the headset and its key masking is not enough: a redetection, and   *)
(* an index still queued when its event is unmasked, let several indices   *)
(* of an entry be on the queue at once.  But the driver makes no work by   *)
(* itself: timers, redetections and further handlers only carry on with    *)
(* what an interrupt began.  A change of the headset costs one index at a  *)
(* time, one of its key up to two (the redetection), and nothing else adds *)
(* to what is on the queue or may still come onto it.                      *)
One(b) == IF b THEN 1 ELSE 0

Indices(k) ==
    Count(event_queue, k) + One(k \in timers)
    + One(i = k /\ dpc \notin {"finish", "load", "store", "reset"})

Interrupts(e) == One(e \in stat) + One(e \in serviced) + One(e \in todo)

HeadsetWork ==
    Indices("HEADSET") + Interrupts(HSDETI)
    + 2 * (Indices("MB2I") + Interrupts(MC2BI))
    + Indices("MB2I_DELAY") + Indices("MB2I_FINAL")

QueueIsPaidFor == [][HeadsetWork' <= HeadsetWork + 2 * (toggles' - toggles)]_vars

(* Power-up determination and every later change: once the inputs rest,    *)
(* what the user space was told of the power key and of the headset        *)
(* becomes and stays what the inputs read, unless an index of that very    *)
(* entry was lost: losing another one does no harm.                        *)
FinallyReported ==
    /\ \/ <>("POWER" \in lost)
       \/ <>[](power_key = IF ONOFD1I \in sense THEN "KEYUP" ELSE "KEYDOWN")
    /\ \/ <>("HEADSET" \in lost)
       \/ <>[](connected # {} <=> HSDETI \in sense)

(* "Release power management": the power key and the headset never keep    *)
(* the phone awake for ever, unless an index of theirs was lost.           *)
SuspendReleased ==
    \A k \in {"POWER", "HEADSET"} :
        <>(k \in lost) \/ []<>(EventOf(k) \notin pm_suspend_mask)

-----------------------------------------------------------------------------
(* A statement of the source's comments that the code does not keep.       *)

(* power_ic_pm_suspend returns "-EBUSY if the power IC is busy": while an  *)
(* interrupt of the power key is being debounced, its suspend bit is set.  *)
(* (Before the first report the entry was forced by the initialization,    *)
(* without an interrupt.)                                                  *)
BusyBlocksSuspend ==
    power_key # "NONE" /\ "POWER" \in timers => ONOFD1I \in pm_suspend_mask
=============================================================================
