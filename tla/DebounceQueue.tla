---------------------------- MODULE DebounceQueue ----------------------------
(***************************************************************************)
(* The queue of debounce.c: add_index, the pop in debounce_thread, and     *)
(* debounce_access_mutex.                                                  *)
(*                                                                         *)
(* Three contexts add: the interrupt thread (debounce_interrupt_handler),  *)
(* the debounce thread itself (setup_for_next_handler and the redetection  *)
(* of headset_key_preliminary_handler) and the timer softirq               *)
(* (debounce_timer_handler).  add_index computes the new tail before it    *)
(* takes the mutex.                                                        *)
(*                                                                         *)
(* There is one processor.  The interrupt thread has the higher priority;  *)
(* the softirq interrupts whichever thread runs and finishes before any    *)
(* thread goes on, unless the mutex is taken: then down() puts the         *)
(* interrupted thread itself to sleep (the kernel is built without         *)
(* PREEMPT_SOFTIRQS).                                                      *)
(*                                                                         *)
(* Every call of add_index is numbered, so that its index can be told from *)
(* an equal one.  The module implements IndexQueue, on which Debounce is   *)
(* built.                                                                  *)
(***************************************************************************)
EXTENDS Integers

CONSTANTS
    QueueMax,       \* QUEUE_MAX_EVENTS
    MaxAdds         \* bound: calls of add_index

ASSUME QueueAssumption ==
    /\ QueueMax \in Nat /\ QueueMax > 1
    /\ MaxAdds \in Nat

Slots == 0 .. (QueueMax - 1)
Ids == 1 .. MaxAdds
Threads == {"int", "deb"}

VARIABLES
    event_queue, queue_head, queue_tail,
    mutex,          \* who holds debounce_access_mutex, or "free"
    pc,             \* of the two threads
    id,             \* the add_index call each of them is in
    next_event,     \* its local variable next_event
    asleep,         \* the thread that sleeps in the softirq's down(), or "none"
    timer,          \* that softirq's call and its next_event
    adds,           \* how many calls have begun
    added,          \* the calls that have put their index into the queue
    taken,          \* the calls whose index the debounce thread has taken
    overtaken,      \* history: calls that another one's store came into the middle of
    lost            \* history: calls whose index was dropped or fell out of the queue

queue == <<event_queue, queue_head, queue_tail>>
history == <<overtaken, lost>>
vars == <<queue, mutex, pc, id, next_event, asleep, timer, adds, added, taken, history>>

TypeOK ==
    /\ event_queue \in [Slots -> Ids \cup {0}]
    /\ queue_head \in Slots /\ queue_tail \in Slots
    /\ mutex \in Threads \cup {"free"}
    /\ pc \in [Threads -> {"idle", "next", "down", "store", "up", "test", "popDown",
                           "pop", "popUp", "process"}]
    /\ id \in [Threads -> Ids \cup {0}]
    /\ next_event \in [Threads -> Slots]
    /\ asleep \in Threads \cup {"none"}
    /\ timer \in [id : Ids \cup {0}, next_event : Slots]
    /\ adds \in 0 .. MaxAdds
    /\ added \in SUBSET Ids /\ taken \in SUBSET Ids
    /\ overtaken \in SUBSET Ids /\ lost \in SUBSET Ids

NoTimer == [id |-> 0, next_event |-> 0]

Init ==
    /\ event_queue = [s \in Slots |-> 0]
    /\ queue_head = 0 /\ queue_tail = 0
    /\ mutex = "free"
    /\ pc = [int |-> "idle", deb |-> "test"]
    /\ id = [t \in Threads |-> 0]
    /\ next_event = [t \in Threads |-> 0]
    /\ asleep = "none"
    /\ timer = NoTimer
    /\ adds = 0
    /\ added = {} /\ taken = {}
    /\ overtaken = {} /\ lost = {}

-----------------------------------------------------------------------------
Succ(s) == (s + 1) % QueueMax

(* event_queue[queue_head .. queue_tail - 1].                              *)
Used == {s \in Slots : (s - queue_head) % QueueMax < (queue_tail - queue_head) % QueueMax}

(* The calls that have computed the new tail and not stored yet.           *)
Computed(t) == pc[t] \in {"down", "store"}
UnderWay == {id[t] : t \in {u \in Threads : Computed(u)}}
            \cup {n \in {timer.id} : asleep # "none"}

(* The index of call n is at the tail, and the tail is next.               *)
Stored(n, next) ==
    /\ event_queue' = [event_queue EXCEPT ![queue_tail] = n]
    /\ queue_tail' = next
    /\ UNCHANGED queue_head
    /\ added' = added \cup {n}
    /\ overtaken' = overtaken \cup (UnderWay \ {n})
    /\ lost' = lost \cup {m \in added' \ taken : \A s \in Used' : event_queue'[s] # m}

(* Mutant: the index is stored even if the queue is full.                  *)
StoreUnchecked(n, next) == Stored(n, next)

(* The critical section of add_index: store unless full.                   *)
Store(n, next) ==
    \/ next # queue_head /\ Stored(n, next)
    \/ next = queue_head /\ lost' = lost \cup {n} /\ UNCHANGED <<queue, added, overtaken>>

(* A thread can run on: it does not wait for the mutex, for work, or for   *)
(* a softirq that sleeps on its stack.                                     *)
Ready(t) ==
    /\ pc[t] \in {"down", "popDown"} => mutex = "free"
    /\ pc[t] = "test" => queue_head # queue_tail
    /\ pc[t] # "idle"

Awake(t) == IF asleep = t THEN mutex = "free" ELSE Ready(t)

(* Mutant: the two threads have the same priority.                         *)
RunsEqually(t) == asleep # t /\ Ready(t)

(* The interrupt thread runs when it can, the debounce thread when the     *)
(* interrupt thread cannot.                                                *)
Runs(t) == asleep # t /\ Ready(t) /\ (t = "deb" => ~Awake("int"))

At(t, l) == pc[t] = l /\ Runs(t)
Goto(t, l) == pc' = [pc EXCEPT ![t] = l]

(* An interrupt makes the interrupt thread call add_index, at any time.    *)
debounce_interrupt_handler ==
    /\ pc["int"] = "idle" /\ asleep # "int"
    /\ adds < MaxAdds
    /\ adds' = adds + 1
    /\ id' = [id EXCEPT !["int"] = adds + 1]
    /\ Goto("int", "next")
    /\ UNCHANGED <<queue, mutex, next_event, asleep, timer, added, taken, history>>

(* add_index in a thread: compute, lock, store, unlock.                    *)
AddNext(t) ==
    /\ At(t, "next")
    /\ next_event' = [next_event EXCEPT ![t] = Succ(queue_tail)]
    /\ Goto(t, "down")
    /\ UNCHANGED <<queue, mutex, id, asleep, timer, adds, added, taken, history>>

AddDown(t) ==
    /\ At(t, "down")
    /\ mutex' = t
    /\ Goto(t, "store")
    /\ UNCHANGED <<queue, id, next_event, asleep, timer, adds, added, taken, history>>

(* Mutant: the tail goes on by two.                                        *)
AddStoreTwice(t) ==
    /\ At(t, "store")
    /\ Store(id[t], next_event[t] + 1)
    /\ Goto(t, "up")
    /\ UNCHANGED <<mutex, id, next_event, asleep, timer, adds, taken>>

AddStore(t) ==
    /\ At(t, "store")
    /\ Store(id[t], next_event[t])
    /\ Goto(t, "up")
    /\ UNCHANGED <<mutex, id, next_event, asleep, timer, adds, taken>>

AddUp(t) ==
    /\ At(t, "up")
    /\ mutex' = "free"
    /\ Goto(t, IF t = "int" THEN "idle" ELSE "test")
    /\ UNCHANGED <<queue, id, next_event, asleep, timer, adds, added, taken, history>>

-----------------------------------------------------------------------------
(* debounce_thread: look at the queue without the mutex, pop with it.      *)
DebTest ==
    /\ At("deb", "test")
    /\ Goto("deb", "popDown")
    /\ UNCHANGED <<queue, mutex, id, next_event, asleep, timer, adds, added, taken, history>>

DebPopDown ==
    /\ At("deb", "popDown")
    /\ mutex' = "deb"
    /\ Goto("deb", "pop")
    /\ UNCHANGED <<queue, id, next_event, asleep, timer, adds, added, taken, history>>

DebPop ==
    /\ At("deb", "pop")
    /\ taken' = taken \cup {event_queue[queue_head]}
    /\ queue_head' = Succ(queue_head)
    /\ Goto("deb", "popUp")
    /\ UNCHANGED <<event_queue, queue_tail, mutex, id, next_event, asleep, timer, adds, added,
                   history>>

DebPopUp ==
    /\ At("deb", "popUp")
    /\ mutex' = "free"
    /\ Goto("deb", "process")
    /\ UNCHANGED <<queue, id, next_event, asleep, timer, adds, added, taken, history>>

(* The entry is polled or its callback is run, and no index is added ...   *)
DebProcess ==
    /\ At("deb", "process")
    /\ Goto("deb", "test")
    /\ UNCHANGED <<queue, mutex, id, next_event, asleep, timer, adds, added, taken, history>>

(* ... or one is, by setup_for_next_handler or for a redetection.          *)
DebProcessAdds ==
    /\ At("deb", "process")
    /\ adds < MaxAdds
    /\ adds' = adds + 1
    /\ id' = [id EXCEPT !["deb"] = adds + 1]
    /\ Goto("deb", "next")
    /\ UNCHANGED <<queue, mutex, next_event, asleep, timer, added, taken, history>>

-----------------------------------------------------------------------------
(* The thread a softirq interrupts, "none" for any other process.          *)
Current ==
    IF Runs("int") THEN "int" ELSE IF Runs("deb") THEN "deb" ELSE "none"

(* A timer expires and its handler finds the mutex free ...                *)
debounce_timer_handler ==
    /\ asleep = "none"
    /\ adds < MaxAdds
    /\ adds' = adds + 1
    /\ mutex = "free"
    /\ Store(adds + 1, Succ(queue_tail))
    /\ UNCHANGED <<mutex, pc, id, next_event, asleep, timer, taken>>

(* ... or taken: the interrupted thread goes to sleep in down().           *)
TimerSleeps ==
    /\ asleep = "none"
    /\ adds < MaxAdds
    /\ adds' = adds + 1
    /\ mutex # "free"
    /\ asleep' = Current
    /\ timer' = [id |-> adds + 1, next_event |-> Succ(queue_tail)]
    /\ UNCHANGED <<queue, mutex, pc, id, next_event, added, taken, history>>

TimerWakes ==
    /\ asleep # "none"
    /\ mutex = "free"
    /\ Store(timer.id, timer.next_event)
    /\ asleep' = "none"
    /\ timer' = NoTimer
    /\ UNCHANGED <<mutex, pc, id, next_event, adds, taken>>

Next ==
    \/ debounce_interrupt_handler
    \/ \E t \in Threads : AddNext(t) \/ AddDown(t) \/ AddStore(t) \/ AddUp(t)
    \/ DebTest \/ DebPopDown \/ DebPop \/ DebPopUp \/ DebProcess \/ DebProcessAdds
    \/ debounce_timer_handler \/ TimerSleeps \/ TimerWakes

Spec == Init /\ [][Next]_vars

-----------------------------------------------------------------------------
(* The queue never turns back: an index that was taken is not in the queue *)
(* again and no index is in it twice, although a context may set           *)
(* queue_tail to a value it computed long before.  Were the tail set to    *)
(* before the head, the queue would look full of old indices.              *)
NoReplay ==
    /\ \A s \in Used : event_queue[s] \in added \ taken
    /\ \A s, u \in Used : event_queue[s] = event_queue[u] => s = u

(* An index that is in the queue stays in it until it is taken, unless a   *)
(* call stores with a tail that another call's store has made stale: the   *)
(* mutex itself loses nothing, only the line before it does.               *)
LostOnlyToOverlap == overtaken \cap added = {} => lost \cap added = {}

(* Whatever the order of the contexts' lines, a call of add_index amounts  *)
(* to one step of IndexQueue, and so does the taking of an index.  The     *)
(* array of IndexQueue is the slots from the head on as far as they hold   *)
(* indices that are not taken yet.                                         *)
FromHead(n) == event_queue[(queue_head + n - 1) % QueueMax]

ArrayLen ==
    CHOOSE m \in 0 .. QueueMax :
        /\ \A n \in 1 .. m : FromHead(n) \in added \ taken
        /\ m < QueueMax => FromHead(m + 1) \notin added \ taken

Abstract == INSTANCE IndexQueue
    WITH event_queue <- [n \in 1 .. ArrayLen |-> FromHead(n)],
         queue_tail <- (queue_tail - queue_head) % QueueMax

ImplementsIndexQueue ==
    Abstract!QueueInit /\ [][Abstract!QueueNext(Ids)]_(Abstract!indexVars)

(* No thread is put to sleep to wait for a mutex that it holds itself: it  *)
(* would never wake up again.                                              *)
NoSelfWait == asleep = "none" \/ mutex # asleep
=============================================================================
