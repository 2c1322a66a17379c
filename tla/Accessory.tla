----------------------------- MODULE Accessory -----------------------------
(***************************************************************************)
(* The accessory driver, drivers/power_ic/module/accy.c.                   *)
(*                                                                         *)
(* Drivers tell it of insertions and removals; applications open           *)
(* /dev/accy, poll, and read one change at a time.  Every open file has a  *)
(* set of changed accessories.  A change of an accessory whose earlier     *)
(* change has not been read yet takes it out of the set again: the two     *)
(* cancel.                                                                 *)
(*                                                                         *)
(* Notifications come from the debounce thread, from the USB detection     *)
(* thread and from applications that write to the device.  One processor:  *)
(* the debounce thread preempts the USB thread, and both preempt the       *)
(* applications, which preempt one another.  A spinlock keeps the          *)
(* processor for its holder.  connected_accessories is set and cleared     *)
(* without its lock, by a load and a store.                                *)
(***************************************************************************)
EXTENDS Integers, FiniteSets

CONSTANTS
    NumAccy,        \* accessories 1 .. NumAccy (MOTO_ACCY_TYPE_T)
    MaxOpens,       \* MAX_OPENS
    Headsets,       \* those that the debounce thread reports
    Masks,          \* the sets of accessories that applications ask for
    Notifiers,      \* who notifies, among "debounce", "usb", "write"
    MaxNotifies     \* bound: notifications

ASSUME AccessoryAssumption ==
    /\ NumAccy \in Nat \ {0}
    /\ MaxOpens \in Nat \ {0}
    /\ Headsets \subseteq 1 .. NumAccy
    /\ Masks \subseteq SUBSET (1 .. NumAccy)
    /\ Notifiers \subseteq {"debounce", "usb", "write"}
    /\ MaxNotifies \in Nat

Accys == 1 .. NumAccy
Slots == 1 .. MaxOpens

VARIABLES
    connected,      \* connected_accessories
    open,           \* the slots of changed_flags in use
    interesting,    \* .interesting_accessories of each slot
    changed,        \* .changed_accessory of each slot
    \* The notifiers
    pc,
    req,            \* the accessory and whether it is an insertion
    old,            \* connected_accessories as loaded by |= and &=
    slot,           \* the loop variable i
    notifies,
    \* The applications, one per open file
    poll,           \* "no", "queued" on accy_wait, "asleep", or "ready" to read
    woken,          \* accy_wait was woken since
    \* What the outside knows
    told,           \* connected as it was at open, brought up to date by reads
    steady,         \* accessories that were interesting ever since open
    skewed          \* history: files and accessories that a race got out of step

files == <<open, interesting, changed>>
notifier == <<pc, req, old, slot, notifies>>
apps == <<poll, woken>>
ghosts == <<told, steady, skewed>>
vars == <<connected, files, notifier, apps, ghosts>>

TypeOK ==
    /\ connected \in SUBSET Accys
    /\ open \in SUBSET Slots
    /\ interesting \in [Slots -> SUBSET Accys]
    /\ changed \in [Slots -> SUBSET Accys]
    /\ pc \in [Notifiers -> {"idle", "test", "load", "store", "mark"}]
    /\ req \in [Notifiers -> [accy : Accys, insert : BOOLEAN]]
    /\ old \in [Notifiers -> SUBSET Accys]
    /\ slot \in [Notifiers -> 1 .. (MaxOpens + 1)]
    /\ notifies \in 0 .. MaxNotifies
    /\ poll \in [Slots -> {"no", "queued", "asleep", "ready"}]
    /\ woken \in [Slots -> BOOLEAN]
    /\ told \in [Slots -> SUBSET Accys]
    /\ steady \in [Slots -> SUBSET Accys]
    /\ skewed \subseteq Slots \X Accys

NoReq == [accy |-> 1, insert |-> FALSE]

Init ==
    /\ connected = {}
    /\ open = {}
    /\ interesting = [s \in Slots |-> {}]
    /\ changed = [s \in Slots |-> {}]
    /\ pc = [n \in Notifiers |-> "idle"]
    /\ req = [n \in Notifiers |-> NoReq]
    /\ old = [n \in Notifiers |-> {}]
    /\ slot = [n \in Notifiers |-> 1]
    /\ notifies = 0
    /\ poll = [s \in Slots |-> "no"]
    /\ woken = [s \in Slots |-> FALSE]
    /\ told = [s \in Slots |-> {}]
    /\ steady = [s \in Slots |-> {}]
    /\ skewed = {}

-----------------------------------------------------------------------------
Priority(n) == CASE n = "debounce" -> 2 [] n = "usb" -> 1 [] n = "write" -> 0

(* Nobody with more than priority p is in the middle of a notification.    *)
Free(p) == \A n \in Notifiers : Priority(n) > p => pc[n] = "idle"

At(n, l) == pc[n] = l /\ Free(Priority(n))

(* The debounce thread reports 3.5 mm headsets, the USB thread the cables. *)
Reports(n) ==
    CASE n = "debounce" -> Headsets [] n = "usb" -> Accys \ Headsets [] n = "write" -> Accys

(* File s has still to be told of a change of a that is being marked.      *)
(* Two notifications under way of the same accessory cancel.               *)
OwedBy(n, s, a) == pc[n] = "mark" /\ slot[n] <= s /\ req[n].accy = a

Owed(s, a) ==
    \E n \in Notifiers :
        OwedBy(n, s, a) /\ \A m \in Notifiers \ {n} : ~OwedBy(m, s, a)

(* moto_accy_notify_insert and moto_accy_notify_remove.                    *)
Notify(n, a, ins) ==
    /\ At(n, "idle")
    /\ notifies < MaxNotifies
    /\ notifies' = notifies + 1
    /\ req' = [req EXCEPT ![n] = [accy |-> a, insert |-> ins]]
    /\ pc' = [pc EXCEPT ![n] = "test"]
    /\ UNCHANGED <<connected, files, old, slot, apps, ghosts>>

(* The end of a notification, and of its arguments and local variables.    *)
Return(n) ==
    /\ pc' = [pc EXCEPT ![n] = "idle"]
    /\ req' = [req EXCEPT ![n] = NoReq]
    /\ old' = [old EXCEPT ![n] = {}]
    /\ slot' = [slot EXCEPT ![n] = 1]

(* Only do something for a device not already connected (or, on a removal, *)
(* one that is).                                                           *)
NotifyTest(n) ==
    /\ At(n, "test")
    /\ \/ /\ req[n].accy \in connected <=> req[n].insert
          /\ Return(n)
       \/ /\ ~(req[n].accy \in connected <=> req[n].insert)
          /\ pc' = [pc EXCEPT ![n] = "load"]
          /\ UNCHANGED <<req, old, slot>>
    /\ UNCHANGED <<connected, files, notifies, apps, ghosts>>

(* ACCY_BITMASK_SET and ACCY_BITMASK_CLEAR of connected_accessories.  A    *)
(* store of what was loaded before another one undoes that one, and one    *)
(* that changes nothing is marked all the same: what it changes and what   *)
(* it marks are not the same accessories.                                  *)
NotifyLoad(n) ==
    /\ At(n, "load")
    /\ old' = [old EXCEPT ![n] = connected]
    /\ pc' = [pc EXCEPT ![n] = "store"]
    /\ UNCHANGED <<connected, files, req, slot, notifies, apps, ghosts>>

NotifyStore(n) ==
    /\ At(n, "store")
    /\ connected' = IF req[n].insert THEN old[n] \cup {req[n].accy}
                                     ELSE old[n] \ {req[n].accy}
    /\ slot' = [slot EXCEPT ![n] = 1]
    /\ pc' = [pc EXCEPT ![n] = "mark"]
    /\ skewed' = skewed \cup
           (Slots \X {b \in Accys : b = req[n].accy <=> (b \in connected <=> b \in connected')})
    /\ UNCHANGED <<files, req, old, notifies, apps, told, steady>>

(* Mutant: a second change leaves the flag set.                            *)
MarkedAlways(s, a) ==
    IF a \in interesting[s] THEN changed[s] \cup {a} ELSE changed[s]

(* The changed set of one file: a change that was not read cancels.        *)
Marked(s, a) ==
    IF a \in changed[s] THEN changed[s] \ {a}
    ELSE IF a \in interesting[s] THEN changed[s] \cup {a}
    ELSE changed[s]

(* Mutant: the loop runs one slot too far.                                 *)
NotifyMarkTooFar(n) ==
    /\ At(n, "mark")
    /\ slot[n] <= MaxOpens + 1
    /\ changed' = IF slot[n] \in open
                  THEN [changed EXCEPT ![slot[n]] = Marked(slot[n], req[n].accy)]
                  ELSE changed
    /\ slot' = [slot EXCEPT ![n] = @ + 1]
    /\ UNCHANGED <<connected, open, interesting, pc, req, old, notifies, apps, ghosts>>

(* Mark the change for all open files, each under its lock.                *)
NotifyMark(n) ==
    /\ At(n, "mark")
    /\ slot[n] <= MaxOpens
    /\ changed' = IF slot[n] \in open
                  THEN [changed EXCEPT ![slot[n]] = Marked(slot[n], req[n].accy)]
                  ELSE changed
    /\ slot' = [slot EXCEPT ![n] = @ + 1]
    /\ UNCHANGED <<connected, open, interesting, pc, req, old, notifies, apps, ghosts>>

(* Mutant: only insertions wake the readers.                               *)
NotifyWakeInsert(n) ==
    /\ At(n, "mark")
    /\ slot[n] > MaxOpens
    /\ woken' = [s \in Slots |-> woken[s] \/ (req[n].insert /\ poll[s] # "no")]
    /\ Return(n)
    /\ UNCHANGED <<connected, files, notifies, poll, ghosts>>

(* Wake up the processes on accy_wait.                                     *)
NotifyWake(n) ==
    /\ At(n, "mark")
    /\ slot[n] > MaxOpens
    /\ woken' = [s \in Slots |-> woken[s] \/ poll[s] \in {"queued", "asleep"}]
    /\ Return(n)
    /\ UNCHANGED <<connected, files, notifies, poll, ghosts>>

-----------------------------------------------------------------------------
(* accy_open takes the first free slot; with none left it returns -EBUSY.  *)
(* A change that is being marked is known at the open, and marked yet.     *)
accy_open(s) ==
    /\ Free(0)
    /\ s \notin open
    /\ \A t \in Slots : t < s => t \in open
    /\ open' = open \cup {s}
    /\ interesting' = [interesting EXCEPT ![s] = Accys]
    /\ changed' = [changed EXCEPT ![s] = {}]
    /\ told' = [told EXCEPT ![s] = connected]
    /\ steady' = [steady EXCEPT ![s] = Accys]
    /\ skewed' = (skewed \ ({s} \X Accys)) \cup ({s} \X {a \in Accys : Owed(s, a)})
    /\ UNCHANGED <<connected, notifier, apps>>

(* An application between two system calls on its open file.               *)
Idle(s) == s \in open /\ poll[s] = "no" /\ Free(0)

accy_free(s) ==
    /\ Idle(s)
    /\ open' = open \ {s}
    /\ told' = [told EXCEPT ![s] = {}]
    /\ steady' = [steady EXCEPT ![s] = {}]
    /\ skewed' = skewed \ ({s} \X Accys)
    /\ UNCHANGED <<connected, interesting, changed, notifier, apps>>

(* MOTO_ACCY_IOCTL_SET_INTERESTED_MASK.                                    *)
SetInterested(s, m) ==
    /\ Idle(s)
    /\ interesting' = [interesting EXCEPT ![s] = m]
    /\ steady' = [steady EXCEPT ![s] = @ \cap m]
    /\ UNCHANGED <<connected, open, changed, notifier, apps, told, skewed>>

(* ACCY_BITMASK_FFS.                                                       *)
Lowest(S) == CHOOSE a \in S : \A b \in S : a <= b

(* What a reader that believes S believes after it read about a.           *)
With(S, a) == (S \ {a}) \cup (connected \cap {a})

(* accy_read under both locks: the lowest changed accessory, with the      *)
(* state it has now, or nothing.  An application whose poll returned reads *)
(* next.  It brings the file in step, unless that state is marked yet.     *)
accy_read(s) ==
    /\ s \in open /\ poll[s] \in {"no", "ready"} /\ Free(0)
    /\ poll' = [poll EXCEPT ![s] = "no"]
    /\ IF changed[s] = {}
       THEN UNCHANGED <<changed, told, skewed>>
       ELSE LET a == Lowest(changed[s]) IN
            /\ changed' = [changed EXCEPT ![s] = @ \ {a}]
            /\ told' = [told EXCEPT ![s] = With(@, a)]
            /\ skewed' = (skewed \ {<<s, a>>}) \cup ({s} \X {b \in Accys : b = a /\ Owed(s, b)})
    /\ UNCHANGED <<connected, open, interesting, notifier, woken, steady>>

(* accy_poll: get on the wait queue, then look; poll(2) sleeps if there is *)
(* nothing and nobody has woken it since.                                  *)
PollWait(s) ==
    /\ Idle(s)
    /\ poll' = [poll EXCEPT ![s] = "queued"]
    /\ woken' = [woken EXCEPT ![s] = FALSE]
    /\ UNCHANGED <<connected, files, notifier, ghosts>>

PollCheck(s) ==
    /\ poll[s] = "queued" /\ Free(0)
    /\ IF changed[s] # {}
       THEN poll' = [poll EXCEPT ![s] = "ready"] /\ woken' = [woken EXCEPT ![s] = FALSE]
       ELSE poll' = [poll EXCEPT ![s] = "asleep"] /\ UNCHANGED woken
    /\ UNCHANGED <<connected, files, notifier, ghosts>>

PollWoken(s) ==
    /\ poll[s] = "asleep" /\ woken[s] /\ Free(0)
    /\ poll' = [poll EXCEPT ![s] = "queued"]
    /\ woken' = [woken EXCEPT ![s] = FALSE]
    /\ UNCHANGED <<connected, files, notifier, ghosts>>

-----------------------------------------------------------------------------
NotifyStep(n) ==
    \/ NotifyTest(n) \/ NotifyLoad(n) \/ NotifyStore(n) \/ NotifyMark(n) \/ NotifyWake(n)

(* An application in the usual loop: poll, then read.                      *)
Reader(s) == accy_read(s) \/ PollCheck(s) \/ PollWoken(s)

Next ==
    \/ \E n \in Notifiers :
          \/ \E a \in Reports(n), ins \in BOOLEAN : Notify(n, a, ins)
          \/ NotifyStep(n)
    \/ \E s \in Slots :
          \/ accy_open(s) \/ accy_free(s) \/ PollWait(s)
          \/ \E m \in Masks : SetInterested(s, m)
          \/ Reader(s)

Spec == Init /\ [][Next]_vars

(* Whoever is in the kernel is run again some day, and applications read   *)
(* what poll promised them.                                                *)
Fairness ==
    /\ \A n \in Notifiers : WF_vars(NotifyStep(n))
    /\ \A s \in Slots : WF_vars(Reader(s))

FairSpec == Spec /\ Fairness

-----------------------------------------------------------------------------
Quiet == \A n \in Notifiers : pc[n] = "idle"

(* "adds this information into a queue of accessory events maintained for  *)
(* each open accessory device file": between notifications, the changed    *)
(* accessories of a file are those whose state is not the one its reader   *)
(* was last told (or that was true when the file was opened), as long as   *)
(* they were interesting all the time.  Changes cancel in pairs, so one    *)
(* flip too few or too many inverts the flag until the next read.  Only    *)
(* three things do that: a store that overwrites another, and an open or a *)
(* read between a notification's store and its marking of the file.        *)
InStep ==
    Quiet => \A s \in open : \A a \in steady[s] :
        <<s, a>> \notin skewed =>
            (a \in changed[s] <=> (a \in told[s] <=> a \notin connected))

(* A reader does not sleep through a change: one that is asleep in poll    *)
(* with changes flagged has been woken, whatever notification came between *)
(* its getting on the wait queue, its look at the flags and its sleep.     *)
SleeperIsWoken ==
    Quiet => \A s \in Slots : poll[s] = "asleep" /\ changed[s] # {} => woken[s]

(* A change is never left lying: a reader that sleeps in poll is woken.    *)
ChangeIsRead ==
    \A s \in Slots : s \in open /\ changed[s] # {} ~> s \notin open \/ changed[s] = {}
=============================================================================
