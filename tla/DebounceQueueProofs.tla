------------------------ MODULE DebounceQueueProofs ------------------------
(***************************************************************************)
(* Theorems about DebounceQueue, for a queue of any size and any number of *)
(* calls of add_index.                                                     *)
(***************************************************************************)
EXTENDS DebounceQueue, TLAPS

(* The distance of a slot from the head, and the slots in front of what    *)
(* would become the new tail (all of them if that is the head).            *)
Dist(s) == (s - queue_head) % QueueMax
Below(n) == {s \in Slots : n = queue_head \/ Dist(s) < Dist(n)}

(* The slots in S hold different indices that were not taken yet.          *)
Clean(S) ==
    /\ \A s \in S : event_queue[s] \in added \ taken
    /\ \A s, u \in S : event_queue[s] = event_queue[u] => s = u

(* A thread in add_index, before its store.  The same for a softirq that   *)
(* sleeps, if it can still wake up.                                        *)
Adding(t) == pc[t] \in {"next", "down", "store"}
TimerWaits == asleep # "none" /\ mutex # asleep

(* The mutex excludes; a debounce thread that sleeps in a softirq's down() *)
(* holds it itself.                                                        *)
Exclusion ==
    /\ \A t \in Threads : mutex = t <=> pc[t] \in {"store", "up", "pop", "popUp"}
    /\ asleep = "deb" => mutex = "deb"
    /\ pc["int"] \notin {"test", "popDown", "pop", "popUp", "process"}

(* Every call under way has an index of its own, not in the queue yet.     *)
Fresh ==
    /\ taken \subseteq added /\ added \subseteq 1 .. adds
    /\ \A t \in Threads : Adding(t) => id[t] \in 1 .. adds /\ id[t] \notin added
    /\ Adding("int") /\ Adding("deb") => id["int"] # id["deb"]
    /\ asleep # "none" => timer.id \in 1 .. adds
    /\ TimerWaits => timer.id \notin added
    /\ \A t \in Threads : TimerWaits /\ Adding(t) => timer.id # id[t]

(* Whichever tail is set, the slots up to it are clean, given that the     *)
(* slot at the tail is written at the same time.                           *)
TailsClean ==
    /\ \A t \in Threads : Computed(t) => Clean(Below(next_event[t]) \ {queue_tail})
    /\ TimerWaits => Clean(Below(timer.next_event) \ {queue_tail})

(* What is about to be popped is there, and those who wait meanwhile have  *)
(* seen the current tail.                                                  *)
PopIsSafe ==
    /\ pc["deb"] \in {"popDown", "pop"} => queue_head # queue_tail
    /\ pc["deb"] = "pop" =>
           /\ Computed("int") => next_event["int"] = Succ(queue_tail)
           /\ TimerWaits => timer.next_event = Succ(queue_tail)

QueueInv == Exclusion /\ Fresh /\ Clean(Used) /\ TailsClean /\ PopIsSafe

-----------------------------------------------------------------------------
(* Remainders of the numbers the queue computes with.                      *)
LEMMA Wrap ==
    ASSUME NEW x \in Int, 0 - QueueMax <= x, x < 2 * QueueMax
    PROVE  x % QueueMax = IF x < 0 THEN x + QueueMax
                          ELSE IF x < QueueMax THEN x ELSE x - QueueMax
  <1>1. QueueMax \in Nat \ {0}
    BY QueueAssumption
  <1>2. CASE x < 0
    BY <1>1, <1>2
  <1>3. CASE 0 <= x /\ x < QueueMax
    BY <1>1, <1>3
  <1>4. CASE QueueMax <= x
    BY <1>1, <1>4
  <1> QED
    BY <1>1, <1>2, <1>3, <1>4

(* The next slot, and the distance of two slots.                           *)
LEMMA SlotSteps ==
    /\ QueueMax \in Nat /\ QueueMax > 1
    /\ \A s \in Slots : /\ s \in 0 .. (QueueMax - 1) /\ Succ(s) \in Slots
                        /\ Succ(s) = IF s = QueueMax - 1 THEN 0 ELSE s + 1
    /\ \A s, h \in Slots : (s - h) % QueueMax = IF h <= s THEN s - h ELSE s - h + QueueMax
  <1>1. QueueMax \in Nat /\ QueueMax > 1
    BY QueueAssumption
  <1>2. ASSUME NEW s \in Slots
        PROVE  Succ(s) = IF s = QueueMax - 1 THEN 0 ELSE s + 1
    <2>1. s \in 0 .. (QueueMax - 1)
      BY DEF Slots
    <2>2. s + 1 \in Int /\ 0 - QueueMax <= s + 1 /\ s + 1 < 2 * QueueMax
      BY <1>1, <2>1
    <2>3. Succ(s) = IF s + 1 < 0 THEN (s + 1) + QueueMax
                    ELSE IF s + 1 < QueueMax THEN s + 1 ELSE (s + 1) - QueueMax
      BY <2>2, Wrap, Zenon DEF Succ
    <2> QED
      BY <1>1, <2>1, <2>3
  <1>3. ASSUME NEW s \in Slots, NEW h \in Slots
        PROVE  (s - h) % QueueMax = IF h <= s THEN s - h ELSE s - h + QueueMax
    <2>1. s \in 0 .. (QueueMax - 1) /\ h \in 0 .. (QueueMax - 1)
      BY DEF Slots
    <2>2. s - h \in Int /\ 0 - QueueMax <= s - h /\ s - h < 2 * QueueMax
      BY <1>1, <2>1
    <2>3. (s - h) % QueueMax = IF s - h < 0 THEN (s - h) + QueueMax
                    ELSE IF s - h < QueueMax THEN s - h ELSE (s - h) - QueueMax
      BY <2>2, Wrap, Zenon
    <2> QED
      BY <1>1, <2>1, <2>3
  <1>4. \A s \in Slots : s \in 0 .. (QueueMax - 1) /\ Succ(s) \in Slots
    BY <1>1, <1>2 DEF Slots
  <1> QED
    BY <1>1, <1>2, <1>3, <1>4, Zenon

(* The distance without remainders.                                        *)
LEMMA DistIs ==
    ASSUME queue_head \in Slots, NEW s \in Slots
    PROVE  Dist(s) = IF queue_head <= s THEN s - queue_head ELSE s - queue_head + QueueMax
  BY SlotSteps DEF Dist

(* The slots in use, by distance.                                          *)
LEMMA UsedIs == Used = {s \in Slots : Dist(s) < Dist(queue_tail)}
  BY DEF Used, Dist

(* The slots in front of the next tail are those in use and the tail's.    *)
LEMMA BelowSucc ==
    ASSUME queue_head \in Slots, queue_tail \in Slots
    PROVE  Below(Succ(queue_tail)) \ {queue_tail} = Used
  <1>1. ASSUME NEW s \in Slots
        PROVE  s \in Below(Succ(queue_tail)) \ {queue_tail} <=> s \in Used
    <2> DEFINE n == Succ(queue_tail)
    <2>1. /\ n \in Slots /\ n = IF queue_tail = QueueMax - 1 THEN 0 ELSE queue_tail + 1
          /\ QueueMax \in Nat /\ QueueMax > 1
          /\ s \in 0 .. (QueueMax - 1) /\ n \in 0 .. (QueueMax - 1)
          /\ queue_head \in 0 .. (QueueMax - 1) /\ queue_tail \in 0 .. (QueueMax - 1)
      BY SlotSteps
    <2> HIDE DEF n
    <2>2. /\ Dist(s) = IF queue_head <= s THEN s - queue_head ELSE s - queue_head + QueueMax
          /\ Dist(n) = IF queue_head <= n THEN n - queue_head ELSE n - queue_head + QueueMax
          /\ Dist(queue_tail) = IF queue_head <= queue_tail THEN queue_tail - queue_head
                                ELSE queue_tail - queue_head + QueueMax
      BY <2>1, DistIs
    <2>3. (n = queue_head \/ Dist(s) < Dist(n)) /\ s # queue_tail <=> Dist(s) < Dist(queue_tail)
      BY <2>1, <2>2
    <2>4. s \in Below(n) <=> n = queue_head \/ Dist(s) < Dist(n)
      BY DEF Below
    <2>5. s \in Used <=> Dist(s) < Dist(queue_tail)
      BY UsedIs
    <2> QED
      BY <2>3, <2>4, <2>5 DEF n
  <1>2. Below(Succ(queue_tail)) \subseteq Slots /\ Used \subseteq Slots
    BY DEF Below, Used
  <1> QED
    BY <1>1, <1>2

(* A tail that is set elsewhere.                                           *)
LEMMA UsedAfterStore ==
    ASSUME NEW n, n # queue_head, queue_head' = queue_head, queue_tail' = n
    PROVE  Used' = Below(n)
  <1>1. Used' = {s \in Slots : (s - queue_head) % QueueMax < (n - queue_head) % QueueMax}
    BY DEF Used, Slots
  <1> QED
    BY <1>1 DEF Below, Dist

(* The head goes on.                                                       *)
LEMMA UsedAfterPop ==
    ASSUME queue_head \in Slots, queue_tail \in Slots, queue_head # queue_tail,
           queue_head' = Succ(queue_head), queue_tail' = queue_tail
    PROVE  queue_head \in Used /\ Used' = Used \ {queue_head}
  <1> DEFINE h == Succ(queue_head)
  <1>1. /\ h \in Slots /\ h = IF queue_head = QueueMax - 1 THEN 0 ELSE queue_head + 1
        /\ QueueMax \in Nat /\ QueueMax > 1 /\ h \in 0 .. (QueueMax - 1)
        /\ queue_head \in 0 .. (QueueMax - 1) /\ queue_tail \in 0 .. (QueueMax - 1)
    BY SlotSteps
  <1> HIDE DEF h
  <1>2. ASSUME NEW s \in Slots PROVE s \in Used' <=> s \in Used /\ s # queue_head
    <2>0. s \in 0 .. (QueueMax - 1)
      BY SlotSteps
    <2>1. /\ (s - queue_head) % QueueMax =
                 IF queue_head <= s THEN s - queue_head ELSE s - queue_head + QueueMax
          /\ (queue_tail - queue_head) % QueueMax =
                 IF queue_head <= queue_tail THEN queue_tail - queue_head
                 ELSE queue_tail - queue_head + QueueMax
          /\ (s - h) % QueueMax = IF h <= s THEN s - h ELSE s - h + QueueMax
          /\ (queue_tail - h) % QueueMax =
                 IF h <= queue_tail THEN queue_tail - h ELSE queue_tail - h + QueueMax
      BY <1>1, SlotSteps, Zenon
    <2>2. PICK a \in Int, b \in Int, c \in Int, d \in Int :
              /\ a = (s - queue_head) % QueueMax /\ b = (queue_tail - queue_head) % QueueMax
              /\ c = (s - h) % QueueMax /\ d = (queue_tail - h) % QueueMax
      BY <1>1, <2>0, <2>1
    <2>3. (s \in Used <=> a < b) /\ (s \in Used' <=> c < d)
      <3>1. s \in Used <=> (s - queue_head) % QueueMax < (queue_tail - queue_head) % QueueMax
        BY DEF Used
      <3>2. s \in Used' <=> (s - h) % QueueMax < (queue_tail - h) % QueueMax
        BY DEF Used, h, Slots
      <3> QED
        BY <2>2, <3>1, <3>2, Zenon
    <2>4. /\ a = (IF queue_head <= s THEN s - queue_head ELSE s - queue_head + QueueMax)
          /\ b = (IF queue_head <= queue_tail THEN queue_tail - queue_head
                  ELSE queue_tail - queue_head + QueueMax)
          /\ c = (IF h <= s THEN s - h ELSE s - h + QueueMax)
          /\ d = (IF h <= queue_tail THEN queue_tail - h ELSE queue_tail - h + QueueMax)
      BY <2>1, <2>2, Zenon
    <2>5. c < d <=> a < b /\ s # queue_head
      BY <1>1, <2>0, <2>4
    <2> QED
      BY <2>3, <2>5, Zenon
  <1>3. queue_head \in Used
    <2>1. Dist(queue_head) = 0 /\ Dist(queue_tail) > 0
      BY <1>1, DistIs
    <2>2. Dist(queue_head) < Dist(queue_tail)
      BY <1>1, <2>1, DistIs
    <2> QED
      BY <2>2, UsedIs
  <1>4. Used \subseteq Slots /\ Used' \subseteq Slots
    BY DEF Used, Slots
  <1> QED
    BY <1>2, <1>3, <1>4

-----------------------------------------------------------------------------
(* Fewer slots are no less clean.                                          *)
LEMMA CleanSubset ==
    ASSUME NEW S, NEW R, R \subseteq S, Clean(S)
    PROVE  Clean(R)
  BY Zenon DEF Clean

(* What add_index leaves in the queue: if the slots in front of the new    *)
(* tail were clean, those in use are, and so are those in front of the     *)
(* tail that any other context may have computed.                          *)
LEMMA StoreLeaves ==
    ASSUME TypeOK, NEW n \in Ids, NEW next \in Slots, n \notin added, taken \subseteq added,
           Clean(Used), Clean(Below(next) \ {queue_tail}), Store(n, next), taken' = taken
    PROVE  /\ event_queue' \in [Slots -> Ids \cup {0}] /\ queue_tail' \in Slots
           /\ queue_head' = queue_head
           /\ added' = added \/ added' = added \cup {n}
           /\ Clean(Used)'
           /\ queue_head # queue_tail => queue_head' # queue_tail'
           /\ \A m \in Slots : Clean(Below(m) \ {queue_tail}) =>
                  Clean(Below(m) \ {queue_tail})'
  <1>0. /\ event_queue \in [Slots -> Ids \cup {0}] /\ queue_head \in Slots
        /\ queue_tail \in Slots
    BY DEF TypeOK
  <1>1. CASE next = queue_head
    <2>1. UNCHANGED <<event_queue, queue_head, queue_tail, added>>
      BY <1>1 DEF Store, Stored, queue
    <2>2. Clean(Used)'
      BY <2>1, Zenon DEF Clean, Used
    <2>3. ASSUME NEW m \in Slots, Clean(Below(m) \ {queue_tail})
          PROVE  Clean(Below(m) \ {queue_tail})'
      BY <2>1, <2>3, Zenon DEF Clean, Below, Dist
    <2> QED
      BY <1>0, <2>1, <2>2, <2>3
  <1>2. CASE next # queue_head
    <2>1. /\ event_queue' = [event_queue EXCEPT ![queue_tail] = n]
          /\ queue_tail' = next /\ added' = added \cup {n} /\ queue_head' = queue_head
      BY <1>2 DEF Store, Stored
    <2>2. /\ event_queue'[queue_tail] = n
          /\ \A s \in Slots : s # queue_tail => event_queue'[s] = event_queue[s]
      BY <1>0, <2>1, Zenon
    <2>3. ASSUME NEW S \in SUBSET Slots, Clean(S \ {queue_tail})
          PROVE  /\ \A s \in S : event_queue'[s] \in added' \ taken'
                 /\ \A s, u \in S : event_queue'[s] = event_queue'[u] => s = u
      <3>1. \A s \in S : s # queue_tail => /\ event_queue'[s] = event_queue[s]
                                           /\ event_queue[s] \in added \ taken
        BY <2>2, <2>3 DEF Clean
      <3>2. \A s, u \in S : s # queue_tail /\ u # queue_tail /\
                                event_queue[s] = event_queue[u] => s = u
        BY <2>3 DEF Clean
      <3>3. ASSUME NEW s \in S PROVE event_queue'[s] \in added' \ taken'
        BY <2>1, <2>2, <3>1
      <3>4. ASSUME NEW s \in S, NEW u \in S, event_queue'[s] = event_queue'[u] PROVE s = u
        <4>1. CASE s # queue_tail /\ u # queue_tail
          BY <3>1, <3>2, <3>4, <4>1, Zenon
        <4>2. CASE s = queue_tail /\ u # queue_tail
          BY <2>2, <3>1, <3>4, <4>2, Zenon
        <4>3. CASE s # queue_tail /\ u = queue_tail
          BY <2>2, <3>1, <3>4, <4>3, Zenon
        <4> QED
          BY <4>1, <4>2, <4>3
      <3> QED
        BY <3>3, <3>4
    <2>4. Clean(Used)'
      <3>1. Used' = Below(next)
        BY <1>2, <2>1, UsedAfterStore
      <3>2. Below(next) \in SUBSET Slots
        BY DEF Below
      <3> QED
        BY <2>3, <3>1, <3>2, Zenon DEF Clean
    <2>5. ASSUME NEW m \in Slots, Clean(Below(m) \ {queue_tail})
          PROVE  Clean(Below(m) \ {queue_tail})'
      <3>1. /\ \A s \in Below(m) : event_queue'[s] \in added' \ taken'
            /\ \A s, u \in Below(m) : event_queue'[s] = event_queue'[u] => s = u
        <4>1. Below(m) \in SUBSET Slots
          BY DEF Below
        <4> QED
          BY <2>3, <2>5, <4>1, Zenon
      <3> QED
        BY <2>1, <3>1, Zenon DEF Clean, Below, Dist
    <2>6. event_queue' \in [Slots -> Ids \cup {0}]
      BY <1>0, <2>1
    <2> QED
      BY <1>0, <1>2, <2>1, <2>4, <2>5, <2>6
  <1> QED
    BY <1>1, <1>2

(* The history that add_index leaves is about calls that have begun.       *)
LEMMA StoreHistory ==
    ASSUME TypeOK, Fresh, NEW n \in Ids, NEW next, Store(n, next)
    PROVE  overtaken' \in SUBSET Ids /\ lost' \in SUBSET Ids
  <1>1. /\ added \subseteq Ids /\ lost \subseteq Ids /\ overtaken \subseteq Ids
        /\ adds \in 0 .. MaxAdds /\ MaxAdds \in Nat
    BY QueueAssumption DEF TypeOK
  <1>2. \A x \in 1 .. adds : x \in Ids
    BY <1>1 DEF Ids
  <1>3. UnderWay \subseteq Ids
    <2>1. \A t \in Threads : Computed(t) => id[t] \in Ids
      BY <1>2 DEF Computed, Fresh, Adding
    <2>2. asleep # "none" => timer.id \in Ids
      BY <1>2 DEF Fresh
    <2> QED
      BY <2>1, <2>2 DEF UnderWay
  <1>4. CASE next = queue_head
    BY <1>1, <1>4 DEF Store
  <1>5. CASE next # queue_head
    <2>1. /\ overtaken' = overtaken \cup (UnderWay \ {n}) /\ added' = added \cup {n}
          /\ lost' \subseteq lost \cup added'
      BY <1>5 DEF Store, Stored
    <2> QED
      BY <1>1, <1>3, <2>1
  <1> QED
    BY <1>4, <1>5

(* A step that leaves the queue alone leaves it clean.                     *)
LEMMA QuietQueue ==
    ASSUME UNCHANGED <<queue, added, taken>>
    PROVE  /\ Clean(Used) => Clean(Used)'
           /\ \A m \in Slots : Clean(Below(m) \ {queue_tail})
                                   => Clean(Below(m) \ {queue_tail})'
  <1>1. UNCHANGED <<event_queue, queue_head, queue_tail, added, taken>>
    BY DEF queue
  <1>2. Clean(Used) => Clean(Used)'
    BY <1>1, Zenon DEF Clean, Used
  <1>3. ASSUME NEW m \in Slots, Clean(Below(m) \ {queue_tail})
        PROVE  Clean(Below(m) \ {queue_tail})'
    BY <1>1, <1>3, Zenon DEF Clean, Below, Dist
  <1> QED
    BY <1>2, <1>3

(* The tails that were computed before a step and are still to be set      *)
(* after it.                                                               *)
LEMMA TailsKept ==
    ASSUME TypeOK, TailsClean,
           \A m \in Slots : Clean(Below(m) \ {queue_tail}) => Clean(Below(m) \ {queue_tail})'
    PROVE  /\ \A t \in Threads :
                  Computed(t) /\ next_event'[t] = next_event[t]
                      => Clean(Below(next_event[t]) \ {queue_tail})'
           /\ TimerWaits /\ timer'.next_event = timer.next_event
                  => Clean(Below(timer.next_event) \ {queue_tail})'
  <1>1. ASSUME NEW t \in Threads, Computed(t), next_event'[t] = next_event[t]
        PROVE  Clean(Below(next_event[t]) \ {queue_tail})'
    <2>1. PICK m \in Slots : m = next_event[t]
      BY DEF TypeOK
    <2>2. Clean(Below(m) \ {queue_tail})
      BY <1>1, <2>1, Zenon DEF TailsClean
    <2>3. Clean(Below(m) \ {queue_tail})'
      BY <2>2
    <2> QED
      BY <1>1, <2>1, <2>3, Zenon DEF Clean, Below, Dist
  <1>2. ASSUME TimerWaits, timer'.next_event = timer.next_event
        PROVE  Clean(Below(timer.next_event) \ {queue_tail})'
    <2>1. PICK m \in Slots : m = timer.next_event
      BY DEF TypeOK
    <2>2. Clean(Below(m) \ {queue_tail})
      BY <1>2, <2>1, Zenon DEF TailsClean
    <2>3. Clean(Below(m) \ {queue_tail})'
      BY <2>2
    <2> QED
      BY <1>2, <2>1, <2>3, Zenon DEF Clean, Below, Dist
  <1> QED
    BY <1>1, <1>2

(* A tail computed from the one it follows.                                *)
LEMMA CurrentTail ==
    TypeOK /\ Clean(Used) => Clean(Below(Succ(queue_tail)) \ {queue_tail})
  BY BelowSucc, Zenon DEF TypeOK

-----------------------------------------------------------------------------
Inv == TypeOK /\ QueueInv

(* The queue is empty and nobody is in add_index.                          *)
LEMMA InitInv == Init => Inv
  <1> SUFFICES ASSUME Init PROVE Inv
    OBVIOUS
  <1> USE QueueAssumption DEF Init, Threads
  <1>1. TypeOK
    BY DEF TypeOK, Slots, NoTimer
  <1>2. Exclusion /\ Fresh /\ PopIsSafe
    BY DEF Exclusion, Fresh, PopIsSafe, Adding, Computed, TimerWaits
  <1>3. TailsClean
    BY DEF TailsClean, Computed, TimerWaits
  <1>4. Clean(Used)
    <2>1. \A s \in Slots : (s - queue_head) % QueueMax >= 0
                           /\ (queue_tail - queue_head) % QueueMax = 0
                           /\ (s - queue_head) % QueueMax \in Int
      BY SlotSteps, <1>1 DEF TypeOK
    <2>2. Used = {}
      BY <2>1 DEF Used
    <2> QED
      BY <2>2 DEF Clean
  <1> QED
    BY <1>1, <1>2, <1>3, <1>4 DEF Inv, QueueInv

(* Every step keeps the invariant.                                         *)
LEMMA NextInv == Inv /\ [Next]_vars => Inv'
  <1> SUFFICES ASSUME Inv, [Next]_vars PROVE Inv'
    OBVIOUS
  <1>0. TypeOK /\ Exclusion /\ Fresh /\ Clean(Used) /\ TailsClean /\ PopIsSafe
    BY DEF Inv, QueueInv
  <1>a. /\ queue_head \in Slots /\ queue_tail \in Slots /\ Succ(queue_tail) \in Slots
        /\ Succ(queue_head) \in Slots
        /\ adds \in Nat /\ MaxAdds \in Nat /\ 0 \in Slots
    <2>1. queue_head \in Slots /\ queue_tail \in Slots /\ adds \in 0 .. MaxAdds
      BY <1>0 DEF TypeOK
    <2> QED
      BY <2>1, SlotSteps, QueueAssumption DEF Slots
  <1>b. /\ "int" \in Threads /\ "deb" \in Threads
        /\ \A t \in Threads : t = "int" \/ t = "deb"
        /\ "int" # "deb" /\ "none" \notin Threads /\ "free" \notin Threads
    BY DEF Threads
  <1> USE <1>0, <1>a, <1>b
  (* Steps that leave the queue alone.                                     *)
  <1>c. ASSUME UNCHANGED <<queue, added, taken>>, TypeOK', Exclusion', Fresh', PopIsSafe',
               \A t \in Threads : Computed(t)' =>
                   \/ Computed(t) /\ next_event'[t] = next_event[t]
                   \/ next_event'[t] = Succ(queue_tail),
               TimerWaits' => \/ TimerWaits /\ timer' = timer
                              \/ timer'.next_event = Succ(queue_tail)
        PROVE  Inv'
    <2>1. /\ Clean(Used)'
          /\ \A m \in Slots : Clean(Below(m) \ {queue_tail})
                                  => Clean(Below(m) \ {queue_tail})'
      BY <1>c, QuietQueue
    <2>2. PICK m \in Slots : m = Succ(queue_tail)
      OBVIOUS
    <2>3. Clean(Below(m) \ {queue_tail})'
      BY <2>1, <2>2, CurrentTail, Zenon
    <2>4. /\ \A t \in Threads : Computed(t) /\ next_event'[t] = next_event[t]
                                    => Clean(Below(next_event[t]) \ {queue_tail})'
          /\ TimerWaits /\ timer'.next_event = timer.next_event
                 => Clean(Below(timer.next_event) \ {queue_tail})'
      BY <2>1, TailsKept
    <2>5. ASSUME NEW t \in Threads, Computed(t)'
          PROVE  Clean(Below(next_event[t]) \ {queue_tail})'
      <3>1. CASE Computed(t) /\ next_event'[t] = next_event[t]
        BY <2>4, <3>1
      <3>2. CASE next_event'[t] = Succ(queue_tail)
        BY <2>2, <2>3, <3>2, Zenon DEF Clean, Below, Dist
      <3> QED
        BY <1>c, <2>5, <3>1, <3>2
    <2>6. ASSUME TimerWaits' PROVE Clean(Below(timer.next_event) \ {queue_tail})'
      <3>1. CASE TimerWaits /\ timer' = timer
        BY <2>4, <3>1
      <3>2. CASE timer'.next_event = Succ(queue_tail)
        BY <2>2, <2>3, <3>2, Zenon DEF Clean, Below, Dist
      <3> QED
        BY <1>c, <2>6, <3>1, <3>2
    <2>7. TailsClean'
      BY <2>5, <2>6 DEF TailsClean
    <2> QED
      BY <1>c, <2>1, <2>7 DEF Inv, QueueInv
  <1>1. CASE debounce_interrupt_handler
    <2> USE <1>1 DEF debounce_interrupt_handler, Goto, queue, history
    <2>1. TypeOK'
      BY DEF TypeOK, Ids
    <2>2. Exclusion'
      BY DEF Exclusion, TypeOK
    <2>3. Fresh'
      BY DEF Fresh, TypeOK, Adding, TimerWaits
    <2>4. PopIsSafe'
      BY DEF PopIsSafe, TypeOK, Computed, TimerWaits
    <2>5. \A t \in Threads : Computed(t)' => Computed(t)
      BY DEF Computed, TypeOK
    <2> QED
      BY <1>c, <2>1, <2>2, <2>3, <2>4, <2>5 DEF TimerWaits
  <1>2. ASSUME NEW t \in Threads, AddNext(t) PROVE Inv'
    <2> USE <1>2 DEF AddNext, At, Goto, queue, history
    <2>1. TypeOK'
      BY DEF TypeOK
    <2>2. Exclusion'
      BY DEF Exclusion, TypeOK
    <2>3. Fresh'
      BY DEF Fresh, TypeOK, Adding, TimerWaits
    <2>4. PopIsSafe'
      BY DEF PopIsSafe, TypeOK, Computed, TimerWaits
    <2>5. \A u \in Threads : Computed(u)' =>
              \/ Computed(u) /\ next_event'[u] = next_event[u]
              \/ next_event'[u] = Succ(queue_tail)
      BY DEF Computed, TypeOK
    <2> QED
      BY <1>c, <2>1, <2>2, <2>3, <2>4, <2>5 DEF TimerWaits
  <1>3. ASSUME NEW t \in Threads, AddDown(t) PROVE Inv'
    <2>0. mutex = "free" /\ asleep # t /\ pc[t] = "down"
      BY <1>3 DEF AddDown, At, Runs, Ready
    <2>1. asleep # "deb"
      BY <2>0 DEF Exclusion
    <2> USE <1>3, <2>0, <2>1 DEF AddDown, Goto, queue, history
    <2>2. TypeOK'
      BY DEF TypeOK
    <2>3. Exclusion'
      BY DEF Exclusion, TypeOK
    <2>4. TimerWaits' <=> TimerWaits
      BY DEF TimerWaits, TypeOK
    <2>5. Fresh'
      BY <2>4 DEF Fresh, TypeOK, Adding
    <2>6. PopIsSafe'
      BY <2>4 DEF PopIsSafe, TypeOK, Computed
    <2>7. \A u \in Threads : Computed(u)' => Computed(u) /\ next_event'[u] = next_event[u]
      BY DEF Computed, TypeOK
    <2> QED
      BY <1>c, <2>2, <2>3, <2>4, <2>5, <2>6, <2>7
  <1>4. ASSUME NEW t \in Threads, AddUp(t) PROVE Inv'
    <2>0. asleep # t /\ pc[t] = "up" /\ mutex = t
      BY <1>4 DEF AddUp, At, Runs, Exclusion
    <2> USE <1>4, <2>0 DEF AddUp, Goto, queue, history
    <2>2. TypeOK'
      BY DEF TypeOK
    <2>3. Exclusion'
      BY DEF Exclusion, TypeOK
    <2>4. TimerWaits' <=> TimerWaits
      BY DEF TimerWaits, TypeOK
    <2>5. Fresh'
      BY <2>4 DEF Fresh, TypeOK, Adding
    <2>6. PopIsSafe'
      BY <2>4 DEF PopIsSafe, TypeOK, Computed
    <2>7. \A u \in Threads : Computed(u)' => Computed(u) /\ next_event'[u] = next_event[u]
      BY DEF Computed, TypeOK
    <2> QED
      BY <1>c, <2>2, <2>3, <2>4, <2>5, <2>6, <2>7
  <1>5. CASE DebTest \/ DebProcess
    <2>0. /\ Goto("deb", "popDown") \/ Goto("deb", "test")
          /\ pc["deb"] \in {"test", "process"}
          /\ Goto("deb", "popDown") => queue_head # queue_tail
          /\ UNCHANGED <<queue, mutex, id, next_event, asleep, timer, adds, added, taken,
                       history>>
      BY <1>5 DEF DebTest, DebProcess, At, Runs, Ready, Goto, TypeOK
    <2> USE <2>0 DEF Goto, queue, history
    <2>2. TypeOK'
      BY DEF TypeOK
    <2>3. Exclusion'
      BY DEF Exclusion, TypeOK
    <2>5. Fresh'
      BY DEF Fresh, TypeOK, Adding, TimerWaits
    <2>6. PopIsSafe'
      BY DEF PopIsSafe, TypeOK, Computed, TimerWaits
    <2>7. \A u \in Threads : Computed(u)' => Computed(u) /\ next_event'[u] = next_event[u]
      BY DEF Computed, TypeOK
    <2> QED
      BY <1>c, <2>2, <2>3, <2>5, <2>6, <2>7 DEF TimerWaits
  <1>6. CASE DebPopDown
    <2>0. mutex = "free" /\ asleep # "deb" /\ pc["deb"] = "popDown" /\ ~Awake("int")
      BY <1>6 DEF DebPopDown, At, Runs, Ready
    <2>1. asleep = "none"
      BY <2>0 DEF Awake, TypeOK
    <2>2. pc["int"] = "idle"
      BY <2>0, <2>1 DEF Awake, Ready, Exclusion
    <2> USE <1>6, <2>0, <2>1, <2>2 DEF DebPopDown, Goto, queue, history
    <2>3. TypeOK'
      BY DEF TypeOK
    <2>4. Exclusion'
      BY DEF Exclusion, TypeOK
    <2>5. Fresh'
      BY DEF Fresh, TypeOK, Adding, TimerWaits
    <2>6. PopIsSafe'
      BY DEF PopIsSafe, TypeOK, Computed, TimerWaits
    <2>7. \A u \in Threads : Computed(u)' => Computed(u) /\ next_event'[u] = next_event[u]
      BY DEF Computed, TypeOK
    <2> QED
      BY <1>c, <2>3, <2>4, <2>5, <2>6, <2>7 DEF TimerWaits
  <1>7. CASE DebPopUp
    <2>0. asleep # "deb" /\ pc["deb"] = "popUp" /\ mutex = "deb"
      BY <1>7 DEF DebPopUp, At, Runs, Exclusion
    <2> USE <1>7, <2>0 DEF DebPopUp, Goto, queue, history
    <2>2. TypeOK'
      BY DEF TypeOK
    <2>3. Exclusion'
      BY DEF Exclusion, TypeOK
    <2>4. TimerWaits' <=> TimerWaits
      BY DEF TimerWaits, TypeOK
    <2>5. Fresh'
      BY <2>4 DEF Fresh, TypeOK, Adding
    <2>6. PopIsSafe'
      BY <2>4 DEF PopIsSafe, TypeOK, Computed
    <2>7. \A u \in Threads : Computed(u)' => Computed(u) /\ next_event'[u] = next_event[u]
      BY DEF Computed, TypeOK
    <2> QED
      BY <1>c, <2>2, <2>3, <2>4, <2>5, <2>6, <2>7
  <1>8. CASE DebProcessAdds
    <2>0. pc["deb"] = "process"
      BY <1>8 DEF DebProcessAdds, At
    <2> USE <1>8, <2>0 DEF DebProcessAdds, Goto, queue, history
    <2>1. TypeOK'
      BY DEF TypeOK, Ids
    <2>2. Exclusion'
      BY DEF Exclusion, TypeOK
    <2>3. Fresh'
      BY DEF Fresh, TypeOK, Adding, TimerWaits
    <2>4. PopIsSafe'
      BY DEF PopIsSafe, TypeOK, Computed, TimerWaits
    <2>5. \A t \in Threads : Computed(t)' => Computed(t)
      BY DEF Computed, TypeOK
    <2> QED
      BY <1>c, <2>1, <2>2, <2>3, <2>4, <2>5 DEF TimerWaits
  <1>9. CASE TimerSleeps
    <2>0. /\ asleep = "none" /\ mutex # "free" /\ adds < MaxAdds /\ adds' = adds + 1
          /\ timer' = [id |-> adds + 1, next_event |-> Succ(queue_tail)]
          /\ asleep' = Current
          /\ UNCHANGED <<queue, mutex, pc, id, next_event, added, taken, history>>
      BY <1>9 DEF TimerSleeps
    <2>1. Current \in Threads \cup {"none"}
      BY DEF Current
    <2>2. Current = "deb" => mutex = "deb"
      <3> SUFFICES ASSUME Current = "deb", mutex = "int" PROVE FALSE
        BY <2>0 DEF TypeOK
      <3>1. pc["int"] \in {"store", "up"}
        BY DEF Exclusion
      <3>2. Runs("int")
        BY <2>0, <3>1 DEF Runs, Ready
      <3> QED
        BY <3>2 DEF Current
    <2> USE <2>0, <2>1, <2>2 DEF queue, history
    <2>3. TypeOK'
      BY DEF TypeOK, Ids
    <2>4. Exclusion'
      BY DEF Exclusion, TypeOK
    <2>5. Fresh'
      BY DEF Fresh, TypeOK, Adding, TimerWaits
    <2>6. PopIsSafe'
      BY DEF PopIsSafe, TypeOK, Computed, TimerWaits
    <2>7. \A u \in Threads : Computed(u)' => Computed(u) /\ next_event'[u] = next_event[u]
      BY DEF Computed, TypeOK
    <2>8. timer'.next_event = Succ(queue_tail)
      OBVIOUS
    <2> QED
      BY <1>c, <2>3, <2>4, <2>5, <2>6, <2>7, <2>8
  (* Steps that store.                                                     *)
  <1>d. ASSUME NEW n \in Ids, NEW next \in Slots, n \notin added,
               Clean(Below(next) \ {queue_tail}), Store(n, next), taken' = taken
        PROVE  /\ event_queue' \in [Slots -> Ids \cup {0}] /\ queue_tail' \in Slots
               /\ queue_head' = queue_head
               /\ added' = added \/ added' = added \cup {n}
               /\ Clean(Used)' /\ overtaken' \in SUBSET Ids /\ lost' \in SUBSET Ids
               /\ queue_head # queue_tail => queue_head' # queue_tail'
               /\ \A t \in Threads : Computed(t) /\ next_event'[t] = next_event[t]
                                        => Clean(Below(next_event[t]) \ {queue_tail})'
               /\ TimerWaits /\ timer'.next_event = timer.next_event
                      => Clean(Below(timer.next_event) \ {queue_tail})'
    <2>1. taken \subseteq added
      BY DEF Fresh
    <2>2. /\ event_queue' \in [Slots -> Ids \cup {0}] /\ queue_tail' \in Slots
          /\ queue_head' = queue_head
          /\ added' = added \/ added' = added \cup {n}
          /\ Clean(Used)'
          /\ queue_head # queue_tail => queue_head' # queue_tail'
          /\ \A m \in Slots : Clean(Below(m) \ {queue_tail})
                                 => Clean(Below(m) \ {queue_tail})'
      BY <1>d, <2>1, StoreLeaves
    <2>3. overtaken' \in SUBSET Ids /\ lost' \in SUBSET Ids
      BY <1>d, StoreHistory
    <2> QED
      BY <2>2, <2>3, TailsKept
  <1>10. ASSUME NEW t \in Threads, AddStore(t) PROVE Inv'
    <2>0. /\ asleep # t /\ pc[t] = "store" /\ mutex = t
          /\ pc' = [pc EXCEPT ![t] = "up"]
          /\ UNCHANGED <<mutex, id, next_event, asleep, timer, adds, taken>>
          /\ Store(id[t], next_event[t])
      BY <1>10 DEF AddStore, At, Runs, Exclusion, Goto
    <2>1. id[t] \in 1 .. adds /\ id[t] \notin added
      BY <2>0 DEF Fresh, Adding
    <2>2. id[t] \in Ids /\ next_event[t] \in Slots
      BY <2>1 DEF Ids, TypeOK
    <2>3. Clean(Below(next_event[t]) \ {queue_tail})
      BY <2>0 DEF TailsClean, Computed
    <2>4. /\ event_queue' \in [Slots -> Ids \cup {0}] /\ queue_tail' \in Slots
          /\ queue_head' = queue_head
          /\ added' = added \/ added' = added \cup {id[t]}
          /\ Clean(Used)' /\ overtaken' \in SUBSET Ids /\ lost' \in SUBSET Ids
          /\ queue_head # queue_tail => queue_head' # queue_tail'
          /\ \A u \in Threads : Computed(u) /\ next_event'[u] = next_event[u]
                                   => Clean(Below(next_event[u]) \ {queue_tail})'
          /\ TimerWaits /\ timer'.next_event = timer.next_event
                 => Clean(Below(timer.next_event) \ {queue_tail})'
      BY <1>d, <2>0, <2>1, <2>2, <2>3
    <2>5. TypeOK'
      BY <2>0, <2>2, <2>4 DEF TypeOK
    <2>6. Exclusion'
      BY <2>0 DEF Exclusion, TypeOK
    <2>7. Fresh'
      BY <2>0, <2>1, <2>4 DEF Fresh, TypeOK, Adding, TimerWaits
    <2>8. PopIsSafe'
      <3>1. pc["deb"] # "pop"
        BY <2>0 DEF Exclusion
      <3> QED
        BY <2>0, <2>4, <3>1 DEF PopIsSafe, TypeOK
    <2>9. TailsClean'
      BY <2>0, <2>4 DEF TailsClean, Computed, TimerWaits, TypeOK
    <2> QED
      BY <2>4, <2>5, <2>6, <2>7, <2>8, <2>9 DEF Inv, QueueInv
  <1>11. CASE debounce_timer_handler
    <2>0. /\ asleep = "none" /\ mutex = "free" /\ adds < MaxAdds /\ adds' = adds + 1
          /\ UNCHANGED <<mutex, pc, id, next_event, asleep, timer, taken>>
          /\ Store(adds + 1, Succ(queue_tail))
      BY <1>11 DEF debounce_timer_handler
    <2>1. adds + 1 \in Ids /\ adds + 1 \notin added
      BY <2>0 DEF Ids, Fresh
    <2>4. /\ event_queue' \in [Slots -> Ids \cup {0}] /\ queue_tail' \in Slots
          /\ queue_head' = queue_head
          /\ added' = added \/ added' = added \cup {adds + 1}
          /\ Clean(Used)' /\ overtaken' \in SUBSET Ids /\ lost' \in SUBSET Ids
          /\ queue_head # queue_tail => queue_head' # queue_tail'
          /\ \A u \in Threads : Computed(u) /\ next_event'[u] = next_event[u]
                                   => Clean(Below(next_event[u]) \ {queue_tail})'
      BY <1>d, <2>0, <2>1, CurrentTail
    <2>5. TypeOK'
      BY <2>0, <2>1, <2>4 DEF TypeOK
    <2>6. Exclusion'
      BY <2>0 DEF Exclusion
    <2>7. Fresh'
      <3>1. taken' \subseteq added' /\ added' \subseteq 1 .. adds'
        <4>1. /\ \A x \in 1 .. adds : x \in 1 .. (adds + 1)
              /\ adds + 1 \in 1 .. (adds + 1)
          OBVIOUS
        <4>2. taken \subseteq added /\ added \subseteq 1 .. adds
          BY DEF Fresh
        <4> QED
          BY <2>0, <2>4, <4>1, <4>2, Zenon
      <3>2. \A t \in Threads : Adding(t)' =>
                Adding(t) /\ id'[t] \in 1 .. adds' /\ id'[t] \notin added'
        BY <2>0, <2>4 DEF Fresh, Adding
      <3>3. /\ asleep' = "none" /\ ~TimerWaits'
            /\ Adding("int") /\ Adding("deb") => id'["int"] # id'["deb"]
        BY <2>0 DEF Fresh, TimerWaits
      <3> QED
        BY <3>1, <3>2, <3>3 DEF Fresh
    <2>8. PopIsSafe'
      <3>1. pc["deb"] # "pop"
        BY <2>0 DEF Exclusion
      <3> QED
        BY <2>0, <2>4, <3>1 DEF PopIsSafe
    <2>9. TailsClean'
      BY <2>0, <2>4 DEF TailsClean, Computed, TimerWaits
    <2> QED
      BY <2>4, <2>5, <2>6, <2>7, <2>8, <2>9 DEF Inv, QueueInv
  <1>12. CASE TimerWakes
    <2>0. /\ asleep # "none" /\ mutex = "free" /\ asleep' = "none" /\ timer' = NoTimer
          /\ UNCHANGED <<mutex, pc, id, next_event, adds, taken>>
          /\ Store(timer.id, timer.next_event)
      BY <1>12 DEF TimerWakes
    <2>1. TimerWaits
      BY <2>0 DEF TimerWaits, TypeOK
    <2>2. /\ timer.id \in 1 .. adds /\ timer.id \notin added /\ timer.id \in Ids
          /\ timer.next_event \in Slots
          /\ Clean(Below(timer.next_event) \ {queue_tail})
      BY <2>0, <2>1 DEF Fresh, TypeOK, Ids, TailsClean
    <2>4. /\ event_queue' \in [Slots -> Ids \cup {0}] /\ queue_tail' \in Slots
          /\ queue_head' = queue_head
          /\ added' = added \/ added' = added \cup {timer.id}
          /\ Clean(Used)' /\ overtaken' \in SUBSET Ids /\ lost' \in SUBSET Ids
          /\ queue_head # queue_tail => queue_head' # queue_tail'
          /\ \A u \in Threads : Computed(u) /\ next_event'[u] = next_event[u]
                                   => Clean(Below(next_event[u]) \ {queue_tail})'
      BY <1>d, <2>0, <2>2
    <2>5. TypeOK'
      BY <2>0, <2>2, <2>4 DEF TypeOK, NoTimer
    <2>6. Exclusion'
      BY <2>0 DEF Exclusion
    <2>7. Fresh'
      BY <2>0, <2>1, <2>2, <2>4 DEF Fresh, Adding, TimerWaits
    <2>8. PopIsSafe'
      <3>1. pc["deb"] # "pop"
        BY <2>0 DEF Exclusion
      <3> QED
        BY <2>0, <2>4, <3>1 DEF PopIsSafe
    <2>9. TailsClean'
      BY <2>0, <2>4 DEF TailsClean, Computed, TimerWaits
    <2> QED
      BY <2>4, <2>5, <2>6, <2>7, <2>8, <2>9 DEF Inv, QueueInv
  (* The step that takes an index.                                         *)
  <1>13. CASE DebPop
    <2>0. /\ asleep # "deb" /\ pc["deb"] = "pop" /\ mutex = "deb"
          /\ pc' = [pc EXCEPT !["deb"] = "popUp"]
          /\ queue_head' = Succ(queue_head) /\ queue_tail' = queue_tail
          /\ taken' = taken \cup {event_queue[queue_head]}
          /\ UNCHANGED <<event_queue, mutex, id, next_event, asleep, timer, adds, added, history>>
      BY <1>13 DEF DebPop, At, Runs, Exclusion, Goto
    <2>1. queue_head # queue_tail
      BY <2>0 DEF PopIsSafe
    <2>2. queue_head \in Used /\ Used' = Used \ {queue_head}
      BY <2>0, <2>1, UsedAfterPop
    <2>3. event_queue[queue_head] \in added \ taken
      BY <2>2 DEF Clean
    <2>4. Clean(Used)'
      BY <2>0, <2>2, Zenon DEF Clean
    <2>5. TypeOK'
      BY <2>0, <2>3 DEF TypeOK, history
    <2>6. Exclusion'
      BY <2>0 DEF Exclusion, TypeOK
    <2>7. Fresh'
      BY <2>0, <2>3 DEF Fresh, TypeOK, Adding, TimerWaits
    <2>8. PopIsSafe'
      BY <2>0 DEF PopIsSafe, TypeOK
    <2>9. TailsClean'
      <3>1. (TypeOK /\ Clean(Used) => Clean(Below(Succ(queue_tail)) \ {queue_tail}))'
        BY CurrentTail, PTL
      <3>2. Clean(Below(Succ(queue_tail)) \ {queue_tail})'
        BY <2>4, <2>5, <3>1
      <3>3. ASSUME NEW t \in Threads, Computed(t)'
            PROVE  Clean(Below(next_event[t]) \ {queue_tail})'
        <4>1. t = "int" /\ Computed("int")
          BY <2>0, <3>3 DEF Computed, TypeOK
        <4>2. next_event'[t] = Succ(queue_tail)'
          BY <2>0, <4>1 DEF PopIsSafe, Succ
        <4> QED
          BY <3>2, <4>2, Zenon DEF Clean, Below, Dist
      <3>4. ASSUME TimerWaits' PROVE Clean(Below(timer.next_event) \ {queue_tail})'
        <4>1. timer'.next_event = Succ(queue_tail)'
          BY <2>0, <3>4 DEF PopIsSafe, Succ, TimerWaits
        <4> QED
          BY <3>2, <4>1, Zenon DEF Clean, Below, Dist
      <3> QED
        BY <3>3, <3>4 DEF TailsClean
    <2> QED
      BY <2>4, <2>5, <2>6, <2>7, <2>8, <2>9 DEF Inv, QueueInv
  <1>14. CASE UNCHANGED vars
    <2> USE <1>14 DEF vars, queue, history
    <2>1. TypeOK'
      BY DEF TypeOK
    <2>2. Exclusion' /\ Fresh' /\ PopIsSafe'
      BY DEF Exclusion, Fresh, PopIsSafe, Adding, Computed, TimerWaits
    <2>3. \A u \in Threads : Computed(u)' => Computed(u) /\ next_event'[u] = next_event[u]
      BY DEF Computed
    <2> QED
      BY <1>c, <2>1, <2>2, <2>3 DEF TimerWaits
  <1> QED
    BY <1>1, <1>2, <1>3, <1>4, <1>5, <1>6, <1>7, <1>8, <1>9, <1>10, <1>11, <1>12, <1>13,
       <1>14 DEF Next

(* The inductive invariant of the queue.                                   *)
THEOREM Invariance == Spec => []Inv
  BY InitInv, NextInv, PTL DEF Spec

(* Head, tail and every tail computed in advance stay inside the queue.    *)
THEOREM TypeCorrect == Spec => []TypeOK
  <1>1. Inv => TypeOK
    BY DEF Inv
  <1> QED
    BY <1>1, Invariance, PTL

(* An index that was taken is not in the queue again, and none is in it    *)
(* twice.                                                                  *)
THEOREM NeverReplays == Spec => []NoReplay
  <1>1. Inv => NoReplay
    BY DEF Inv, QueueInv, Clean, NoReplay
  <1> QED
    BY <1>1, Invariance, PTL

-----------------------------------------------------------------------------
(* No index of a call under way has been lost; a call that no store came   *)
(* into the middle of has computed the tail that follows the current one;  *)
(* and as long as no other call has stored, what was stored and not taken  *)
(* is in the queue.                                                        *)
LossInv ==
    /\ lost \subseteq 1 .. adds
    /\ \A t \in Threads : Adding(t) => id[t] \notin lost
    /\ TimerWaits => timer.id \notin lost
    /\ \A t \in Threads : Computed(t) =>
           id[t] \in overtaken \/ next_event[t] = Succ(queue_tail)
    /\ TimerWaits => timer.id \in overtaken \/ timer.next_event = Succ(queue_tail)
    /\ overtaken \cap added = {} =>
           /\ lost \cap added = {}
           /\ \A m \in added \ taken : \E s \in Used : event_queue[s] = m

(* What add_index leaves of it.                                            *)
LEMMA StoreLoses ==
    ASSUME Inv, LossInv, NEW n \in Ids, NEW next \in Slots, n \notin added, n \notin lost,
           n \in overtaken \/ next = Succ(queue_tail), Store(n, next), taken' = taken
    PROVE  /\ overtaken' \cap added' = {} =>
                  /\ lost' \cap added' = {}
                  /\ \A m \in added' \ taken' : \E s \in Used' : event_queue'[s] = m
           /\ lost' \subseteq lost \cup added \cup {n} /\ added' \subseteq added \cup {n}
           /\ \A x \in UnderWay \ {n} : x \in overtaken' \/ queue_tail' = queue_tail
           /\ overtaken \subseteq overtaken'
  <1>0. /\ event_queue \in [Slots -> Ids \cup {0}] /\ queue_head \in Slots
        /\ queue_tail \in Slots
    BY DEF Inv, TypeOK
  <1>1. CASE next = queue_head
    <2>1. UNCHANGED <<event_queue, queue_head, queue_tail, added, overtaken>>
          /\ lost' = lost \cup {n}
      BY <1>1 DEF Store, Stored, queue
    <2>2. Used' = Used
      BY <2>1 DEF Used
    <2> QED
      BY <2>1, <2>2 DEF LossInv
  <1>2. CASE next # queue_head
    <2>1. /\ event_queue' = [event_queue EXCEPT ![queue_tail] = n]
          /\ queue_tail' = next /\ added' = added \cup {n} /\ queue_head' = queue_head
          /\ overtaken' = overtaken \cup (UnderWay \ {n})
          /\ lost' = lost \cup {m \in added' \ taken : \A s \in Used' : event_queue'[s] # m}
      BY <1>2 DEF Store, Stored
    <2>2. ASSUME overtaken' \cap added' = {}
          PROVE  \A m \in added' \ taken' : \E s \in Used' : event_queue'[s] = m
      <3>1. overtaken \cap added = {} /\ n \notin overtaken
        BY <2>1, <2>2
      <3>2. next = Succ(queue_tail)
        BY <3>1
      <3>3. Used' = Below(next)
        BY <1>2, <2>1, UsedAfterStore
      <3>4. Below(next) \ {queue_tail} = Used /\ Used \subseteq Slots
        BY <1>0, <3>2, BelowSucc DEF Used
      <3>5. queue_tail \in Below(next)
        <4>1. /\ QueueMax \in Nat /\ QueueMax > 1 /\ queue_tail \in 0 .. (QueueMax - 1)
              /\ queue_head \in 0 .. (QueueMax - 1) /\ next \in 0 .. (QueueMax - 1)
              /\ next = IF queue_tail = QueueMax - 1 THEN 0 ELSE queue_tail + 1
          BY <1>0, <3>2, SlotSteps
        <4>2. /\ Dist(queue_tail) = IF queue_head <= queue_tail THEN queue_tail - queue_head
                                    ELSE queue_tail - queue_head + QueueMax
              /\ Dist(next) = IF queue_head <= next THEN next - queue_head
                              ELSE next - queue_head + QueueMax
          BY <1>0, DistIs
        <4>3. Dist(queue_tail) < Dist(next)
          BY <1>2, <4>1, <4>2
        <4> QED
          BY <1>0, <4>3 DEF Below
      <3>6. ASSUME NEW m \in added' \ taken' PROVE \E s \in Used' : event_queue'[s] = m
        <4>1. CASE m = n
          <5>1. event_queue'[queue_tail] = m
            BY <1>0, <2>1, <4>1
          <5> QED
            BY <3>3, <3>5, <5>1
        <4>2. CASE m # n
          <5>1. PICK s \in Used : event_queue[s] = m
            BY <2>1, <3>1, <3>6, <4>2 DEF LossInv
          <5>2. s \in Below(next) /\ s # queue_tail /\ s \in Slots
            BY <3>4
          <5>3. event_queue'[s] = m
            BY <1>0, <2>1, <5>1, <5>2
          <5> QED
            BY <3>3, <5>2, <5>3
        <4> QED
          BY <4>1, <4>2
      <3> QED
        BY <3>6
    <2>3. ASSUME overtaken' \cap added' = {} PROVE lost' \cap added' = {}
      <3>1. lost' = lost
        BY <2>1, <2>2, <2>3
      <3>2. overtaken \cap added = {}
        BY <2>1, <2>3
      <3> QED
        BY <2>1, <3>1, <3>2 DEF LossInv
    <2> QED
      BY <2>1, <2>2, <2>3
  <1> QED
    BY <1>1, <1>2

(* Every step keeps the account of lost indices.                           *)
LEMMA NextLoss == Inv /\ Inv' /\ LossInv /\ [Next]_vars => LossInv'
  <1> SUFFICES ASSUME Inv, Inv', LossInv, [Next]_vars PROVE LossInv'
    OBVIOUS
  <1>0. TypeOK /\ Exclusion /\ Fresh /\ PopIsSafe
    BY DEF Inv, QueueInv
  <1>a. adds \in Nat /\ adds' \in Nat /\ (adds' = adds \/ adds' = adds + 1)
    <2>1. adds \in 0 .. MaxAdds /\ adds' \in 0 .. MaxAdds
      BY DEF Inv, TypeOK
    <2>2. adds' = adds \/ adds' = adds + 1
      BY DEF Next, vars, debounce_interrupt_handler, AddNext, AddDown, AddStore, AddUp, DebTest,
         DebPopDown, DebPop, DebPopUp, DebProcess, DebProcessAdds, debounce_timer_handler,
         TimerSleeps, TimerWakes
    <2> QED
      BY <2>1, <2>2, QueueAssumption
  <1>b. /\ "int" \in Threads /\ "deb" \in Threads
        /\ \A t \in Threads : t = "int" \/ t = "deb"
        /\ "int" # "deb" /\ "none" \notin Threads /\ "free" \notin Threads
    BY DEF Threads
  <1>s. \A x : x \in 1 .. adds => x \in 1 .. adds'
    BY <1>a
  (* Steps that leave the queue alone.                                     *)
  <1>c. ASSUME UNCHANGED <<queue, added, taken, history>>,
               \A t \in Threads : Adding(t)' =>
                   \/ Adding(t) /\ id'[t] = id[t]
                   \/ id'[t] = adds + 1,
               \A t \in Threads : Computed(t)' =>
                   \/ Computed(t) /\ next_event'[t] = next_event[t] /\ id'[t] = id[t]
                   \/ next_event'[t] = Succ(queue_tail),
               TimerWaits' => \/ TimerWaits /\ timer' = timer
                              \/ /\ timer'.next_event = Succ(queue_tail)
                                 /\ timer'.id = adds + 1
        PROVE  LossInv'
    <2>1. UNCHANGED <<event_queue, queue_head, queue_tail, added, taken, overtaken, lost>>
      BY <1>c DEF queue, history
    <2>2. Used' = Used /\ Succ(queue_tail)' = Succ(queue_tail)
      BY <2>1 DEF Used, Succ
    <2>3. adds + 1 \notin lost
      BY <1>a DEF LossInv
    <2>4. lost' \subseteq 1 .. adds'
      BY <2>1, <1>s DEF LossInv
    <2>5. \A t \in Threads : Adding(t)' => id'[t] \notin lost'
      BY <1>c, <2>1, <2>3 DEF LossInv
    <2>6. \A t \in Threads : Computed(t)' =>
              id'[t] \in overtaken' \/ next_event'[t] = Succ(queue_tail)'
      BY <1>c, <2>1, <2>2 DEF LossInv
    <2>7. TimerWaits' => /\ timer'.id \notin lost'
                         /\ timer'.id \in overtaken' \/ timer'.next_event = Succ(queue_tail)'
      BY <1>c, <2>1, <2>2, <2>3 DEF LossInv
    <2>8. overtaken' \cap added' = {} =>
              /\ lost' \cap added' = {}
              /\ \A m \in added' \ taken' : \E s \in Used' : event_queue'[s] = m
      BY <2>1, <2>2 DEF LossInv
    <2> QED
      BY <2>4, <2>5, <2>6, <2>7, <2>8 DEF LossInv
  (* Steps that store: who else is in add_index stays there.               *)
  <1>d. ASSUME NEW n \in Ids, NEW next \in Slots, n \notin added, n \notin lost,
               n \in overtaken \/ next = Succ(queue_tail), Store(n, next), taken' = taken,
               n \in 1 .. adds',
               \A t \in Threads : Adding(t)' =>
                   Adding(t) /\ id'[t] = id[t] /\ id[t] # n /\ id[t] \notin added,
               \A t \in Threads : Computed(t)' =>
                   Computed(t) /\ next_event'[t] = next_event[t] /\ id'[t] = id[t] /\ id[t] # n,
               TimerWaits' => /\ TimerWaits /\ timer' = timer /\ timer.id # n
                              /\ timer.id \notin added
        PROVE  LossInv'
    <2>1. /\ overtaken' \cap added' = {} =>
                  /\ lost' \cap added' = {}
                  /\ \A m \in added' \ taken' : \E s \in Used' : event_queue'[s] = m
          /\ lost' \subseteq lost \cup added \cup {n} /\ added' \subseteq added \cup {n}
          /\ \A x \in UnderWay \ {n} : x \in overtaken' \/ queue_tail' = queue_tail
          /\ overtaken \subseteq overtaken'
      BY <1>d, StoreLoses
    <2>2. lost' \subseteq 1 .. adds'
      BY <1>0, <1>d, <1>s, <2>1 DEF LossInv, Fresh
    <2>3. \A t \in Threads : Adding(t)' => id'[t] \notin lost'
      BY <1>d, <2>1 DEF LossInv
    <2>4. queue_tail' = queue_tail => Succ(queue_tail)' = Succ(queue_tail)
      BY DEF Succ
    <2>5. ASSUME NEW t \in Threads, Computed(t)'
          PROVE  id'[t] \in overtaken' \/ next_event'[t] = Succ(queue_tail)'
      <3>1. id[t] \in UnderWay \ {n}
        BY <1>d, <2>5 DEF UnderWay
      <3> QED
        BY <1>d, <2>1, <2>4, <2>5, <3>1 DEF LossInv
    <2>6. ASSUME TimerWaits'
          PROVE  /\ timer'.id \notin lost'
                 /\ timer'.id \in overtaken' \/ timer'.next_event = Succ(queue_tail)'
      <3>1. timer.id \in UnderWay \ {n}
        BY <1>d, <2>6 DEF UnderWay, TimerWaits
      <3> QED
        BY <1>d, <2>1, <2>4, <2>6, <3>1 DEF LossInv
    <2> QED
      BY <2>1, <2>2, <2>3, <2>5, <2>6 DEF LossInv
  <1> USE <1>0, <1>b
  <1>1. CASE debounce_interrupt_handler
    <2> USE <1>1 DEF debounce_interrupt_handler, Goto, TypeOK
    <2>1. \A t \in Threads : Adding(t)' => (Adding(t) /\ id'[t] = id[t]) \/ id'[t] = adds + 1
      BY DEF Adding
    <2>2. \A t \in Threads : Computed(t)' =>
              Computed(t) /\ next_event'[t] = next_event[t] /\ id'[t] = id[t]
      BY DEF Computed
    <2> QED
      BY <1>c, <2>1, <2>2 DEF TimerWaits
  <1>2. ASSUME NEW t \in Threads, AddNext(t) PROVE LossInv'
    <2> USE <1>2 DEF AddNext, At, Goto, TypeOK
    <2>1. \A u \in Threads : Adding(u)' => Adding(u) /\ id'[u] = id[u]
      BY DEF Adding
    <2>2. \A u \in Threads : Computed(u)' =>
              \/ Computed(u) /\ next_event'[u] = next_event[u] /\ id'[u] = id[u]
              \/ next_event'[u] = Succ(queue_tail)
      BY DEF Computed
    <2> QED
      BY <1>c, <2>1, <2>2 DEF TimerWaits
  <1>3. ASSUME NEW t \in Threads, AddDown(t) \/ AddUp(t) PROVE LossInv'
    <2>0. /\ UNCHANGED <<queue, id, next_event, asleep, timer, added, taken, history>>
          /\ \A u \in Threads : pc'[u] = pc[u] \/ pc'[u] \notin {"next", "down", "store"}
                                 \/ (pc[u] = "down" /\ pc'[u] = "store")
      BY <1>3 DEF AddDown, AddUp, At, Goto, TypeOK
    <2>1. TimerWaits' => TimerWaits
      <3>1. CASE AddDown(t)
        <4>1. mutex = "free"
          BY <3>1 DEF AddDown, At, Runs, Ready
        <4> QED
          BY <2>0, <4>1 DEF TimerWaits, TypeOK
      <3>2. CASE AddUp(t)
        <4>1. mutex = t /\ asleep # t
          BY <3>2 DEF AddUp, At, Runs, Exclusion
        <4> QED
          BY <2>0, <4>1 DEF TimerWaits
      <3> QED
        BY <1>3, <3>1, <3>2
    <2>2. \A u \in Threads : Adding(u)' => Adding(u) /\ id'[u] = id[u]
      BY <2>0 DEF Adding
    <2>3. \A u \in Threads : Computed(u)' =>
              Computed(u) /\ next_event'[u] = next_event[u] /\ id'[u] = id[u]
      BY <2>0 DEF Computed
    <2> QED
      BY <1>c, <2>0, <2>1, <2>2, <2>3
  <1>4. CASE DebTest \/ DebProcess \/ DebPopDown \/ DebPopUp
    <2>0. /\ UNCHANGED <<queue, id, next_event, asleep, timer, added, taken, history>>
          /\ \A u \in Threads : pc'[u] = pc[u] \/ pc'[u] \notin {"next", "down", "store"}
      BY <1>4 DEF DebTest, DebProcess, DebPopDown, DebPopUp, At, Goto, TypeOK
    <2>1. TimerWaits' => TimerWaits
      <3>1. CASE DebTest \/ DebProcess
        BY <3>1 DEF DebTest, DebProcess, TimerWaits
      <3>2. CASE DebPopDown
        <4>1. mutex = "free"
          BY <3>2 DEF DebPopDown, At, Runs, Ready
        <4> QED
          BY <2>0, <4>1 DEF TimerWaits, TypeOK
      <3>3. CASE DebPopUp
        <4>1. mutex = "deb" /\ asleep # "deb"
          BY <3>3 DEF DebPopUp, At, Runs, Exclusion
        <4> QED
          BY <2>0, <4>1 DEF TimerWaits
      <3> QED
        BY <1>4, <3>1, <3>2, <3>3
    <2>2. \A u \in Threads : Adding(u)' => Adding(u) /\ id'[u] = id[u]
      BY <2>0 DEF Adding
    <2>3. \A u \in Threads : Computed(u)' =>
              Computed(u) /\ next_event'[u] = next_event[u] /\ id'[u] = id[u]
      BY <2>0 DEF Computed
    <2> QED
      BY <1>c, <2>0, <2>1, <2>2, <2>3
  <1>5. CASE DebProcessAdds
    <2> USE <1>5 DEF DebProcessAdds, Goto, TypeOK
    <2>1. \A t \in Threads : Adding(t)' => (Adding(t) /\ id'[t] = id[t]) \/ id'[t] = adds + 1
      BY DEF Adding
    <2>2. \A t \in Threads : Computed(t)' =>
              Computed(t) /\ next_event'[t] = next_event[t] /\ id'[t] = id[t]
      BY DEF Computed
    <2> QED
      BY <1>c, <2>1, <2>2 DEF TimerWaits
  <1>6. CASE TimerSleeps
    <2>0. /\ timer' = [id |-> adds + 1, next_event |-> Succ(queue_tail)]
          /\ UNCHANGED <<queue, pc, id, next_event, added, taken, history>>
      BY <1>6 DEF TimerSleeps
    <2>1. timer'.next_event = Succ(queue_tail) /\ timer'.id = adds + 1
      BY <2>0
    <2> QED
      BY <1>c, <2>0, <2>1 DEF Adding, Computed
  <1>7. ASSUME NEW t \in Threads, AddStore(t) PROVE LossInv'
    <2>0. /\ asleep # t /\ pc[t] = "store" /\ mutex = t
          /\ pc' = [pc EXCEPT ![t] = "up"]
          /\ UNCHANGED <<mutex, id, next_event, asleep, timer, adds, taken>>
          /\ Store(id[t], next_event[t])
      BY <1>7 DEF AddStore, At, Runs, Exclusion, Goto
    <2>1. id[t] \in 1 .. adds /\ id[t] \notin added /\ id[t] \notin lost
      BY <2>0 DEF Fresh, Adding, LossInv
    <2>2. id[t] \in Ids /\ next_event[t] \in Slots
      BY <2>1 DEF Ids, TypeOK
    <2>3. id[t] \in overtaken \/ next_event[t] = Succ(queue_tail)
      BY <2>0 DEF LossInv, Computed
    <2>4. \A u \in Threads : Adding(u)' =>
              Adding(u) /\ id'[u] = id[u] /\ id[u] # id[t] /\ id[u] \notin added
      BY <2>0 DEF Adding, TypeOK, Fresh
    <2>5. \A u \in Threads : Computed(u)' =>
              Computed(u) /\ next_event'[u] = next_event[u] /\ id'[u] = id[u] /\ id[u] # id[t]
      BY <2>0 DEF Computed, Adding, TypeOK, Fresh
    <2>6. TimerWaits' => /\ TimerWaits /\ timer' = timer /\ timer.id # id[t]
                         /\ timer.id \notin added
      BY <2>0 DEF TimerWaits, Fresh, Adding
    <2> QED
      BY <1>d, <1>s, <2>0, <2>1, <2>2, <2>3, <2>4, <2>5, <2>6
  <1>8. CASE debounce_timer_handler
    <2>0. /\ asleep = "none" /\ adds < MaxAdds /\ adds' = adds + 1
          /\ UNCHANGED <<mutex, pc, id, next_event, asleep, timer, taken>>
          /\ Store(adds + 1, Succ(queue_tail))
      BY <1>8 DEF debounce_timer_handler
    <2>1. adds + 1 \in Ids /\ adds + 1 \notin added /\ adds + 1 \notin lost
          /\ adds + 1 \in 1 .. adds'
      BY <1>a, <2>0, QueueAssumption DEF Ids, Fresh, LossInv
    <2>2. Succ(queue_tail) \in Slots
      BY SlotSteps DEF TypeOK
    <2>3. \A u \in Threads : Adding(u)' =>
              Adding(u) /\ id'[u] = id[u] /\ id[u] # adds + 1 /\ id[u] \notin added
      BY <1>a, <2>0 DEF Adding, Fresh
    <2>4. \A u \in Threads : Computed(u)' =>
              Computed(u) /\ next_event'[u] = next_event[u] /\ id'[u] = id[u] /\ id[u] # adds + 1
      BY <1>a, <2>0 DEF Computed, Adding, Fresh
    <2>5. ~TimerWaits'
      BY <2>0 DEF TimerWaits
    <2> QED
      BY <1>d, <2>0, <2>1, <2>2, <2>3, <2>4, <2>5
  <1>9. CASE TimerWakes
    <2>0. /\ asleep # "none" /\ mutex = "free" /\ asleep' = "none" /\ timer' = NoTimer
          /\ UNCHANGED <<mutex, pc, id, next_event, adds, taken>>
          /\ Store(timer.id, timer.next_event)
      BY <1>9 DEF TimerWakes
    <2>1. TimerWaits
      BY <2>0 DEF TimerWaits, TypeOK
    <2>2. /\ timer.id \in 1 .. adds /\ timer.id \notin added /\ timer.id \in Ids
          /\ timer.next_event \in Slots /\ timer.id \notin lost
          /\ timer.id \in overtaken \/ timer.next_event = Succ(queue_tail)
      BY <2>0, <2>1 DEF Fresh, TypeOK, Ids, LossInv
    <2>3. \A u \in Threads : Adding(u)' =>
              Adding(u) /\ id'[u] = id[u] /\ id[u] # timer.id /\ id[u] \notin added
      BY <2>0, <2>1 DEF Adding, Fresh
    <2>4. \A u \in Threads : Computed(u)' =>
              Computed(u) /\ next_event'[u] = next_event[u] /\ id'[u] = id[u] /\ id[u] # timer.id
      BY <2>0, <2>1 DEF Computed, Adding, Fresh
    <2>5. ~TimerWaits'
      BY <2>0 DEF TimerWaits
    <2> QED
      BY <1>d, <1>s, <2>0, <2>2, <2>3, <2>4, <2>5
  (* The step that takes an index.                                         *)
  <1>10. CASE DebPop
    <2>0. /\ pc["deb"] = "pop" /\ pc' = [pc EXCEPT !["deb"] = "popUp"]
          /\ queue_head' = Succ(queue_head) /\ queue_tail' = queue_tail
          /\ taken' = taken \cup {event_queue[queue_head]}
          /\ UNCHANGED <<event_queue, mutex, id, next_event, asleep, timer, adds, added,
                         overtaken, lost>>
      BY <1>10 DEF DebPop, At, Goto, history
    <2>1. queue_head \in Used /\ Used' = Used \ {queue_head}
      BY <2>0, UsedAfterPop DEF PopIsSafe, TypeOK
    <2>2. ASSUME overtaken' \cap added' = {}
          PROVE  /\ lost' \cap added' = {}
                 /\ \A m \in added' \ taken' : \E s \in Used' : event_queue'[s] = m
      <3>1. ASSUME NEW m \in added' \ taken' PROVE \E s \in Used' : event_queue'[s] = m
        <4>1. PICK s \in Used : event_queue[s] = m
          BY <2>0, <2>2, <3>1 DEF LossInv
        <4>2. s # queue_head
          BY <2>0, <3>1, <4>1
        <4> QED
          BY <2>0, <2>1, <4>1, <4>2
      <3> QED
        BY <2>0, <2>2, <3>1 DEF LossInv
    <2>3. Succ(queue_tail)' = Succ(queue_tail)
      BY <2>0 DEF Succ
    <2>4. \A t \in Threads : /\ Adding(t)' => Adding(t) /\ id'[t] = id[t]
                             /\ Computed(t)' => Computed(t)
      BY <2>0 DEF Adding, Computed, TypeOK
    <2>5. TimerWaits' => TimerWaits
      BY <2>0 DEF TimerWaits
    <2>6. lost' \subseteq 1 .. adds' /\ (\A t \in Threads : Adding(t)' => id'[t] \notin lost')
      BY <2>0, <2>4 DEF LossInv
    <2>7. \A t \in Threads : Computed(t)' =>
              id'[t] \in overtaken' \/ next_event'[t] = Succ(queue_tail)'
      BY <2>0, <2>3, <2>4 DEF LossInv
    <2>8. TimerWaits' => /\ timer'.id \notin lost'
                         /\ timer'.id \in overtaken' \/ timer'.next_event = Succ(queue_tail)'
      BY <2>0, <2>3, <2>5 DEF LossInv
    <2> QED
      BY <2>2, <2>6, <2>7, <2>8 DEF LossInv
  <1>11. CASE UNCHANGED vars
    BY <1>c, <1>11 DEF vars, Adding, Computed, TimerWaits
  <1> QED
    BY <1>1, <1>2, <1>3, <1>4, <1>5, <1>6, <1>7, <1>8, <1>9, <1>10, <1>11 DEF Next

(* Only a call that another one's store came into the middle of can put an *)
(* index out of the queue.                                                 *)
THEOREM LossNeedsOverlap == Spec => []LostOnlyToOverlap
  <1>1. Init => LossInv
    BY DEF Init, LossInv, Adding, Computed, TimerWaits, Threads
  <1>2. LossInv => LostOnlyToOverlap
    BY DEF LossInv, LostOnlyToOverlap
  <1> QED
    BY <1>1, <1>2, Invariance, NextLoss, PTL DEF Spec
=============================================================================
