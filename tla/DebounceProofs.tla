--------------------------- MODULE DebounceProofs ---------------------------
(***************************************************************************)
(* Theorems about Debounce, for every table of poll counts, every choice   *)
(* of forced entries, every size of the queue and every number of changes  *)
(* of the inputs and of overlapping calls of add_index.                    *)
(***************************************************************************)
EXTENDS Debounce, FiniteSetTheorems, FunctionTheorems, TLAPS

(* The entries with an index on the queue, or with one that was lost.      *)
InQueue == {event_queue[n] : n \in 1 .. queue_tail} \cup lost

DonePcs == {"finish", "load", "store", "reset"}

(* Where the thread may be with which entry.                               *)
Flow ==
    /\ dpc = "idle" <=> i = "NONE"
    /\ dpc \in {"clear", "sense"} => PollCount[i] # 0
    /\ dpc \in {"decide", "callback"} /\ i # "MB2I_DELAY" => status \in {0, 1}
    /\ dpc \in {"attach", "attach2"} => i = "HEADSET" /\ status = 1
    /\ dpc = "hsdet" => i \in {"MB2I", "MB2I_FINAL"} /\ status = 0
    /\ further = 1 => /\ dpc \in {"finish", "reset"}
                      /\ i \notin enabled \cup {"MB2I_FINAL"}

(* The entry in hand is enabled; a secondary entry only until its callback *)
(* has run.                                                                *)
Enabled ==
    /\ dpc \notin {"idle"} \cup DonePcs => i \in enabled
    /\ i \in {"POWER", "HEADSET"} => i \in enabled
    /\ dpc \in DonePcs => i \notin {"MB2I_DELAY", "MB2I_FINAL"} \cap enabled
    /\ "POWER" \notin enabled => ONOFD1I \in mask
    /\ "HEADSET" \notin enabled => HSDETI \in mask
    /\ {"MB2I", "MB2I_DELAY", "MB2I_FINAL"} \cap enabled # {} => "HEADSET" \in enabled

(* Entry k is waiting for the thread, or the thread has not come to the    *)
(* lines pcs with it.                                                      *)
Ahead(k, pcs) == k \in InQueue \cup timers \/ (i = k /\ dpc \notin pcs)

Taken(e) == e \in serviced \cup todo

(* Who will unmask a masked event of an enabled entry.                     *)
MaskedHasEntry ==
    /\ "POWER" \in enabled /\ ONOFD1I \in mask =>
           Taken(ONOFD1I) \/ Ahead("POWER", {"load", "store", "reset"})
    /\ "HEADSET" \in enabled /\ HSDETI \in mask =>
           Taken(HSDETI) \/ Ahead("HEADSET", {"load", "store", "reset"})
    /\ "MB2I" \in enabled /\ MC2BI \in mask =>
           \/ Taken(MC2BI) \/ Ahead("MB2I", {"load", "store", "reset"})
           \/ Taken(HSDETI) \/ Ahead("HEADSET", DonePcs)
           \/ i = "MB2I_FINAL" /\ dpc = "finish"
    /\ \A k \in {"MB2I_DELAY", "MB2I_FINAL"} : k \in enabled => Ahead(k, DonePcs)

(* A change of the input that the thread has still to look at.             *)
Unseen(e, k) == e \in stat \/ Taken(e) \/ k \in InQueue \cup timers

PowerReported == "POWER" \in enabled /\ ~Unseen(ONOFD1I, "POWER") =>
    /\ i = "POWER" /\ dpc \in {"decide", "callback"} => status = SenseBit(ONOFD1I)
    /\ i # "POWER" \/ dpc \in DonePcs =>
           power_key = IF ONOFD1I \in sense THEN "KEYUP" ELSE "KEYDOWN"

HeadsetReported == "HEADSET" \in enabled /\ ~Unseen(HSDETI, "HEADSET") =>
    /\ i = "HEADSET" /\ dpc \in {"decide", "callback", "attach"} => status = SenseBit(HSDETI)
    /\ i # "HEADSET" \/ dpc \in {"attach2"} \cup DonePcs =>
           (connected # {} <=> HSDETI \in sense)

(* The headset is being, or will be, detected anew.                        *)
Redetect == Unseen(HSDETI, "HEADSET") \/ (i = "HEADSET" /\ dpc \notin DonePcs)

KeyReported == "HEADSET" \in enabled =>
    /\ dpc = "hsdet" /\ hsdet_status = 1 => Redetect
    /\ dpc = "hsdet" /\ i = "MB2I" => connected # {}
    /\ i \in {"MB2I", "MB2I_FINAL"} /\ dpc \in {"decide", "callback", "hsdet"} =>
           Unseen(MC2BI, "MB2I") \/ status = SenseBit(MC2BI)
    /\ previous_key_state # "UNKNOWN" =>
           \/ Unseen(MC2BI, "MB2I") \/ Redetect
           \/ i = "MB2I" /\ dpc \notin DonePcs
           \/ "MB2I_DELAY" \in enabled \/ "MB2I_FINAL" \in enabled
           \/ connected = {}
           \/ previous_key_state = IF MC2BI \in sense THEN "RELEASE" ELSE "PRESS"
    /\ previous_key_state # "UNKNOWN" =>
           {"MB2I", "MB2I_DELAY", "MB2I_FINAL"} \cap enabled # {}

DebounceInv == Flow /\ Enabled /\ MaskedHasEntry /\ PowerReported /\ HeadsetReported
               /\ KeyReported

-----------------------------------------------------------------------------
(* The array with an index stored at the tail.                             *)
LEMMA PlacedIndex ==
    ASSUME QueueTypeOK(Index), NEW k \in Index
    PROVE  /\ Placed(k) \in Seq(Index)
           /\ queue_tail + 1 \in 1 .. Len(Placed(k)) /\ Placed(k)[queue_tail + 1] = k
           /\ Len(Placed(k)) = IF queue_tail = Len(event_queue) THEN Len(event_queue) + 1
                                                                ELSE Len(event_queue)
           /\ \A n \in 1 .. Len(event_queue) :
                  n # queue_tail + 1 => Placed(k)[n] = event_queue[n]
  <1>1. event_queue \in Seq(Index) /\ queue_tail \in 0 .. Len(event_queue)
        /\ Len(event_queue) \in Nat
    BY DEF QueueTypeOK
  <1>2. CASE queue_tail = Len(event_queue)
    <2>1. Placed(k) = Append(event_queue, k)
      BY <1>2 DEF Placed
    <2> QED
      BY <1>1, <1>2, <2>1
  <1>3. CASE queue_tail # Len(event_queue)
    <2>1. Placed(k) = [event_queue EXCEPT ![queue_tail + 1] = k]
      BY <1>3 DEF Placed
    <2>2. queue_tail + 1 \in 1 .. Len(event_queue)
      BY <1>1, <1>3
    <2> QED
      BY <1>1, <1>3, <2>1, <2>2
  <1> QED
    BY <1>2, <1>3

(* A call of add_index, overlapped or not, on a full queue or not, leaves  *)
(* the entries in or lost from the queue there and adds its own.           *)
LEMMA AddIndex ==
    ASSUME TypeOK, NEW k \in Index, add_index(k)
    PROVE  /\ QueueTypeOK(Index)' /\ InQueue' = InQueue \cup {k}
           /\ overlaps' \in 0 .. MaxOverlaps /\ self_wait' = self_wait
           /\ event_queue' \in {event_queue, Placed(k)}
  <1>1. QueueTypeOK(Index) /\ overlaps \in 0 .. MaxOverlaps /\ MaxOverlaps \in Nat
        /\ QueueMax \in Nat
    BY DebounceAssumption, QueueMaxAssumption DEF TypeOK
  <1>2. PICK n \in 0 .. Len(Placed(k)) : Add(k, n)
    <2>1. Len(Placed(k)) >= Len(event_queue) /\ Len(Placed(k)) >= queue_tail + 1
          /\ Len(event_queue) \in Nat /\ queue_tail \in Nat /\ Len(Placed(k)) \in Nat
      BY <1>1, PlacedIndex DEF QueueTypeOK
    <2>2. FreshNext \in 0 .. Len(Placed(k)) /\ StaleNexts \subseteq 0 .. Len(Placed(k))
      BY <2>1 DEF FreshNext, StaleNexts
    <2> QED
      BY <2>2 DEF add_index
  <1>3. overlaps' \in 0 .. MaxOverlaps /\ self_wait' = self_wait
    BY <1>1 DEF add_index
  <1>4. CASE n \in {0, QueueMax}
    BY <1>1, <1>2, <1>3, <1>4 DEF Add, QueueTypeOK, InQueue
  <1>5. CASE n \notin {0, QueueMax}
    <2>1. /\ event_queue' = Placed(k) /\ queue_tail' = n
          /\ lost' = lost \cup {Placed(k)[m] : m \in n + 1 .. Len(Placed(k))}
      BY <1>2, <1>5 DEF Add
    <2>2. /\ Placed(k) \in Seq(Index) /\ Len(Placed(k)) \in Nat
          /\ queue_tail + 1 \in 1 .. Len(Placed(k)) /\ Placed(k)[queue_tail + 1] = k
          /\ Len(Placed(k)) <= QueueMax /\ Len(event_queue) \in Nat /\ queue_tail \in Nat
          /\ Len(event_queue) <= Len(Placed(k)) /\ n \in Nat
          /\ queue_tail <= Len(event_queue)
      <3>1. /\ Len(event_queue) \in Nat /\ Len(event_queue) <= QueueMax
            /\ queue_tail \in 0 .. Len(event_queue) /\ queue_tail < QueueMax
        BY <1>1 DEF QueueTypeOK
      <3>2. /\ Placed(k) \in Seq(Index)
            /\ queue_tail + 1 \in 1 .. Len(Placed(k)) /\ Placed(k)[queue_tail + 1] = k
            /\ Len(Placed(k)) = IF queue_tail = Len(event_queue) THEN Len(event_queue) + 1
                                                                 ELSE Len(event_queue)
        BY <1>1, PlacedIndex
      <3>3. Len(Placed(k)) \in Nat /\ n \in Nat
        BY <3>2
      <3> QED
        BY <1>1, <3>1, <3>2, <3>3
    <2>3. \A m \in 1 .. Len(Placed(k)) : Placed(k)[m] \in Index
      BY <2>2
    <2>4. QueueTypeOK(Index)'
      BY <1>1, <1>2, <1>5, <2>1, <2>2, <2>3 DEF QueueTypeOK
    <2>5. InQueue' = lost \cup {Placed(k)[m] : m \in 1 .. Len(Placed(k))}
      <3>1. 1 .. Len(Placed(k)) = (1 .. n) \cup (n + 1 .. Len(Placed(k)))
        BY <2>2
      <3> QED
        BY <2>1, <3>1 DEF InQueue
    <2>6. ASSUME NEW x \in InQueue \cup {k} PROVE x \in InQueue'
      <3>1. CASE x \in lost \cup {k}
        BY <2>2, <2>5, <3>1
      <3>2. CASE x \in {event_queue[m] : m \in 1 .. queue_tail}
        <4>1. PICK m \in 1 .. queue_tail : x = event_queue[m]
          BY <3>2
        <4>2. m \in 1 .. Len(event_queue) /\ m # queue_tail + 1 /\ m \in 1 .. Len(Placed(k))
          BY <2>2
        <4>3. Placed(k)[m] = x
          BY <1>1, <4>1, <4>2, PlacedIndex
        <4> QED
          BY <2>5, <4>2, <4>3
      <3> QED
        BY <2>6, <3>1, <3>2 DEF InQueue
    <2>7. ASSUME NEW x \in InQueue' PROVE x \in InQueue \cup {k}
      <3>1. CASE x \in lost
        BY <3>1 DEF InQueue
      <3>2. CASE x \notin lost
        <4>1. PICK m \in 1 .. Len(Placed(k)) : x = Placed(k)[m]
          BY <2>5, <2>7, <3>2
        <4>2. CASE m = queue_tail + 1
          BY <2>2, <4>1, <4>2
        <4>3. CASE m # queue_tail + 1
          <5>1. m \in 1 .. Len(event_queue)
            <6>1. Len(Placed(k)) = Len(event_queue)
                  \/ (Len(Placed(k)) = Len(event_queue) + 1 /\ queue_tail = Len(event_queue))
              BY <1>1, PlacedIndex
            <6> QED
              BY <2>2, <4>3, <6>1
          <5>2. x = event_queue[m]
            BY <1>1, <4>1, <4>3, <5>1, PlacedIndex
          <5>3. m \in 1 .. queue_tail \/ m \in queue_tail + 1 .. Len(event_queue)
            BY <2>2, <5>1
          <5> QED
            BY <1>1, <3>2, <5>2, <5>3 DEF QueueTypeOK, InQueue
        <4> QED
          BY <4>2, <4>3
      <3> QED
        BY <3>1, <3>2
    <2> QED
      BY <1>3, <2>1, <2>4, <2>6, <2>7
  <1> QED
    BY <1>4, <1>5

(* What taking its head off does to the queue.                             *)
LEMMA TakeHead ==
    ASSUME QueueTypeOK(Index), Take
    PROVE  /\ QueueTypeOK(Index)' /\ Head(event_queue) \in Index
           /\ InQueue = InQueue' \cup {Head(event_queue)}
           /\ event_queue # <<>> /\ event_queue' = Tail(event_queue) /\ lost' = lost
  <1>1. /\ event_queue \in Seq(Index) /\ Len(event_queue) \in Nat /\ queue_tail \in Nat
        /\ queue_tail > 0 /\ queue_tail <= Len(event_queue) /\ QueueMax \in Nat
        /\ event_queue' = Tail(event_queue) /\ queue_tail' = queue_tail - 1 /\ lost' = lost
    BY QueueMaxAssumption DEF QueueTypeOK, Take
  <1>2. event_queue # <<>>
    BY <1>1
  <1>3. /\ Tail(event_queue) \in Seq(Index) /\ Head(event_queue) \in Index
        /\ Head(event_queue) = event_queue[1] /\ Len(Tail(event_queue)) = Len(event_queue) - 1
        /\ \A n \in 1 .. Len(event_queue) - 1 : Tail(event_queue)[n] = event_queue[n + 1]
    BY <1>1, <1>2
  <1>4. QueueTypeOK(Index)'
    <2>1. ASSUME NEW n \in queue_tail' + 1 .. Len(event_queue') PROVE event_queue'[n] \in lost'
      <3>1. n + 1 \in queue_tail + 1 .. Len(event_queue) /\ n \in 1 .. Len(event_queue) - 1
        BY <1>1, <1>3
      <3> QED
        BY <1>1, <1>3, <3>1 DEF QueueTypeOK
    <2> QED
      BY <1>1, <1>3, <2>1 DEF QueueTypeOK
  <1>5. ASSUME NEW x \in InQueue PROVE x \in InQueue' \cup {Head(event_queue)}
    <2>1. CASE x \in lost
      BY <1>1, <2>1 DEF InQueue
    <2>2. CASE x \notin lost
      <3>1. PICK n \in 1 .. queue_tail : x = event_queue[n]
        BY <1>5, <2>2 DEF InQueue
      <3>2. CASE n = 1
        BY <1>3, <3>1, <3>2
      <3>3. CASE n # 1
        <4>1. n - 1 \in 1 .. queue_tail' /\ event_queue'[n - 1] = x
          BY <1>1, <1>3, <3>1, <3>3
        <4> QED
          BY <4>1 DEF InQueue
      <3> QED
        BY <3>2, <3>3
    <2> QED
      BY <2>1, <2>2
  <1>6. ASSUME NEW x \in InQueue' \cup {Head(event_queue)} PROVE x \in InQueue
    <2>1. CASE x = Head(event_queue)
      <3>1. 1 \in 1 .. queue_tail
        BY <1>1
      <3> QED
        BY <1>3, <2>1, <3>1 DEF InQueue
    <2>2. CASE x \in lost
      BY <2>2 DEF InQueue
    <2>3. CASE x # Head(event_queue) /\ x \notin lost
      <3>1. PICK n \in 1 .. queue_tail' : x = event_queue'[n]
        BY <1>1, <1>6, <2>3 DEF InQueue
      <3>2. n + 1 \in 1 .. queue_tail /\ event_queue[n + 1] = x
        BY <1>1, <1>3, <3>1
      <3> QED
        BY <3>2 DEF InQueue
    <2> QED
      BY <2>1, <2>2, <2>3
  <1> QED
    BY <1>1, <1>2, <1>3, <1>4, <1>5, <1>6

(* A press that counts queues the second of the key's entries.             *)
LEMMA PreliminaryQueue ==
    ASSUME TypeOK, KeyPressedPreliminary
    PROVE  /\ QueueTypeOK(Index)'
           /\ InQueue' = IF PressCounts THEN InQueue \cup {"MB2I_DELAY"} ELSE InQueue
           /\ overlaps' \in 0 .. MaxOverlaps /\ self_wait' = self_wait
  <1>1. CASE PressCounts
    <2>1. add_index("MB2I_DELAY") /\ "MB2I_DELAY" \in Index
      BY <1>1 DEF KeyPressedPreliminary, setup_for_next_handler, Index
    <2> QED
      BY <1>1, <2>1, AddIndex
  <1>2. CASE ~PressCounts
    <2>1. UNCHANGED queueVars
      BY <1>2 DEF KeyPressedPreliminary
    <2> QED
      BY <1>2, <2>1 DEF InQueue, QueueTypeOK, TypeOK, queueVars, indexVars
  <1> QED
    BY <1>1, <1>2

(* A step that leaves the queue alone.                                     *)
LEMMA QueueUntouched ==
    ASSUME TypeOK, UNCHANGED queueVars
    PROVE  /\ QueueTypeOK(Index)' /\ InQueue' = InQueue
           /\ overlaps' = overlaps /\ self_wait' = self_wait
  BY DEF TypeOK, QueueTypeOK, InQueue, queueVars, indexVars

(* A timer that waits for ever strands every entry.                        *)
LEMMA QueueStranded ==
    ASSUME TypeOK, NEW k, TimerSelfWait(k)
    PROVE  /\ QueueTypeOK(Index)' /\ InQueue' = Index
           /\ overlaps' = overlaps /\ self_wait' \in {"int", "deb"}
  <1>1. /\ lost' = Index /\ UNCHANGED <<event_queue, queue_tail, overlaps>>
        /\ self_wait' \in {"int", "deb"} /\ QueueTypeOK(Index)
    BY DEF TimerSelfWait, TypeOK
  <1>2. \A n \in 1 .. Len(event_queue) : event_queue[n] \in Index
    BY <1>1 DEF QueueTypeOK
  <1> QED
    BY <1>1, <1>2 DEF QueueTypeOK, InQueue

(* An update of a function within its range.                               *)
LEMMA UpdateTyped ==
    ASSUME NEW S, NEW T, NEW f \in [S -> T], NEW x, NEW y \in T
    PROVE  [f EXCEPT ![x] = y] \in [S -> T]
  OBVIOUS

(* The three events and the entries that debounce them.                    *)
LEMMA ThreeEvents ==
    /\ Events = {ONOFD1I, MC2BI, HSDETI}
    /\ ONOFD1I # MC2BI /\ ONOFD1I # HSDETI /\ MC2BI # HSDETI
    /\ EventOf("POWER") = ONOFD1I /\ EventOf("HEADSET") = HSDETI
    /\ EventOf("MB2I") = MC2BI /\ EventOf("MB2I_DELAY") = MC2BI
    /\ EventOf("MB2I_FINAL") = MC2BI
    /\ get_event_index(ONOFD1I) = "POWER" /\ get_event_index(HSDETI) = "HEADSET"
    /\ get_event_index(MC2BI) = "MB2I"
  BY DebounceAssumption DEF Events, ONOFD1I, MC2BI, HSDETI, EventOf, get_event_index

-----------------------------------------------------------------------------
(* power_ic_debounce_init: the enabled entries are the queued ones.        *)
LEMMA InitInv == DebounceInit => TypeOK /\ DebounceInv
  <1> SUFFICES ASSUME DebounceInit PROVE TypeOK /\ DebounceInv
    OBVIOUS
  <1>1. InQueue = enabled /\ enabled \subseteq {"POWER", "HEADSET"}
    BY DebounceAssumption DEF DebounceInit, InQueue
  <1>2. Forced \in Seq(Index)
    BY DebounceAssumption DEF Index
  <1>3. QueueTypeOK(Index)
    BY <1>2, DebounceAssumption, QueueMaxAssumption DEF DebounceInit, QueueTypeOK
  <1>6. TypeOK
    BY <1>1, <1>3, DebounceAssumption DEF DebounceInit, Init, TypeOK, Index, ThreadPCs
  <1>4. Flow /\ Enabled /\ KeyReported
    <2>1. Flow
      BY DEF DebounceInit, Flow
    <2>2. Enabled
      BY <1>1, ThreeEvents DEF DebounceInit, Init, Enabled, DonePcs
    <2>3. KeyReported
      BY <1>1 DEF DebounceInit, KeyReported
    <2> QED
      BY <2>1, <2>2, <2>3
  <1>5. MaskedHasEntry /\ PowerReported /\ HeadsetReported
    BY <1>1 DEF DebounceInit, MaskedHasEntry, PowerReported, HeadsetReported, Ahead, Unseen
  <1> QED
    BY <1>4, <1>5, <1>6 DEF DebounceInv

(* Every step keeps the types.                                             *)
LEMMA NextTyped == TypeOK /\ Flow /\ [DebounceNext]_vars => TypeOK'
  <1> SUFFICES ASSUME TypeOK, Flow, [DebounceNext]_vars PROVE TypeOK'
    OBVIOUS
  <1>q. UNCHANGED queueVars => /\ QueueTypeOK(Index)' /\ InQueue' = InQueue
                                /\ overlaps' = overlaps /\ self_wait' = self_wait
    BY QueueUntouched
  <1>i. \A k \in Index : add_index(k) =>
            /\ QueueTypeOK(Index)' /\ InQueue' = InQueue \cup {k}
            /\ overlaps' \in 0 .. MaxOverlaps /\ self_wait' = self_wait
    BY AddIndex
  <1> USE <1>q, DebounceAssumption, ThreeEvents DEF TypeOK, Flow, ThreadPCs, SenseBit, At,
     IntThreadBlocked, Index, table, locals, reports, serviceVars, debounceVars
  <1>1. ASSUME NEW e \in Inputs, Toggle(e) PROVE TypeOK'
    BY <1>1 DEF Toggle, Raise
  <1>2. ASSUME NEW e \in Events, debounce_interrupt_handler(e) PROVE TypeOK'
    <2>1. /\ QueueTypeOK(Index)' /\ InQueue' = InQueue \cup {get_event_index(e)}
          /\ overlaps' \in 0 .. MaxOverlaps /\ self_wait' = self_wait
      BY <1>2, <1>i DEF debounce_interrupt_handler, Dispatched,
         get_event_index
    <2> QED
      BY <1>2, <2>1 DEF debounce_interrupt_handler, Dispatched
  <1>3. ASSUME NEW k \in Index, debounce_timer_handler(k) PROVE TypeOK'
    <2>1. /\ QueueTypeOK(Index)' /\ InQueue' = InQueue \cup {k}
          /\ overlaps' \in 0 .. MaxOverlaps /\ self_wait' = self_wait
      BY <1>3, <1>i DEF debounce_timer_handler
    <2> QED
      BY <1>3, <2>1 DEF debounce_timer_handler
  <1>4. CASE IntService
    BY <1>4 DEF IntService, Service, RegEvents
  <1>5. CASE IntCollect
    BY <1>5 DEF IntCollect, BeginDispatch
  <1>6. CASE ThreadPop
    <2>1. /\ QueueTypeOK(Index)' /\ Head(event_queue) \in Index
          /\ InQueue = InQueue' \cup {Head(event_queue)}
      BY <1>6, TakeHead DEF ThreadPop
    <2> QED
      BY <1>6, <2>1 DEF ThreadPop
  <1>7. CASE ThreadBegin
    BY <1>7 DEF ThreadBegin, Mask
  <1>8. CASE ThreadClear
    BY <1>8 DEF ThreadClear, Clear
  <1>9. CASE ThreadSense
    <2>1. status' \in {0, 1} /\ poll_current' \in [Index -> Nat]
      BY <1>9, SMTT(60) DEF ThreadSense
    <2>2. \/ previous_status' = previous_status
          \/ previous_status' = [previous_status EXCEPT ![i] = status']
      BY <1>9 DEF ThreadSense
    <2>3. previous_status' \in [Index -> {-1, 0, 1}]
      <3>1. previous_status \in [Index -> {-1, 0, 1}] /\ status' \in {-1, 0, 1}
        BY <2>1
      <3>2. [previous_status EXCEPT ![i] = status'] \in [Index -> {-1, 0, 1}]
        BY <3>1, UpdateTyped, Zenon
      <3> QED
        BY <2>2, <3>1, <3>2, Zenon
    <2> QED
      BY <1>9, <2>1, <2>3, SMTT(60) DEF ThreadSense
  <1>10. CASE ThreadDecide
    <2>1. i \in Index
      BY <1>10 DEF ThreadDecide
    <2>2. CASE poll_current[i] > PollCount[i]
      <3>1. dpc' = "callback" /\ UNCHANGED <<timers, poll_current, locals>>
        BY <1>10, <2>2 DEF ThreadDecide
      <3>2. UNCHANGED <<serviceVars, sense, toggles, queueVars, enabled, previous_status, reports>>
        BY <1>10 DEF ThreadDecide
      <3> QED
        BY <3>1, <3>2
    <2>3. CASE ~(poll_current[i] > PollCount[i])
      <3>1. poll_current' \in [Index -> Nat]
        BY <1>10, <2>1, <2>3 DEF ThreadDecide
      <3> QED
        BY <1>10, <2>1, <2>3, <3>1 DEF ThreadDecide, ThreadDone
    <2> QED
      BY <2>2, <2>3
  <1>11. CASE power_key_handler
    BY <1>11 DEF power_key_handler, Callback
  <1>12. CASE HeadsetRemoved
    BY <1>12 DEF HeadsetRemoved, Callback
  <1>13. CASE HeadsetAttached
    BY <1>13 DEF HeadsetAttached, Callback, Clear
  <1>14. CASE HeadsetReport
    BY <1>14 DEF HeadsetReport
  <1>15. CASE HeadsetKeyOn
    BY <1>15 DEF HeadsetKeyOn, Unmask
  <1>16. CASE KeyReleased
    BY <1>16 DEF KeyReleased, Callback
  <1>17. CASE KeyNoMic
    <2>1. /\ QueueTypeOK(Index)' /\ InQueue' = InQueue \cup {"HEADSET"}
          /\ overlaps' \in 0 .. MaxOverlaps /\ self_wait' = self_wait
      BY <1>17, <1>i DEF KeyNoMic, Callback
    <2> QED
      BY <1>17, <2>1 DEF KeyNoMic, Callback
  <1>18. CASE KeyPressed
    BY <1>18 DEF KeyPressed, Callback
  <1>19. CASE KeyPressedPreliminary
    <2>1. /\ QueueTypeOK(Index)'
          /\ InQueue' = IF PressCounts THEN InQueue \cup {"MB2I_DELAY"} ELSE InQueue
          /\ overlaps' \in 0 .. MaxOverlaps /\ self_wait' = self_wait
      BY <1>19, PreliminaryQueue
    <2> QED
      BY <1>19, <2>1 DEF KeyPressedPreliminary, PressCounts,
         setup_for_next_handler
  <1>20. CASE headset_key_delay_handler
    <2>1. /\ QueueTypeOK(Index)' /\ InQueue' = InQueue \cup {"MB2I_FINAL"}
          /\ overlaps' \in 0 .. MaxOverlaps /\ self_wait' = self_wait
      BY <1>20, <1>i DEF headset_key_delay_handler, Callback,
         setup_for_next_handler
    <2> QED
      BY <1>20, <2>1 DEF headset_key_delay_handler, Callback,
         setup_for_next_handler
  <1>21. CASE KeyFinalReleased
    BY <1>21 DEF KeyFinalReleased, Callback, FinalEnables
  <1>22. CASE KeyFinalPressed
    BY <1>22 DEF KeyFinalPressed, PressCounts, FinalEnables
  <1>23. CASE ThreadUnmask
    BY <1>23 DEF ThreadUnmask, Unmask
  <1>24. CASE ThreadLoad
    BY <1>24 DEF ThreadLoad
  <1>25. CASE ThreadStore
    BY <1>25 DEF ThreadStore
  <1>26. CASE ThreadReset
    BY <1>26 DEF ThreadReset, ThreadDone
  <1>27. CASE UNCHANGED vars
    BY <1>27 DEF vars
  <1>28. ASSUME NEW k \in Index, TimerSelfWait(k) PROVE TypeOK'
    <2>1. /\ QueueTypeOK(Index)' /\ InQueue' = Index
          /\ overlaps' = overlaps /\ self_wait' \in {"int", "deb"}
      BY <1>28, QueueStranded
    <2> QED
      BY <1>28, <2>1 DEF TimerSelfWait
  <1> HIDE <1>q DEF TypeOK, Flow, ThreadPCs, SenseBit, At, IntThreadBlocked, Index,
     table, locals, reports, serviceVars, debounceVars
  <1> QED
    BY <1>1, <1>2, <1>3, <1>4, <1>5, <1>6, <1>7, <1>8, <1>9, <1>10, <1>11, <1>12,
       <1>13, <1>14, <1>15, <1>16, <1>17, <1>18, <1>19, <1>20, <1>21, <1>22,
       <1>23, <1>24, <1>25, <1>26, <1>27, <1>28
       DEF DebounceNext, IntThread, Timers, Callbacks, debounce_thread

(* Every step of the chip, the interrupt thread, the timers and the        *)
(* debounce thread keeps the account of who looks at an input next.        *)
LEMMA NextInv == TypeOK /\ DebounceInv /\ [DebounceNext]_vars => DebounceInv'
  <1> SUFFICES ASSUME TypeOK, DebounceInv, [DebounceNext]_vars PROVE DebounceInv'
    OBVIOUS
  <1>q. UNCHANGED queueVars => /\ QueueTypeOK(Index)' /\ InQueue' = InQueue
                                /\ overlaps' = overlaps /\ self_wait' = self_wait
    BY QueueUntouched
  <1>i. \A k \in Index : add_index(k) =>
            /\ QueueTypeOK(Index)' /\ InQueue' = InQueue \cup {k}
            /\ overlaps' \in 0 .. MaxOverlaps /\ self_wait' = self_wait
    BY AddIndex
  <1> USE <1>q, DebounceAssumption, ThreeEvents DEF TypeOK, DebounceInv, Flow, Enabled,
     MaskedHasEntry, PowerReported, HeadsetReported, KeyReported, Redetect, Unseen,
     Taken, Ahead, DonePcs, ThreadPCs, SenseBit, At, IntThreadBlocked, Index, table,
     locals, reports, serviceVars, debounceVars
  <1>1. ASSUME NEW e \in Inputs, Toggle(e) PROVE DebounceInv'
    <2>1. InQueue' = InQueue
      BY <1>1 DEF Toggle, Raise
    <2> QED
      BY <1>1, <2>1 DEF Toggle, Raise
  <1>2. ASSUME NEW e \in Events, debounce_interrupt_handler(e) PROVE DebounceInv'
    <2>1. /\ QueueTypeOK(Index)' /\ InQueue' = InQueue \cup {get_event_index(e)}
          /\ overlaps' \in 0 .. MaxOverlaps /\ self_wait' = self_wait
      BY <1>2, <1>i DEF debounce_interrupt_handler, Dispatched,
         get_event_index
    <2> QED
      BY <1>2, <2>1 DEF debounce_interrupt_handler, Dispatched
  <1>3. ASSUME NEW k \in Index, debounce_timer_handler(k) PROVE DebounceInv'
    <2>1. /\ QueueTypeOK(Index)' /\ InQueue' = InQueue \cup {k}
          /\ overlaps' \in 0 .. MaxOverlaps /\ self_wait' = self_wait
      BY <1>3, <1>i DEF debounce_timer_handler
    <2> QED
      BY <1>3, <2>1 DEF debounce_timer_handler
  <1>4. CASE IntService
    <2>1. InQueue' = InQueue
      BY <1>4 DEF IntService, Service, RegEvents
    <2> QED
      BY <1>4, <2>1 DEF IntService, Service, RegEvents
  <1>5. CASE IntCollect
    <2>1. InQueue' = InQueue
      BY <1>5 DEF IntCollect, BeginDispatch
    <2> QED
      BY <1>5, <2>1 DEF IntCollect, BeginDispatch
  <1>6. CASE ThreadPop
    <2>1. /\ QueueTypeOK(Index)' /\ Head(event_queue) \in Index
          /\ InQueue = InQueue' \cup {Head(event_queue)}
      BY <1>6, TakeHead DEF ThreadPop
    <2> QED
      BY <1>6, <2>1 DEF ThreadPop
  <1>7. CASE ThreadBegin
    <2>1. InQueue' = InQueue
      BY <1>7 DEF ThreadBegin, Mask
    <2> QED
      BY <1>7, <2>1 DEF ThreadBegin, Mask
  <1>8. CASE ThreadClear
    <2>1. InQueue' = InQueue
      BY <1>8 DEF ThreadClear, Clear
    <2> QED
      BY <1>8, <2>1 DEF ThreadClear, Clear
  <1>9. CASE ThreadSense
    <2>1. InQueue' = InQueue
      BY <1>9 DEF ThreadSense
    <2> QED
      BY <1>9, <2>1 DEF ThreadSense
  <1>10. CASE ThreadDecide
    <2>1. InQueue' = InQueue
      BY <1>10 DEF ThreadDecide, ThreadDone
    <2> QED
      BY <1>10, <2>1 DEF ThreadDecide, ThreadDone
  <1>11. CASE power_key_handler
    <2>1. InQueue' = InQueue
      BY <1>11 DEF power_key_handler, Callback
    <2> QED
      BY <1>11, <2>1 DEF power_key_handler, Callback
  <1>12. CASE HeadsetRemoved
    <2>1. InQueue' = InQueue
      BY <1>12 DEF HeadsetRemoved, Callback
    <2> QED
      BY <1>12, <2>1 DEF HeadsetRemoved, Callback
  <1>13. CASE HeadsetAttached
    <2>1. InQueue' = InQueue
      BY <1>13 DEF HeadsetAttached, Callback, Clear
    <2> QED
      BY <1>13, <2>1 DEF HeadsetAttached, Callback, Clear
  <1>14. CASE HeadsetReport
    <2>1. InQueue' = InQueue
      BY <1>14 DEF HeadsetReport
    <2>2. connected' # {}
      BY <1>14 DEF HeadsetReport
    <2> QED
      BY <1>14, <2>1, <2>2 DEF HeadsetReport
  <1>15. CASE HeadsetKeyOn
    <2>1. InQueue' = InQueue
      BY <1>15 DEF HeadsetKeyOn, Unmask
    <2> QED
      BY <1>15, <2>1 DEF HeadsetKeyOn, Unmask
  <1>16. CASE KeyReleased
    <2>1. InQueue' = InQueue
      BY <1>16 DEF KeyReleased, Callback
    <2> QED
      BY <1>16, <2>1 DEF KeyReleased, Callback
  <1>17. CASE KeyNoMic
    <2>1. /\ QueueTypeOK(Index)' /\ InQueue' = InQueue \cup {"HEADSET"}
          /\ overlaps' \in 0 .. MaxOverlaps /\ self_wait' = self_wait
      BY <1>17, <1>i DEF KeyNoMic, Callback
    <2> QED
      BY <1>17, <2>1 DEF KeyNoMic, Callback
  <1>18. CASE KeyPressed
    <2>1. InQueue' = InQueue
      BY <1>18 DEF KeyPressed, Callback
    <2> QED
      BY <1>18, <2>1 DEF KeyPressed, Callback
  <1>19. CASE KeyPressedPreliminary
    <2>1. /\ QueueTypeOK(Index)'
          /\ InQueue' = IF PressCounts THEN InQueue \cup {"MB2I_DELAY"} ELSE InQueue
          /\ overlaps' \in 0 .. MaxOverlaps /\ self_wait' = self_wait
      BY <1>19, PreliminaryQueue
    <2> QED
      BY <1>19, <2>1 DEF KeyPressedPreliminary, PressCounts,
         setup_for_next_handler
  <1>20. CASE headset_key_delay_handler
    <2>1. /\ QueueTypeOK(Index)' /\ InQueue' = InQueue \cup {"MB2I_FINAL"}
          /\ overlaps' \in 0 .. MaxOverlaps /\ self_wait' = self_wait
      BY <1>20, <1>i DEF headset_key_delay_handler, Callback,
         setup_for_next_handler
    <2> QED
      BY <1>20, <2>1 DEF headset_key_delay_handler, Callback,
         setup_for_next_handler
  <1>21. CASE KeyFinalReleased
    <2>1. InQueue' = InQueue
      BY <1>21 DEF KeyFinalReleased, Callback, FinalEnables
    <2> QED
      BY <1>21, <2>1 DEF KeyFinalReleased, Callback, FinalEnables
  <1>22. CASE KeyFinalPressed
    <2>1. InQueue' = InQueue
      BY <1>22 DEF KeyFinalPressed, PressCounts, FinalEnables
    <2> QED
      BY <1>22, <2>1 DEF KeyFinalPressed, PressCounts, FinalEnables
  <1>23. CASE ThreadUnmask
    <2>1. InQueue' = InQueue
      BY <1>23 DEF ThreadUnmask, Unmask
    <2> QED
      BY <1>23, <2>1 DEF ThreadUnmask, Unmask
  <1>24. CASE ThreadLoad
    <2>1. InQueue' = InQueue
      BY <1>24 DEF ThreadLoad
    <2> QED
      BY <1>24, <2>1 DEF ThreadLoad
  <1>25. CASE ThreadStore
    <2>1. InQueue' = InQueue
      BY <1>25 DEF ThreadStore
    <2> QED
      BY <1>25, <2>1 DEF ThreadStore
  <1>26. CASE ThreadReset
    <2>1. InQueue' = InQueue
      BY <1>26 DEF ThreadReset, ThreadDone
    <2> QED
      BY <1>26, <2>1 DEF ThreadReset, ThreadDone
  <1>27. CASE UNCHANGED vars
    <2>1. InQueue' = InQueue
      BY <1>27 DEF vars
    <2> QED
      BY <1>27, <2>1 DEF vars
  <1>28. ASSUME NEW k \in Index, TimerSelfWait(k) PROVE DebounceInv'
    <2>1. /\ QueueTypeOK(Index)' /\ InQueue' = Index
          /\ overlaps' = overlaps /\ self_wait' \in {"int", "deb"}
      BY <1>28, QueueStranded
    <2> QED
      BY <1>28, <2>1 DEF TimerSelfWait
  <1> HIDE <1>q DEF TypeOK, DebounceInv, Flow, Enabled, MaskedHasEntry, PowerReported,
     HeadsetReported, KeyReported, Redetect, Unseen, Taken, Ahead, DonePcs,
     ThreadPCs, SenseBit, At, IntThreadBlocked, Index, table, locals, reports,
     serviceVars, debounceVars
  <1> QED
    BY <1>1, <1>2, <1>3, <1>4, <1>5, <1>6, <1>7, <1>8, <1>9, <1>10, <1>11, <1>12,
       <1>13, <1>14, <1>15, <1>16, <1>17, <1>18, <1>19, <1>20, <1>21, <1>22,
       <1>23, <1>24, <1>25, <1>26, <1>27, <1>28
       DEF DebounceNext, IntThread, Timers, Callbacks, debounce_thread

(* The account holds in every reachable state.                             *)
THEOREM Invariance == DebounceSpec => [](TypeOK /\ DebounceInv)
  <1>1. TypeOK /\ DebounceInv /\ [DebounceNext]_vars => (TypeOK /\ DebounceInv)'
    BY NextTyped, NextInv DEF DebounceInv
  <1> QED
    BY <1>1, InitInv, PTL DEF DebounceSpec

(* The state of the debouncer has its type.                                *)
THEOREM TypeCorrect == DebounceSpec => []TypeOK
  <1>1. TypeOK /\ DebounceInv => TypeOK
    OBVIOUS
  <1> QED
    BY <1>1, Invariance, PTL

-----------------------------------------------------------------------------
(* An entry that is ahead of some line is in progress or was lost.         *)
LEMMA AheadInProgress ==
    ASSUME TypeOK, NEW k \in Index, NEW pcs, Ahead(k, pcs)
    PROVE  EventInProgress(EventOf(k)) \/ EventLost(EventOf(k))
  BY DEF Ahead, InQueue, EventInProgress, InProgress, Queued, EventLost

(* At rest, an event has nothing left to be looked at and none of its      *)
(* entries is ahead of any line.                                           *)
LEMMA RestIsSeen ==
    ASSUME TypeOK, DebounceInv, NEW k \in {"POWER", "HEADSET", "MB2I"}, AtRest(EventOf(k))
    PROVE  ~Unseen(EventOf(k), k) /\ i # k
  BY DEF AtRest, Unseen, Taken, InQueue, EventInProgress, EventLost, InProgress, Queued, Index

(* A debounced event is left masked only by the loss of its own index:     *)
(* otherwise, whenever an enabled entry's event is masked, an entry that   *)
(* will unmask it is on its way.                                           *)
THEOREM MaskedProgress == DebounceSpec => []MaskedIsInProgress
  <1>1. TypeOK /\ DebounceInv => MaskedIsInProgress
    <2> SUFFICES ASSUME TypeOK, DebounceInv, NEW k \in enabled, EventOf(k) \in mask
                 PROVE  \/ EventInProgress(EventOf(k)) \/ EventLost(EventOf(k))
                        \/ EventOf(k) = MC2BI
                           /\ (EventInProgress(HSDETI) \/ EventLost(HSDETI))
      BY DEF MaskedIsInProgress
    <2>1. k \in Index
      BY DEF TypeOK
    <2>2. \A e : Taken(e) => EventInProgress(e)
      BY DEF Taken, EventInProgress
    <2>3. CASE k \in {"POWER", "HEADSET"}
      BY <2>2, <2>3, AheadInProgress, ThreeEvents DEF DebounceInv, MaskedHasEntry, Index
    <2>4. CASE k = "MB2I"
      <3>1. i = "MB2I_FINAL" => EventInProgress(MC2BI)
        BY ThreeEvents DEF EventInProgress, InProgress, Index
      <3> QED
        BY <2>2, <2>4, <3>1, AheadInProgress, ThreeEvents
           DEF DebounceInv, MaskedHasEntry, Index
    <2>5. CASE k \in {"MB2I_DELAY", "MB2I_FINAL"}
      BY <2>5, AheadInProgress DEF DebounceInv, MaskedHasEntry, Index
    <2> QED
      BY <2>1, <2>3, <2>4, <2>5 DEF Index
  <1> QED
    BY <1>1, Invariance, PTL

(* Whatever the inputs did and in whatever order interrupts and timers     *)
(* came: when the power key or the headset is at rest, what was reported   *)
(* of it last is what it reads.                                            *)
THEOREM ReportsCurrent == DebounceSpec => []ReportedIsCurrent
  <1>1. TypeOK /\ DebounceInv => ReportedIsCurrent
    <2> SUFFICES ASSUME TypeOK, DebounceInv PROVE ReportedIsCurrent
      OBVIOUS
    <2>1. AtRest(ONOFD1I) => power_key = IF ONOFD1I \in sense THEN "KEYUP" ELSE "KEYDOWN"
      <3> SUFFICES ASSUME AtRest(ONOFD1I)
                   PROVE  power_key = IF ONOFD1I \in sense THEN "KEYUP" ELSE "KEYDOWN"
        OBVIOUS
      <3>1. ~Unseen(ONOFD1I, "POWER") /\ i # "POWER"
        BY RestIsSeen, ThreeEvents
      <3>2. "POWER" \in enabled
        BY DEF AtRest, DebounceInv, Enabled
      <3> QED
        BY <3>1, <3>2 DEF DebounceInv, PowerReported
    <2>2. AtRest(HSDETI) => (connected # {} <=> HSDETI \in sense)
      <3> SUFFICES ASSUME AtRest(HSDETI) PROVE connected # {} <=> HSDETI \in sense
        OBVIOUS
      <3>1. ~Unseen(HSDETI, "HEADSET") /\ i # "HEADSET"
        BY RestIsSeen, ThreeEvents
      <3>2. "HEADSET" \in enabled
        BY DEF AtRest, DebounceInv, Enabled
      <3> QED
        BY <3>1, <3>2 DEF DebounceInv, HeadsetReported
    <2> QED
      BY <2>1, <2>2 DEF ReportedIsCurrent
  <1> QED
    BY <1>1, Invariance, PTL

(* The same for the send/end key of a headset that is in.                  *)
THEOREM KeyCurrent == DebounceSpec => []KeyIsCurrent
  <1>1. TypeOK /\ DebounceInv => KeyIsCurrent
    <2> SUFFICES ASSUME TypeOK, DebounceInv, AtRest(MC2BI), AtRest(HSDETI), connected # {},
                        previous_key_state # "UNKNOWN"
                 PROVE  previous_key_state = IF MC2BI \in sense THEN "RELEASE" ELSE "PRESS"
      BY DEF KeyIsCurrent
    <2>1. ~Unseen(HSDETI, "HEADSET") /\ i # "HEADSET" /\ "HEADSET" \in enabled
      BY RestIsSeen, ThreeEvents DEF AtRest, DebounceInv, Enabled
    <2>2. ~Unseen(MC2BI, "MB2I") /\ i # "MB2I"
      BY RestIsSeen, ThreeEvents
    <2>3. "MB2I_DELAY" \notin enabled /\ "MB2I_FINAL" \notin enabled
      BY AheadInProgress, ThreeEvents DEF AtRest, DebounceInv, MaskedHasEntry, Index
    <2> QED
      BY <2>1, <2>2, <2>3 DEF DebounceInv, KeyReported, Redetect
  <1> QED
    BY <1>1, Invariance, PTL
-----------------------------------------------------------------------------
(* The places of an entry in a queue are finitely many.                    *)
LEMMA CountType ==
    ASSUME NEW q \in Seq(Index), NEW k
    PROVE  IsFiniteSet({n \in 1 .. Len(q) : q[n] = k}) /\ Count(q, k) \in Nat
  <1>1. IsFiniteSet(1 .. Len(q))
    BY FS_Interval
  <1>2. IsFiniteSet({n \in 1 .. Len(q) : q[n] = k})
    BY <1>1, FS_Subset
  <1> QED
    BY <1>2, FS_CardinalityType DEF Count

(* Taking the head off removes one place of the head and moves the others. *)
LEMMA CountTail ==
    ASSUME NEW q \in Seq(Index), q # <<>>, NEW k
    PROVE  Count(q, k) = Count(Tail(q), k) + One(Head(q) = k)
  <1> DEFINE S == {n \in 1 .. Len(q) : q[n] = k}
             T == {n \in 1 .. Len(Tail(q)) : Tail(q)[n] = k}
             f == [n \in T |-> n + 1]
  <1>1. /\ Tail(q) \in Seq(Index) /\ Head(q) = q[1]
        /\ Len(q) \in Nat \ {0} /\ Len(Tail(q)) = Len(q) - 1
        /\ \A n \in 1 .. Len(q) - 1 : Tail(q)[n] = q[n + 1]
    OBVIOUS
  <1>2. /\ IsFiniteSet(S) /\ Cardinality(S) \in Nat
        /\ IsFiniteSet(T) /\ Cardinality(T) \in Nat
    BY <1>1, CountType DEF Count
  <1>3. f \in Bijection(T, S \ {1})
    <2>1. \A n \in T : n \in Nat /\ f[n] = n + 1 /\ f[n] \in S \ {1}
      BY <1>1
    <2>2. f \in [T -> S \ {1}]
      BY <2>1
    <2>3. \A m, n \in T : f[m] = f[n] => m = n
      BY <2>1
    <2>4. ASSUME NEW s \in S \ {1} PROVE \E n \in T : f[n] = s
      <3>1. s - 1 \in T /\ f[s - 1] = s
        BY <1>1
      <3> QED
        BY <3>1
    <2> HIDE DEF f, S, T
    <2> QED
      BY <2>2, <2>3, <2>4, Fun_IsBij, Zenon
  <1>4. 1 \in S <=> Head(q) = k
    BY <1>1
  <1> HIDE DEF S, T, f
  <1>5. Cardinality(S \ {1}) = Cardinality(T)
    BY <1>2, <1>3, FS_Bijection DEF ExistsBijection
  <1>6. Cardinality(S \ {1}) = IF 1 \in S THEN Cardinality(S) - 1 ELSE Cardinality(S)
    BY <1>2, FS_RemoveElement
  <1>7. Cardinality(S) = Cardinality(T) + One(Head(q) = k)
    BY <1>2, <1>4, <1>5, <1>6 DEF One
  <1> QED
    BY <1>7 DEF S, T, Count

(* Storing an index at the tail, be it over another one, adds at most one  *)
(* place.                                                                  *)
LEMMA CountPlaced ==
    ASSUME QueueTypeOK(Index), NEW x \in Index, NEW k
    PROVE  Count(Placed(x), k) <= Count(event_queue, k) + One(x = k)
  <1> DEFINE S == {n \in 1 .. Len(event_queue) : event_queue[n] = k}
             T == {n \in 1 .. Len(Placed(x)) : Placed(x)[n] = k}
             t == queue_tail + 1
  <1>1. event_queue \in Seq(Index) /\ queue_tail \in Nat
    BY DEF QueueTypeOK
  <1>2. IsFiniteSet(S) /\ Cardinality(S) \in Nat
    BY <1>1, CountType DEF Count
  <1>3. T \subseteq IF x = k THEN S \cup {t} ELSE S
    <2> SUFFICES ASSUME NEW n \in T PROVE n \in IF x = k THEN S \cup {t} ELSE S
      OBVIOUS
    <2>1. CASE n = t
      BY <2>1, PlacedIndex
    <2>2. CASE n # t
      <3>1. n \in 1 .. Len(event_queue)
        BY <1>1, <2>2, PlacedIndex DEF QueueTypeOK
      <3> QED
        BY <2>2, <3>1, PlacedIndex
    <2> QED
      BY <2>1, <2>2
  <1> HIDE DEF S, T, t
  <1>4. /\ IsFiniteSet(S \cup {t}) /\ Cardinality(S \cup {t}) \in Nat
        /\ Cardinality(S \cup {t}) <= Cardinality(S) + 1
    <2>1. IsFiniteSet(S \cup {t})
      BY <1>2, FS_AddElement
    <2>2. Cardinality(S \cup {t}) \in Nat
      BY <2>1, FS_CardinalityType
    <2>3. Cardinality(S \cup {t}) = IF t \in S THEN Cardinality(S) ELSE Cardinality(S) + 1
      BY <1>2, FS_AddElement
    <2> QED
      BY <1>2, <2>1, <2>2, <2>3
  <1>5. Cardinality(T) <= Cardinality(S) + One(x = k)
    <2>1. CASE x = k
      <3>1. Cardinality(T) \in Nat /\ Cardinality(T) <= Cardinality(S \cup {t})
        BY <1>3, <1>4, <2>1, FS_Subset, FS_CardinalityType
      <3> QED
        BY <1>2, <1>4, <2>1, <3>1 DEF One
    <2>2. CASE x # k
      <3>1. Cardinality(T) \in Nat /\ Cardinality(T) <= Cardinality(S)
        BY <1>2, <1>3, <2>2, FS_Subset, FS_CardinalityType
      <3> QED
        BY <1>2, <2>2, <3>1 DEF One
    <2> QED
      BY <2>1, <2>2
  <1> QED
    BY <1>5 DEF S, T, Count

-----------------------------------------------------------------------------
(* What the queue holds of each entry is a number.                         *)
Counted(q) ==
    /\ Count(q, "POWER") \in Nat /\ Count(q, "HEADSET") \in Nat
    /\ Count(q, "MB2I") \in Nat
    /\ Count(q, "MB2I_DELAY") \in Nat /\ Count(q, "MB2I_FINAL") \in Nat

(* q has one index of entry k more than p, and as many of every other.     *)
OneMore(p, q, k) ==
    /\ Count(q, "POWER") = Count(p, "POWER") + One(k = "POWER")
    /\ Count(q, "HEADSET") = Count(p, "HEADSET") + One(k = "HEADSET")
    /\ Count(q, "MB2I") = Count(p, "MB2I") + One(k = "MB2I")
    /\ Count(q, "MB2I_DELAY") = Count(p, "MB2I_DELAY") + One(k = "MB2I_DELAY")
    /\ Count(q, "MB2I_FINAL") = Count(p, "MB2I_FINAL") + One(k = "MB2I_FINAL")

(* q has at most one index of entry k more than p, and at most as many of  *)
(* every other.                                                            *)
AtMostOneMore(p, q, k) ==
    /\ Count(q, "POWER") <= Count(p, "POWER") + One(k = "POWER")
    /\ Count(q, "HEADSET") <= Count(p, "HEADSET") + One(k = "HEADSET")
    /\ Count(q, "MB2I") <= Count(p, "MB2I") + One(k = "MB2I")
    /\ Count(q, "MB2I_DELAY") <= Count(p, "MB2I_DELAY") + One(k = "MB2I_DELAY")
    /\ Count(q, "MB2I_FINAL") <= Count(p, "MB2I_FINAL") + One(k = "MB2I_FINAL")

(* The lengths of a queue, entry by entry, are numbers.                    *)
LEMMA QueueCounted == ASSUME NEW q \in Seq(Index) PROVE Counted(q)
  BY CountType DEF Counted

(* add_index puts at most one index more into the array.                   *)
LEMMA AddAtMostOneMore ==
    ASSUME TypeOK, NEW k \in Index, add_index(k)
    PROVE  AtMostOneMore(event_queue, event_queue', k)
  <1>1. QueueTypeOK(Index) /\ event_queue \in Seq(Index)
    BY DEF TypeOK, QueueTypeOK
  <1>2. CASE event_queue' = Placed(k)
    BY <1>1, <1>2, CountPlaced DEF AtMostOneMore
  <1>3. CASE event_queue' = event_queue
    <2>1. \A x : Count(event_queue, x) <= Count(event_queue, x) + One(k = x)
      <3>1. ASSUME NEW x PROVE Count(event_queue, x) <= Count(event_queue, x) + One(k = x)
        <4>1. Count(event_queue, x) \in Nat
          BY <1>1, CountType
        <4> QED
          BY <4>1 DEF One
      <3> QED
        BY <3>1
    <2> QED
      BY <1>3, <2>1 DEF AtMostOneMore
  <1> QED
    BY <1>2, <1>3, AddIndex

(* The thread takes one index off it.                                      *)
LEMMA TailOneLess ==
    ASSUME NEW q \in Seq(Index), q # <<>>
    PROVE  OneMore(Tail(q), q, Head(q))
  BY CountTail DEF OneMore

(* The parts of the headset's work, and of the power key's tokens, that    *)
(* are not on the queue, and the work that is.                             *)
Held(k) == One(k \in timers) + One(i = k /\ dpc \notin DonePcs)

HeldWork ==
    Held("HEADSET") + Interrupts(HSDETI) + 2 * (Held("MB2I") + Interrupts(MC2BI))
    + Held("MB2I_DELAY") + Held("MB2I_FINAL")

PowerHeld ==
    One("POWER" \in timers) + One(i = "POWER" /\ dpc \notin {"load", "store", "reset"})
    + One(ONOFD1I \in serviced) + One(ONOFD1I \in todo) + One(ONOFD1I \notin mask)

QueueWork(q) ==
    Count(q, "HEADSET") + 2 * Count(q, "MB2I")
    + Count(q, "MB2I_DELAY") + Count(q, "MB2I_FINAL")

(* What one index on the queue adds to the work.                           *)
Weight(k) ==
    One(k = "HEADSET") + 2 * One(k = "MB2I") + One(k = "MB2I_DELAY")
    + One(k = "MB2I_FINAL")

(* The interrupts and indices of the power key that are under way: one at  *)
(* most, which masking hands from the chip to the thread and back.         *)
PowerTokens == Count(event_queue, "POWER") + PowerHeld
OneToken == PowerTokens <= 1

(* The work is what is queued and what is not.                             *)
WorkSplit ==
    /\ HeldWork \in Nat /\ PowerHeld \in Nat /\ QueueWork(event_queue) \in Nat
    /\ Count(event_queue, "POWER") \in Nat
    /\ HeadsetWork = HeldWork + QueueWork(event_queue)

LEMMA WorkIsSplit == Counted(event_queue) => WorkSplit
  <1> SUFFICES ASSUME Counted(event_queue) PROVE WorkSplit
    OBVIOUS
  <1>1. HeldWork \in Nat /\ PowerHeld \in Nat
    BY DEF HeldWork, Held, Interrupts, PowerHeld, One
  <1>2. PICK h \in Nat, m \in Nat, d \in Nat, f \in Nat :
            /\ h = Count(event_queue, "HEADSET") /\ m = Count(event_queue, "MB2I")
            /\ d = Count(event_queue, "MB2I_DELAY") /\ f = Count(event_queue, "MB2I_FINAL")
    BY Zenon DEF Counted
  <1>3. PICK a \in Nat, b \in Nat, c \in Nat, g \in Nat, p \in Nat, q \in Nat :
            /\ a = Held("HEADSET") /\ b = Held("MB2I") /\ c = Held("MB2I_DELAY")
            /\ g = Held("MB2I_FINAL") /\ p = Interrupts(HSDETI) /\ q = Interrupts(MC2BI)
    <2>1. /\ Held("HEADSET") \in Nat /\ Held("MB2I") \in Nat /\ Held("MB2I_DELAY") \in Nat
          /\ Held("MB2I_FINAL") \in Nat /\ Interrupts(HSDETI) \in Nat
          /\ Interrupts(MC2BI) \in Nat
      BY DEF Held, Interrupts, One
    <2> QED
      BY <2>1, Zenon
  <1>4. /\ Indices("HEADSET") = h + Held("HEADSET")
        /\ Indices("MB2I") = m + Held("MB2I")
        /\ Indices("MB2I_DELAY") = d + Held("MB2I_DELAY")
        /\ Indices("MB2I_FINAL") = f + Held("MB2I_FINAL")
    BY <1>2 DEF Indices, Held, One, DonePcs
  <1>5. HeadsetWork = (h + a) + p + 2 * ((m + b) + q) + (d + c) + (f + g)
    BY <1>3, <1>4, Zenon DEF HeadsetWork
  <1>6. HeldWork = a + p + 2 * (b + q) + c + g
    BY <1>3, Zenon DEF HeldWork
  <1>7. QueueWork(event_queue) = h + 2 * m + d + f
    BY <1>2, Zenon DEF QueueWork
  <1>8. /\ h + 2 * m + d + f \in Nat
        /\ (h + a) + p + 2 * ((m + b) + q) + (d + c) + (f + g)
           = (a + p + 2 * (b + q) + c + g) + (h + 2 * m + d + f)
    OBVIOUS
  <1> QED
    BY <1>1, <1>5, <1>6, <1>7, <1>8, Zenon DEF WorkSplit, Counted

(* At most one index more adds at most its weight.                         *)
LEMMA AtMostOneMoreWork ==
    ASSUME NEW p, NEW q, Counted(p), Counted(q), NEW k \in Index, AtMostOneMore(p, q, k)
    PROVE  /\ QueueWork(q) <= QueueWork(p) + Weight(k)
           /\ Count(q, "POWER") <= Count(p, "POWER") + One(k = "POWER")
  <1>1. PICK h \in Nat, m \in Nat, d \in Nat, f \in Nat :
            /\ h = Count(p, "HEADSET") /\ m = Count(p, "MB2I")
            /\ d = Count(p, "MB2I_DELAY") /\ f = Count(p, "MB2I_FINAL")
    BY Zenon DEF Counted
  <1>2. PICK h1 \in Nat, m1 \in Nat, d1 \in Nat, f1 \in Nat :
            /\ h1 = Count(q, "HEADSET") /\ m1 = Count(q, "MB2I")
            /\ d1 = Count(q, "MB2I_DELAY") /\ f1 = Count(q, "MB2I_FINAL")
    BY Zenon DEF Counted
  <1>3. PICK a \in Nat, b \in Nat, c \in Nat, g \in Nat :
            /\ a = One(k = "HEADSET") /\ b = One(k = "MB2I")
            /\ c = One(k = "MB2I_DELAY") /\ g = One(k = "MB2I_FINAL")
    BY DEF One
  <1>4. h1 <= h + a /\ m1 <= m + b /\ d1 <= d + c /\ f1 <= f + g
    BY <1>1, <1>2, <1>3, Zenon DEF AtMostOneMore
  <1>5. /\ QueueWork(p) = h + 2 * m + d + f /\ QueueWork(q) = h1 + 2 * m1 + d1 + f1
        /\ Weight(k) = a + 2 * b + c + g
    BY <1>1, <1>2, <1>3, Zenon DEF QueueWork, Weight
  <1>6. h1 + 2 * m1 + d1 + f1 <= (h + 2 * m + d + f) + (a + 2 * b + c + g)
    BY <1>4
  <1> QED
    BY <1>5, <1>6, Zenon DEF AtMostOneMore

(* One index more adds its weight.                                         *)
LEMMA OneMoreWork ==
    ASSUME NEW p, NEW q, Counted(p), Counted(q), NEW k \in Index, OneMore(p, q, k)
    PROVE  /\ QueueWork(q) = QueueWork(p) + Weight(k)
           /\ Count(q, "POWER") = Count(p, "POWER") + One(k = "POWER")
           /\ QueueWork(p) \in Nat /\ QueueWork(q) \in Nat
  <1>1. PICK h \in Nat, m \in Nat, d \in Nat, f \in Nat :
            /\ h = Count(p, "HEADSET") /\ m = Count(p, "MB2I")
            /\ d = Count(p, "MB2I_DELAY") /\ f = Count(p, "MB2I_FINAL")
    BY Zenon DEF Counted
  <1>2. PICK a \in Nat, b \in Nat, c \in Nat, g \in Nat :
            /\ a = One(k = "HEADSET") /\ b = One(k = "MB2I")
            /\ c = One(k = "MB2I_DELAY") /\ g = One(k = "MB2I_FINAL")
    BY DEF One
  <1>3. QueueWork(p) = h + 2 * m + d + f
    BY <1>1, Zenon DEF QueueWork
  <1>4. QueueWork(q) = (h + a) + 2 * (m + b) + (d + c) + (f + g)
    BY <1>1, <1>2, Zenon DEF QueueWork, OneMore
  <1>5. Weight(k) = a + 2 * b + c + g
    BY <1>2, Zenon DEF Weight
  <1>6. /\ (h + a) + 2 * (m + b) + (d + c) + (f + g)
           = (h + 2 * m + d + f) + (a + 2 * b + c + g)
        /\ h + 2 * m + d + f \in Nat /\ (h + a) + 2 * (m + b) + (d + c) + (f + g) \in Nat
    OBVIOUS
  <1> QED
    BY <1>3, <1>4, <1>5, <1>6, Zenon DEF OneMore

-----------------------------------------------------------------------------
(* No step of the driver adds to the headset's work by itself, and none    *)
(* makes a second token of the power key.                                  *)
Paid ==
    /\ HeadsetWork' <= HeadsetWork + 2 * (toggles' - toggles)
    /\ PowerTokens' <= PowerTokens

(* It is enough that a step gives up outside the queue what it adds there. *)
LEMMA GivesUp ==
    ASSUME toggles \in Nat, toggles' \in Nat, WorkSplit, WorkSplit',
           NEW w \in Int, NEW r \in Int,
           QueueWork(event_queue') <= QueueWork(event_queue) + w,
           Count(event_queue', "POWER") <= Count(event_queue, "POWER") + r,
           HeldWork' + w <= HeldWork + 2 * (toggles' - toggles),
           PowerHeld' + r <= PowerHeld
    PROVE  Paid
  <1>1. PICK q \in Nat, u \in Nat, q1 \in Nat, u1 \in Nat :
            /\ q = QueueWork(event_queue) /\ u = Count(event_queue, "POWER")
            /\ q1 = QueueWork(event_queue') /\ u1 = Count(event_queue', "POWER")
    BY Zenon DEF WorkSplit
  <1>2. PICK h \in Nat, h1 \in Nat, p \in Nat, p1 \in Nat :
            h = HeldWork /\ h1 = HeldWork' /\ p = PowerHeld /\ p1 = PowerHeld'
    BY Zenon DEF WorkSplit
  <1>3. HeadsetWork = h + q /\ HeadsetWork' = h1 + q1
    BY <1>1, <1>2, Zenon DEF WorkSplit
  <1>4. PowerTokens = u + p /\ PowerTokens' = u1 + p1
    BY <1>1, <1>2, Zenon DEF PowerTokens
  <1>5. PICK t \in Nat, t1 \in Nat : t = toggles /\ t1 = toggles'
    OBVIOUS
  <1>6. /\ q1 <= q + w /\ u1 <= u + r /\ p1 + r <= p
        /\ h1 + w <= h + 2 * (t1 - t)
    BY <1>1, <1>2, <1>5, Zenon
  <1>7. h1 + q1 <= h + q + 2 * (t1 - t) /\ u1 + p1 <= u + p
    BY <1>6
  <1> QED
    BY <1>3, <1>4, <1>5, <1>7, Zenon DEF Paid

(* Each step in turn.                                                      *)
LEMMA NextPaid == TypeOK /\ TypeOK' /\ DebounceInv /\ [DebounceNext]_vars => Paid
  <1> SUFFICES ASSUME TypeOK, TypeOK', DebounceInv, [DebounceNext]_vars PROVE Paid
    OBVIOUS
  <1>a. /\ event_queue \in Seq(Index) /\ event_queue' \in Seq(Index)
        /\ toggles \in Nat /\ toggles' \in Nat
    BY DebounceAssumption DEF TypeOK, QueueTypeOK
  <1>b. Counted(event_queue) /\ Counted(event_queue')
    BY <1>a, QueueCounted
  <1>c. WorkSplit /\ WorkSplit'
    <2>1. WorkSplit
      BY <1>b, WorkIsSplit
    <2>2. Counted(event_queue)' => WorkSplit'
      BY WorkIsSplit, PTL
    <2>3. Counted(event_queue)'
      BY <1>b
    <2> QED
      BY <2>1, <2>2, <2>3
  <1>d. TypeOK /\ Flow /\ Enabled
    BY DEF DebounceInv
  (* The three things a step may do to the queue.                          *)
  <1>e. ASSUME event_queue' = event_queue,
               HeldWork' <= HeldWork + 2 * (toggles' - toggles), PowerHeld' <= PowerHeld
        PROVE  Paid
    <2>1. /\ QueueWork(event_queue') <= QueueWork(event_queue) + 0
          /\ Count(event_queue', "POWER") <= Count(event_queue, "POWER") + 0
      BY <1>c, <1>e DEF WorkSplit
    <2>2. HeldWork' + 0 = HeldWork' /\ PowerHeld' + 0 = PowerHeld'
      <3>1. PICK h \in Nat, p \in Nat : h = HeldWork' /\ p = PowerHeld'
        BY <1>c, Zenon DEF WorkSplit
      <3>2. h + 0 = h /\ p + 0 = p
        OBVIOUS
      <3> QED
        BY <3>1, <3>2, Zenon
    <2>3. HeldWork' + 0 <= HeldWork + 2 * (toggles' - toggles) /\ PowerHeld' + 0 <= PowerHeld
      BY <1>e, <2>2, Zenon
    <2> QED
      BY <1>a, <1>c, <2>1, <2>3, GivesUp
  <1>f. ASSUME NEW k \in Index, add_index(k),
               HeldWork' + Weight(k) <= HeldWork + 2 * (toggles' - toggles),
               PowerHeld' + One(k = "POWER") <= PowerHeld
        PROVE  Paid
    <2>1. AtMostOneMore(event_queue, event_queue', k)
      BY <1>f, AddAtMostOneMore
    <2>2. /\ QueueWork(event_queue') <= QueueWork(event_queue) + Weight(k)
          /\ Count(event_queue', "POWER") <= Count(event_queue, "POWER") + One(k = "POWER")
      BY <1>b, <2>1, AtMostOneMoreWork
    <2>3. Weight(k) \in Int /\ One(k = "POWER") \in Int
      BY DEF Weight, One
    <2> QED
      BY <1>a, <1>c, <1>f, <2>2, <2>3, GivesUp
  <1>g. ASSUME Take,
               HeldWork' <= HeldWork + Weight(Head(event_queue)),
               PowerHeld' <= PowerHeld + One(Head(event_queue) = "POWER"),
               toggles' = toggles
        PROVE  Paid
    <2> DEFINE k == Head(event_queue)
    <2>0. event_queue # <<>> /\ event_queue' = Tail(event_queue) /\ k \in Index
      BY <1>g, TakeHead DEF TypeOK
    <2>1. OneMore(event_queue', event_queue, k) /\ k \in Index
      BY <1>a, <2>0, TailOneLess
    <2>2. /\ QueueWork(event_queue) = QueueWork(event_queue') + Weight(k)
          /\ Count(event_queue, "POWER") = Count(event_queue', "POWER") + One(k = "POWER")
      BY <1>b, <2>1, OneMoreWork
    <2>3. PICK w \in Nat, r \in Nat : w = Weight(k) /\ r = One(k = "POWER")
      BY DEF Weight, One
    <2>4. PICK q \in Nat, q1 \in Nat, u \in Nat, u1 \in Nat :
              /\ q = QueueWork(event_queue) /\ q1 = QueueWork(event_queue')
              /\ u = Count(event_queue, "POWER") /\ u1 = Count(event_queue', "POWER")
      BY <1>c, Zenon DEF WorkSplit
    <2>5. PICK h \in Nat, h1 \in Nat, p \in Nat, p1 \in Nat :
              h = HeldWork /\ h1 = HeldWork' /\ p = PowerHeld /\ p1 = PowerHeld'
      BY <1>c, Zenon DEF WorkSplit
    <2>6. q = q1 + w /\ u = u1 + r /\ h1 <= h + w /\ p1 <= p + r
      BY <1>g, <2>2, <2>3, <2>4, <2>5, Zenon
    <2>7. /\ q1 <= q + (-w) /\ u1 <= u + (-r) /\ h1 + (-w) <= h + 2 * (toggles' - toggles)
          /\ p1 + (-r) <= p /\ -w \in Int /\ -r \in Int
      BY <1>a, <1>g, <2>6
    <2>8. /\ QueueWork(event_queue') <= QueueWork(event_queue) + (-w)
          /\ Count(event_queue', "POWER") <= Count(event_queue, "POWER") + (-r)
          /\ HeldWork' + (-w) <= HeldWork + 2 * (toggles' - toggles)
          /\ PowerHeld' + (-r) <= PowerHeld
      BY <2>4, <2>5, <2>7, Zenon
    <2> QED
      BY <1>a, <1>c, <2>7, <2>8, GivesUp
  <1>1. ASSUME NEW e \in Inputs, Toggle(e) PROVE Paid
    <2>1. event_queue' = event_queue
      BY <1>1 DEF Toggle, Raise, queueVars, indexVars
    <2>2. HeldWork' <= HeldWork + 2 * (toggles' - toggles) /\ PowerHeld' <= PowerHeld
      BY <1>1, <1>a, <1>d, DebounceAssumption, ThreeEvents DEF Toggle, Raise, TypeOK, Flow,
         Enabled, DonePcs, Index, ThreadPCs, At, IntThreadBlocked, table, locals, reports,
         serviceVars, debounceVars, One, Weight, HeldWork, Held, Interrupts, PowerHeld
    <2> QED
      BY <2>1, <2>2, <1>e
  <1>2. ASSUME NEW e \in Events, debounce_interrupt_handler(e) PROVE Paid
    <2>1. add_index(get_event_index(e))
      BY <1>2 DEF debounce_interrupt_handler, Dispatched
    <2>2. get_event_index(e) \in Index
      BY ThreeEvents DEF Index
    <2>3. /\ HeldWork' + Weight(get_event_index(e)) <= HeldWork + 2 * (toggles' - toggles)
          /\ PowerHeld' + One(get_event_index(e) = "POWER") <= PowerHeld
      BY <1>2, <1>a, <1>d, DebounceAssumption, ThreeEvents DEF debounce_interrupt_handler,
         Dispatched, TypeOK, Flow, Enabled, DonePcs, Index, ThreadPCs, At,
         IntThreadBlocked, table, locals, reports, serviceVars, debounceVars, One, Weight,
         HeldWork, Held, Interrupts, PowerHeld
    <2> QED
      BY <2>1, <2>2, <2>3, <1>f
  <1>3. ASSUME NEW k \in Index, debounce_timer_handler(k) PROVE Paid
    <2>1. add_index(k)
      BY <1>3 DEF debounce_timer_handler
    <2>2. k \in Index
      BY ThreeEvents DEF Index
    <2>3. /\ HeldWork' + Weight(k) <= HeldWork + 2 * (toggles' - toggles)
          /\ PowerHeld' + One(k = "POWER") <= PowerHeld
      BY <1>3, <1>a, <1>d, DebounceAssumption, ThreeEvents DEF debounce_timer_handler, TypeOK, Flow, Enabled, DonePcs, Index, ThreadPCs, At, IntThreadBlocked,
         table, locals, reports, serviceVars, debounceVars, One, Weight, HeldWork, Held,
         Interrupts, PowerHeld
    <2> QED
      BY <2>1, <2>2, <2>3, <1>f
  <1>4. CASE IntService
    <2>1. event_queue' = event_queue
      BY <1>4 DEF IntService, Service, RegEvents, debounceVars, queueVars, indexVars
    <2>2. HeldWork' <= HeldWork + 2 * (toggles' - toggles) /\ PowerHeld' <= PowerHeld
      BY <1>4, <1>a, <1>d, DebounceAssumption, ThreeEvents DEF IntService, Service,
         RegEvents, TypeOK, Flow, Enabled, DonePcs, Index, ThreadPCs, At, IntThreadBlocked,
         table, locals, reports, serviceVars, debounceVars, One, Weight, HeldWork, Held,
         Interrupts, PowerHeld
    <2> QED
      BY <2>1, <2>2, <1>e
  <1>5. CASE IntCollect
    <2>1. event_queue' = event_queue
      BY <1>5 DEF IntCollect, BeginDispatch, debounceVars, queueVars, indexVars
    <2>2. HeldWork' <= HeldWork + 2 * (toggles' - toggles) /\ PowerHeld' <= PowerHeld
      BY <1>5, <1>a, <1>d, DebounceAssumption, ThreeEvents DEF IntCollect, BeginDispatch,
         TypeOK, Flow, Enabled, DonePcs, Index, ThreadPCs, At, IntThreadBlocked, table,
         locals, reports, serviceVars, debounceVars, One, Weight, HeldWork, Held,
         Interrupts, PowerHeld
    <2> QED
      BY <2>1, <2>2, <1>e
  <1>6. CASE ThreadPop
    <2>1. Take /\ toggles' = toggles
      BY <1>6 DEF ThreadPop
    <2>2. Head(event_queue) \in Index
      BY <2>1, TakeHead DEF TypeOK
    <2>3. /\ HeldWork' <= HeldWork + Weight(Head(event_queue))
          /\ PowerHeld' <= PowerHeld + One(Head(event_queue) = "POWER")
      BY <1>6, <1>a, <1>d, <2>2, DebounceAssumption, ThreeEvents DEF ThreadPop, TypeOK,
         Flow, Enabled, DonePcs, Index, ThreadPCs, At, IntThreadBlocked, table, locals,
         reports, serviceVars, debounceVars, One, Weight, HeldWork, Held, Interrupts,
         PowerHeld
    <2> QED
      BY <2>1, <2>3, <1>g
  <1>7. CASE ThreadBegin
    <2>1. event_queue' = event_queue
      BY <1>7 DEF ThreadBegin, Mask, queueVars, indexVars
    <2>2. HeldWork' <= HeldWork + 2 * (toggles' - toggles) /\ PowerHeld' <= PowerHeld
      BY <1>7, <1>a, <1>d, DebounceAssumption, ThreeEvents DEF ThreadBegin, Mask, TypeOK,
         Flow, Enabled, DonePcs, Index, ThreadPCs, At, IntThreadBlocked, table, locals,
         reports, serviceVars, debounceVars, One, Weight, HeldWork, Held, Interrupts,
         PowerHeld
    <2> QED
      BY <2>1, <2>2, <1>e
  <1>8. CASE ThreadClear
    <2>1. event_queue' = event_queue
      BY <1>8 DEF ThreadClear, Clear, queueVars, indexVars
    <2>2. HeldWork' <= HeldWork + 2 * (toggles' - toggles) /\ PowerHeld' <= PowerHeld
      BY <1>8, <1>a, <1>d, DebounceAssumption, ThreeEvents DEF ThreadClear, Clear, TypeOK,
         Flow, Enabled, DonePcs, Index, ThreadPCs, At, IntThreadBlocked, table, locals,
         reports, serviceVars, debounceVars, One, Weight, HeldWork, Held, Interrupts,
         PowerHeld
    <2> QED
      BY <2>1, <2>2, <1>e
  <1>9. CASE ThreadSense
    <2>1. event_queue' = event_queue
      BY <1>9 DEF ThreadSense, queueVars, indexVars
    <2>2. HeldWork' <= HeldWork + 2 * (toggles' - toggles) /\ PowerHeld' <= PowerHeld
      BY <1>9, <1>a, <1>d, DebounceAssumption, ThreeEvents DEF ThreadSense, TypeOK, Flow,
         Enabled, DonePcs, Index, ThreadPCs, At, IntThreadBlocked, table, locals, reports,
         serviceVars, debounceVars, One, Weight, HeldWork, Held, Interrupts, PowerHeld
    <2> QED
      BY <2>1, <2>2, <1>e
  <1>10. CASE ThreadDecide
    <2>1. event_queue' = event_queue
      BY <1>10 DEF ThreadDecide, ThreadDone, queueVars, indexVars
    <2>2. HeldWork' <= HeldWork + 2 * (toggles' - toggles) /\ PowerHeld' <= PowerHeld
      <3>1. CASE poll_current[i] > PollCount[i]
        BY <1>10, <1>a, <1>d, <3>1, DebounceAssumption, ThreeEvents
           DEF ThreadDecide, ThreadDone, TypeOK, Flow, Enabled, DonePcs, Index, ThreadPCs,
               At, IntThreadBlocked, table, locals, reports, serviceVars, debounceVars, One,
               Weight, HeldWork, Held, Interrupts, PowerHeld
      <3>2. CASE ~(poll_current[i] > PollCount[i])
        <4>1. /\ dpc = "decide" /\ i \in Index /\ dpc' = "idle" /\ i' = "NONE"
              /\ timers' = timers \cup {i}
          BY <1>10, <1>d, <3>2 DEF ThreadDecide, ThreadDone, At, TypeOK, Flow
        <4>2. UNCHANGED <<serviceVars, toggles>>
          BY <1>10 DEF ThreadDecide
        <4> QED
          BY <4>1, <4>2, <1>a, ThreeEvents
             DEF serviceVars, Index, DonePcs, One, HeldWork, Held, Interrupts, PowerHeld
      <3> QED
        BY <3>1, <3>2
    <2> QED
      BY <2>1, <2>2, <1>e
  <1>11. CASE power_key_handler
    <2>1. event_queue' = event_queue
      BY <1>11 DEF power_key_handler, Callback, queueVars, indexVars
    <2>2. HeldWork' <= HeldWork + 2 * (toggles' - toggles) /\ PowerHeld' <= PowerHeld
      BY <1>11, <1>a, <1>d, DebounceAssumption, ThreeEvents DEF power_key_handler, Callback,
         TypeOK, Flow, Enabled, DonePcs, Index, ThreadPCs, At, IntThreadBlocked, table,
         locals, reports, serviceVars, debounceVars, One, Weight, HeldWork, Held,
         Interrupts, PowerHeld
    <2> QED
      BY <2>1, <2>2, <1>e
  <1>12. CASE HeadsetRemoved
    <2>1. event_queue' = event_queue
      BY <1>12 DEF HeadsetRemoved, Callback, queueVars, indexVars
    <2>2. HeldWork' <= HeldWork + 2 * (toggles' - toggles) /\ PowerHeld' <= PowerHeld
      BY <1>12, <1>a, <1>d, DebounceAssumption, ThreeEvents DEF HeadsetRemoved, Callback,
         TypeOK, Flow, Enabled, DonePcs, Index, ThreadPCs, At, IntThreadBlocked, table,
         locals, reports, serviceVars, debounceVars, One, Weight, HeldWork, Held,
         Interrupts, PowerHeld
    <2> QED
      BY <2>1, <2>2, <1>e
  <1>13. CASE HeadsetAttached
    <2>1. event_queue' = event_queue
      BY <1>13 DEF HeadsetAttached, Callback, Clear, queueVars, indexVars
    <2>2. HeldWork' <= HeldWork + 2 * (toggles' - toggles) /\ PowerHeld' <= PowerHeld
      BY <1>13, <1>a, <1>d, DebounceAssumption, ThreeEvents DEF HeadsetAttached, Callback,
         Clear, TypeOK, Flow, Enabled, DonePcs, Index, ThreadPCs, At, IntThreadBlocked,
         table, locals, reports, serviceVars, debounceVars, One, Weight, HeldWork, Held,
         Interrupts, PowerHeld
    <2> QED
      BY <2>1, <2>2, <1>e
  <1>14. CASE HeadsetReport
    <2>1. event_queue' = event_queue
      BY <1>14 DEF HeadsetReport, queueVars, indexVars
    <2>2. HeldWork' <= HeldWork + 2 * (toggles' - toggles) /\ PowerHeld' <= PowerHeld
      BY <1>14, <1>a, <1>d, DebounceAssumption, ThreeEvents DEF HeadsetReport, TypeOK, Flow,
         Enabled, DonePcs, Index, ThreadPCs, At, IntThreadBlocked, table, locals, reports,
         serviceVars, debounceVars, One, Weight, HeldWork, Held, Interrupts, PowerHeld
    <2> QED
      BY <2>1, <2>2, <1>e
  <1>15. CASE HeadsetKeyOn
    <2>1. event_queue' = event_queue
      BY <1>15 DEF HeadsetKeyOn, Unmask, queueVars, indexVars
    <2>2. HeldWork' <= HeldWork + 2 * (toggles' - toggles) /\ PowerHeld' <= PowerHeld
      BY <1>15, <1>a, <1>d, DebounceAssumption, ThreeEvents DEF HeadsetKeyOn, Unmask,
         TypeOK, Flow, Enabled, DonePcs, Index, ThreadPCs, At, IntThreadBlocked, table,
         locals, reports, serviceVars, debounceVars, One, Weight, HeldWork, Held,
         Interrupts, PowerHeld
    <2> QED
      BY <2>1, <2>2, <1>e
  <1>16. CASE KeyReleased
    <2>1. event_queue' = event_queue
      BY <1>16 DEF KeyReleased, Callback, queueVars, indexVars
    <2>2. HeldWork' <= HeldWork + 2 * (toggles' - toggles) /\ PowerHeld' <= PowerHeld
      BY <1>16, <1>a, <1>d, DebounceAssumption, ThreeEvents DEF KeyReleased, Callback,
         TypeOK, Flow, Enabled, DonePcs, Index, ThreadPCs, At, IntThreadBlocked, table,
         locals, reports, serviceVars, debounceVars, One, Weight, HeldWork, Held,
         Interrupts, PowerHeld
    <2> QED
      BY <2>1, <2>2, <1>e
  <1>17. CASE KeyNoMic
    <2>1. add_index("HEADSET")
      BY <1>17 DEF KeyNoMic, Callback
    <2>2. "HEADSET" \in Index
      BY ThreeEvents DEF Index
    <2>3. /\ HeldWork' + Weight("HEADSET") <= HeldWork + 2 * (toggles' - toggles)
          /\ PowerHeld' + One("HEADSET" = "POWER") <= PowerHeld
      BY <1>17, <1>a, <1>d, DebounceAssumption, ThreeEvents DEF KeyNoMic, Callback, TypeOK, Flow, Enabled, DonePcs, Index, ThreadPCs, At, IntThreadBlocked,
         table, locals, reports, serviceVars, debounceVars, One, Weight, HeldWork, Held,
         Interrupts, PowerHeld
    <2> QED
      BY <2>1, <2>2, <2>3, <1>f
  <1>18. CASE KeyPressed
    <2>1. event_queue' = event_queue
      BY <1>18 DEF KeyPressed, Callback, queueVars, indexVars
    <2>2. HeldWork' <= HeldWork + 2 * (toggles' - toggles) /\ PowerHeld' <= PowerHeld
      BY <1>18, <1>a, <1>d, DebounceAssumption, ThreeEvents DEF KeyPressed, Callback,
         TypeOK, Flow, Enabled, DonePcs, Index, ThreadPCs, At, IntThreadBlocked, table,
         locals, reports, serviceVars, debounceVars, One, Weight, HeldWork, Held,
         Interrupts, PowerHeld
    <2> QED
      BY <2>1, <2>2, <1>e
  <1>19. CASE KeyPressedPreliminary
    <2>1. CASE PressCounts
      <3>1. add_index("MB2I_DELAY")
        BY <1>19, <2>1 DEF KeyPressedPreliminary, setup_for_next_handler
      <3>2. /\ HeldWork' + Weight("MB2I_DELAY") <= HeldWork + 2 * (toggles' - toggles)
            /\ PowerHeld' + One("MB2I_DELAY" = "POWER") <= PowerHeld
        BY <1>19, <1>a, <1>d, <2>1, DebounceAssumption, ThreeEvents DEF
           KeyPressedPreliminary, setup_for_next_handler, TypeOK, Flow, Enabled,
           DonePcs, Index, ThreadPCs, At, IntThreadBlocked, table, locals, reports,
           serviceVars, debounceVars, One, Weight, HeldWork, Held, Interrupts, PowerHeld
      <3> QED
        BY <3>1, <3>2, <1>f DEF Index
    <2>2. CASE ~PressCounts
      <3>1. event_queue' = event_queue
        BY <1>19, <2>2 DEF KeyPressedPreliminary, setup_for_next_handler, queueVars, indexVars
      <3>2. HeldWork' <= HeldWork + 2 * (toggles' - toggles) /\ PowerHeld' <= PowerHeld
        BY <1>19, <1>a, <1>d, <2>2, DebounceAssumption, ThreeEvents DEF
           KeyPressedPreliminary, setup_for_next_handler, TypeOK, Flow, Enabled,
           DonePcs, Index, ThreadPCs, At, IntThreadBlocked, table, locals, reports,
           serviceVars, debounceVars, One, Weight, HeldWork, Held, Interrupts, PowerHeld
      <3> QED
        BY <3>1, <3>2, <1>e
    <2> QED
      BY <2>1, <2>2
  <1>20. CASE headset_key_delay_handler
    <2>1. add_index("MB2I_FINAL")
      BY <1>20 DEF headset_key_delay_handler, Callback, setup_for_next_handler
    <2>2. "MB2I_FINAL" \in Index
      BY ThreeEvents DEF Index
    <2>3. /\ HeldWork' + Weight("MB2I_FINAL") <= HeldWork + 2 * (toggles' - toggles)
          /\ PowerHeld' + One("MB2I_FINAL" = "POWER") <= PowerHeld
      BY <1>20, <1>a, <1>d, DebounceAssumption, ThreeEvents DEF headset_key_delay_handler,
         Callback, setup_for_next_handler, TypeOK, Flow, Enabled, DonePcs, Index,
         ThreadPCs, At, IntThreadBlocked, table, locals, reports, serviceVars, debounceVars,
         One, Weight, HeldWork, Held, Interrupts, PowerHeld
    <2> QED
      BY <2>1, <2>2, <2>3, <1>f
  <1>21. CASE KeyFinalReleased
    <2>1. event_queue' = event_queue
      BY <1>21 DEF KeyFinalReleased, Callback, queueVars, indexVars
    <2>2. HeldWork' <= HeldWork + 2 * (toggles' - toggles) /\ PowerHeld' <= PowerHeld
      BY <1>21, <1>a, <1>d, DebounceAssumption, ThreeEvents DEF KeyFinalReleased, Callback,
         TypeOK, Flow, Enabled, DonePcs, Index, ThreadPCs, At, IntThreadBlocked, table,
         locals, reports, serviceVars, debounceVars, One, Weight, HeldWork, Held,
         Interrupts, PowerHeld
    <2> QED
      BY <2>1, <2>2, <1>e
  <1>22. CASE KeyFinalPressed
    <2>1. event_queue' = event_queue
      BY <1>22 DEF KeyFinalPressed, queueVars, indexVars
    <2>2. HeldWork' <= HeldWork + 2 * (toggles' - toggles) /\ PowerHeld' <= PowerHeld
      BY <1>22, <1>a, <1>d, DebounceAssumption, ThreeEvents DEF KeyFinalPressed, TypeOK,
         Flow, Enabled, DonePcs, Index, ThreadPCs, At, IntThreadBlocked, table, locals,
         reports, serviceVars, debounceVars, One, Weight, HeldWork, Held, Interrupts,
         PowerHeld
    <2> QED
      BY <2>1, <2>2, <1>e
  <1>23. CASE ThreadUnmask
    <2>1. event_queue' = event_queue
      BY <1>23 DEF ThreadUnmask, Unmask, queueVars, indexVars
    <2>2. HeldWork' <= HeldWork + 2 * (toggles' - toggles) /\ PowerHeld' <= PowerHeld
      BY <1>23, <1>a, <1>d, DebounceAssumption, ThreeEvents DEF ThreadUnmask, Unmask,
         TypeOK, Flow, Enabled, DonePcs, Index, ThreadPCs, At, IntThreadBlocked, table,
         locals, reports, serviceVars, debounceVars, One, Weight, HeldWork, Held,
         Interrupts, PowerHeld
    <2> QED
      BY <2>1, <2>2, <1>e
  <1>24. CASE ThreadLoad
    <2>1. event_queue' = event_queue
      BY <1>24 DEF ThreadLoad, queueVars, indexVars
    <2>2. HeldWork' <= HeldWork + 2 * (toggles' - toggles) /\ PowerHeld' <= PowerHeld
      BY <1>24, <1>a, <1>d, DebounceAssumption, ThreeEvents DEF ThreadLoad, TypeOK, Flow,
         Enabled, DonePcs, Index, ThreadPCs, At, IntThreadBlocked, table, locals, reports,
         serviceVars, debounceVars, One, Weight, HeldWork, Held, Interrupts, PowerHeld
    <2> QED
      BY <2>1, <2>2, <1>e
  <1>25. CASE ThreadStore
    <2>1. event_queue' = event_queue
      BY <1>25 DEF ThreadStore, queueVars, indexVars
    <2>2. HeldWork' <= HeldWork + 2 * (toggles' - toggles) /\ PowerHeld' <= PowerHeld
      BY <1>25, <1>a, <1>d, DebounceAssumption, ThreeEvents DEF ThreadStore, TypeOK, Flow,
         Enabled, DonePcs, Index, ThreadPCs, At, IntThreadBlocked, table, locals, reports,
         serviceVars, debounceVars, One, Weight, HeldWork, Held, Interrupts, PowerHeld
    <2> QED
      BY <2>1, <2>2, <1>e
  <1>26. CASE ThreadReset
    <2>1. event_queue' = event_queue
      BY <1>26 DEF ThreadReset, ThreadDone, queueVars, indexVars
    <2>2. HeldWork' <= HeldWork + 2 * (toggles' - toggles) /\ PowerHeld' <= PowerHeld
      BY <1>26, <1>a, <1>d, DebounceAssumption, ThreeEvents DEF ThreadReset, ThreadDone,
         TypeOK, Flow, Enabled, DonePcs, Index, ThreadPCs, At, IntThreadBlocked, table,
         locals, reports, serviceVars, debounceVars, One, Weight, HeldWork, Held,
         Interrupts, PowerHeld
    <2> QED
      BY <2>1, <2>2, <1>e
  <1>27. CASE UNCHANGED vars
    <2>1. event_queue' = event_queue
      BY <1>27 DEF vars, debounceVars, queueVars, indexVars
    <2>2. HeldWork' <= HeldWork + 2 * (toggles' - toggles) /\ PowerHeld' <= PowerHeld
      BY <1>27, <1>a, <1>d, DebounceAssumption, ThreeEvents DEF vars, TypeOK, Flow, Enabled,
         DonePcs, Index, ThreadPCs, At, IntThreadBlocked, table, locals, reports,
         serviceVars, debounceVars, One, Weight, HeldWork, Held, Interrupts, PowerHeld
    <2> QED
      BY <2>1, <2>2, <1>e
  <1>28. ASSUME NEW k \in Index, TimerSelfWait(k) PROVE Paid
    <2>1. event_queue' = event_queue
      BY <1>28 DEF TimerSelfWait
    <2>2. HeldWork' <= HeldWork + 2 * (toggles' - toggles) /\ PowerHeld' <= PowerHeld
      BY <1>28, <1>a, ThreeEvents DEF TimerSelfWait, table, locals, reports, serviceVars,
         Index, DonePcs, One, HeldWork, Held, Interrupts, PowerHeld
    <2> QED
      BY <2>1, <2>2, <1>e
  <1> QED
    BY <1>1, <1>2, <1>3, <1>4, <1>5, <1>6, <1>7, <1>8, <1>9, <1>10, <1>11, <1>12, <1>13,
       <1>14, <1>15, <1>16, <1>17, <1>18, <1>19, <1>20, <1>21, <1>22, <1>23, <1>24, <1>25,
       <1>26, <1>27, <1>28 DEF DebounceNext, IntThread, Timers, Callbacks, debounce_thread

(* "it is impossible for the queue to fill up", as far as it holds: every  *)
(* index the headset and its key have on the queue, or will have, is paid  *)
(* for by a change of an input.                                            *)
THEOREM WorkPaidFor == DebounceSpec => QueueIsPaidFor
  <1>1. TypeOK /\ DebounceInv /\ TypeOK' /\ [DebounceNext]_vars
            => [HeadsetWork' <= HeadsetWork + 2 * (toggles' - toggles)]_vars
    BY NextPaid DEF Paid
  <1> QED
    BY <1>1, Invariance, PTL DEF DebounceSpec, QueueIsPaidFor

(* The forced entries are distinct, so the power key starts with one token *)
(* at most.                                                                *)
LEMMA InitTokens == DebounceInit => OneToken
  <1> SUFFICES ASSUME DebounceInit PROVE OneToken
    OBVIOUS
  <1>1. PowerHeld = 0
    BY ThreeEvents DEF DebounceInit, Init, PowerHeld, One
  <1> DEFINE S == {n \in 1 .. Len(Forced) : Forced[n] = "POWER"}
  <1>2. \A m, n \in S : m = n
    BY DebounceAssumption
  <1>3. S = {} \/ \E m : S = {m}
    BY <1>2, Zenon
  <1> HIDE DEF S
  <1>4. Cardinality(S) = 0 \/ Cardinality(S) = 1
    BY <1>3, FS_EmptySet, FS_Singleton
  <1>5. Count(event_queue, "POWER") = Cardinality(S)
    BY DEF DebounceInit, Count, S
  <1> QED
    BY <1>1, <1>4, <1>5 DEF PowerTokens, OneToken

(* Masking keeps the power key to one index on the queue.                  *)
THEOREM PowerOnce == DebounceSpec => []PowerQueuedOnce
  <1>1. TypeOK => PowerTokens \in Nat /\ Count(event_queue, "POWER") \in Nat
                  /\ (OneToken => PowerQueuedOnce)
    <2> SUFFICES ASSUME TypeOK
                 PROVE  /\ PowerTokens \in Nat /\ Count(event_queue, "POWER") \in Nat
                        /\ OneToken => PowerQueuedOnce
      OBVIOUS
    <2>1. Count(event_queue, "POWER") \in Nat
      BY CountType DEF TypeOK, QueueTypeOK
    <2>2. PowerHeld \in Nat
      BY DEF PowerHeld, One
    <2> QED
      BY <2>1, <2>2 DEF PowerTokens, OneToken, PowerQueuedOnce
  <1>2. TypeOK /\ DebounceInv /\ TypeOK' /\ OneToken /\ [DebounceNext]_vars
            => OneToken'
    <2> SUFFICES ASSUME TypeOK, DebounceInv, TypeOK', OneToken, [DebounceNext]_vars
                 PROVE  OneToken'
      OBVIOUS
    <2>1. PowerTokens' <= PowerTokens
      BY NextPaid DEF Paid
    <2>2. PowerTokens \in Nat
      BY <1>1
    <2>3. PowerTokens' \in Nat
      <3>1. TypeOK' => (PowerTokens \in Nat)'
        BY <1>1, PTL
      <3> QED
        BY <3>1
    <2> QED
      BY <2>1, <2>2, <2>3 DEF OneToken
  <1> QED
    BY <1>1, <1>2, InitTokens, Invariance, PTL DEF DebounceSpec
=============================================================================
