------------------------------ MODULE MpmProofs ------------------------------
(***************************************************************************)
(* Theorems about the registrations and the busy count of Mpm, for any     *)
(* number of drivers, any growth step of the arrays and any ring; and that *)
(* the ring of Mpm is the queue of MpmQueue, for a ring of any size.       *)
(***************************************************************************)
EXTENDS Mpm, FiniteSetTheorems, SequenceTheorems, WellFoundedInduction, TLAPS

Busy == {d \in Drivers : driver_num[d] # -1 /\ advice[d] = "BUSY"}

(* The busy bits are the numbers of the drivers that said they are busy.   *)
BusyBits == \A n \in Int : n \in busy_p <=> \E d \in Busy : driver_num[d] = n

(* The counts count the bits.                                              *)
Counts ==
    /\ IsFiniteSet(busy_p) /\ busy_count = Cardinality(busy_p)
    /\ IsFiniteSet(registered_p) /\ registered_count = Cardinality(registered_p)

IInv == TypeOK /\ OwnNumber /\ BusyBits /\ Counts

-----------------------------------------------------------------------------
(* The ring's arithmetic stays inside the ring.                            *)
LEMMA FollowingType == \A s \in Slots : Following(s) \in Slots
  BY MpmAssumption DEF Following, Slots

(* A nonempty set of numbers has a least element.                          *)
LEMMA LeastNumber ==
  ASSUME NEW T, T \subseteq Nat, T # {}
  PROVE  \E b \in T : \A c \in T : b <= c
  <1> DEFINE Less == {p \in Nat \X Nat : p[1] < p[2]}
  <1>1. IsWellFoundedOn(Less, Nat)
    BY NatLessThanWellFounded, Zenon DEF OpToRel
  <1> HIDE DEF Less
  <1>2. PICK b \in T : \A c \in T : ~ (<<c, b>> \in Less)
    BY <1>1, WFMin
  <1>3. \A c \in T : <<c, b>> \in Less <=> c < b
    BY DEF Less
  <1>4. b \in T /\ b \in Nat /\ \A c \in T : c \in Nat
    OBVIOUS
  <1>5. \A c \in T : ~ (c < b)
    BY <1>2, <1>3, Zenon
  <1>6. \A c \in T : b <= c
    BY <1>4, <1>5
  <1> QED
    BY <1>4, <1>6, Zenon

(* The numbers below a size, before and after it grows.                    *)
LEMMA Below ==
  ASSUME NEW m \in Nat, NEW k \in Nat, m <= k
  PROVE  /\ 0 .. (m - 1) \subseteq 0 .. (k - 1)
         /\ \A b \in Nat : b < k => b \in 0 .. (k - 1)
  OBVIOUS

(* A registration gets a number that nobody has.                           *)
LEMMA FreshNumber ==
  ASSUME TypeOK
  PROVE  /\ find_first_zero_bit \in Nat
         /\ find_first_zero_bit \notin registered_p
         /\ find_first_zero_bit <= size_in_bits
  <1>1. CASE Bits \ registered_p = {}
    BY <1>1 DEF find_first_zero_bit, TypeOK, Bits
  <1>2. CASE Bits \ registered_p # {}
    <2> DEFINE T == Bits \ registered_p
    <2>1. T \subseteq Nat
      BY DEF TypeOK, Bits
    <2>2. \E b \in T : \A c \in T : b <= c
      BY <1>2, <2>1, LeastNumber
    <2>3. find_first_zero_bit \in T
      BY <1>2, <2>2, Zenon DEF find_first_zero_bit
    <2> QED
      BY <2>3 DEF TypeOK, Bits
  <1> QED
    BY <1>1, <1>2

(* test_and_clear_bit with its decrement, and test_and_set_bit with its    *)
(* increment, keep a count in step with its bits.                          *)
LEMMA RemoveCounted ==
  ASSUME NEW S, IsFiniteSet(S), NEW x
  PROVE  /\ IsFiniteSet(S \ {x})
         /\ Cardinality(S \ {x}) = Cardinality(S) - Cardinality(S \cap {x})
  <1>1. Cardinality(S) \in Nat
    BY FS_CardinalityType
  <1>2. /\ IsFiniteSet(S \ {x})
        /\ Cardinality(S \ {x}) = IF x \in S THEN Cardinality(S) - 1 ELSE Cardinality(S)
    BY FS_RemoveElement
  <1>3. CASE x \in S
    <2>1. S \cap {x} = {x} /\ Cardinality({x}) = 1
      BY <1>3, FS_Singleton
    <2> QED
      BY <1>1, <1>2, <1>3, <2>1
  <1>4. CASE x \notin S
    <2>1. S \cap {x} = {} /\ Cardinality({}) = 0
      BY <1>4, FS_EmptySet
    <2> QED
      BY <1>1, <1>2, <1>4, <2>1
  <1> QED
    BY <1>3, <1>4

LEMMA AddCounted ==
  ASSUME NEW S, IsFiniteSet(S), NEW x
  PROVE  /\ IsFiniteSet(S \cup {x})
         /\ Cardinality(S \cup {x}) = Cardinality(S) + Cardinality({x} \ S)
  <1>1. Cardinality(S) \in Nat
    BY FS_CardinalityType
  <1>2. /\ IsFiniteSet(S \cup {x})
        /\ Cardinality(S \cup {x}) = IF x \in S THEN Cardinality(S) ELSE Cardinality(S) + 1
    BY FS_AddElement
  <1>3. CASE x \in S
    <2>1. {x} \ S = {} /\ Cardinality({}) = 0
      BY <1>3, FS_EmptySet
    <2> QED
      BY <1>1, <1>2, <1>3, <2>1
  <1>4. CASE x \notin S
    <2>1. {x} \ S = {x} /\ Cardinality({x}) = 1
      BY <1>4, FS_Singleton
    <2> QED
      BY <1>1, <1>2, <1>4, <2>1
  <1> QED
    BY <1>3, <1>4

-----------------------------------------------------------------------------
(* Before any registration.                                                *)
LEMMA InitIInv == Init => IInv
  <1> SUFFICES ASSUME Init PROVE IInv
    OBVIOUS
  <1>1. TypeOK
    BY MpmAssumption DEF Init, TypeOK, Slots, Bits, Advice
  <1>2. OwnNumber /\ BusyBits
    BY DEF Init, OwnNumber, BusyBits, Busy
  <1>3. Counts
    BY FS_EmptySet DEF Init, Counts
  <1> QED
    BY <1>1, <1>2, <1>3 DEF IInv

(* Every operation keeps the inductive invariant.                          *)
LEMMA NextIInv == IInv /\ [Next]_vars => IInv'
  <1> SUFFICES ASSUME IInv, [Next]_vars PROVE IInv'
    OBVIOUS
  <1> USE DEF IInv
  <1>1. ASSUME NEW e \in MpmEvents, mpm_event_notify(e) PROVE IInv'
    <2>1. TypeOK'
      BY <1>1, FollowingType DEF mpm_event_notify, TypeOK, Bits, fetch, mpmdi, driver
    <2>2. (OwnNumber /\ BusyBits /\ Counts)'
      BY <1>1 DEF mpm_event_notify, OwnNumber, BusyBits, Busy, Counts, mpmdi, driver
    <2> QED
      BY <2>1, <2>2
  <1>2. CASE mpm_queue_empty
    BY <1>2 DEF mpm_queue_empty, TypeOK, Bits, OwnNumber, BusyBits, Busy, Counts,
                dq, mpmdi, driver
  <1>3. CASE mpm_get_queued_event
    <2>1. TypeOK'
      BY <1>3, FollowingType DEF mpm_get_queued_event, TypeOK, Bits, mpmdi, driver
    <2>2. (OwnNumber /\ BusyBits /\ Counts)'
      BY <1>3 DEF mpm_get_queued_event, OwnNumber, BusyBits, Busy, Counts, mpmdi, driver
    <2> QED
      BY <2>1, <2>2
  <1>4. ASSUME NEW d \in Drivers, mpm_register_with_mpm(d) PROVE IInv'
    <2> DEFINE bit == find_first_zero_bit
    <2>1. /\ driver_num[d] = -1
          /\ size_in_bits' = IF bit < size_in_bits THEN size_in_bits
                                                   ELSE size_in_bits + BITS_PER_LONG
          /\ registered_p' = registered_p \cup {bit}
          /\ name_arr' = [b \in 0 .. (size_in_bits' - 1) |->
                             IF b = bit THEN d ELSE IF b \in Bits THEN name_arr[b] ELSE NULL]
          /\ registered_count' = registered_count + 1
          /\ driver_num' = [driver_num EXCEPT ![d] = bit]
          /\ advice' = [advice EXCEPT ![d] = "NOT_BUSY"]
          /\ UNCHANGED <<events, event_head, event_tail, reader, evt, busy_p, busy_count>>
      BY <1>4 DEF mpm_register_with_mpm, dq, fetch
    <2>2. bit \in Nat /\ bit \notin registered_p /\ bit <= size_in_bits
      BY FreshNumber
    <2> HIDE DEF bit
    <2>3. size_in_bits' \in Nat /\ bit < size_in_bits' /\ size_in_bits <= size_in_bits'
      BY <2>1, <2>2, MpmAssumption DEF TypeOK
    <2>4. bit \in Bits' /\ Bits \subseteq Bits'
      <3>1. size_in_bits \in Nat
        BY DEF TypeOK
      <3> QED
        BY <2>2, <2>3, <3>1, Below DEF Bits
    <2>5. name_arr' \in [Bits' -> Drivers \cup {NULL}]
      BY <2>1 DEF TypeOK, Bits
    <2>6. driver_num' \in [Drivers -> Bits' \cup {-1}] /\ advice' \in [Drivers -> Advice]
      BY <2>1, <2>4 DEF TypeOK, Advice
    <2>7. registered_count \in Nat => registered_count' \in Nat
      BY <2>1
    <2>8. TypeOK'
      <3>1. registered_p' \in SUBSET Bits' /\ busy_p' \in SUBSET Bits'
        BY <2>1, <2>4 DEF TypeOK
      <3> QED
        BY <2>1, <2>3, <2>5, <2>6, <2>7, <3>1 DEF TypeOK
    <2>9. OwnNumber'
      <3>1. \A c \in Drivers : driver_num[c] # -1 => driver_num[c] # bit /\ driver_num[c] \in Bits
        BY <2>2 DEF OwnNumber, TypeOK
      <3>2. \A c \in Drivers \ {d} : driver_num'[c] = driver_num[c]
        BY <2>1 DEF TypeOK
      <3>3. driver_num'[d] = bit
        BY <2>1 DEF TypeOK
      <3>4. \A b \in Bits' : name_arr'[b] = IF b = bit THEN d
                                            ELSE IF b \in Bits THEN name_arr[b] ELSE NULL
        BY <2>1 DEF Bits
      <3>5. ASSUME NEW c \in Drivers, driver_num'[c] # -1
            PROVE  /\ driver_num'[c] \in registered_p'
                   /\ name_arr'[driver_num'[c]] = c
                   /\ \A x \in Drivers \ {c} : driver_num'[x] # driver_num'[c]
        <4>1. CASE c = d
          BY <4>1, <2>1, <2>2, <2>4, <3>1, <3>2, <3>3, <3>4
        <4>2. CASE c # d
          <5>1. driver_num'[c] = driver_num[c] /\ driver_num[c] # -1
            BY <3>2, <3>5, <4>2
          <5>2. /\ driver_num[c] \in registered_p
                /\ name_arr[driver_num[c]] = c
                /\ \A x \in Drivers \ {c} : driver_num[x] # driver_num[c]
            BY <5>1 DEF OwnNumber
          <5>3. driver_num[c] \in Bits /\ driver_num[c] \in Bits' /\ driver_num[c] # bit
            BY <5>1, <3>1, <2>4
          <5> QED
            BY <2>1, <3>2, <3>3, <3>4, <5>1, <5>2, <5>3
        <4> QED
          BY <4>1, <4>2
      <3> QED
        BY <3>5 DEF OwnNumber
    <2>10. BusyBits'
      <3>1. d \notin Busy /\ d \notin Busy'
        BY <2>1 DEF Busy, TypeOK
      <3>2. \A c \in Drivers \ {d} :
                driver_num'[c] = driver_num[c] /\ advice'[c] = advice[c]
        BY <2>1 DEF TypeOK
      <3>3. Busy' = Busy
        BY <3>1, <3>2 DEF Busy
      <3>4. \A c \in Busy : driver_num'[c] = driver_num[c]
        BY <3>1, <3>2 DEF Busy
      <3> QED
        BY <2>1, <3>3, <3>4 DEF BusyBits
    <2>11. Counts'
      <3>1. /\ IsFiniteSet(registered_p \cup {bit})
            /\ Cardinality(registered_p \cup {bit}) = Cardinality(registered_p) + 1
        BY <2>2, FS_AddElement DEF Counts
      <3> QED
        BY <2>1, <3>1 DEF Counts
    <2> QED
      BY <2>8, <2>9, <2>10, <2>11
  <1>5. ASSUME NEW d \in Drivers, mpm_unregister_with_mpm(d) PROVE IInv'
    <2> DEFINE n == driver_num[d]
    <2>1. /\ n \in Bits
          /\ busy_p' = busy_p \ {n}
          /\ busy_count' = busy_count - Cardinality(busy_p \cap {n})
          /\ registered_p' = registered_p \ {n}
          /\ registered_count' = registered_count - Cardinality(registered_p \cap {n})
          /\ name_arr' = [name_arr EXCEPT ![n] = NULL]
          /\ driver_num' = [driver_num EXCEPT ![d] = -1]
          /\ UNCHANGED <<events, event_head, event_tail, reader, evt, size_in_bits, advice>>
      BY <1>5 DEF mpm_unregister_with_mpm, dq, fetch
    <2>2. n \in Nat /\ n # -1
      BY <2>1 DEF Bits, TypeOK
    <2> HIDE DEF n
    <2>3. Counts'
      BY <2>1, RemoveCounted DEF Counts
    <2>4. TypeOK'
      <3>1. busy_count' \in Nat /\ registered_count' \in Nat
        BY <2>3, FS_CardinalityType DEF Counts
      <3> QED
        BY <2>1, <3>1 DEF TypeOK, Bits
    <2>5. \A c \in Drivers \ {d} : driver_num'[c] = driver_num[c] /\ driver_num[c] # n
      BY <2>1, <2>2 DEF TypeOK, OwnNumber, n
    <2>6. driver_num'[d] = -1
      BY <2>1 DEF TypeOK
    <2>7. OwnNumber'
      BY <2>1, <2>5, <2>6 DEF OwnNumber, TypeOK
    <2>8. BusyBits'
      <3>1. Busy' = Busy \ {d}
        BY <2>1, <2>5, <2>6 DEF Busy
      <3>2. \A c \in Busy \ {d} : driver_num'[c] = driver_num[c] /\ driver_num[c] # n
        BY <2>5 DEF Busy
      <3>3. driver_num[d] = n
        BY DEF n
      <3> QED
        BY <2>1, <3>1, <3>2, <3>3 DEF BusyBits
    <2> QED
      BY <2>3, <2>4, <2>7, <2>8
  <1>6. ASSUME NEW d \in Drivers, NEW a \in Advice, mpm_driver_advise(d, a) PROVE IInv'
    <2> DEFINE n == driver_num[d]
    <2>1. /\ n \in Bits /\ n \in registered_p
          /\ advice' = [advice EXCEPT ![d] = a]
          /\ \/ /\ a = "NOT_BUSY"
                /\ busy_p' = busy_p \ {n}
                /\ busy_count' = busy_count - Cardinality(busy_p \cap {n})
             \/ /\ a = "BUSY"
                /\ busy_p' = busy_p \cup {n}
                /\ busy_count' = busy_count + Cardinality({n} \ busy_p)
          /\ UNCHANGED <<events, event_head, event_tail, reader, evt, size_in_bits,
                         registered_p, name_arr, registered_count, driver_num>>
      BY <1>6 DEF mpm_driver_advise, dq, fetch
    <2>2. n \in Nat /\ n # -1 /\ n = driver_num[d]
      BY <2>1 DEF Bits, TypeOK
    <2> HIDE DEF n
    <2>3. Counts'
      BY <2>1, RemoveCounted, AddCounted DEF Counts
    <2>4. TypeOK'
      <3>1. busy_count' \in Nat
        BY <2>3, FS_CardinalityType DEF Counts
      <3>2. busy_p' \in SUBSET Bits
        BY <2>1 DEF TypeOK
      <3>3. advice' \in [Drivers -> Advice]
        BY <2>1 DEF TypeOK
      <3> QED
        BY <2>1, <3>1, <3>2, <3>3 DEF TypeOK, Bits
    <2>5. OwnNumber'
      BY <2>1 DEF OwnNumber
    <2>6. BusyBits'
      <3>1. \A c \in Drivers \ {d} : advice'[c] = advice[c] /\ driver_num[c] # n
        BY <2>1, <2>2 DEF TypeOK, OwnNumber
      <3>2. advice'[d] = a
        BY <2>1 DEF TypeOK
      <3>3. \A c \in Drivers : c \in Busy' <=> IF c = d THEN a = "BUSY" ELSE c \in Busy
        BY <2>1, <2>2, <3>1, <3>2 DEF Busy
      <3>4. Busy \subseteq Drivers /\ Busy' \subseteq Drivers
        BY DEF Busy
      <3> QED
        BY <2>1, <2>2, <3>1, <3>3, <3>4 DEF BusyBits
    <2> QED
      BY <2>3, <2>4, <2>5, <2>6
  <1>7. CASE UNCHANGED vars
    BY <1>7 DEF vars, dq, fetch, mpmdi, driver, TypeOK, Bits, OwnNumber, BusyBits, Busy, Counts
  <1> QED
    BY <1>1, <1>2, <1>3, <1>4, <1>5, <1>6, <1>7 DEF Next

-----------------------------------------------------------------------------
(* The inductive invariant of the registrations holds in every state.      *)
THEOREM Invariance == Spec => []IInv
  BY InitIInv, NextIInv, PTL DEF Spec

(* Type correctness of the ring, the bit arrays and the counts.            *)
THEOREM TypeCorrect == Spec => []TypeOK
  <1>1. IInv => TypeOK
    BY DEF IInv
  <1> QED
    BY <1>1, Invariance, PTL

(* No two registered drivers ever share a number, whatever was given back  *)
(* and handed out again.                                                   *)
THEOREM NumberIsOwn == Spec => []OwnNumber
  <1>1. IInv => OwnNumber
    BY DEF IInv
  <1> QED
    BY <1>1, Invariance, PTL

(* The count of busy drivers is the number of drivers that said so last.   *)
THEOREM CountIsAdvised == Spec => []BusyIsAdvised
  <1>1. IInv => BusyIsAdvised
    <2> SUFFICES ASSUME IInv PROVE BusyIsAdvised
      OBVIOUS
    <2> DEFINE f == [d \in Busy |-> driver_num[d]]
    <2>1. f \in [Busy -> busy_p]
      BY DEF IInv, BusyBits, Busy, TypeOK, Bits
    <2>2. \A c, d \in Busy : f[c] = f[d] => c = d
      BY DEF IInv, OwnNumber, Busy
    <2>3. \A n \in busy_p : \E d \in Busy : f[d] = n
      BY DEF IInv, BusyBits, TypeOK, Bits
    <2>4. f \in Injection(Busy, busy_p) /\ f \in Surjection(Busy, busy_p)
      BY <2>1, <2>2, <2>3 DEF Injection, IsInjective, Surjection
    <2>5. IsFiniteSet(busy_p) /\ busy_count = Cardinality(busy_p)
      BY DEF IInv, Counts
    <2>6. Cardinality(Busy) = Cardinality(busy_p)
      BY <2>4, <2>5, FS_Injection
    <2> QED
      BY <2>5, <2>6 DEF BusyIsAdvised, mpm_num_busy_drivers, Busy
  <1> QED
    BY <1>1, Invariance, PTL

-----------------------------------------------------------------------------
(* The events between tail and head of a ring f.                           *)
Ring(f, h, t) == [i \in 1 .. ((h - t) % MPM_MAX_EVENTS) |-> f[(t + i) % MPM_MAX_EVENTS]]

(* Remainders of the numbers the ring computes with.                       *)
LEMMA Wrap ==
  ASSUME NEW x \in Int, 0 - MPM_MAX_EVENTS <= x, x < 2 * MPM_MAX_EVENTS
  PROVE  x % MPM_MAX_EVENTS = IF x < 0 THEN x + MPM_MAX_EVENTS
                              ELSE IF x < MPM_MAX_EVENTS THEN x ELSE x - MPM_MAX_EVENTS
  <1>1. MPM_MAX_EVENTS \in Nat \ {0}
    BY MpmAssumption
  <1>2. CASE x < 0
    BY <1>1, <1>2
  <1>3. CASE 0 <= x /\ x < MPM_MAX_EVENTS
    BY <1>1, <1>3
  <1>4. CASE MPM_MAX_EVENTS <= x
    BY <1>1, <1>4
  <1> QED
    BY <1>1, <1>2, <1>3, <1>4

(* What head and tail say about the number of unread events.               *)
LEMMA RingCount ==
  ASSUME NEW h \in Slots, NEW t \in Slots
  PROVE  /\ Following(h) \in Slots
         /\ Following(h) # h
         /\ (h - t) % MPM_MAX_EVENTS \in 0 .. (MPM_MAX_EVENTS - 1)
         /\ (h - t) % MPM_MAX_EVENTS = 0 <=> h = t
         /\ (h - t) % MPM_MAX_EVENTS = MPM_MAX_EVENTS - 1 <=> Following(h) = t
         /\ Following(h) # t => (Following(h) - t) % MPM_MAX_EVENTS
                                    = ((h - t) % MPM_MAX_EVENTS) + 1
         /\ h # t => (h - Following(t)) % MPM_MAX_EVENTS
                         = ((h - t) % MPM_MAX_EVENTS) - 1
  <1> DEFINE N == MPM_MAX_EVENTS
  <1>1. N \in Nat /\ N > 1 /\ h \in Int /\ t \in Int /\ 0 <= h /\ h < N /\ 0 <= t /\ t < N
    BY MpmAssumption DEF Slots
  <1>2. Following(h) = IF h + 1 < N THEN h + 1 ELSE 0
    BY <1>1, Wrap DEF Following
  <1>3. Following(t) = IF t + 1 < N THEN t + 1 ELSE 0
    BY <1>1, Wrap DEF Following
  <1>4. \A a, b \in 0 .. (N - 1) : (a - b) % N = IF a < b THEN a - b + N ELSE a - b
    BY <1>1, Wrap
  <1>5. Following(h) \in 0 .. (N - 1) /\ Following(t) \in 0 .. (N - 1)
    BY <1>1, <1>2, <1>3
  <1>6. /\ (h - t) % N = IF h < t THEN h - t + N ELSE h - t
        /\ (Following(h) - t) % N = IF Following(h) < t THEN Following(h) - t + N ELSE Following(h) - t
        /\ (h - Following(t)) % N = IF h < Following(t) THEN h - Following(t) + N ELSE h - Following(t)
    BY <1>1, <1>4, <1>5
  <1> HIDE DEF N
  <1> QED
    BY <1>1, <1>2, <1>3, <1>5, <1>6 DEF Slots, N

(* A ring's content is a sequence of events.                               *)
LEMMA RingSeq ==
  ASSUME NEW f \in [Slots -> MpmEvents], NEW h \in Slots, NEW t \in Slots
  PROVE  /\ Ring(f, h, t) \in Seq(MpmEvents)
         /\ Len(Ring(f, h, t)) = (h - t) % MPM_MAX_EVENTS
         /\ \A i \in 1 .. ((h - t) % MPM_MAX_EVENTS) :
                Ring(f, h, t)[i] = f[(t + i) % MPM_MAX_EVENTS]
  <1> DEFINE n == (h - t) % MPM_MAX_EVENTS
  <1>1. n \in Nat
    <2>1. n \in 0 .. (MPM_MAX_EVENTS - 1)
      BY RingCount
    <2> HIDE DEF n
    <2> QED
      BY <2>1
  <1>2. \A i \in Int : i % MPM_MAX_EVENTS \in Slots
    BY MpmAssumption DEF Slots
  <1>3. \A i \in 1 .. n : (t + i) % MPM_MAX_EVENTS \in Slots
    <2> TAKE i \in 1 .. n
    <2>1. t + i \in Int
      BY DEF Slots
    <2> QED
      BY <1>2, <2>1
  <1>4. \A i \in 1 .. n : f[(t + i) % MPM_MAX_EVENTS] \in MpmEvents
    BY <1>3
  <1> HIDE DEF n
  <1>5. Ring(f, h, t) = [i \in 1 .. n |-> f[(t + i) % MPM_MAX_EVENTS]]
    BY DEF Ring, n
  <1> QED
    BY <1>1, <1>4, <1>5 DEF n

(* A new event goes behind the others.                                     *)
LEMMA RingPush ==
  ASSUME NEW f \in [Slots -> MpmEvents], NEW h \in Slots, NEW t \in Slots,
         NEW e \in MpmEvents, Following(h) # t
  PROVE  Ring([f EXCEPT ![Following(h)] = e], Following(h), t) = Append(Ring(f, h, t), e)
  <1> DEFINE n == (h - t) % MPM_MAX_EVENTS
  <1> DEFINE g == [f EXCEPT ![Following(h)] = e]
  <1> DEFINE old == Ring(f, h, t)
  <1> DEFINE new == Ring(g, Following(h), t)
  <1>1. Following(h) \in Slots /\ n \in Nat /\ (Following(h) - t) % MPM_MAX_EVENTS = n + 1
    BY RingCount, MpmAssumption
  <1>2. g \in [Slots -> MpmEvents] /\ g[Following(h)] = e
        /\ \A s \in Slots : s # Following(h) => g[s] = f[s]
    BY <1>1
  <1>3. old \in Seq(MpmEvents) /\ Len(old) = n
        /\ \A i \in 1 .. n : old[i] = f[(t + i) % MPM_MAX_EVENTS]
    BY RingSeq
  <1>4. new \in Seq(MpmEvents) /\ Len(new) = n + 1
        /\ \A i \in 1 .. (n + 1) : new[i] = g[(t + i) % MPM_MAX_EVENTS]
    <2>1. ASSUME NEW k \in [Slots -> MpmEvents], NEW s \in Slots, NEW m,
                 (s - t) % MPM_MAX_EVENTS = m
          PROVE  /\ Ring(k, s, t) \in Seq(MpmEvents) /\ Len(Ring(k, s, t)) = m
                 /\ \A i \in 1 .. m : Ring(k, s, t)[i] = k[(t + i) % MPM_MAX_EVENTS]
      <3>1. /\ Ring(k, s, t) \in Seq(MpmEvents)
            /\ Len(Ring(k, s, t)) = (s - t) % MPM_MAX_EVENTS
            /\ \A i \in 1 .. ((s - t) % MPM_MAX_EVENTS) :
                   Ring(k, s, t)[i] = k[(t + i) % MPM_MAX_EVENTS]
        BY RingSeq, Zenon
      <3> QED
        BY <2>1, <3>1, Zenon
    <2> HIDE DEF g, n
    <2> QED
      BY <1>1, <1>2, <2>1, Zenon
  <1>5. \A i \in 1 .. (n + 1) :
            /\ (t + i) % MPM_MAX_EVENTS \in Slots
            /\ (t + i) % MPM_MAX_EVENTS = Following(h) <=> i = n + 1
    <2> DEFINE N == MPM_MAX_EVENTS
    <2>1. N \in Nat /\ N > 1 /\ h \in Int /\ t \in Int /\ 0 <= h /\ h < N /\ 0 <= t /\ t < N
      BY MpmAssumption DEF Slots
    <2>2. Following(h) = IF h + 1 < N THEN h + 1 ELSE 0
      BY <2>1, Wrap DEF Following
    <2>3. n = IF h < t THEN h - t + N ELSE h - t
      BY <2>1, Wrap
    <2>4. n + 1 < N
      BY <2>1, <2>2, <2>3
    <2>5. \A i \in 1 .. (n + 1) : (t + i) % N = IF t + i < N THEN t + i ELSE t + i - N
      BY <1>1, <2>1, <2>4, Wrap
    <2> HIDE DEF n, N
    <2> QED
      BY <1>1, <2>1, <2>2, <2>3, <2>4, <2>5 DEF Slots, N
  <1> HIDE DEF n, g, old, new
  <1>6. /\ Append(old, e) \in Seq(MpmEvents) /\ Len(Append(old, e)) = n + 1
        /\ \A i \in 1 .. n : Append(old, e)[i] = old[i]
        /\ Append(old, e)[n + 1] = e
    BY <1>1, <1>3, AppendProperties
  <1>7. \A i \in 1 .. (n + 1) : new[i] = Append(old, e)[i]
    <2> TAKE i \in 1 .. (n + 1)
    <2>1. CASE i = n + 1
      BY <1>1, <1>2, <1>4, <1>5, <1>6, <2>1
    <2>2. CASE i # n + 1
      <3>1. i \in 1 .. n
        BY <1>1, <2>2
      <3> QED
        BY <1>2, <1>3, <1>4, <1>5, <1>6, <2>2, <3>1
    <2> QED
      BY <2>1, <2>2
  <1>8. new = Append(old, e)
    BY <1>4, <1>6, <1>7, SeqEqual
  <1> QED
    BY <1>8 DEF new, old, g

(* Without its first event, the ring begins one slot later.                *)
LEMMA RingPop ==
  ASSUME NEW f \in [Slots -> MpmEvents], NEW h \in Slots, NEW t \in Slots, h # t
  PROVE  /\ Ring(f, h, t) # <<>>
         /\ Ring(f, h, Following(t)) = Tail(Ring(f, h, t))
         /\ f[Following(t)] = Head(Ring(f, h, t))
  <1> DEFINE n == (h - t) % MPM_MAX_EVENTS
  <1> DEFINE old == Ring(f, h, t)
  <1> DEFINE new == Ring(f, h, Following(t))
  <1>1. /\ Following(t) \in Slots /\ n \in Nat /\ n > 0
        /\ (h - Following(t)) % MPM_MAX_EVENTS = n - 1
    BY RingCount, MpmAssumption
  <1>2. old \in Seq(MpmEvents) /\ Len(old) = n
        /\ \A i \in 1 .. n : old[i] = f[(t + i) % MPM_MAX_EVENTS]
    BY RingSeq
  <1>3. new \in Seq(MpmEvents) /\ Len(new) = n - 1
        /\ \A i \in 1 .. (n - 1) : new[i] = f[(Following(t) + i) % MPM_MAX_EVENTS]
    BY <1>1, RingSeq
  <1>4. \A i \in 1 .. (n - 1) :
            (Following(t) + i) % MPM_MAX_EVENTS = (t + (i + 1)) % MPM_MAX_EVENTS
    <2> DEFINE N == MPM_MAX_EVENTS
    <2>1. N \in Nat /\ N > 1 /\ h \in Int /\ t \in Int /\ 0 <= h /\ h < N /\ 0 <= t /\ t < N
      BY MpmAssumption DEF Slots
    <2>2. Following(t) = IF t + 1 < N THEN t + 1 ELSE 0
      BY <2>1, Wrap DEF Following
    <2>3. n < N
      BY <2>1, RingCount
    <2>4. \A i \in 1 .. (n - 1) : (t + (i + 1)) % N = IF t + i + 1 < N THEN t + i + 1 ELSE t + i + 1 - N
      BY <1>1, <2>1, <2>3, Wrap
    <2>5. \A i \in 1 .. (n - 1) : (Following(t) + i) % N
                 = IF Following(t) + i < N THEN Following(t) + i ELSE Following(t) + i - N
      BY <1>1, <2>1, <2>2, <2>3, Wrap
    <2> HIDE DEF n, N
    <2> QED
      BY <1>1, <2>1, <2>2, <2>3, <2>4, <2>5 DEF N
  <1> HIDE DEF n, old, new
  <1>5. old # <<>>
    BY <1>1, <1>2
  <1>6. /\ Tail(old) \in Seq(MpmEvents) /\ Len(Tail(old)) = n - 1
        /\ \A i \in 1 .. (n - 1) : Tail(old)[i] = old[i + 1]
    BY <1>2, <1>5, HeadTailProperties
  <1>7. \A i \in 1 .. (n - 1) : new[i] = Tail(old)[i]
    <2> TAKE i \in 1 .. (n - 1)
    <2>1. i + 1 \in 1 .. n
      BY <1>1
    <2> QED
      BY <1>2, <1>3, <1>4, <1>6, <2>1
  <1>8. new = Tail(old)
    BY <1>3, <1>6, <1>7, SeqEqual
  <1>9. Head(old) = old[1] /\ 1 \in 1 .. n
    BY <1>1, <1>2, <1>5
  <1>10. (t + 1) % MPM_MAX_EVENTS = Following(t)
    BY DEF Following
  <1> QED
    BY <1>2, <1>5, <1>8, <1>9, <1>10 DEF new, old
-----------------------------------------------------------------------------
(* The reader's look at the queue stays true until its fetch: an overflow  *)
(* in between drops an event, never the last one.                          *)
LookHolds == reader = "fetches" => event_head # event_tail

QInv == TypeOK /\ LookHolds

LEMMA QInvariance == Spec => []QInv
  <1>1. Init => LookHolds
    BY DEF Init, LookHolds
  <1>2. TypeOK /\ LookHolds /\ [Next]_vars => LookHolds'
    <2> SUFFICES ASSUME TypeOK, LookHolds, [Next]_vars PROVE LookHolds'
      OBVIOUS
    <2>1. ASSUME NEW e \in MpmEvents, mpm_event_notify(e) PROVE LookHolds'
      <3>1. event_head \in Slots /\ event_tail \in Slots
        BY DEF TypeOK
      <3>2. Following(event_tail) # event_tail
        BY <3>1, RingCount
      <3> QED
        BY <2>1, <3>2 DEF mpm_event_notify, LookHolds, fetch
    <2>2. CASE mpm_queue_empty
      BY <2>2 DEF mpm_queue_empty, LookHolds, dq
    <2>3. CASE mpm_get_queued_event
      BY <2>3 DEF mpm_get_queued_event, LookHolds
    <2>4. ASSUME NEW d \in Drivers,
                 mpm_register_with_mpm(d) \/ mpm_unregister_with_mpm(d)
                     \/ \E a \in Advice : mpm_driver_advise(d, a)
          PROVE  LookHolds'
      BY <2>4 DEF mpm_register_with_mpm, mpm_unregister_with_mpm, mpm_driver_advise,
                  LookHolds, dq, fetch
    <2>5. CASE UNCHANGED vars
      BY <2>5 DEF vars, dq, fetch, LookHolds
    <2> QED
      BY <2>1, <2>2, <2>3, <2>4, <2>5 DEF Next
  <1> QED
    BY <1>1, <1>2, TypeCorrect, PTL DEF Spec, QInv

(* The queue the ring stands for.                                          *)
LEMMA QueuedIsRing == Queued = Ring(events, event_head, event_tail)
  BY DEF Queued, Ring

(* Every step of the ring is a step of the queue, or leaves it alone.      *)
LEMMA NextQueue == QInv /\ QInv' /\ [Next]_vars => [Q!Next]_<<Queued, evt>>
  <1> SUFFICES ASSUME QInv, QInv', [Next]_vars PROVE Q!Next \/ UNCHANGED <<Queued, evt>>
    OBVIOUS
  <1>0. /\ events \in [Slots -> MpmEvents] /\ event_head \in Slots /\ event_tail \in Slots
        /\ Following(event_tail) \in Slots
    BY FollowingType DEF QInv, TypeOK
  <1>1. ASSUME NEW e \in MpmEvents, mpm_event_notify(e) PROVE Q!Notify(e)
    <2> DEFINE h == Following(event_head)
               g == [events EXCEPT ![h] = e]
    <2>1. events' = g /\ event_head' = h /\ evt' = evt
          /\ event_tail' = IF h = event_tail THEN Following(event_tail) ELSE event_tail
      BY <1>1 DEF mpm_event_notify, fetch
    <2>2. Queued' = Ring(g, h, event_tail')
      BY <2>1 DEF Queued, Ring
    <2>3. Len(Queued) = MPM_MAX_EVENTS - 1 <=> h = event_tail
      <3>1. Len(Queued) = (event_head - event_tail) % MPM_MAX_EVENTS
        BY <1>0, RingSeq, QueuedIsRing
      <3>2. (event_head - event_tail) % MPM_MAX_EVENTS = MPM_MAX_EVENTS - 1 <=> h = event_tail
        BY <1>0, RingCount
      <3> QED
        BY <3>1, <3>2
    <2>4. CASE h = event_tail
      <3>1. event_head # event_tail /\ h # Following(event_tail)
        BY <1>0, <2>4, RingCount
      <3>2. Ring(events, event_head, Following(event_tail)) = Tail(Queued)
        BY <1>0, <3>1, RingPop, QueuedIsRing
      <3>3. Ring(g, h, Following(event_tail))
                = Append(Ring(events, event_head, Following(event_tail)), e)
        BY <1>0, <3>1, RingPush
      <3> QED
        BY <2>1, <2>2, <2>3, <2>4, <3>2, <3>3 DEF Q!Notify
    <2>5. CASE h # event_tail
      <3>1. Ring(g, h, event_tail) = Append(Queued, e)
        BY <1>0, <2>5, RingPush, QueuedIsRing
      <3> QED
        BY <2>1, <2>2, <2>3, <2>5, <3>1 DEF Q!Notify
    <2> QED
      BY <2>4, <2>5
  <1>2. CASE mpm_queue_empty
    BY <1>2 DEF mpm_queue_empty, dq, Queued
  <1>3. CASE mpm_get_queued_event
    <2>1. event_head # event_tail
      BY <1>3 DEF QInv, LookHolds, mpm_get_queued_event
    <2>2. /\ Queued # <<>>
          /\ Ring(events, event_head, Following(event_tail)) = Tail(Queued)
          /\ events[Following(event_tail)] = Head(Queued)
      BY <1>0, <2>1, RingPop, QueuedIsRing
    <2>3. /\ Queued' = Ring(events, event_head, Following(event_tail))
          /\ evt' = events[Following(event_tail)]
      BY <1>3 DEF mpm_get_queued_event, Queued, Ring
    <2> QED
      BY <2>2, <2>3 DEF Q!Get, Q!Next
  <1>4. ASSUME NEW d \in Drivers,
               mpm_register_with_mpm(d) \/ mpm_unregister_with_mpm(d)
                   \/ \E a \in Advice : mpm_driver_advise(d, a)
        PROVE  UNCHANGED <<Queued, evt>>
    BY <1>4 DEF mpm_register_with_mpm, mpm_unregister_with_mpm, mpm_driver_advise,
                dq, fetch, Queued
  <1>5. CASE UNCHANGED vars
    BY <1>5 DEF vars, dq, fetch, Queued
  <1> QED
    BY <1>1, <1>2, <1>3, <1>4, <1>5 DEF Next, Q!Next

(* The ring begins as the empty queue.                                     *)
LEMMA InitQueue == Init => Q!Init
  <1> SUFFICES ASSUME Init PROVE Q!Init
    OBVIOUS
  <1>1. event_head = 0 /\ event_tail = 0 /\ evt \in MpmEvents
    BY DEF Init
  <1>2. (event_head - event_tail) % MPM_MAX_EVENTS = 0
    BY <1>1, MpmAssumption
  <1>3. Queued = <<>>
    BY <1>2 DEF Queued
  <1> QED
    BY <1>1, <1>3 DEF Q!Init

(* The events of a ring of any size are read in order, each once, and the  *)
(* newest are kept when nobody reads, overflows between the reader's look  *)
(* and its fetch included: Mpm implements MpmQueue.                        *)
THEOREM Implements == Spec => ImplementsQueue
  BY InitQueue, NextQueue, QInvariance, PTL DEF Spec, ImplementsQueue, Q!Spec
=============================================================================
