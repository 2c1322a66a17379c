--------------------------- MODULE DevicePmProofs ---------------------------
(***************************************************************************)
(* Theorems about DevicePm, for every device tree, every set of late       *)
(* devices and every number of attempts and changes.                       *)
(***************************************************************************)
EXTENDS DevicePm, SequenceTheorems, FiniteSetTheorems, TLAPS

(* The devices on each list.                                               *)
Active == ToSet(dpm_active)
Off == ToSet(dpm_off)
OffIrq == ToSet(dpm_off_irq)

(* The lists share no device and hold the registered ones; the device      *)
(* whose driver was called is still on dpm_active if it was not removed,   *)
(* and is not mistaken for one registered again since.                     *)
Partition ==
    /\ Active \cup Off \cup OffIrq = registered
    /\ Active \cap Off = {} /\ Active \cap OffIrq = {} /\ Off \cap OffIrq = {}
    /\ pc = "move" /\ cur \in registered => cur \in Active
    /\ cur \in registered \cup {NoDevice}

(* The index into dpm_off_irq is in use in device_power_down only.         *)
WalkIsLocal == pc # "down" => walk = 0

-----------------------------------------------------------------------------
(* Where the devices may be at which point of an attempt.                  *)
Stages ==
    /\ pc \in {"ready", "down", "asleep"} => Active \subseteq meddled /\ error = "none"
    /\ pc = "up" => Active \subseteq Late \cup meddled
    /\ pc = "idle" => dpm_off = <<>>

(* Late devices have no low-power state of their own and wait on           *)
(* dpm_off_irq, all others on dpm_off.                                     *)
LateApart ==
    /\ \A d \in Late : power_state[d] = 0
    /\ OffIrq \subseteq Late /\ Off \cap Late = {}
    /\ pc = "move" /\ cur \in registered => /\ error = "EAGAIN" => cur \in Late
                                            /\ error = "none" => cur \notin Late

(* The device whose driver has just suspended it.                          *)
Moving(d) == pc = "move" /\ d = cur /\ error = "none"

(* Suspended, with what resume_device needs to know.                       *)
Asleep(d) == ~hw[d] /\ prev_state[d] = power_state[d]

(* Powered as recorded.                                                    *)
AsRecorded(d) == hw[d] <=> power_state[d] = 0

(* Powered unless it is recorded otherwise, now or after a resume.         *)
Usable(d) == hw[d] \/ power_state[d] # 0
Revivable(d) == hw[d] \/ prev_state[d] = 0 \/ power_state[d] # 0

(* Which devices have power at which point of an attempt: exactly, for     *)
(* those that others left alone, ...                                       *)
PoweredAlone ==
    /\ \A d \in Active \ meddled : IF Moving(d) THEN Asleep(d) ELSE AsRecorded(d)
    /\ \A d \in Off \ meddled : Asleep(d)

(* ... for the late ones ...                                               *)
PoweredLate ==
    /\ pc \notin {"down", "asleep", "up"} => \A d \in OffIrq : hw[d]
    /\ pc \in {"down", "asleep"} =>
           \A i \in 1 .. Len(dpm_off_irq) : i > walk => ~hw[dpm_off_irq[i]]

(* ... and what can be said of every device.                               *)
PoweredAll ==
    /\ \A d \in Active : IF Moving(d) THEN Revivable(d) ELSE Usable(d)
    /\ \A d \in Off : Revivable(d)

Powered == PoweredAlone /\ PoweredLate /\ PoweredAll

PowerInv == Stages /\ LateApart /\ Powered

-----------------------------------------------------------------------------
(* The parent of a device that the walks keep behind it.                   *)
Up == [d \in Devices |-> IF Astray(d) THEN NoDevice ELSE Parent[d]]

(* No device comes before its parent, as P gives it, on a list.            *)
ParentsFirst(P, l) == \A i, j \in 1 .. Len(l) : P[l[j]] = l[i] => i < j

(* The parents of registered devices are registered; on each list, parents *)
(* come first.                                                             *)
InOrder ==
    /\ \A d \in registered : Parent[d] \in registered \cup {NoDevice}
    /\ ParentsFirst(Up, dpm_active)
    /\ ParentsFirst(Up, dpm_off)
    /\ ParentsFirst(Up, dpm_off_irq)

(* A device on dpm_active has no parent on dpm_off and, if it is late or   *)
(* was registered after the walk, none on dpm_off_irq; nor is the device   *)
(* that is about to move there its parent.                                 *)
Ahead ==
    /\ \A d \in Active : Up[d] \notin Off
    /\ \A d \in Active \cap Late : Up[d] \notin OffIrq
    /\ pc \in {"ready", "down", "asleep", "up"} => \A d \in Active : Up[d] \notin OffIrq
    /\ pc = "move" /\ cur \in registered =>
           /\ error = "none" => \A d \in Active : Up[d] # cur
           /\ error = "EAGAIN" => \A d \in Active \cap Late : Up[d] # cur

Ordered == InOrder /\ Ahead

(* Lists.  A list of devices without repetition, as all three are.         *)
Once(l) == l \in Seq(Devices) /\ IsInjective(l)

(* Both notions in terms of positions.                                     *)
LEMMA Positions ==
    ASSUME NEW l \in Seq(Devices)
    PROVE  /\ Len(l) \in Nat
           /\ DOMAIN l = 1 .. Len(l)
           /\ \A i \in 1 .. Len(l) : l[i] \in Devices /\ l[i] \in ToSet(l)
           /\ \A d \in ToSet(l) : \E i \in 1 .. Len(l) : l[i] = d
           /\ IsInjective(l) <=> \A i, j \in 1 .. Len(l) : l[i] = l[j] => i = j
  <1>1. Len(l) \in Nat /\ DOMAIN l = 1 .. Len(l) /\ l \in [1 .. Len(l) -> Devices]
    BY LenProperties
  <1> QED
    BY <1>1 DEF ToSet, IsInjective

(* A list without entries.                                                 *)
LEMMA EmptyList ==
    /\ Once(<<>>) /\ ToSet(<<>>) = {} /\ Len(<<>>) = 0
    /\ \A P : ParentsFirst(P, <<>>)
    /\ \A l \in Seq(Devices) : ToSet(l) = {} => l = <<>>
  <1>1. <<>> \in Seq(Devices) /\ Len(<<>>) = 0
    BY EmptySeq, Zenon
  <1>2. ASSUME NEW l \in Seq(Devices), ToSet(l) = {} PROVE l = <<>>
    <2>1. Len(l) = 0
      BY <1>2, Positions
    <2> QED
      BY <1>1, <2>1, EmptySeq
  <1>3. \A i \in 1 .. Len(<<>>) : FALSE
    BY <1>1
  <1>4. IsInjective(<<>>) /\ ToSet(<<>>) = {}
    <2> DEFINE e == <<>>
    <2>1. e \in Seq(Devices) /\ \A i \in 1 .. Len(e) : FALSE
      BY <1>1, <1>3, Zenon
    <2> HIDE DEF e
    <2>2. IsInjective(e) /\ ToSet(e) = {}
      BY <2>1, Positions, Zenon
    <2> QED
      BY <2>2, Zenon DEF e
  <1>5. \A P : ParentsFirst(P, <<>>)
    BY <1>3, Zenon DEF ParentsFirst
  <1> QED
    BY <1>1, <1>2, <1>4, <1>5, Zenon DEF Once

(* list_add_tail of a device that is not on the list.                      *)
LEMMA AppendList ==
    ASSUME NEW l, Once(l), NEW d \in Devices, d \notin ToSet(l)
    PROVE  /\ Once(Append(l, d))
           /\ ToSet(Append(l, d)) = ToSet(l) \cup {d}
           /\ \A P : ParentsFirst(P, l) /\ P[d] # d /\ (\A c \in ToSet(l) : P[c] # d)
                  => ParentsFirst(P, Append(l, d))
  <1> DEFINE m == Append(l, d)
  <1>1. l \in Seq(Devices) /\ IsInjective(l)
    BY DEF Once
  <1>2. /\ m \in Seq(Devices) /\ Len(m) = Len(l) + 1
        /\ \A i \in 1 .. Len(l) : m[i] = l[i]
        /\ m[Len(l) + 1] = d
    BY <1>1, AppendProperties
  <1> HIDE DEF m
  <1>3. PICK n \in Nat : n = Len(l)
    BY <1>1, Positions
  <1>4. \A i \in 1 .. n : l[i] \in Devices /\ l[i] # d /\ l[i] \in ToSet(l)
    BY <1>1, <1>3, Positions
  <1>5. IsInjective(m)
    <2>1. \A i, j \in 1 .. n : l[i] = l[j] => i = j
      BY <1>1, <1>3, Positions
    <2>2. \A i, j \in 1 .. (n + 1) : m[i] = m[j] => i = j
      BY <1>2, <1>3, <1>4, <2>1
    <2> QED
      BY <1>2, <1>3, <2>2, Positions
  <1>6. ToSet(m) = ToSet(l) \cup {d}
    <2>1. ASSUME NEW x \in ToSet(m) PROVE x \in ToSet(l) \cup {d}
      <3>1. PICK i \in 1 .. (n + 1) : m[i] = x
        BY <1>2, <1>3, Positions
      <3> QED
        BY <1>2, <1>3, <1>4, <3>1
    <2>2. ASSUME NEW x \in ToSet(l) PROVE x \in ToSet(m)
      <3>1. PICK i \in 1 .. n : l[i] = x
        BY <1>1, <1>3, Positions
      <3>2. i \in 1 .. Len(m) /\ m[i] = x
        BY <1>2, <1>3, <3>1
      <3> QED
        BY <1>2, <3>2, Positions
    <2>3. d \in ToSet(m)
      <3>1. n + 1 \in 1 .. Len(m) /\ m[n + 1] = d
        BY <1>2, <1>3
      <3> QED
        BY <1>2, <3>1, Positions
    <2> QED
      BY <2>1, <2>2, <2>3, Zenon
  <1>7. ASSUME NEW P, ParentsFirst(P, l), P[d] # d, \A c \in ToSet(l) : P[c] # d
        PROVE  ParentsFirst(P, m)
    <2>1. \A i, j \in 1 .. n : P[l[j]] = l[i] => i < j
      BY <1>3, <1>7 DEF ParentsFirst
    <2>2. \A j \in 1 .. n : P[l[j]] # d
      BY <1>4, <1>7
    <2>3. \A i, j \in 1 .. (n + 1) : P[m[j]] = m[i] => i < j
      <3> SUFFICES ASSUME NEW i \in 1 .. (n + 1), NEW j \in 1 .. (n + 1),
                          P[m[j]] = m[i]
                   PROVE  i < j
        OBVIOUS
      <3>1. CASE j = n + 1
        <4>1. i # n + 1
          BY <1>2, <1>3, <1>7, <3>1
        <4> QED
          BY <3>1, <4>1
      <3>2. CASE j \in 1 .. n /\ i = n + 1
        BY <1>2, <1>3, <2>2, <3>2
      <3>3. CASE j \in 1 .. n /\ i \in 1 .. n
        <4>1. m[i] = l[i] /\ m[j] = l[j]
          BY <1>2, <1>3, <3>3
        <4> QED
          BY <2>1, <3>3, <4>1
      <3> QED
        BY <3>1, <3>2, <3>3
    <2> QED
      BY <1>2, <1>3, <2>3 DEF ParentsFirst
  <1> QED
    BY <1>2, <1>5, <1>6, <1>7, Zenon DEF m, Once

(* list_add of a device that is not on the list.                           *)
LEMMA PushList ==
    ASSUME NEW l, Once(l), NEW d \in Devices, d \notin ToSet(l)
    PROVE  /\ Once(<<d>> \o l)
           /\ ToSet(<<d>> \o l) = ToSet(l) \cup {d}
           /\ \A P : ParentsFirst(P, l) /\ P[d] # d /\ P[d] \notin ToSet(l)
                  => ParentsFirst(P, <<d>> \o l)
  <1> DEFINE m == <<d>> \o l
  <1>1. l \in Seq(Devices) /\ IsInjective(l)
    BY DEF Once
  <1>2. PICK n \in Nat : n = Len(l)
    BY <1>1, Positions
  <1>3. /\ m \in Seq(Devices) /\ Len(m) = n + 1
        /\ m[1] = d /\ \A i \in 1 .. n : m[i + 1] = l[i]
    <2>1. <<d>> \in Seq(Devices) /\ Len(<<d>>) = 1 /\ <<d>>[1] = d
      OBVIOUS
    <2>2. /\ m \in Seq(Devices) /\ Len(m) = 1 + n
          /\ \A i \in 1 .. 1 + n : m[i] = IF i <= 1 THEN <<d>>[i] ELSE l[i - 1]
      <3>1. /\ m \in Seq(Devices) /\ Len(m) = Len(<<d>>) + Len(l)
            /\ \A i \in 1 .. Len(<<d>>) + Len(l) :
                   m[i] = IF i <= Len(<<d>>) THEN <<d>>[i] ELSE l[i - Len(<<d>>)]
        BY <1>1, <2>1, ConcatProperties, Zenon
      <3> QED
        BY <1>2, <2>1, <3>1, Zenon
    <2> HIDE DEF m
    <2>3. \A i \in 1 .. n : m[i + 1] = l[i]
      <3> SUFFICES ASSUME NEW i \in 1 .. n PROVE m[i + 1] = l[i]
        OBVIOUS
      <3>1. i + 1 \in 1 .. 1 + n /\ ~(i + 1 <= 1) /\ (i + 1) - 1 = i
        OBVIOUS
      <3>2. m[i + 1] = l[(i + 1) - 1]
        BY <2>2, <3>1, Zenon
      <3> QED
        BY <3>1, <3>2, Zenon
    <2>4. m[1] = d
      <3>1. 1 \in 1 .. 1 + n /\ 1 <= 1
        OBVIOUS
      <3> QED
        BY <2>1, <2>2, <3>1, Zenon
    <2> QED
      BY <2>2, <2>3, <2>4
  <1> HIDE DEF m
  <1>4. \A i \in 1 .. n : l[i] \in Devices /\ l[i] # d /\ l[i] \in ToSet(l)
    BY <1>1, <1>2, Positions
  <1>5. \A i \in 1 .. (n + 1) : i = 1 \/ \E k \in 1 .. n : i = k + 1
    <2> SUFFICES ASSUME NEW i \in 1 .. (n + 1), i # 1 PROVE \E k \in 1 .. n : i = k + 1
      OBVIOUS
    <2>1. i - 1 \in 1 .. n /\ i = (i - 1) + 1
      OBVIOUS
    <2> QED
      BY <2>1, Zenon
  <1>6. IsInjective(m)
    <2>1. \A i, j \in 1 .. n : l[i] = l[j] => i = j
      BY <1>1, <1>2, Positions
    <2>2. \A i, j \in 1 .. (n + 1) : m[i] = m[j] => i = j
      <3> SUFFICES ASSUME NEW i \in 1 .. (n + 1), NEW j \in 1 .. (n + 1), m[i] = m[j]
                   PROVE  i = j
        OBVIOUS
      <3>1. CASE i = 1 \/ j = 1
        BY <1>3, <1>4, <1>5, <3>1, Zenon
      <3>2. ASSUME NEW h \in 1 .. n, NEW k \in 1 .. n, i = h + 1, j = k + 1 PROVE i = j
        <4>1. l[h] = l[k]
          BY <1>3, <3>2, Zenon
        <4> QED
          BY <2>1, <3>2, <4>1, Zenon
      <3> QED
        BY <1>5, <3>1, <3>2, Zenon
    <2> QED
      BY <1>3, <2>2, Positions
  <1>7. ToSet(m) = ToSet(l) \cup {d}
    <2>1. ASSUME NEW x \in ToSet(m) PROVE x \in ToSet(l) \cup {d}
      <3>1. PICK i \in 1 .. (n + 1) : m[i] = x
        BY <1>3, Positions
      <3> QED
        BY <1>3, <1>4, <1>5, <3>1, Zenon
    <2>2. ASSUME NEW x \in ToSet(l) PROVE x \in ToSet(m)
      <3>1. PICK i \in 1 .. n : l[i] = x
        BY <1>1, <1>2, Positions
      <3>2. i + 1 \in 1 .. Len(m) /\ m[i + 1] = x
        BY <1>3, <3>1
      <3> QED
        BY <1>3, <3>2, Positions
    <2>3. d \in ToSet(m)
      <3>1. 1 \in 1 .. Len(m)
        BY <1>3
      <3> QED
        BY <1>3, <3>1, Positions
    <2> QED
      BY <2>1, <2>2, <2>3, Zenon
  <1>8. ASSUME NEW P, ParentsFirst(P, l), P[d] # d, P[d] \notin ToSet(l)
        PROVE  ParentsFirst(P, m)
    <2>1. \A i, j \in 1 .. n : P[l[j]] = l[i] => i < j
      BY <1>2, <1>8 DEF ParentsFirst
    <2>2. \A i, j \in 1 .. (n + 1) : P[m[j]] = m[i] => i < j
      <3> SUFFICES ASSUME NEW i \in 1 .. (n + 1), NEW j \in 1 .. (n + 1),
                          P[m[j]] = m[i]
                   PROVE  i < j
        OBVIOUS
      <3>1. CASE j = 1
        <4>1. CASE i = 1
          BY <1>3, <1>8, <3>1, <4>1
        <4>2. ASSUME NEW k \in 1 .. n, i = k + 1 PROVE FALSE
          <5>1. m[i] = l[k] /\ l[k] \in ToSet(l) /\ m[j] = d
            BY <1>3, <1>4, <3>1, <4>2
          <5> QED
            BY <1>8, <5>1
        <4> QED
          BY <1>5, <4>1, <4>2, Zenon
      <3>2. ASSUME NEW k \in 1 .. n, j = k + 1 PROVE i < j
        <4>1. CASE i = 1
          BY <3>2, <4>1
        <4>2. ASSUME NEW h \in 1 .. n, i = h + 1 PROVE i < j
          <5>1. m[i] = l[h] /\ m[j] = l[k]
            BY <1>3, <3>2, <4>2
          <5>2. h < k
            BY <2>1, <5>1
          <5> QED
            BY <3>2, <4>2, <5>2
        <4> QED
          BY <1>5, <4>1, <4>2, Zenon
      <3> QED
        BY <1>5, <3>1, <3>2, Zenon
    <2> QED
      BY <1>3, <2>2 DEF ParentsFirst
  <1> QED
    BY <1>3, <1>6, <1>7, <1>8, Zenon DEF m, Once

(* list_del of the first device.                                           *)
LEMMA TailList ==
    ASSUME NEW l, Once(l), l # <<>>
    PROVE  /\ Once(Tail(l)) /\ Head(l) \in Devices /\ Head(l) \in ToSet(l)
           /\ Head(l) \notin ToSet(Tail(l))
           /\ ToSet(l) = ToSet(Tail(l)) \cup {Head(l)}
           /\ \A P : ParentsFirst(P, l) => /\ ParentsFirst(P, Tail(l))
                                       /\ P[Head(l)] \notin ToSet(l)
  <1> DEFINE m == Tail(l)
             d == Head(l)
  <1>1. l \in Seq(Devices) /\ IsInjective(l)
    BY DEF Once
  <1>2. PICK n \in Nat : n + 1 = Len(l)
    <2>1. Len(l) \in Nat \ {0}
      BY <1>1, EmptySeq
    <2>2. Len(l) - 1 \in Nat /\ (Len(l) - 1) + 1 = Len(l)
      BY <2>1
    <2> QED
      BY <2>2, Zenon
  <1>3. /\ m \in Seq(Devices) /\ Len(m) = n /\ d \in Devices
        /\ \A i \in 1 .. n : m[i] = l[i + 1]
    <2>1. /\ d \in Devices /\ m \in Seq(Devices) /\ Len(m) = Len(l) - 1
          /\ \A i \in 1 .. Len(m) : m[i] = l[i + 1]
      BY <1>1, HeadTailProperties, Zenon
    <2> HIDE DEF m
    <2>2. Len(m) = n
      BY <1>2, <2>1
    <2> QED
      BY <2>1, <2>2, Zenon
  <1>4. d = l[1]
    BY <1>1
  <1> HIDE DEF m, d
  <1>5. \A i \in 1 .. n : i + 1 \in 1 .. Len(l) /\ i + 1 # 1
    BY <1>2
  <1>6. \A i, j \in 1 .. Len(l) : l[i] = l[j] => i = j
    BY <1>1, Positions
  <1>7. 1 \in 1 .. Len(l)
    BY <1>2
  <1>8. IsInjective(m)
    <2>1. \A i, j \in 1 .. n : i + 1 = j + 1 => i = j
      OBVIOUS
    <2>2. \A i, j \in 1 .. n : m[i] = m[j] => i = j
      <3> SUFFICES ASSUME NEW i \in 1 .. n, NEW j \in 1 .. n, m[i] = m[j] PROVE i = j
        OBVIOUS
      <3>1. l[i + 1] = l[j + 1]
        BY <1>3, Zenon
      <3>2. i + 1 = j + 1
        BY <1>5, <1>6, <3>1, Zenon
      <3> QED
        BY <2>1, <3>2, Zenon
    <2> QED
      BY <1>3, <2>2, Positions
  <1>9. d \notin ToSet(m)
    <2> SUFFICES ASSUME NEW i \in 1 .. n, m[i] = d PROVE FALSE
      BY <1>3, Positions
    <2> QED
      BY <1>3, <1>4, <1>5, <1>6, <1>7, Zenon
  <1>10. ToSet(l) = ToSet(m) \cup {d}
    <2>1. ASSUME NEW x \in ToSet(l) PROVE x \in ToSet(m) \cup {d}
      <3>1. PICK i \in 1 .. (n + 1) : l[i] = x
        BY <1>1, <1>2, Positions
      <3>2. CASE i = 1
        BY <1>4, <3>1, <3>2
      <3>3. CASE i # 1
        <4>1. i - 1 \in 1 .. n /\ (i - 1) + 1 = i
          BY <3>3
        <4>2. i - 1 \in 1 .. Len(m) /\ m[i - 1] = x
          BY <1>3, <3>1, <4>1
        <4> QED
          BY <1>3, <4>2, Positions
      <3> QED
        BY <3>2, <3>3
    <2>2. ASSUME NEW x \in ToSet(m) PROVE x \in ToSet(l)
      <3>1. PICK i \in 1 .. n : m[i] = x
        BY <1>3, Positions
      <3>2. i + 1 \in 1 .. Len(l) /\ l[i + 1] = x
        BY <1>3, <1>5, <3>1
      <3> QED
        BY <1>1, <3>2, Positions
    <2>3. d \in ToSet(l)
      BY <1>1, <1>4, <1>7, Positions
    <2> QED
      BY <2>1, <2>2, <2>3, Zenon
  <1>11. ASSUME NEW P, ParentsFirst(P, l) PROVE ParentsFirst(P, m) /\ P[d] \notin ToSet(l)
    <2>1. \A i, j \in 1 .. Len(l) : P[l[j]] = l[i] => i < j
      BY <1>11 DEF ParentsFirst
    <2>2. \A i, j \in 1 .. n : P[m[j]] = m[i] => i < j
      <3> SUFFICES ASSUME NEW i \in 1 .. n, NEW j \in 1 .. n, P[m[j]] = m[i]
                   PROVE  i < j
        OBVIOUS
      <3>1. i + 1 < j + 1
        BY <1>3, <1>5, <2>1, Zenon
      <3> QED
        BY <3>1
    <2>3. ASSUME NEW i \in 1 .. Len(l), P[d] = l[i] PROVE FALSE
      <3>1. i < 1
        BY <1>4, <1>7, <2>1, <2>3, Zenon
      <3> QED
        BY <3>1
    <2>4. ParentsFirst(P, m)
      BY <1>3, <2>2, Zenon DEF ParentsFirst
    <2> QED
      BY <1>1, <2>3, <2>4, Positions, Zenon
  <1> QED
    BY <1>3, <1>8, <1>9, <1>10, <1>11, Zenon DEF m, d, Once

(* The last device of a list.                                              *)
LEMMA LastOfList ==
    ASSUME NEW l, Once(l), l # <<>>
    PROVE  /\ Last(l) \in ToSet(l) /\ Last(l) \in Devices
           /\ \A P : ParentsFirst(P, l) => \A d \in ToSet(l) : P[d] # Last(l)
  <1>1. l \in Seq(Devices)
    BY DEF Once
  <1>2. Len(l) \in Nat \ {0}
    BY <1>1, EmptySeq
  <1>3. Len(l) \in 1 .. Len(l) /\ Last(l) = l[Len(l)]
    BY <1>2 DEF Last
  <1>4. ASSUME NEW P, ParentsFirst(P, l), NEW d \in ToSet(l), P[d] = Last(l) PROVE FALSE
    <2>1. PICK j \in 1 .. Len(l) : l[j] = d
      BY <1>1, Positions
    <2>2. Len(l) < j
      BY <1>3, <1>4, <2>1, Zenon DEF ParentsFirst
    <2> QED
      BY <1>2, <2>2
  <1> QED
    BY <1>1, <1>3, <1>4, Positions

(* list_del of a device, wherever on the list it is.                       *)
LEMMA WithoutList ==
    ASSUME NEW l, Once(l), NEW d
    PROVE  /\ Once(Without(l, d))
           /\ ToSet(Without(l, d)) = ToSet(l) \ {d}
           /\ \A P : ParentsFirst(P, l) => ParentsFirst(P, Without(l, d))
  <1>1. l \in Seq(Devices) /\ IsInjective(l)
    BY DEF Once
  <1>2. CASE d \notin ToSet(l)
    <2>1. Without(l, d) = l
      BY <1>2 DEF Without
    <2> QED
      BY <1>2, <2>1
  <1>3. CASE d \in ToSet(l)
    <2>1. PICK k \in 1 .. Len(l) : Without(l, d) = RemoveAt(l, k) /\ l[k] = d
      <3>1. \E k \in 1 .. Len(l) : l[k] = d
        BY <1>1, <1>3, Positions
      <3> DEFINE c == CHOOSE k \in 1 .. Len(l) : l[k] = d
      <3>2. c \in 1 .. Len(l) /\ l[c] = d
        BY <3>1
      <3>3. Without(l, d) = RemoveAt(l, c)
        BY <1>3 DEF Without
      <3> HIDE DEF c
      <3> QED
        BY <3>2, <3>3, Zenon
    <2>2. PICK n \in Nat : n + 1 = Len(l)
      <3>1. Len(l) \in Nat /\ Len(l) - 1 \in Nat /\ (Len(l) - 1) + 1 = Len(l)
        BY <1>1, Positions
      <3> QED
        BY <3>1, Zenon
    <2> DEFINE m == Without(l, d)
               f(i) == IF i < k THEN i ELSE i + 1
    <2>3. m \in Seq(Devices) /\ Len(m) = n /\ \A i \in 1 .. n : m[i] = l[f(i)]
      <3> DEFINE a == SubSeq(l, 1, k - 1)
                 b == SubSeq(l, k + 1, Len(l))
      <3>1. m = a \o b
        BY <2>1 DEF RemoveAt
      <3>2. /\ a \in Seq(Devices) /\ Len(a) = k - 1
            /\ \A i \in 1 .. (k - 1) : a[i] = l[i]
        <4>1. 1 \in Int /\ k - 1 \in Int /\ \A i \in 1 .. (k - 1) : l[i] \in Devices
          BY <1>1, <2>2
        <4>2. /\ a \in Seq(Devices)
              /\ Len(a) = IF 1 <= k - 1 THEN (k - 1) - 1 + 1 ELSE 0
              /\ \A i \in 1 .. ((k - 1) - 1 + 1) : a[i] = l[1 + i - 1]
          BY <4>1, SubSeqProperties
        <4> HIDE DEF a
        <4> QED
          BY <4>2
      <3>3. /\ b \in Seq(Devices) /\ Len(b) = n + 1 - k
            /\ \A i \in 1 .. (n + 1 - k) : b[i] = l[k + i]
        <4>1. k + 1 \in Int /\ n + 1 \in Int /\ \A i \in k + 1 .. n + 1 : l[i] \in Devices
          BY <1>1, <2>2
        <4>2. /\ b \in Seq(Devices)
              /\ Len(b) = IF k + 1 <= n + 1 THEN (n + 1) - (k + 1) + 1 ELSE 0
              /\ \A i \in 1 .. ((n + 1) - (k + 1) + 1) : b[i] = l[(k + 1) + i - 1]
          BY <2>2, <4>1, SubSeqProperties
        <4>3. k \in 1 .. n + 1
          BY <2>2
        <4> HIDE DEF b
        <4> QED
          BY <4>2, <4>3
      <3> HIDE DEF a, b
      <3>4. /\ m \in Seq(Devices) /\ Len(m) = Len(a) + Len(b)
            /\ \A i \in 1 .. Len(a) + Len(b) :
                   m[i] = IF i <= Len(a) THEN a[i] ELSE b[i - Len(a)]
        <4>1. /\ a \o b \in Seq(Devices) /\ Len(a \o b) = Len(a) + Len(b)
              /\ \A i \in 1 .. Len(a) + Len(b) :
                     (a \o b)[i] = IF i <= Len(a) THEN a[i] ELSE b[i - Len(a)]
          BY <3>2, <3>3, ConcatProperties, Zenon
        <4> QED
          BY <3>1, <4>1, Zenon
      <3> HIDE DEF m
      <3>5. Len(m) = n /\ k \in 1 .. n + 1 /\ Len(a) + Len(b) = n
        BY <2>2, <3>2, <3>3, <3>4
      <3>6. ASSUME NEW i \in 1 .. n PROVE m[i] = l[f(i)]
        <4>1. CASE i < k
          BY <3>2, <3>4, <3>5, <4>1
        <4>2. CASE ~(i < k)
          <5>1. i - (k - 1) \in 1 .. (n + 1 - k) /\ k + (i - (k - 1)) = i + 1
            BY <3>5, <4>2
          <5>2. m[i] = b[i - (k - 1)]
            BY <3>2, <3>4, <3>5, <4>2
          <5>3. b[i - (k - 1)] = l[i + 1]
            BY <3>3, <5>1, Zenon
          <5> QED
            BY <4>2, <5>2, <5>3
        <4> QED
          BY <4>1, <4>2
      <3> QED
        BY <3>4, <3>5, <3>6
    <2> HIDE DEF m
    <2>4. k \in 1 .. (n + 1) /\ \A i \in 1 .. n : f(i) \in 1 .. Len(l) /\ f(i) # k
      BY <2>2
    <2>5. \A i, j \in 1 .. n : (f(i) = f(j) => i = j) /\ (f(i) < f(j) => i < j)
      BY <2>4
    <2>6. \A j \in 1 .. Len(l) : j # k => \E i \in 1 .. n : f(i) = j
      <3> SUFFICES ASSUME NEW j \in 1 .. (n + 1), j # k PROVE \E i \in 1 .. n : f(i) = j
        BY <2>2
      <3>1. CASE j < k
        <4>1. j \in 1 .. n /\ f(j) = j
          BY <2>4, <3>1
        <4> QED
          BY <4>1, Zenon
      <3>2. CASE ~(j < k)
        <4>1. j - 1 \in 1 .. n /\ f(j - 1) = j
          BY <2>4, <3>2
        <4> QED
          BY <4>1, Zenon
      <3> QED
        BY <3>1, <3>2
    <2> HIDE DEF f
    <2>7. \A i, j \in 1 .. Len(l) : l[i] = l[j] => i = j
      BY <1>1, Positions
    <2>8. IsInjective(m)
      <3>1. ASSUME NEW i \in 1 .. n, NEW j \in 1 .. n, m[i] = m[j] PROVE i = j
        <4>1. l[f(i)] = l[f(j)]
          BY <2>3, <3>1, Zenon
        <4>2. f(i) = f(j)
          BY <2>4, <2>7, <4>1, Zenon
        <4> QED
          BY <2>5, <4>2, Zenon
      <3> QED
        BY <2>3, <3>1, Positions
    <2>9. ToSet(m) = ToSet(l) \ {d}
      <3>1. ASSUME NEW x \in ToSet(m) PROVE x \in ToSet(l) \ {d}
        <4>1. PICK i \in 1 .. n : m[i] = x
          BY <2>3, Positions
        <4>2. f(i) \in 1 .. Len(l) /\ l[f(i)] = x /\ f(i) # k
          BY <2>3, <2>4, <4>1, Zenon
        <4> QED
          BY <1>1, <2>1, <2>7, <4>2, Positions, Zenon
      <3>2. ASSUME NEW x \in ToSet(l) \ {d} PROVE x \in ToSet(m)
        <4>1. PICK j \in 1 .. Len(l) : l[j] = x
          BY <1>1, Positions
        <4>2. j # k
          BY <2>1, <3>2, <4>1
        <4>3. PICK i \in 1 .. n : f(i) = j
          BY <2>6, <4>2
        <4>4. i \in 1 .. Len(m) /\ m[i] = x
          BY <2>3, <4>1, <4>3, Zenon
        <4> QED
          BY <2>3, <4>4, Positions, Zenon
      <3> QED
        BY <3>1, <3>2, Zenon
    <2>10. ASSUME NEW P, ParentsFirst(P, l) PROVE ParentsFirst(P, m)
      <3>1. \A i, j \in 1 .. Len(l) : P[l[j]] = l[i] => i < j
        BY <2>10 DEF ParentsFirst
      <3>2. \A i, j \in 1 .. n : P[m[j]] = m[i] => i < j
        BY <2>3, <2>4, <2>5, <3>1, Zenon
      <3> QED
        BY <2>3, <3>2, Zenon DEF ParentsFirst
    <2> QED
      BY <2>3, <2>8, <2>9, <2>10, Zenon DEF m, Once
  <1> QED
    BY <1>2, <1>3

(* ParentsFirst is about the devices on the list only.                     *)
LEMMA SameParents ==
    ASSUME NEW l, Once(l), NEW P, NEW Q, \A d \in ToSet(l) : P[d] = Q[d],
           ParentsFirst(P, l)
    PROVE  ParentsFirst(Q, l)
  <1>1. \A i \in 1 .. Len(l) : P[l[i]] = Q[l[i]]
    BY Positions DEF Once
  <1> QED
    BY <1>1 DEF ParentsFirst

(* Two lists that share no device, one after the other.                    *)
LEMMA ConcatList ==
    ASSUME NEW a, NEW b, Once(a), Once(b), ToSet(a) \cap ToSet(b) = {}
    PROVE  Once(a \o b) /\ ToSet(a \o b) = ToSet(a) \cup ToSet(b)
  <1> DEFINE m == a \o b
  <1>1. a \in Seq(Devices) /\ b \in Seq(Devices) /\ IsInjective(a) /\ IsInjective(b)
    BY DEF Once
  <1>2. PICK p \in Nat, q \in Nat : p = Len(a) /\ q = Len(b)
    BY <1>1, Positions
  <1>3. /\ m \in Seq(Devices) /\ Len(m) = p + q
        /\ \A i \in 1 .. p + q : m[i] = IF i <= p THEN a[i] ELSE b[i - p]
    <2>1. /\ m \in Seq(Devices) /\ Len(m) = Len(a) + Len(b)
          /\ \A i \in 1 .. Len(a) + Len(b) :
                 m[i] = IF i <= Len(a) THEN a[i] ELSE b[i - Len(a)]
      BY <1>1, ConcatProperties, Zenon
    <2> QED
      BY <1>2, <2>1, Zenon
  <1> HIDE DEF m
  <1>4. /\ \A i, j \in 1 .. p : a[i] = a[j] => i = j
        /\ \A i, j \in 1 .. q : b[i] = b[j] => i = j
    BY <1>1, <1>2, Positions
  <1>5. \A i \in 1 .. p, j \in 1 .. q : a[i] # b[j]
    <2>1. \A i \in 1 .. p : a[i] \in ToSet(a)
      BY <1>1, <1>2, Positions
    <2>2. \A i \in 1 .. q : b[i] \in ToSet(b)
      BY <1>1, <1>2, Positions
    <2> QED
      BY <2>1, <2>2, Zenon
  <1>6. \A i \in 1 .. p + q : \/ i \in 1 .. p /\ m[i] = a[i]
                              \/ i - p \in 1 .. q /\ m[i] = b[i - p]
    <2> SUFFICES ASSUME NEW i \in 1 .. p + q
                 PROVE  \/ i \in 1 .. p /\ m[i] = a[i]
                        \/ i - p \in 1 .. q /\ m[i] = b[i - p]
      OBVIOUS
    <2>1. CASE i <= p
      BY <1>3, <2>1
    <2>2. CASE ~(i <= p)
      BY <1>3, <2>2
    <2> QED
      BY <2>1, <2>2
  <1>7. IsInjective(m)
    <2>1. \A i, j \in 1 .. p + q : m[i] = m[j] => i = j
      <3> SUFFICES ASSUME NEW i \in 1 .. p + q, NEW j \in 1 .. p + q, m[i] = m[j]
                   PROVE  i = j
        OBVIOUS
      <3>1. CASE i - p \in 1 .. q /\ m[i] = b[i - p] /\ j - p \in 1 .. q /\ m[j] = b[j - p]
        <4>1. i - p = j - p
          BY <1>4, <3>1
        <4> QED
          BY <4>1
      <3>2. CASE i \in 1 .. p /\ m[i] = a[i] /\ j \in 1 .. p /\ m[j] = a[j]
        BY <1>4, <3>2
      <3> QED
        BY <1>5, <1>6, <3>1, <3>2, Zenon
    <2> QED
      BY <1>3, <2>1, Positions
  <1>8. ToSet(m) = ToSet(a) \cup ToSet(b)
    <2>1. ASSUME NEW x \in ToSet(m) PROVE x \in ToSet(a) \cup ToSet(b)
      <3>1. PICK i \in 1 .. p + q : m[i] = x
        BY <1>3, Positions
      <3>2. CASE i \in 1 .. p /\ m[i] = a[i]
        BY <1>1, <1>2, <3>1, <3>2, Positions
      <3>3. CASE i - p \in 1 .. q /\ m[i] = b[i - p]
        BY <1>1, <1>2, <3>1, <3>3, Positions
      <3> QED
        BY <1>6, <3>2, <3>3, Zenon
    <2>2. ASSUME NEW x \in ToSet(a) PROVE x \in ToSet(m)
      <3>1. PICK i \in 1 .. p : a[i] = x
        BY <1>1, <1>2, Positions
      <3>2. i \in 1 .. Len(m) /\ m[i] = x
        BY <1>3, <3>1
      <3> QED
        BY <1>3, <3>2, Positions
    <2>3. ASSUME NEW x \in ToSet(b) PROVE x \in ToSet(m)
      <3>1. PICK i \in 1 .. q : b[i] = x
        BY <1>1, <1>2, Positions
      <3>2. i + p \in 1 .. p + q /\ ~(i + p <= p) /\ (i + p) - p = i
        OBVIOUS
      <3>3. i + p \in 1 .. Len(m) /\ m[i + p] = x
        BY <1>3, <3>1, <3>2
      <3> QED
        BY <1>3, <3>3, Positions
    <2> QED
      BY <2>1, <2>2, <2>3, Zenon
  <1> QED
    BY <1>3, <1>7, <1>8, Zenon DEF m, Once

-----------------------------------------------------------------------------
(* What the steps that move devices do to the lists as sets.               *)

ListsOnce == Once(dpm_active) /\ Once(dpm_off) /\ Once(dpm_off_irq)

(* The lists are typed and without repetition.                             *)
LEMMA TypedLists ==
    /\ TypeOK => ListsOnce
    /\ TypeOK => Active \subseteq Devices /\ Off \subseteq Devices /\ OffIrq \subseteq Devices
  <1> SUFFICES ASSUME TypeOK
               PROVE  /\ ListsOnce
                      /\ Active \subseteq Devices /\ Off \subseteq Devices
                      /\ OffIrq \subseteq Devices
    OBVIOUS
  <1>1. ListsOnce
    BY DEF TypeOK, ListsOnce, Once
  <1>2. \A l \in Seq(Devices) : ToSet(l) \subseteq Devices
    BY Positions
  <1> QED
    BY <1>1, <1>2 DEF ListsOnce, Once, Active, Off, OffIrq

(* device_suspend moves the device it was called for.                      *)
LEMMA MoveLists ==
    TypeOK /\ Partition /\ MoveSuspended =>
        /\ ListsOnce'
        /\ cur \in Active /\ cur \in Devices
        /\ Active' = IF error = "EBUSY" THEN Active ELSE Active \ {cur}
        /\ Off' = IF error = "none" THEN Off \cup {cur} ELSE Off
        /\ OffIrq' = IF error = "EAGAIN" THEN OffIrq \cup {cur} ELSE OffIrq
  <1> SUFFICES ASSUME TypeOK, Partition, MoveSuspended
               PROVE  /\ ListsOnce'
                      /\ cur \in Active /\ cur \in Devices
                      /\ Active' = IF error = "EBUSY" THEN Active ELSE Active \ {cur}
                      /\ Off' = IF error = "none" THEN Off \cup {cur} ELSE Off
                      /\ OffIrq' = IF error = "EAGAIN" THEN OffIrq \cup {cur} ELSE OffIrq
    OBVIOUS
  <1>1. /\ cur \in Active /\ cur \notin Off /\ cur \notin OffIrq /\ cur \in Devices
        /\ error \in {"none", "EBUSY", "EAGAIN"}
    BY DEF Partition, MoveSuspended, TypeOK
  <1>2. /\ Once(dpm_active) /\ Once(dpm_off) /\ Once(dpm_off_irq)
        /\ cur \notin ToSet(dpm_off) /\ cur \notin ToSet(dpm_off_irq)
    BY <1>1, TypedLists DEF ListsOnce, Off, OffIrq
  <1>3. /\ Once(Without(dpm_active, cur))
        /\ ToSet(Without(dpm_active, cur)) = Active \ {cur}
    BY <1>2, WithoutList DEF Active
  <1>4. /\ Once(<<cur>> \o dpm_off) /\ ToSet(<<cur>> \o dpm_off) = Off \cup {cur}
        /\ Once(<<cur>> \o dpm_off_irq)
        /\ ToSet(<<cur>> \o dpm_off_irq) = OffIrq \cup {cur}
    BY <1>1, <1>2, PushList, Zenon DEF Off, OffIrq
  <1>5. Once(dpm_active') /\ ToSet(dpm_active') =
            IF error = "EBUSY" THEN Active ELSE Active \ {cur}
    BY <1>2, <1>3, Zenon DEF MoveSuspended, Active
  <1>6. Once(dpm_off') /\ ToSet(dpm_off') = IF error = "none" THEN Off \cup {cur} ELSE Off
    BY <1>2, <1>4, Zenon DEF MoveSuspended, Off
  <1>7. Once(dpm_off_irq') /\ ToSet(dpm_off_irq') =
            IF error = "EAGAIN" THEN OffIrq \cup {cur} ELSE OffIrq
    BY <1>2, <1>4, Zenon DEF MoveSuspended, OffIrq
  <1> QED
    BY <1>1, <1>5, <1>6, <1>7, Zenon DEF ListsOnce, Active, Off, OffIrq

(* dpm_power_up moves the first late device.                               *)
LEMMA PowerUpLists ==
    TypeOK /\ Partition /\ PowerUpDevice =>
        LET d == Head(dpm_off_irq) IN
        /\ ListsOnce'
        /\ d \in OffIrq /\ d \in Devices
        /\ Active' = Active \cup {d}
        /\ Off' = Off
        /\ OffIrq' = OffIrq \ {d}
  <1> DEFINE d == Head(dpm_off_irq)
  <1> SUFFICES ASSUME TypeOK, Partition, PowerUpDevice
               PROVE  /\ ListsOnce'
                      /\ d \in OffIrq /\ d \in Devices
                      /\ Active' = Active \cup {d}
                      /\ Off' = Off
                      /\ OffIrq' = OffIrq \ {d}
    BY Zenon
  <1>1. Once(dpm_active) /\ Once(dpm_off) /\ Once(dpm_off_irq)
    BY TypedLists DEF ListsOnce
  <1>2. /\ dpm_off_irq # <<>> /\ dpm_off_irq' = Tail(dpm_off_irq) /\ dpm_off' = dpm_off
        /\ dpm_active' = Append(dpm_active, d)
    BY DEF PowerUpDevice
  <1> HIDE DEF d
  <1>3. /\ Once(dpm_off_irq') /\ d \in Devices /\ d \in OffIrq
        /\ d \notin ToSet(dpm_off_irq') /\ OffIrq = ToSet(dpm_off_irq') \cup {d}
    BY <1>1, <1>2, TailList, Zenon DEF d, OffIrq
  <1>4. d \notin ToSet(dpm_active)
    BY <1>3 DEF Partition, Active
  <1>5. Once(dpm_active') /\ ToSet(dpm_active') = Active \cup {d}
    BY <1>1, <1>2, <1>3, <1>4, AppendList, Zenon DEF Active
  <1> QED
    BY <1>1, <1>2, <1>3, <1>5 DEF ListsOnce, Active, Off, OffIrq

(* dpm_resume moves the first suspended device.                            *)
LEMMA ResumeLists ==
    TypeOK /\ Partition /\ ResumeDevice =>
        LET d == Head(dpm_off) IN
        /\ ListsOnce'
        /\ d \in Off /\ d \in Devices
        /\ Active' = Active \cup {d}
        /\ Off' = Off \ {d}
        /\ OffIrq' = OffIrq
  <1> DEFINE d == Head(dpm_off)
  <1> SUFFICES ASSUME TypeOK, Partition, ResumeDevice
               PROVE  /\ ListsOnce'
                      /\ d \in Off /\ d \in Devices
                      /\ Active' = Active \cup {d}
                      /\ Off' = Off \ {d}
                      /\ OffIrq' = OffIrq
    BY Zenon
  <1>1. Once(dpm_active) /\ Once(dpm_off) /\ Once(dpm_off_irq)
    BY TypedLists DEF ListsOnce
  <1>2. /\ dpm_off # <<>> /\ dpm_off' = Tail(dpm_off) /\ dpm_off_irq' = dpm_off_irq
        /\ dpm_active' = Append(dpm_active, d)
    BY DEF ResumeDevice
  <1> HIDE DEF d
  <1>3. /\ Once(dpm_off') /\ d \in Devices /\ d \in Off
        /\ d \notin ToSet(dpm_off') /\ Off = ToSet(dpm_off') \cup {d}
    BY <1>1, <1>2, TailList, Zenon DEF d, Off
  <1>4. d \notin ToSet(dpm_active)
    BY <1>3 DEF Partition, Active
  <1>5. Once(dpm_active') /\ ToSet(dpm_active') = Active \cup {d}
    BY <1>1, <1>2, <1>3, <1>4, AppendList, Zenon DEF Active
  <1> QED
    BY <1>1, <1>2, <1>3, <1>5 DEF ListsOnce, Active, Off, OffIrq

(* device_pm_add puts a device on dpm_active.                              *)
LEMMA AddLists ==
    ASSUME NEW d \in Devices
    PROVE  TypeOK /\ Partition /\ device_pm_add(d) =>
               /\ ListsOnce'
               /\ d \notin Active
               /\ Active' = Active \cup {d}
               /\ Off' = Off
               /\ OffIrq' = OffIrq
  <1> SUFFICES ASSUME TypeOK, Partition, device_pm_add(d)
               PROVE  /\ ListsOnce'
                      /\ d \notin Active
                      /\ Active' = Active \cup {d}
                      /\ Off' = Off
                      /\ OffIrq' = OffIrq
    OBVIOUS
  <1>1. Once(dpm_active) /\ Once(dpm_off) /\ Once(dpm_off_irq)
    BY TypedLists DEF ListsOnce
  <1>2. /\ dpm_off' = dpm_off /\ dpm_off_irq' = dpm_off_irq
        /\ dpm_active' = Append(dpm_active, d) /\ d \notin registered
    BY DEF device_pm_add
  <1>3. d \notin ToSet(dpm_active)
    BY <1>2 DEF Partition, Active
  <1>4. Once(dpm_active') /\ ToSet(dpm_active') = Active \cup {d}
    BY <1>1, <1>2, <1>3, AppendList, Zenon DEF Active
  <1> QED
    BY <1>1, <1>2, <1>3, <1>4 DEF ListsOnce, Active, Off, OffIrq

(* device_pm_remove takes a device off its list.                           *)
LEMMA RemoveLists ==
    ASSUME NEW d \in Devices
    PROVE  TypeOK /\ device_pm_remove(d) =>
               /\ ListsOnce'
               /\ Active' = Active \ {d}
               /\ Off' = Off \ {d}
               /\ OffIrq' = OffIrq \ {d}
  <1> SUFFICES ASSUME TypeOK, device_pm_remove(d)
               PROVE  /\ ListsOnce'
                      /\ Active' = Active \ {d}
                      /\ Off' = Off \ {d}
                      /\ OffIrq' = OffIrq \ {d}
    OBVIOUS
  <1>1. Once(dpm_active) /\ Once(dpm_off) /\ Once(dpm_off_irq)
    BY TypedLists DEF ListsOnce
  <1>2. /\ dpm_active' = Without(dpm_active, d) /\ dpm_off' = Without(dpm_off, d)
        /\ dpm_off_irq' = Without(dpm_off_irq, d)
    BY DEF device_pm_remove
  <1> QED
    BY <1>1, <1>2, WithoutList, Zenon DEF ListsOnce, Active, Off, OffIrq

(* All other steps leave the lists alone.                                  *)
LEMMA UnmovedLists ==
    UNCHANGED lists /\ TypeOK =>
        ListsOnce' /\ Active' = Active /\ Off' = Off /\ OffIrq' = OffIrq
  BY TypedLists DEF lists, ListsOnce, Active, Off, OffIrq

-----------------------------------------------------------------------------
(* The consistency of the lists, whatever other processes do meanwhile.    *)

ListInv == TypeOK /\ Partition /\ WalkIsLocal

(* Every device has been discovered, parents first.                        *)
LEMMA InitListed == Init => ListInv /\ ParentsFirst(Parent, dpm_active)
  <1> SUFFICES ASSUME Init PROVE ListInv /\ ParentsFirst(Parent, dpm_active)
    OBVIOUS
  <1>1. PICK n \in Nat : n = Cardinality(Devices)
    BY DevicePmAssumption, FS_CardinalityType
  <1>2. /\ dpm_active \in [1 .. n -> Devices]
        /\ IsInjective(dpm_active) /\ ToSet(dpm_active) = Devices
        /\ \A i \in DOMAIN dpm_active :
               \A j \in 1 .. i : Parent[dpm_active[j]] # dpm_active[i]
    BY <1>1, Zenon DEF Init
  <1>3. dpm_active \in Seq(Devices) /\ Len(dpm_active) = n
    BY <1>2
  <1>4. ParentsFirst(Parent, dpm_active)
    <2> SUFFICES ASSUME NEW i \in 1 .. n, NEW j \in 1 .. n, ~(i < j),
                        Parent[dpm_active[j]] = dpm_active[i]
                 PROVE  FALSE
      BY <1>3 DEF ParentsFirst
    <2>1. i \in DOMAIN dpm_active /\ j \in 1 .. i
      BY <1>2
    <2> QED
      BY <1>2, <2>1
  <1>5. /\ Once(dpm_off) /\ Once(dpm_off_irq) /\ Len(dpm_off_irq) = 0
        /\ ToSet(dpm_off) = {} /\ ToSet(dpm_off_irq) = {}
    BY EmptyList, Zenon DEF Init
  <1>6. TypeOK
    <2>1. \A l \in {dpm_active, dpm_off, dpm_off_irq} : l \in Seq(Devices) /\ IsInjective(l)
      BY <1>2, <1>3, <1>5, Zenon DEF Once
    <2>2. hw \in [Devices -> BOOLEAN] /\ error \in {"none", "EBUSY", "EAGAIN"}
      BY Zenon DEF Init
    <2>3. /\ power_state \in [Devices -> LowStates \cup {0}]
          /\ prev_state \in [Devices -> LowStates \cup {0}]
      BY DEF Init
    <2>4. walk \in 0 .. Len(dpm_off_irq) /\ attempts \in 0 .. MaxAttempts
              /\ changes \in 0 .. MaxChanges
      BY <1>5, DevicePmAssumption DEF Init
    <2> QED
      BY <2>1, <2>2, <2>3, <2>4 DEF TypeOK, Init
  <1>7. Partition
    BY <1>2, <1>5 DEF Partition, Active, Off, OffIrq, Init
  <1> QED
    BY <1>4, <1>6, <1>7 DEF ListInv, WalkIsLocal, Init

(* TypeOK, with the lists apart.                                           *)
RestTyped ==
    /\ registered \subseteq Devices
    /\ power_state \in [Devices -> LowStates \cup {0}]
    /\ prev_state \in [Devices -> LowStates \cup {0}]
    /\ hw \in [Devices -> BOOLEAN]
    /\ pc \in {"idle", "suspend", "move", "ready", "down", "asleep", "up", "finish", "resume"}
    /\ cur \in Devices \cup {NoDevice}
    /\ error \in {"none", "EBUSY", "EAGAIN"}
    /\ attempts \in 0 .. MaxAttempts /\ changes \in 0 .. MaxChanges
    /\ meddled \subseteq Devices /\ misplaced \subseteq Devices

(* The two halves of TypeOK.                                               *)
LEMMA TypeParts ==
    /\ TypeOK => ListsOnce /\ RestTyped /\ walk \in 0 .. Len(dpm_off_irq)
    /\ ListsOnce /\ RestTyped /\ walk \in 0 .. Len(dpm_off_irq) => TypeOK
    /\ ListsOnce /\ RestTyped /\ walk = 0 => TypeOK
  <1>1. ASSUME TypeOK PROVE ListsOnce /\ RestTyped /\ walk \in 0 .. Len(dpm_off_irq)
    BY <1>1, TypedLists DEF TypeOK, RestTyped
  <1>2. ASSUME ListsOnce, RestTyped, walk \in 0 .. Len(dpm_off_irq) PROVE TypeOK
    BY <1>2 DEF TypeOK, RestTyped, ListsOnce, Once
  <1>3. ASSUME ListsOnce, walk = 0 PROVE walk \in 0 .. Len(dpm_off_irq)
    BY <1>3, Positions DEF ListsOnce, Once
  <1> QED
    BY <1>1, <1>2, <1>3

(* The part of a step that is not about the lists.                         *)
LEMMA NextRestTyped == RestTyped /\ ListInv /\ [Next]_vars => RestTyped'
  <1> SUFFICES ASSUME RestTyped, ListInv, [Next]_vars PROVE RestTyped'
    OBVIOUS
  <1>0. Once(dpm_active) /\ TypeOK /\ Partition
    BY TypedLists DEF ListInv, ListsOnce
  <1> USE DevicePmAssumption DEF RestTyped, lists, states, history
  <1>1. ASSUME NEW d \in Devices, NEW o \in {"none", "EBUSY", "EAGAIN"}, suspend_device(d, o)
        PROVE  /\ prev_state' \in [Devices -> LowStates \cup {0}]
               /\ hw' \in [Devices -> BOOLEAN]
    <2>1. hw' \in [Devices -> BOOLEAN]
      BY <1>1, Zenon DEF suspend_device
    <2> QED
      BY <1>1, <2>1 DEF suspend_device
  <1>2. CASE SuspendDevice
    <2>1. Last(dpm_active) \in Devices
      BY <1>0, <1>2, LastOfList DEF SuspendDevice
    <2>2. PICK o \in Outcomes(Last(dpm_active), TRUE) :
              suspend_device(Last(dpm_active), o) /\ error' = o
      BY <1>2 DEF SuspendDevice
    <2>3. o \in {"none", "EBUSY", "EAGAIN"}
      BY DEF Outcomes
    <2> QED
      BY <1>1, <1>2, <2>1, <2>2, <2>3 DEF SuspendDevice
  <1>3. CASE PowerDownDevice
    <2>1. dpm_off_irq[walk] \in Devices
      <3>1. dpm_off_irq \in Seq(Devices) /\ walk \in 0 .. Len(dpm_off_irq) /\ walk > 0
        BY <1>3, TypeParts DEF PowerDownDevice, ListInv, ListsOnce, Once
      <3>2. walk \in 1 .. Len(dpm_off_irq)
        BY <3>1, Positions
      <3> QED
        BY <3>1, <3>2, Positions
    <2>2. PICK o \in Outcomes(dpm_off_irq[walk], FALSE) :
              /\ suspend_device(dpm_off_irq[walk], o)
              /\ pc' = IF o = "none" THEN "down" ELSE "up"
      BY <1>3 DEF PowerDownDevice
    <2>3. o \in {"none", "EBUSY", "EAGAIN"}
      BY DEF Outcomes
    <2> QED
      BY <1>1, <1>3, <2>1, <2>2, <2>3 DEF PowerDownDevice
  <1>4. CASE PowerUpDevice
    <2>1. hw' \in [Devices -> BOOLEAN]
      BY <1>4, Zenon DEF PowerUpDevice
    <2> QED
      BY <1>4, <2>1 DEF PowerUpDevice
  <1>5. CASE ResumeDevice
    <2>1. hw' \in [Devices -> BOOLEAN]
      BY <1>5, Zenon DEF ResumeDevice
    <2> QED
      BY <1>5, <2>1 DEF ResumeDevice
  <1>6. ASSUME NEW d \in Devices, device_pm_add(d) PROVE RestTyped'
    <2>1. hw' \in [Devices -> BOOLEAN]
      BY <1>6, Zenon DEF device_pm_add
    <2> QED
      BY <1>6, <2>1 DEF device_pm_add, Others
  <1>7. ASSUME NEW d \in Devices, device_pm_remove(d) PROVE RestTyped'
    BY <1>7 DEF device_pm_remove, Others
  <1>8. ASSUME NEW d \in Devices, dpm_runtime_resume(d) PROVE RestTyped'
    <2>1. hw' \in [Devices -> BOOLEAN]
      BY <1>8, Zenon DEF dpm_runtime_resume
    <2> QED
      BY <1>8, <2>1 DEF dpm_runtime_resume, Runtime, Others
  <1>9. ASSUME NEW d \in Devices, NEW s \in LowStates, dpm_runtime_suspend(d, s)
        PROVE  RestTyped'
    <2>1. hw' \in [Devices -> BOOLEAN]
      BY <1>9, Zenon DEF dpm_runtime_suspend
    <2> QED
      BY <1>9, <2>1 DEF dpm_runtime_suspend, Runtime, Others
  <1>10. CASE EnterState
    BY <1>10 DEF EnterState
  <1>11. CASE MoveSuspended
    BY <1>11 DEF MoveSuspended
  <1>12. CASE MoveRemoved \/ SuspendEnds \/ MpmReadyToSleep \/ SysdevSuspend \/ Wake
    BY <1>12 DEF MoveRemoved, SuspendEnds, MpmReadyToSleep, SysdevSuspend, Wake
  <1>13. CASE PowerUpEnds \/ SuspendFinish \/ ResumeEnds
    BY <1>13 DEF PowerUpEnds, SuspendFinish, ResumeEnds
  <1>14. CASE UNCHANGED vars
    BY <1>14 DEF vars
  <1> HIDE DEF RestTyped
  <1> QED
    BY <1>2, <1>3, <1>4, <1>5, <1>6, <1>7, <1>8, <1>9, <1>10, <1>11, <1>12, <1>13, <1>14
       DEF Next, Attempt

(* Every step keeps the lists apart and complete.                          *)
LEMMA NextListed == ListInv /\ [Next]_vars => ListInv'
  <1> SUFFICES ASSUME ListInv, [Next]_vars PROVE ListInv'
    OBVIOUS
  <1>0. /\ TypeOK /\ Partition /\ WalkIsLocal /\ ListsOnce /\ RestTyped /\ RestTyped'
        /\ walk \in 0 .. Len(dpm_off_irq) /\ Active \subseteq Devices
    BY TypeParts, NextRestTyped, TypedLists DEF ListInv
  <1>a. /\ (ListsOnce /\ RestTyped /\ walk \in 0 .. Len(dpm_off_irq) => TypeOK)'
        /\ (ListsOnce /\ RestTyped /\ walk = 0 => TypeOK)'
    BY TypeParts, PTL
  <1> USE <1>0 DEF ListInv, WalkIsLocal, states
  <1>1. CASE SuspendDevice
    <2>1. ListsOnce' /\ Active' = Active /\ Off' = Off /\ OffIrq' = OffIrq
      BY <1>1, UnmovedLists DEF SuspendDevice
    <2>2. Last(dpm_active) \in Active
      BY <1>1, LastOfList DEF SuspendDevice, ListsOnce, Active
    <2>3. Partition'
      BY <1>1, <2>1, <2>2 DEF Partition, SuspendDevice
    <2>4. walk' = 0
      BY <1>1 DEF SuspendDevice
    <2> QED
      BY <1>a, <2>1, <2>3, <2>4
  <1>2. CASE MoveSuspended
    <2>1. /\ ListsOnce' /\ cur \in Active
          /\ Active' = IF error = "EBUSY" THEN Active ELSE Active \ {cur}
          /\ Off' = IF error = "none" THEN Off \cup {cur} ELSE Off
          /\ OffIrq' = IF error = "EAGAIN" THEN OffIrq \cup {cur} ELSE OffIrq
      BY <1>2, MoveLists
    <2>2. error \in {"none", "EBUSY", "EAGAIN"} /\ walk' = 0 /\ pc' = "suspend"
              /\ registered' = registered /\ cur' = cur
      BY <1>2 DEF RestTyped, MoveSuspended
    <2>3. Partition'
      BY <2>1, <2>2 DEF Partition
    <2> QED
      BY <1>a, <2>1, <2>2, <2>3
  <1>3. CASE PowerUpDevice
    <2> DEFINE d == Head(dpm_off_irq)
    <2>1. /\ ListsOnce' /\ d \in OffIrq
          /\ Active' = Active \cup {d} /\ Off' = Off /\ OffIrq' = OffIrq \ {d}
      BY <1>3, PowerUpLists
    <2> HIDE DEF d
    <2>2. walk' = 0 /\ pc' = "up" /\ registered' = registered /\ cur' = cur
      BY <1>3 DEF PowerUpDevice
    <2>3. Partition'
      BY <2>1, <2>2 DEF Partition
    <2> QED
      BY <1>a, <2>1, <2>2, <2>3
  <1>4. CASE ResumeDevice
    <2> DEFINE d == Head(dpm_off)
    <2>1. /\ ListsOnce' /\ d \in Off
          /\ Active' = Active \cup {d} /\ Off' = Off \ {d} /\ OffIrq' = OffIrq
      BY <1>4, ResumeLists
    <2> HIDE DEF d
    <2>2. walk' = 0 /\ pc' = "resume" /\ registered' = registered /\ cur' = cur
      BY <1>4 DEF ResumeDevice
    <2>3. Partition'
      BY <2>1, <2>2 DEF Partition
    <2> QED
      BY <1>a, <2>1, <2>2, <2>3
  <1>5. ASSUME NEW d \in Devices, device_pm_add(d) PROVE ListInv'
    <2>1. ListsOnce' /\ Active' = Active \cup {d} /\ Off' = Off /\ OffIrq' = OffIrq
      BY <1>5, AddLists
    <2>2. walk' = 0 /\ pc' = pc /\ cur' = cur /\ registered' = registered \cup {d}
              /\ d \notin registered
      BY <1>5 DEF device_pm_add, Others
    <2>3. Partition'
      BY <2>1, <2>2 DEF Partition
    <2> QED
      BY <1>a, <2>1, <2>2, <2>3
  <1>6. ASSUME NEW d \in Devices, device_pm_remove(d) PROVE ListInv'
    <2>1. ListsOnce' /\ Active' = Active \ {d} /\ Off' = Off \ {d} /\ OffIrq' = OffIrq \ {d}
      BY <1>6, RemoveLists
    <2>2. /\ walk' = 0 /\ pc' = pc /\ registered' = registered \ {d}
          /\ cur' = IF cur = d THEN NoDevice ELSE cur
          /\ NoDevice \notin registered
      BY <1>6, DevicePmAssumption DEF device_pm_remove, Others, RestTyped
    <2>3. Partition'
      BY <2>1, <2>2 DEF Partition
    <2> QED
      BY <1>a, <2>1, <2>2, <2>3
  <1>7. CASE UNCHANGED <<registered, lists, cur, walk>> /\ pc # "down" /\ pc' # "move"
    <2>1. ListsOnce' /\ Active' = Active /\ Off' = Off /\ OffIrq' = OffIrq
      BY <1>7, UnmovedLists
    <2> QED
      BY <1>7, <1>a, <2>1 DEF Partition
  <1>8. CASE MpmReadyToSleep \/ PowerDownDevice \/ SysdevSuspend
    <2>1. /\ ListsOnce' /\ Active' = Active /\ Off' = Off /\ OffIrq' = OffIrq
          /\ dpm_off_irq' = dpm_off_irq /\ registered' = registered /\ cur' = cur
      BY <1>8, UnmovedLists DEF MpmReadyToSleep, PowerDownDevice, SysdevSuspend, lists
    <2>2. pc' # "move"
      BY <1>8 DEF MpmReadyToSleep, PowerDownDevice, SysdevSuspend
    <2>3. walk' \in 0 .. Len(dpm_off_irq)
      <3>1. Len(dpm_off_irq) \in Nat
        BY Positions DEF ListsOnce, Once
      <3>2. CASE MpmReadyToSleep
        BY <3>1, <3>2 DEF MpmReadyToSleep
      <3>3. CASE PowerDownDevice
        <4>1. walk > 0 /\ (walk' = walk - 1 \/ walk' = 0)
          BY <3>3 DEF PowerDownDevice
        <4> QED
          BY <3>1, <4>1
      <3>4. CASE SysdevSuspend
        BY <3>4 DEF SysdevSuspend
      <3> QED
        BY <1>8, <3>2, <3>3, <3>4
    <2>4. WalkIsLocal'
      BY <1>8 DEF MpmReadyToSleep, PowerDownDevice, SysdevSuspend
    <2>5. TypeOK'
      BY <1>a, <2>1, <2>3
    <2> QED
      BY <2>1, <2>2, <2>4, <2>5 DEF Partition
  <1>9. CASE EnterState \/ MoveRemoved \/ SuspendEnds \/ Wake
    BY <1>7, <1>9 DEF EnterState, MoveRemoved, SuspendEnds, Wake
  <1>10. CASE PowerUpEnds \/ SuspendFinish \/ ResumeEnds
    BY <1>7, <1>10 DEF PowerUpEnds, SuspendFinish, ResumeEnds
  <1>11. ASSUME NEW d \in Devices, Runtime(d) PROVE ListInv'
    BY <1>7, <1>11 DEF Runtime
  <1>12. CASE UNCHANGED vars
    <2>1. ListsOnce' /\ Active' = Active /\ Off' = Off /\ OffIrq' = OffIrq
      BY <1>12, UnmovedLists DEF vars
    <2> QED
      BY <1>12, <1>a, <2>1 DEF Partition, vars, lists
  <1> HIDE DEF ListInv
  <1> QED
    BY <1>1, <1>2, <1>3, <1>4, <1>5, <1>6, <1>8, <1>9, <1>10, <1>11, <1>12
       DEF Next, Attempt, dpm_runtime_resume, dpm_runtime_suspend

(* The inductive invariant of the lists, for any Meanwhile.                *)
THEOREM Listed == Spec => []ListInv
  <1>1. Init => ListInv
    BY InitListed
  <1> QED
    BY <1>1, NextListed, PTL DEF Spec

(* The model's types, lists without repetition among them.                 *)
THEOREM TypeCorrect == Spec => []TypeOK
  <1>1. ListInv => TypeOK
    BY DEF ListInv
  <1> QED
    BY <1>1, Listed, PTL

(* A registered device is on exactly one list, a removed one on none.      *)
THEOREM OneList == Spec => []OnOneList
  <1>1. ListInv => OnOneList
    <2> SUFFICES ASSUME ListInv PROVE OnOneList
      OBVIOUS
    <2>1. /\ Once(dpm_active) /\ Once(dpm_off) /\ Once(dpm_off_irq)
          /\ Active \cup Off \cup OffIrq = registered
          /\ Active \cap Off = {} /\ (Active \cup Off) \cap OffIrq = {}
      BY TypedLists DEF ListInv, Partition, ListsOnce
    <2>2. Once(dpm_active \o dpm_off) /\ ToSet(dpm_active \o dpm_off) = Active \cup Off
      BY <2>1, ConcatList, Zenon DEF Active, Off
    <2>3. ToSet(dpm_active \o dpm_off) \cap ToSet(dpm_off_irq) = {}
      BY <2>1, <2>2, Zenon DEF OffIrq
    <2>4. /\ Once((dpm_active \o dpm_off) \o dpm_off_irq)
          /\ ToSet((dpm_active \o dpm_off) \o dpm_off_irq) = (Active \cup Off) \cup OffIrq
      BY <2>1, <2>2, <2>3, ConcatList, Zenon DEF OffIrq
    <2> QED
      BY <2>1, <2>4, Zenon DEF OnOneList, Once
  <1> QED
    BY <1>1, Listed, PTL

-----------------------------------------------------------------------------
(* The power of the devices.                                               *)

(* At first every device is on.                                            *)
LEMMA InitPowered == Init => PowerInv
  <1> SUFFICES ASSUME Init PROVE PowerInv
    OBVIOUS
  <1>1. /\ Off = {} /\ OffIrq = {} /\ Active \subseteq Devices
        /\ dpm_off = <<>> /\ pc = "idle"
    BY EmptyList, InitListed, TypedLists DEF Init, Off, OffIrq, ListInv
  <1>2. \A d \in Devices : power_state[d] = 0 /\ prev_state[d] = 0 /\ hw[d]
    BY Zenon DEF Init
  <1>3. Stages
    BY <1>1 DEF Stages
  <1>4. LateApart
    BY <1>1, <1>2, DevicePmAssumption DEF LateApart
  <1>5. Powered
    BY <1>1, <1>2 DEF Powered, PoweredAlone, PoweredLate, PoweredAll, AsRecorded, Usable,
                      Moving
  <1> QED
    BY <1>3, <1>4, <1>5 DEF PowerInv

(* suspend_device changes one device, and only takes power.                *)
LEMMA SuspendOne ==
    ASSUME TypeOK, NEW d \in Devices, NEW o, suspend_device(d, o)
    PROVE  /\ \A c \in Devices : c # d => hw'[c] = hw[c] /\ prev_state'[c] = prev_state[c]
           /\ prev_state'[d] = power_state[d]
           /\ hw'[d] <=> hw[d] /\ (power_state[d] # 0 \/ o # "none")
  <1>1. /\ prev_state \in [Devices -> LowStates \cup {0}] /\ hw \in [Devices -> BOOLEAN]
        /\ prev_state' = [prev_state EXCEPT ![d] = power_state[d]]
        /\ hw' = [hw EXCEPT ![d] = @ /\ (power_state[d] # 0 \/ o # "none")]
    BY DEF TypeOK, suspend_device
  <1> QED
    BY <1>1, Zenon

(* A step that touches no list and no power.  A device that others wrote   *)
(* to is forgotten only when the next attempt begins, and is on then.      *)
LEMMA QuietStep ==
    ASSUME TypeOK, PowerInv, UNCHANGED <<registered, lists, states>>,
           pc' # "move" \/ UNCHANGED <<pc, cur, error>>,
           pc = "move" => \/ UNCHANGED <<pc, cur, error>>
                          \/ cur \notin Active,
           pc' \notin {"down", "asleep", "up"} =>
               pc \notin {"down", "asleep", "up"} \/ OffIrq = {},
           pc' \in {"down", "asleep"} => /\ pc \in {"ready", "down", "asleep"}
                                         /\ pc = "ready" => walk' = Len(dpm_off_irq)
                                         /\ pc # "ready" => walk' = walk,
           \/ meddled' = meddled
           \/ pc = "idle" /\ meddled' = {d \in meddled : power_state[d] # 0},
           Stages'
    PROVE  PowerInv'
  <1>1. Active' = Active /\ Off' = Off /\ OffIrq' = OffIrq
    BY UnmovedLists DEF lists
  <1>2. /\ dpm_off_irq' = dpm_off_irq /\ hw' = hw /\ power_state' = power_state
        /\ prev_state' = prev_state /\ registered' = registered
        /\ Stages /\ LateApart /\ PoweredAlone /\ PoweredLate /\ PoweredAll
    BY DEF lists, states, PowerInv, Powered
  <1>3. LateApart'
    BY <1>1, <1>2 DEF LateApart
  <1>4. \A d \in Active : Moving(d)' <=> Moving(d)
    BY Zenon DEF Moving
  <1>5. PoweredAll'
    BY <1>1, <1>2, <1>4 DEF PoweredAll, Usable, Revivable
  <1>6. PoweredAlone'
    <2>1. CASE meddled' = meddled
      BY <1>1, <1>2, <1>4, <2>1 DEF PoweredAlone, Asleep, AsRecorded
    <2>2. CASE pc = "idle" /\ meddled' = {d \in meddled : power_state[d] # 0}
      <3>1. Off = {} /\ \A d \in Active : ~Moving(d)
        BY <1>2, <2>2, EmptyList DEF Stages, Off, Moving
      <3>2. \A d \in Active \ meddled' : AsRecorded(d)
        BY <1>2, <2>2, <3>1 DEF PoweredAlone, PoweredAll, Usable, AsRecorded
      <3> QED
        BY <1>1, <1>2, <1>4, <3>1, <3>2 DEF PoweredAlone, AsRecorded
    <2> QED
      BY <2>1, <2>2
  <1>7. PoweredLate'
    <2>1. (pc \notin {"down", "asleep", "up"} => \A d \in OffIrq : hw[d])'
      BY <1>1, <1>2 DEF PoweredLate
    <2>2. (pc \in {"down", "asleep"} =>
               \A i \in 1 .. Len(dpm_off_irq) : i > walk => ~hw[dpm_off_irq[i]])'
      <3>1. CASE pc' \in {"down", "asleep"} /\ pc = "ready"
        <4>1. Len(dpm_off_irq) \in Nat
          BY TypedLists, Positions DEF ListsOnce, Once
        <4> QED
          BY <1>2, <3>1, <4>1
      <3>2. CASE pc' \in {"down", "asleep"} /\ pc # "ready"
        BY <1>2, <3>2 DEF PoweredLate
      <3> QED
        BY <3>1, <3>2
    <2> QED
      BY <2>1, <2>2 DEF PoweredLate
  <1> QED
    BY <1>3, <1>5, <1>6, <1>7 DEF PowerInv, Powered

(* Each step leaves every device with the power its list, the point of the *)
(* attempt and what others did to it call for.                             *)
LEMMA NextPowered == ListInv /\ PowerInv /\ [Next]_vars => PowerInv'
  <1> SUFFICES ASSUME ListInv, PowerInv, [Next]_vars PROVE PowerInv'
    OBVIOUS
  <1>0. /\ TypeOK /\ Partition /\ WalkIsLocal /\ ListsOnce /\ RestTyped
        /\ Active \subseteq Devices /\ Off \subseteq Devices /\ OffIrq \subseteq Devices
        /\ Stages /\ LateApart /\ PoweredAlone /\ PoweredLate /\ PoweredAll
        /\ Late \subseteq Devices /\ hw \in [Devices -> BOOLEAN]
    BY TypeParts, TypedLists, DevicePmAssumption DEF ListInv, PowerInv, Powered, RestTyped
  <1> USE <1>0
  <1>1. CASE SuspendDevice
    <2> DEFINE d == Last(dpm_active)
    <2>1. d \in Active /\ d \in Devices
      BY <1>1, LastOfList DEF SuspendDevice, ListsOnce, Active
    <2>2. /\ pc = "suspend" /\ pc' = "move" /\ cur' = d
          /\ power_state' = power_state /\ UNCHANGED <<registered, lists>>
          /\ meddled' = meddled
      BY <1>1 DEF SuspendDevice, history
    <2>3. PICK o \in Outcomes(d, TRUE) : suspend_device(d, o) /\ error' = o
      BY <1>1 DEF SuspendDevice
    <2>4. Active' = Active /\ Off' = Off /\ OffIrq' = OffIrq /\ dpm_off' = dpm_off
      BY <2>2, UnmovedLists DEF lists
    <2> HIDE DEF d
    <2>5. /\ \A c \in Devices : c # d => hw'[c] = hw[c] /\ prev_state'[c] = prev_state[c]
          /\ prev_state'[d] = power_state[d]
          /\ hw'[d] <=> hw[d] /\ (power_state[d] # 0 \/ o # "none")
      BY <2>1, <2>3, SuspendOne
    <2>6. d \notin Off /\ d \notin OffIrq
      BY <2>1 DEF Partition
    <2>7. /\ o = "EAGAIN" => d \in Late
          /\ o = "none" => d \notin Late
          /\ o # "none" => power_state[d] = 0
      BY <2>3 DEF Outcomes, LateApart
    <2>8. Stages'
      BY <2>2 DEF Stages
    <2>9. LateApart'
      BY <2>2, <2>3, <2>4, <2>7 DEF LateApart
    <2>10. \A c \in Active : ~Moving(c) /\ (Moving(c)' <=> c = d /\ o = "none")
      BY <2>2, <2>3 DEF Moving
    <2>11. PoweredAlone'
      <3>1. ASSUME NEW c \in Active \ meddled
            PROVE  (IF Moving(c) THEN Asleep(c) ELSE AsRecorded(c))'
        <4>0. AsRecorded(c)
          BY <2>10 DEF PoweredAlone
        <4>1. CASE c = d
          <5>1. CASE o = "none"
            BY <2>2, <2>5, <2>10, <4>0, <4>1, <5>1 DEF Asleep, AsRecorded
          <5>2. CASE o # "none"
            BY <2>2, <2>5, <2>10, <4>0, <4>1, <5>2 DEF AsRecorded
          <5> QED
            BY <5>1, <5>2
        <4>2. CASE c # d
          BY <2>2, <2>5, <2>10, <4>0, <4>2 DEF AsRecorded
        <4> QED
          BY <4>1, <4>2
      <3>2. \A c \in Off' \ meddled : Asleep(c)'
        BY <2>2, <2>4, <2>5, <2>6 DEF PoweredAlone, Asleep
      <3> QED
        BY <2>2, <2>4, <3>1, <3>2 DEF PoweredAlone
    <2>12. PoweredAll'
      <3>1. ASSUME NEW c \in Active
            PROVE  (IF Moving(c) THEN Revivable(c) ELSE Usable(c))'
        <4>0. Usable(c)
          BY <2>10 DEF PoweredAll
        <4>1. CASE c = d
          <5>1. CASE o = "none"
            BY <2>2, <2>5, <2>10, <4>1, <5>1 DEF Revivable
          <5>2. CASE o # "none"
            BY <2>2, <2>5, <2>10, <4>0, <4>1, <5>2 DEF Usable
          <5> QED
            BY <5>1, <5>2
        <4>2. CASE c # d
          BY <2>2, <2>5, <2>10, <4>0, <4>2 DEF Usable
        <4> QED
          BY <4>1, <4>2
      <3>2. \A c \in Off' : Revivable(c)'
        BY <2>2, <2>4, <2>5, <2>6 DEF PoweredAll, Revivable
      <3> QED
        BY <2>4, <3>1, <3>2 DEF PoweredAll
    <2>13. PoweredLate'
      BY <2>2, <2>4, <2>5, <2>6 DEF PoweredLate
    <2> QED
      BY <2>8, <2>9, <2>11, <2>12, <2>13 DEF PowerInv, Powered
  <1>2. CASE MoveSuspended
    <2>1. /\ cur \in Active /\ cur \in Devices
          /\ Active' = IF error = "EBUSY" THEN Active ELSE Active \ {cur}
          /\ Off' = IF error = "none" THEN Off \cup {cur} ELSE Off
          /\ OffIrq' = IF error = "EAGAIN" THEN OffIrq \cup {cur} ELSE OffIrq
      BY <1>2, MoveLists
    <2>2. /\ pc = "move" /\ pc' = "suspend" /\ UNCHANGED <<hw, power_state, prev_state, cur>>
          /\ error \in {"none", "EBUSY", "EAGAIN"} /\ meddled' = meddled
          /\ cur \in registered
      BY <1>2 DEF MoveSuspended, states, RestTyped, history
    <2>3. Stages'
      BY <2>2 DEF Stages
    <2>4. LateApart'
      BY <2>1, <2>2 DEF LateApart
    <2>5. \A c \in Devices : ~Moving(c)' /\ (Moving(c) <=> c = cur /\ error = "none")
      BY <2>2 DEF Moving
    <2>6. error = "EAGAIN" => hw[cur]
      BY <2>1, <2>2, <2>5 DEF LateApart, PoweredAll, Usable
    <2>7. PoweredAlone'
      <3>1. \A c \in Active' \ meddled : AsRecorded(c)'
        BY <2>1, <2>2, <2>5 DEF PoweredAlone, AsRecorded
      <3>2. \A c \in Off' \ meddled : Asleep(c)'
        BY <2>1, <2>2, <2>5 DEF PoweredAlone, Asleep
      <3> QED
        BY <2>1, <2>2, <2>5, <3>1, <3>2 DEF PoweredAlone
    <2>8. PoweredAll'
      <3>1. \A c \in Active' : Usable(c)'
        BY <2>1, <2>2, <2>5 DEF PoweredAll, Usable
      <3>2. \A c \in Off' : Revivable(c)'
        BY <2>1, <2>2, <2>5 DEF PoweredAll, Revivable
      <3> QED
        BY <2>1, <2>5, <3>1, <3>2 DEF PoweredAll
    <2>9. PoweredLate'
      BY <2>1, <2>2, <2>6 DEF PoweredLate
    <2> QED
      BY <2>3, <2>4, <2>7, <2>8, <2>9 DEF PowerInv, Powered
  <1>3. CASE PowerDownDevice
    <2> DEFINE d == dpm_off_irq[walk]
    <2>1. /\ dpm_off_irq \in Seq(Devices) /\ IsInjective(dpm_off_irq)
          /\ Len(dpm_off_irq) \in Nat /\ walk \in 1 .. Len(dpm_off_irq)
      <3>1. dpm_off_irq \in Seq(Devices) /\ IsInjective(dpm_off_irq)
        BY DEF ListsOnce, Once
      <3>2. walk \in 0 .. Len(dpm_off_irq) /\ walk > 0
        BY <1>3, TypeParts DEF PowerDownDevice
      <3> QED
        BY <3>1, <3>2, Positions
    <2>2. d \in OffIrq /\ d \in Devices
      BY <2>1, Positions DEF OffIrq
    <2>3. /\ pc = "down" /\ power_state' = power_state
          /\ UNCHANGED <<registered, lists, cur, error>> /\ meddled' = meddled
      BY <1>3 DEF PowerDownDevice, history
    <2>4. PICK o \in Outcomes(d, FALSE) :
              /\ suspend_device(d, o)
              /\ pc' = IF o = "none" THEN "down" ELSE "up"
              /\ walk' = IF o = "none" THEN walk - 1 ELSE 0
      BY <1>3 DEF PowerDownDevice
    <2>5. /\ Active' = Active /\ Off' = Off /\ OffIrq' = OffIrq /\ dpm_off' = dpm_off
          /\ dpm_off_irq' = dpm_off_irq
      BY <2>3, UnmovedLists DEF lists
    <2>6. /\ \A c \in Devices : c # d => hw'[c] = hw[c] /\ prev_state'[c] = prev_state[c]
          /\ hw'[d] <=> hw[d] /\ (power_state[d] # 0 \/ o # "none")
      BY <2>2, <2>4, SuspendOne
    <2>7. d \notin Off /\ d \notin Active /\ power_state[d] = 0
      BY <2>2 DEF Partition, LateApart
    <2>8. Stages'
      BY <2>3, <2>4, <2>5 DEF Stages
    <2>9. LateApart'
      BY <2>3, <2>4, <2>5 DEF LateApart
    <2>10. pc' = "down" =>
               \A i \in 1 .. Len(dpm_off_irq') : i > walk' => ~hw'[dpm_off_irq'[i]]
      <3> SUFFICES ASSUME o = "none", NEW i \in 1 .. Len(dpm_off_irq), i > walk - 1
                   PROVE  ~hw'[dpm_off_irq[i]]
        BY <2>4, <2>5
      <3>1. CASE i = walk
        BY <2>6, <2>7, <3>1
      <3>2. CASE i # walk
        <4>1. i > walk
          BY <2>1, <3>2
        <4>2. ~hw[dpm_off_irq[i]]
          BY <2>3, <4>1 DEF PoweredLate
        <4>3. dpm_off_irq[i] # d /\ dpm_off_irq[i] \in Devices
          BY <2>1, <3>2, Positions
        <4> QED
          BY <2>6, <4>2, <4>3
      <3> QED
        BY <3>1, <3>2
    <2>11. PoweredLate'
      BY <2>4, <2>10 DEF PoweredLate
    <2> HIDE DEF d
    <2>12. \A c \in Active : ~Moving(c) /\ ~Moving(c)'
      BY <2>3, <2>4 DEF Moving
    <2>13. PoweredAlone'
      <3>1. \A c \in Active \ meddled : AsRecorded(c)'
        BY <2>3, <2>6, <2>7, <2>12 DEF PoweredAlone, AsRecorded
      <3>2. \A c \in Off \ meddled : Asleep(c)'
        BY <2>3, <2>6, <2>7 DEF PoweredAlone, Asleep
      <3> QED
        BY <2>3, <2>5, <2>12, <3>1, <3>2 DEF PoweredAlone
    <2>14. PoweredAll'
      <3>1. \A c \in Active : Usable(c)'
        BY <2>3, <2>6, <2>7, <2>12 DEF PoweredAll, Usable
      <3>2. \A c \in Off : Revivable(c)'
        BY <2>3, <2>6, <2>7 DEF PoweredAll, Revivable
      <3> QED
        BY <2>5, <2>12, <3>1, <3>2 DEF PoweredAll
    <2> QED
      BY <2>8, <2>9, <2>11, <2>13, <2>14 DEF PowerInv, Powered
  <1>4. CASE PowerUpDevice
    <2>0. PICK d \in Devices : d = Head(dpm_off_irq)
      BY <1>4, PowerUpLists
    <2>1. /\ d \in OffIrq /\ d \in Devices
          /\ Active' = Active \cup {d} /\ Off' = Off /\ OffIrq' = OffIrq \ {d}
      BY <1>4, <2>0, PowerUpLists
    <2>2. /\ pc = "up" /\ pc' = "up" /\ UNCHANGED <<cur, error, power_state, prev_state>>
          /\ hw' = [hw EXCEPT ![d] = TRUE] /\ meddled' = meddled /\ registered' = registered
      BY <1>4, <2>0 DEF PowerUpDevice, history
    <2>3. hw'[d] /\ \A c \in Devices : c # d => hw'[c] = hw[c]
      BY <2>1, <2>2, Zenon
    <2>4. Stages'
      BY <2>1, <2>2 DEF Stages, LateApart
    <2>5. LateApart'
      BY <2>1, <2>2 DEF LateApart
    <2>6. power_state'[d] = 0 /\ d \notin Active /\ d \notin Off
      BY <2>1, <2>2 DEF LateApart, Partition
    <2>7. \A c \in Devices : ~Moving(c) /\ ~Moving(c)'
      BY <2>2 DEF Moving
    <2>8. PoweredAlone'
      <3>1. \A c \in Active \ meddled : AsRecorded(c)'
        BY <2>2, <2>3, <2>6, <2>7 DEF PoweredAlone, AsRecorded
      <3>2. AsRecorded(d)'
        BY <2>3, <2>6 DEF AsRecorded
      <3>3. \A c \in Off \ meddled : Asleep(c)'
        BY <2>2, <2>3, <2>6 DEF PoweredAlone, Asleep
      <3> QED
        BY <2>1, <2>2, <2>7, <3>1, <3>2, <3>3 DEF PoweredAlone
    <2>9. PoweredAll'
      <3>1. \A c \in Active \cup {d} : Usable(c)'
        BY <2>2, <2>3, <2>6, <2>7 DEF PoweredAll, Usable
      <3>2. \A c \in Off : Revivable(c)'
        BY <2>2, <2>3, <2>6 DEF PoweredAll, Revivable
      <3> QED
        BY <2>1, <2>7, <3>1, <3>2 DEF PoweredAll
    <2>10. PoweredLate'
      BY <2>2 DEF PoweredLate
    <2> QED
      BY <2>4, <2>5, <2>8, <2>9, <2>10 DEF PowerInv, Powered
  <1>5. CASE ResumeDevice
    <2>0. PICK d \in Devices : d = Head(dpm_off)
      BY <1>5, ResumeLists
    <2>1. /\ d \in Off /\ d \in Devices
          /\ Active' = Active \cup {d} /\ Off' = Off \ {d} /\ OffIrq' = OffIrq
      BY <1>5, <2>0, ResumeLists
    <2>2. /\ pc = "resume" /\ pc' = "resume"
          /\ UNCHANGED <<cur, error, power_state, prev_state>>
          /\ hw' = [hw EXCEPT ![d] = @ \/ prev_state[d] = 0]
          /\ meddled' = meddled /\ registered' = registered
      BY <1>5, <2>0 DEF ResumeDevice, history
    <2>3. /\ hw'[d] <=> hw[d] \/ prev_state[d] = 0
          /\ \A c \in Devices : c # d => hw'[c] = hw[c]
      BY <2>1, <2>2, Zenon
    <2>4. Stages'
      BY <2>2 DEF Stages
    <2>5. LateApart'
      BY <2>1, <2>2 DEF LateApart
    <2>6. d \notin Active /\ d \notin OffIrq
      BY <2>1 DEF Partition
    <2>7. \A c \in Devices : ~Moving(c) /\ ~Moving(c)'
      BY <2>2 DEF Moving
    <2>8. PoweredAlone'
      <3>1. \A c \in Active \ meddled : AsRecorded(c)'
        BY <2>2, <2>3, <2>6, <2>7 DEF PoweredAlone, AsRecorded
      <3>2. d \notin meddled => AsRecorded(d)'
        BY <2>1, <2>2, <2>3 DEF PoweredAlone, Asleep, AsRecorded
      <3>3. \A c \in Off' \ meddled : Asleep(c)'
        BY <2>1, <2>2, <2>3 DEF PoweredAlone, Asleep
      <3> QED
        BY <2>1, <2>2, <2>7, <3>1, <3>2, <3>3 DEF PoweredAlone
    <2>9. PoweredAll'
      <3>1. \A c \in Active : Usable(c)'
        BY <2>2, <2>3, <2>6, <2>7 DEF PoweredAll, Usable
      <3>2. Usable(d)'
        BY <2>1, <2>2, <2>3 DEF PoweredAll, Usable, Revivable
      <3>3. \A c \in Off' : Revivable(c)'
        BY <2>1, <2>2, <2>3 DEF PoweredAll, Revivable
      <3> QED
        BY <2>1, <2>7, <3>1, <3>2, <3>3 DEF PoweredAll
    <2>10. PoweredLate'
      BY <2>1, <2>2, <2>3, <2>6 DEF PoweredLate
    <2> QED
      BY <2>4, <2>5, <2>8, <2>9, <2>10 DEF PowerInv, Powered
  <1>6. ASSUME NEW d \in Devices, device_pm_add(d) PROVE PowerInv'
    <2>1. d \notin Active /\ Active' = Active \cup {d} /\ Off' = Off /\ OffIrq' = OffIrq
      BY <1>6, AddLists
    <2>2. /\ UNCHANGED <<pc, cur, error, dpm_off>> /\ d \notin registered
          /\ pc \notin {"down", "asleep", "up"} /\ registered' = registered \cup {d}
          /\ meddled' = IF pc = "ready" THEN meddled \cup {d} ELSE meddled \ {d}
          /\ power_state' = [power_state EXCEPT ![d] = 0]
          /\ prev_state' = [prev_state EXCEPT ![d] = 0]
          /\ hw' = [hw EXCEPT ![d] = TRUE]
      BY <1>6 DEF device_pm_add, Others
    <2>3. /\ hw'[d] /\ power_state'[d] = 0
          /\ \A c \in Devices : c # d => /\ hw'[c] = hw[c] /\ power_state'[c] = power_state[c]
                                         /\ prev_state'[c] = prev_state[c]
      <3>1. /\ power_state \in [Devices -> LowStates \cup {0}]
            /\ prev_state \in [Devices -> LowStates \cup {0}]
        BY DEF RestTyped
      <3> QED
        BY <2>2, <3>1, Zenon
    <2>4. d \notin Off /\ d \notin OffIrq /\ d # cur
      BY <2>2, DevicePmAssumption DEF Partition
    <2>5. \A c \in Devices : (Moving(c)' <=> Moving(c)) /\ ~Moving(d)
      BY <2>2, <2>4 DEF Moving
    <2>6. Stages'
      BY <2>1, <2>2 DEF Stages
    <2>7. LateApart'
      BY <2>1, <2>2, <2>3, <2>4 DEF LateApart
    <2>8. PoweredAlone'
      <3>1. AsRecorded(d)'
        BY <2>3 DEF AsRecorded
      <3>2. \A c \in Active \ meddled : (IF Moving(c) THEN Asleep(c) ELSE AsRecorded(c))'
        BY <2>1, <2>3, <2>5 DEF PoweredAlone, Asleep, AsRecorded
      <3>3. \A c \in Off \ meddled : Asleep(c)'
        BY <2>3, <2>4 DEF PoweredAlone, Asleep
      <3> QED
        BY <2>1, <2>2, <2>4, <2>5, <3>1, <3>2, <3>3 DEF PoweredAlone
    <2>9. PoweredAll'
      <3>1. Usable(d)'
        BY <2>3 DEF Usable
      <3>2. \A c \in Active : (IF Moving(c) THEN Revivable(c) ELSE Usable(c))'
        BY <2>1, <2>3, <2>5 DEF PoweredAll, Revivable, Usable
      <3>3. \A c \in Off : Revivable(c)'
        BY <2>3, <2>4 DEF PoweredAll, Revivable
      <3> QED
        BY <2>1, <2>5, <3>1, <3>2, <3>3 DEF PoweredAll
    <2>10. PoweredLate'
      BY <2>1, <2>2, <2>3, <2>4 DEF PoweredLate
    <2> QED
      BY <2>6, <2>7, <2>8, <2>9, <2>10 DEF PowerInv, Powered
  <1>7. ASSUME NEW d \in Devices, device_pm_remove(d) PROVE PowerInv'
    <2>1. Active' = Active \ {d} /\ Off' = Off \ {d} /\ OffIrq' = OffIrq \ {d}
      BY <1>7, RemoveLists
    <2>2. /\ pc \notin {"down", "asleep", "up"} /\ UNCHANGED <<pc, error>>
          /\ UNCHANGED <<hw, power_state, prev_state>> /\ meddled' = meddled
          /\ registered' = registered \ {d} /\ dpm_off' = Without(dpm_off, d)
          /\ cur' = IF cur = d THEN NoDevice ELSE cur
      BY <1>7 DEF device_pm_remove, Others, states, history
    <2>3. dpm_off = <<>> => dpm_off' = <<>>
      BY <2>2, EmptyList DEF Without
    <2>4. Stages'
      BY <2>1, <2>2, <2>3 DEF Stages
    <2>5. LateApart'
      BY <2>1, <2>2, DevicePmAssumption DEF LateApart, RestTyped
    <2>6. \A c \in Active' : Moving(c)' <=> Moving(c)
      BY <2>1, <2>2, DevicePmAssumption DEF Moving
    <2>7. PoweredAlone'
      BY <2>1, <2>2, <2>6 DEF PoweredAlone, Asleep, AsRecorded
    <2>8. PoweredAll'
      BY <2>1, <2>2, <2>6 DEF PoweredAll, Usable, Revivable
    <2>9. PoweredLate'
      BY <2>1, <2>2 DEF PoweredLate
    <2> QED
      BY <2>4, <2>5, <2>7, <2>8, <2>9 DEF PowerInv, Powered
  <1>8. ASSUME NEW d \in Devices, Runtime(d), NEW s \in LowStates,
               dpm_runtime_resume(d) \/ dpm_runtime_suspend(d, s)
        PROVE PowerInv'
    <2>1. /\ pc \in {"idle", "ready", "finish"} /\ UNCHANGED <<registered, lists, pc, cur, error>>
          /\ d \in registered
          /\ meddled' = IF pc = "idle" THEN meddled \ {d} ELSE meddled \cup {d}
      BY <1>8 DEF Runtime
    <2>2. Active' = Active /\ Off' = Off /\ OffIrq' = OffIrq /\ dpm_off' = dpm_off
      BY <2>1, UnmovedLists DEF lists
    <2>3. \A c \in Devices : ~Moving(c) /\ ~Moving(c)'
      BY <2>1 DEF Moving
    <2>4. /\ d \in Active \/ d \in Off \/ d \in OffIrq
          /\ d \in Active \cup OffIrq => Usable(d)
      BY <2>1, <2>3 DEF Partition, PoweredAll, PoweredLate, Usable
    <2>5. /\ \A c \in Devices : c # d => /\ hw'[c] = hw[c] /\ power_state'[c] = power_state[c]
                                         /\ prev_state'[c] = prev_state[c]
          /\ d \in Late => power_state'[d] = 0
          /\ Usable(d) => (hw'[d] <=> power_state'[d] = 0)
          /\ hw'[d] \/ prev_state'[d] = 0
      <3>1. /\ power_state \in [Devices -> LowStates \cup {0}]
            /\ prev_state \in [Devices -> LowStates \cup {0}] /\ s # 0
        BY DevicePmAssumption DEF RestTyped
      <3>2. CASE dpm_runtime_resume(d)
        BY <3>1, <3>2, Zenon DEF dpm_runtime_resume
      <3>3. CASE dpm_runtime_suspend(d, s)
        BY <3>1, <3>3, Zenon DEF dpm_runtime_suspend, Usable
      <3> QED
        BY <1>8, <3>2, <3>3
    <2>6. Stages'
      BY <2>1, <2>2 DEF Stages
    <2>7. LateApart'
      BY <2>1, <2>2, <2>5 DEF LateApart
    <2>8. PoweredAlone'
      <3>1. CASE pc = "idle"
        <4>1. Off = {}
          BY <3>1, EmptyList DEF Stages, Off
        <4>2. \A c \in Active : c # d /\ c \notin meddled => AsRecorded(c)'
          BY <2>3, <2>5 DEF PoweredAlone, AsRecorded
        <4>3. d \in Active => AsRecorded(d)'
          BY <2>4, <2>5 DEF AsRecorded
        <4> QED
          BY <2>1, <2>2, <2>3, <3>1, <4>1, <4>2, <4>3 DEF PoweredAlone
      <3>2. CASE pc # "idle"
        <4>1. \A c \in Active : c # d /\ c \notin meddled => AsRecorded(c)'
          BY <2>3, <2>5 DEF PoweredAlone, AsRecorded
        <4>2. \A c \in Off : c # d /\ c \notin meddled => Asleep(c)'
          BY <2>5 DEF PoweredAlone, Asleep
        <4> QED
          BY <2>1, <2>2, <2>3, <3>2, <4>1, <4>2 DEF PoweredAlone
      <3> QED
        BY <3>1, <3>2
    <2>9. PoweredAll'
      <3>1. \A c \in Active : Usable(c)'
        BY <2>3, <2>4, <2>5 DEF PoweredAll, Usable
      <3>2. \A c \in Off : Revivable(c)'
        BY <2>5 DEF PoweredAll, Revivable
      <3> QED
        BY <2>2, <2>3, <3>1, <3>2 DEF PoweredAll
    <2>10. PoweredLate'
      <3>1. d \in OffIrq => hw'[d]
        BY <2>4, <2>5 DEF LateApart
      <3> QED
        BY <2>1, <2>2, <2>5, <3>1 DEF PoweredLate
    <2> QED
      BY <2>6, <2>7, <2>8, <2>9, <2>10 DEF PowerInv, Powered
  <1>9. CASE EnterState
    BY <1>9, QuietStep DEF EnterState, Stages
  <1>10. CASE MoveRemoved
    <2>1. cur \notin Active /\ Stages'
      BY <1>10 DEF MoveRemoved, Partition, Stages
    <2> QED
      BY <1>10, <2>1, QuietStep DEF MoveRemoved, history
  <1>11. CASE SuspendEnds
    <2>1. pc' = "ready" => Active' = {} /\ error' = "none"
      BY <1>11, UnmovedLists, EmptyList DEF SuspendEnds, Active
    <2>2. Stages'
      BY <1>11, <2>1 DEF Stages, SuspendEnds
    <2> QED
      BY <1>11, <2>2, QuietStep DEF SuspendEnds, history
  <1>12. CASE MpmReadyToSleep
    <2>1. Stages'
      BY <1>12, UnmovedLists DEF Stages, MpmReadyToSleep, history
    <2> QED
      BY <1>12, <2>1, QuietStep DEF MpmReadyToSleep, history
  <1>13. CASE SysdevSuspend \/ Wake
    <2>1. Stages'
      BY <1>13, UnmovedLists DEF Stages, SysdevSuspend, Wake, history
    <2> QED
      BY <1>13, <2>1, QuietStep DEF SysdevSuspend, Wake, history
  <1>14. CASE PowerUpEnds
    <2>1. OffIrq = {}
      BY <1>14, EmptyList DEF PowerUpEnds, OffIrq
    <2>2. Stages'
      BY <1>14 DEF Stages, PowerUpEnds
    <2> QED
      BY <1>14, <2>1, <2>2, QuietStep DEF PowerUpEnds, history
  <1>15. CASE SuspendFinish
    <2>1. Stages'
      BY <1>15 DEF Stages, SuspendFinish
    <2> QED
      BY <1>15, <2>1, QuietStep DEF SuspendFinish, history
  <1>16. CASE ResumeEnds
    <2>1. Stages'
      BY <1>16 DEF Stages, ResumeEnds, lists
    <2> QED
      BY <1>16, <2>1, QuietStep DEF ResumeEnds, history
  <1>17. CASE UNCHANGED vars
    <2>1. Stages'
      BY <1>17, UnmovedLists DEF Stages, vars, lists, history
    <2>2. /\ UNCHANGED <<registered, lists, states>> /\ UNCHANGED <<pc, cur, error, walk>>
          /\ meddled' = meddled
      BY <1>17 DEF vars, history
    <2>3. pc \in {"idle", "suspend", "move", "ready", "down", "asleep", "up", "finish",
                  "resume"}
      BY DEF RestTyped
    <2> QED
      BY <2>1, <2>2, <2>3, QuietStep
  <1>18. ASSUME NEW d \in Devices, dpm_runtime_resume(d) PROVE PowerInv'
    <2>1. Runtime(d) /\ power_state[d] # 0 /\ power_state[d] \in LowStates \cup {0}
      BY <1>18 DEF dpm_runtime_resume, RestTyped
    <2> QED
      BY <1>8, <1>18, <2>1
  <1>19. ASSUME NEW d \in Devices, NEW s \in LowStates, dpm_runtime_suspend(d, s)
         PROVE  PowerInv'
    BY <1>8, <1>19 DEF dpm_runtime_suspend
  <1> QED
    BY <1>1, <1>2, <1>3, <1>4, <1>5, <1>6, <1>7, <1>9, <1>10, <1>11, <1>12, <1>13, <1>14,
       <1>15, <1>16, <1>17, <1>18, <1>19 DEF Next, Attempt

(* The inductive invariant of the power states.                            *)
LEMMA PoweredAlways == Spec => [](ListInv /\ PowerInv)
  <1>1. Init => ListInv /\ PowerInv
    BY InitListed, InitPowered
  <1>2. ListInv /\ PowerInv /\ [Next]_vars => (ListInv /\ PowerInv)'
    BY NextListed, NextPowered
  <1> QED
    BY <1>1, <1>2, PTL DEF Spec

(* When the platform sleeps, no device has power that others left alone.   *)
THEOREM SleepIsComplete == Spec => []AsleepAllOff
  <1>1. ListInv /\ PowerInv => AsleepAllOff
    <2> SUFFICES ASSUME ListInv, PowerInv, pc = "asleep", NEW d \in registered \ meddled
                 PROVE  ~hw[d]
      BY DEF AsleepAllOff
    <2>1. (d \in Off \/ d \in OffIrq) /\ walk = 0
      BY DEF PowerInv, Stages, ListInv, Partition, WalkIsLocal
    <2>2. CASE d \in Off
      BY <2>2 DEF PowerInv, Powered, PoweredAlone, Asleep
    <2>3. CASE d \in OffIrq
      <3>1. PICK i \in 1 .. Len(dpm_off_irq) : dpm_off_irq[i] = d
        BY <2>3, TypedLists, Positions DEF ListInv, ListsOnce, Once, OffIrq
      <3>2. i > walk
        BY <2>1
      <3> QED
        BY <3>1, <3>2 DEF PowerInv, Powered, PoweredLate
    <2> QED
      BY <2>1, <2>2, <2>3
  <1> QED
    BY <1>1, PoweredAlways, PTL

(* After an attempt, however it ended, every device that others left alone *)
(* is as recorded.                                                         *)
THEOREM AttemptRestores == Spec => []Restored
  <1>1. ListInv /\ PowerInv => Restored
    <2> SUFFICES ASSUME ListInv, PowerInv, pc = "idle"
                 PROVE  /\ dpm_off = <<>>
                        /\ \A d \in registered \ meddled : hw[d] <=> power_state[d] = 0
      BY DEF Restored
    <2>1. dpm_off = <<>> /\ Off = {}
      BY EmptyList DEF PowerInv, Stages, Off
    <2>2. \A d \in registered : d \in Active \/ d \in OffIrq
      BY <2>1 DEF ListInv, Partition
    <2> QED
      BY <2>1, <2>2 DEF PowerInv, Powered, PoweredAlone, PoweredLate, AsRecorded, LateApart,
                        Moving
  <1> QED
    BY <1>1, PoweredAlways, PTL

-----------------------------------------------------------------------------
(* The order of the walks.                                                 *)

(* Up is the parent of a device that is not astray; late devices have a    *)
(* late one.                                                               *)
LEMMA UpParent ==
    \A d \in Devices :
        /\ Up[d] = NoDevice \/ Up[d] = Parent[d]
        /\ ~Astray(d) => Up[d] = Parent[d]
        /\ d \in Late => Up[d] \in Late \cup {NoDevice}
  <1> SUFFICES ASSUME NEW d \in Devices
               PROVE  /\ Up[d] = NoDevice \/ Up[d] = Parent[d]
                      /\ ~Astray(d) => Up[d] = Parent[d]
                      /\ d \in Late => Up[d] \in Late \cup {NoDevice}
    OBVIOUS
  <1>1. Up[d] = IF Astray(d) THEN NoDevice ELSE Parent[d]
    BY DEF Up
  <1>2. d \in Late /\ ~Astray(d) => Parent[d] \in Late
    BY DEF Astray
  <1> QED
    BY <1>1, <1>2

(* Only registration changes which devices are astray.                     *)
LEMMA UpSame == misplaced' = misplaced => Up' = Up
  <1> SUFFICES ASSUME misplaced' = misplaced PROVE Up' = Up
    OBVIOUS
  <1>1. \A d \in Devices : Astray(d)' <=> Astray(d)
    BY DEF Astray
  <1> QED
    BY <1>1 DEF Up

(* Discovery is parents first.                                             *)
LEMMA InitOrdered == Init => Ordered
  <1> SUFFICES ASSUME Init PROVE Ordered
    OBVIOUS
  <1>1. /\ Off = {} /\ OffIrq = {} /\ ParentsFirst(Parent, dpm_active)
        /\ ParentsFirst(Up, dpm_off) /\ ParentsFirst(Up, dpm_off_irq)
        /\ Once(dpm_active) /\ Active \subseteq Devices
    BY EmptyList, InitListed, TypedLists DEF Init, Off, OffIrq, ListInv, ListsOnce
  <1>2. registered = Devices /\ pc = "idle"
    BY DEF Init
  <1>3. ParentsFirst(Up, dpm_active)
    <2>1. /\ dpm_active \in Seq(Devices)
          /\ \A i \in 1 .. Len(dpm_active) : dpm_active[i] \in Devices
      BY <1>1, Positions DEF Once
    <2>2. \A i, j \in 1 .. Len(dpm_active) :
              Up[dpm_active[j]] = dpm_active[i] => Parent[dpm_active[j]] = dpm_active[i]
      BY <2>1, UpParent, DevicePmAssumption
    <2> QED
      BY <1>1, <2>2 DEF ParentsFirst
  <1>4. InOrder
    BY <1>1, <1>2, <1>3, DevicePmAssumption DEF InOrder
  <1>5. Ahead
    BY <1>1, <1>2 DEF Ahead
  <1> QED
    BY <1>4, <1>5 DEF Ordered

(* Every step keeps parents in front of their children.                    *)
LEMMA NextOrdered == ListInv /\ PowerInv /\ Ordered /\ [Next]_vars => Ordered'
  <1> SUFFICES ASSUME ListInv, PowerInv, Ordered, [Next]_vars
               PROVE  Ordered'
    OBVIOUS
  <1>0. /\ TypeOK /\ Partition /\ ListsOnce /\ RestTyped
        /\ Active \subseteq Devices /\ Off \subseteq Devices /\ OffIrq \subseteq Devices
        /\ Stages /\ LateApart /\ registered \subseteq Devices
        /\ Once(dpm_active) /\ Once(dpm_off) /\ Once(dpm_off_irq)
        /\ \A d \in registered : Parent[d] \in registered \cup {NoDevice}
        /\ ParentsFirst(Up, dpm_active) /\ ParentsFirst(Up, dpm_off)
        /\ ParentsFirst(Up, dpm_off_irq)
        /\ Ahead /\ NoDevice \notin Devices
    BY TypeParts, TypedLists, DevicePmAssumption
       DEF ListInv, PowerInv, Ordered, InOrder, ListsOnce, RestTyped
  <1> USE <1>0
  <1>1. CASE SuspendDevice
    <2>1. /\ Active' = Active /\ Off' = Off /\ OffIrq' = OffIrq /\ Up' = Up
          /\ UNCHANGED <<registered, dpm_active, dpm_off, dpm_off_irq>>
          /\ cur' = Last(dpm_active) /\ dpm_active # <<>> /\ pc' = "move"
      BY <1>1, UnmovedLists, UpSame DEF SuspendDevice, lists, history
    <2>2. \A d \in Active : Up[d] # cur'
      BY <2>1, LastOfList DEF Active
    <2> QED
      BY <2>1, <2>2 DEF Ordered, InOrder, Ahead
  <1>2. CASE MoveSuspended
    <2>1. /\ cur \in Active /\ cur \in Devices
          /\ Active' = IF error = "EBUSY" THEN Active ELSE Active \ {cur}
          /\ Off' = IF error = "none" THEN Off \cup {cur} ELSE Off
          /\ OffIrq' = IF error = "EAGAIN" THEN OffIrq \cup {cur} ELSE OffIrq
      BY <1>2, MoveLists
    <2>2. /\ pc = "move" /\ pc' = "suspend" /\ registered' = registered /\ cur \in registered
          /\ error \in {"none", "EBUSY", "EAGAIN"} /\ Up' = Up
          /\ dpm_active' = IF error = "EBUSY" THEN dpm_active ELSE Without(dpm_active, cur)
          /\ dpm_off' = IF error = "none" THEN <<cur>> \o dpm_off ELSE dpm_off
          /\ dpm_off_irq' = IF error = "EAGAIN" THEN <<cur>> \o dpm_off_irq ELSE dpm_off_irq
      BY <1>2, UpSame DEF MoveSuspended, RestTyped, history
    <2>3. ParentsFirst(Up, dpm_active')
      BY <2>2, WithoutList, Zenon
    <2>4. /\ error = "none" => Up[cur] # cur /\ \A d \in Active : Up[d] # cur
          /\ error = "EAGAIN" => /\ cur \in Late /\ Up[cur] # cur
                                 /\ \A d \in Active \cap Late : Up[d] # cur
      BY <2>1, <2>2 DEF Ahead, LateApart
    <2>5. ParentsFirst(Up, dpm_off')
      <3>1. cur \notin ToSet(dpm_off) /\ Up[cur] \notin ToSet(dpm_off)
        BY <2>1 DEF Off, Partition, Ahead
      <3>2. error = "none" => ParentsFirst(Up, <<cur>> \o dpm_off)
        BY <2>1, <2>4, <3>1, PushList, Zenon
      <3> QED
        BY <2>2, <3>2, Zenon
    <2>6. ParentsFirst(Up, dpm_off_irq')
      <3>1. cur \notin ToSet(dpm_off_irq)
        BY <2>1 DEF OffIrq, Partition
      <3>2. error = "EAGAIN" => Up[cur] \notin ToSet(dpm_off_irq)
        BY <2>1, <2>4 DEF OffIrq, Ahead
      <3>3. error = "EAGAIN" => ParentsFirst(Up, <<cur>> \o dpm_off_irq)
        BY <2>1, <2>4, <3>1, <3>2, PushList, Zenon
      <3> QED
        BY <2>2, <3>3, Zenon
    <2>7. InOrder'
      BY <2>2, <2>3, <2>5, <2>6 DEF InOrder
    <2>8. \A d \in Active' : Up[d] \notin Off'
      BY <2>1, <2>2, <2>4 DEF Ahead
    <2>9. \A d \in Active' \cap Late : Up[d] \notin OffIrq'
      BY <2>1, <2>2, <2>4 DEF Ahead
    <2>10. Ahead'
      BY <2>2, <2>8, <2>9 DEF Ahead
    <2> QED
      BY <2>7, <2>10 DEF Ordered
  <1>3. CASE PowerUpDevice
    <2>0. PICK h \in Devices : h = Head(dpm_off_irq)
      BY <1>3, PowerUpLists
    <2>1. /\ h \in OffIrq
          /\ Active' = Active \cup {h} /\ Off' = Off /\ OffIrq' = OffIrq \ {h}
      BY <1>3, <2>0, PowerUpLists
    <2>2. /\ pc = "up" /\ pc' = "up" /\ registered' = registered /\ Up' = Up
          /\ dpm_off' = dpm_off /\ dpm_off_irq # <<>> /\ dpm_off_irq' = Tail(dpm_off_irq)
          /\ dpm_active' = Append(dpm_active, h)
      BY <1>3, <2>0, UpSame DEF PowerUpDevice, history
    <2>3. ParentsFirst(Up, dpm_off_irq') /\ Up[h] \notin OffIrq
      BY <2>0, <2>2, TailList, Zenon DEF OffIrq
    <2>4. Up[h] \notin Off
      BY <2>1, UpParent DEF LateApart
    <2>5. ParentsFirst(Up, dpm_active')
      <3>1. h \notin ToSet(dpm_active) /\ Up[h] # h
        BY <2>1, <2>3 DEF Partition, Active
      <3>2. \A c \in ToSet(dpm_active) : Up[c] # h
        BY <2>1, <2>2 DEF Active, Ahead
      <3> QED
        BY <2>2, <3>1, <3>2, AppendList, Zenon
    <2>6. InOrder'
      BY <2>2, <2>3, <2>5 DEF InOrder
    <2>7. \A d \in Active' : Up[d] \notin Off' /\ Up[d] \notin OffIrq'
      BY <2>1, <2>2, <2>3, <2>4 DEF Ahead
    <2>8. Ahead'
      BY <2>2, <2>7 DEF Ahead
    <2> QED
      BY <2>6, <2>8 DEF Ordered
  <1>4. CASE ResumeDevice
    <2>0. PICK h \in Devices : h = Head(dpm_off)
      BY <1>4, ResumeLists
    <2>1. /\ h \in Off
          /\ Active' = Active \cup {h} /\ Off' = Off \ {h} /\ OffIrq' = OffIrq
      BY <1>4, <2>0, ResumeLists
    <2>2. /\ pc = "resume" /\ pc' = "resume" /\ registered' = registered /\ Up' = Up
          /\ dpm_off_irq' = dpm_off_irq /\ dpm_off # <<>> /\ dpm_off' = Tail(dpm_off)
          /\ dpm_active' = Append(dpm_active, h)
      BY <1>4, <2>0, UpSame DEF ResumeDevice, history
    <2>3. ParentsFirst(Up, dpm_off') /\ Up[h] \notin Off
      BY <2>0, <2>2, TailList, Zenon DEF Off
    <2>4. h \notin Late
      BY <2>1 DEF LateApart
    <2>5. ParentsFirst(Up, dpm_active')
      <3>1. h \notin ToSet(dpm_active) /\ Up[h] # h
        BY <2>1, <2>3 DEF Partition, Active
      <3>2. \A c \in ToSet(dpm_active) : Up[c] # h
        BY <2>1 DEF Active, Ahead
      <3> QED
        BY <2>2, <3>1, <3>2, AppendList, Zenon
    <2>6. InOrder'
      BY <2>2, <2>3, <2>5 DEF InOrder
    <2>7. /\ \A d \in Active' : Up[d] \notin Off'
          /\ \A d \in Active' \cap Late : Up[d] \notin OffIrq'
      BY <2>1, <2>3, <2>4 DEF Ahead
    <2>8. Ahead'
      BY <2>2, <2>7 DEF Ahead
    <2> QED
      BY <2>6, <2>8 DEF Ordered
  <1>5. ASSUME NEW d \in Devices, device_pm_add(d) PROVE Ordered'
    <2>1. d \notin Active /\ Active' = Active \cup {d} /\ Off' = Off /\ OffIrq' = OffIrq
      BY <1>5, AddLists
    <2>2. /\ UNCHANGED <<pc, cur, error>> /\ pc \notin {"down", "asleep", "up"}
          /\ d \notin registered /\ Parent[d] \in registered \cup {NoDevice}
          /\ registered' = registered \cup {d}
          /\ dpm_off' = dpm_off /\ dpm_off_irq' = dpm_off_irq
          /\ dpm_active' = Append(dpm_active, d)
          /\ misplaced' = IF BehindParent(d) THEN misplaced \cup {d} ELSE misplaced \ {d}
      BY <1>5 DEF device_pm_add, Others
    <2>3. d \notin Off /\ d \notin OffIrq /\ d # cur
      BY <2>2 DEF Partition
    <2>4. \A c \in Devices : c # d => Up'[c] = Up[c]
      <3>1. \A c \in Devices : c # d => (Astray(c)' <=> Astray(c))
        BY <2>2 DEF Astray
      <3> QED
        BY <3>1 DEF Up
    <2>5. /\ Up'[d] = NoDevice \/ Up'[d] = Parent[d]
          /\ BehindParent(d) => Up'[d] = NoDevice
      BY <2>2 DEF Up, Astray
    <2>6. \A c \in registered : Up'[c] # d /\ Up[c] # d /\ Up'[c] = Up[c]
      BY <2>2, <2>4, UpParent
    <2>7. Up'[d] # d /\ Up'[d] \in registered \cup {NoDevice} /\ NoDevice \notin registered
      BY <2>2, <2>5
    <2>8. ParentsFirst(Up', dpm_active')
      <3>1. d \notin ToSet(dpm_active) /\ \A c \in ToSet(dpm_active) : Up'[c] # d
        BY <2>1, <2>6 DEF Active, Partition
      <3>2. \A c \in ToSet(dpm_active) : Up[c] = Up'[c]
        BY <2>6 DEF Active, Partition
      <3>3. ParentsFirst(Up', dpm_active)
        BY <3>2, SameParents, Zenon
      <3> QED
        BY <2>2, <2>7, <3>1, <3>3, AppendList, Zenon
    <2>9. ParentsFirst(Up', dpm_off') /\ ParentsFirst(Up', dpm_off_irq')
      <3>1. /\ \A c \in ToSet(dpm_off) : Up[c] = Up'[c]
            /\ \A c \in ToSet(dpm_off_irq) : Up[c] = Up'[c]
        BY <2>6 DEF Off, OffIrq, Partition
      <3> QED
        BY <2>2, <3>1, SameParents, Zenon
    <2>10. InOrder'
      BY <2>2, <2>8, <2>9 DEF InOrder
    <2>11. /\ Up'[d] \notin Off
           /\ d \in Late \/ pc = "ready" => Up'[d] \notin OffIrq
           /\ pc = "move" /\ cur \in registered =>
                  /\ error = "none" => Up'[d] # cur
                  /\ error = "EAGAIN" /\ d \in Late => Up'[d] # cur
      BY <2>5, <2>7 DEF BehindParent, Off, OffIrq
    <2>12. \A c \in Active : Up'[c] = Up[c]
      BY <2>6 DEF Partition
    <2>13. Ahead'
      BY <2>1, <2>2, <2>3, <2>11, <2>12 DEF Ahead
    <2> QED
      BY <2>10, <2>13 DEF Ordered
  <1>6. ASSUME NEW d \in Devices, device_pm_remove(d) PROVE Ordered'
    <2>1. Active' = Active \ {d} /\ Off' = Off \ {d} /\ OffIrq' = OffIrq \ {d}
      BY <1>6, RemoveLists
    <2>2. /\ UNCHANGED <<pc, error>> /\ registered' = registered \ {d} /\ Children(d) = {}
          /\ cur' = IF cur = d THEN NoDevice ELSE cur
          /\ dpm_active' = Without(dpm_active, d) /\ Up' = Up
          /\ dpm_off' = Without(dpm_off, d) /\ dpm_off_irq' = Without(dpm_off_irq, d)
      BY <1>6, UpSame DEF device_pm_remove, Others, history
    <2>3. /\ ParentsFirst(Up, dpm_active') /\ ParentsFirst(Up, dpm_off')
          /\ ParentsFirst(Up, dpm_off_irq')
      BY <2>2, WithoutList, Zenon
    <2>4. \A c \in registered' : Parent[c] \in registered' \cup {NoDevice}
      BY <2>2 DEF Children
    <2>5. InOrder'
      BY <2>2, <2>3, <2>4 DEF InOrder
    <2>6. Ahead'
      BY <2>1, <2>2 DEF Ahead
    <2> QED
      BY <2>5, <2>6 DEF Ordered
  <1>7. CASE /\ UNCHANGED <<registered, lists, misplaced>>
             /\ pc' # "move" \/ UNCHANGED <<pc, cur, error>>
             /\ \/ pc' \notin {"ready", "down", "asleep", "up"}
                \/ pc \in {"ready", "down", "asleep", "up"}
                \/ Active = {}
    <2>1. /\ Active' = Active /\ Off' = Off /\ OffIrq' = OffIrq /\ Up' = Up
          /\ UNCHANGED <<registered, dpm_active, dpm_off, dpm_off_irq>>
      BY <1>7, UnmovedLists, UpSame DEF lists
    <2>2. Ahead'
      BY <1>7, <2>1 DEF Ahead
    <2> QED
      BY <2>1, <2>2 DEF Ordered, InOrder
  <1>8. CASE EnterState \/ MoveRemoved \/ MpmReadyToSleep
    BY <1>7, <1>8 DEF EnterState, MoveRemoved, MpmReadyToSleep, history
  <1>9. CASE SuspendEnds
    <2>1. dpm_active = <<>> => Active = {}
      BY EmptyList DEF Active
    <2> QED
      BY <1>7, <1>9, <2>1 DEF SuspendEnds, history
  <1>10. CASE PowerDownDevice \/ SysdevSuspend \/ Wake
    <2>1. /\ UNCHANGED <<registered, lists, misplaced>> /\ pc' # "move"
          /\ pc \in {"ready", "down", "asleep", "up"}
      BY <1>10 DEF PowerDownDevice, SysdevSuspend, Wake, history
    <2> QED
      BY <1>7, <2>1
  <1>11. CASE PowerUpEnds \/ SuspendFinish \/ ResumeEnds
    BY <1>7, <1>11 DEF PowerUpEnds, SuspendFinish, ResumeEnds, history
  <1>12. ASSUME NEW d \in Devices, Runtime(d) PROVE Ordered'
    BY <1>7, <1>12 DEF Runtime
  <1>13. CASE UNCHANGED vars
    <2>1. UNCHANGED <<registered, lists, misplaced>> /\ UNCHANGED <<pc, cur, error>>
      BY <1>13 DEF vars, history
    <2> QED
      BY <1>7, <2>1
  <1> QED
    BY <1>1, <1>2, <1>3, <1>4, <1>5, <1>6, <1>8, <1>9, <1>10, <1>11, <1>12, <1>13
       DEF Next, Attempt, dpm_runtime_resume, dpm_runtime_suspend

(* What a step of an attempt may do to the power of a device and of its    *)
(* relatives.                                                              *)
TreeStep ==
    Attempt =>
        \A d \in registered :
            /\ hw[d] /\ ~hw'[d] =>
                   \A c \in Children(d) : ~hw[c] \/ c \in meddled \/ Astray(c)
            /\ ~hw[d] /\ hw'[d] => \/ Parent[d] = NoDevice
                                   \/ hw[Parent[d]]
                                   \/ power_state[Parent[d]] # 0
                                   \/ Astray(d)

(* Every step of an attempt is a TreeStep.                                 *)
LEMMA StepInOrder == ListInv /\ PowerInv /\ Ordered => TreeStep
  <1> SUFFICES ASSUME ListInv, PowerInv, Ordered, Attempt
               PROVE  TreeStep
    BY DEF TreeStep
  <1>0. /\ TypeOK /\ Partition /\ ListsOnce /\ RestTyped
        /\ Active \subseteq Devices /\ Off \subseteq Devices /\ OffIrq \subseteq Devices
        /\ Stages /\ LateApart /\ PoweredAlone /\ PoweredLate /\ PoweredAll
        /\ registered \subseteq Devices
        /\ Once(dpm_active) /\ Once(dpm_off) /\ Once(dpm_off_irq)
        /\ \A d \in registered : Parent[d] \in registered \cup {NoDevice}
        /\ ParentsFirst(Up, dpm_active) /\ ParentsFirst(Up, dpm_off)
        /\ ParentsFirst(Up, dpm_off_irq)
        /\ hw \in [Devices -> BOOLEAN]
        /\ registered = Active \cup Off \cup OffIrq
        /\ NoDevice \notin Devices
    BY TypeParts, TypedLists, DevicePmAssumption
       DEF ListInv, PowerInv, Powered, Ordered, InOrder, ListsOnce, RestTyped, Partition
  <1> USE <1>0
  <1>1. CASE SuspendDevice
    <2> DEFINE d == Last(dpm_active)
    <2>1. /\ d \in Active /\ d \in Devices
          /\ \A c \in Active : Up[c] # d
      BY <1>1, LastOfList DEF SuspendDevice, Active
    <2>2. PICK o \in Outcomes(d, TRUE) : suspend_device(d, o)
      BY <1>1 DEF SuspendDevice
    <2> HIDE DEF d
    <2>3. /\ \A c \in Devices : c # d => hw'[c] = hw[c]
          /\ hw'[d] <=> hw[d] /\ (power_state[d] # 0 \/ o # "none")
      BY <2>1, <2>2, SuspendOne
    <2>4. ASSUME hw[d], ~hw'[d], NEW c \in Children(d), c \notin meddled, ~Astray(c)
          PROVE  ~hw[c]
      <3>1. d \notin Late
        BY <2>2, <2>3, <2>4 DEF Outcomes, LateApart
      <3>2. c \in registered /\ c \in Devices /\ Up[c] = d /\ c \notin Active
        BY <2>1, <2>4, UpParent DEF Children
      <3>3. c \notin OffIrq
        BY <2>1, <3>1, <3>2, UpParent DEF LateApart
      <3>4. c \in Off
        BY <3>2, <3>3
      <3> QED
        BY <2>4, <3>4 DEF PoweredAlone, Asleep
    <2> QED
      BY <2>3, <2>4 DEF TreeStep
  <1>2. CASE PowerDownDevice
    <2> DEFINE d == dpm_off_irq[walk]
    <2>1. /\ dpm_off_irq \in Seq(Devices) /\ Len(dpm_off_irq) \in Nat
          /\ walk \in 1 .. Len(dpm_off_irq)
      <3>1. dpm_off_irq \in Seq(Devices) /\ walk \in 0 .. Len(dpm_off_irq) /\ walk > 0
        BY <1>2, TypeParts DEF PowerDownDevice, Once
      <3> QED
        BY <3>1, Positions
    <2>2. d \in Devices
      BY <2>1, Positions
    <2>3. PICK o \in Outcomes(d, FALSE) : suspend_device(d, o)
      BY <1>2 DEF PowerDownDevice
    <2>4. pc = "down"
      BY <1>2 DEF PowerDownDevice
    <2>5. /\ \A c \in Devices : c # d => hw'[c] = hw[c]
          /\ hw'[d] <=> hw[d] /\ (power_state[d] # 0 \/ o # "none")
      BY <2>2, <2>3, SuspendOne
    <2>6. ASSUME NEW c \in Children(d), c \notin meddled, ~Astray(c) PROVE ~hw[c]
      <3>1. c \in registered /\ Up[c] = d /\ c \notin Active
        BY <2>4, <2>6, UpParent DEF Children, Stages
      <3>2. CASE c \in Off
        BY <2>6, <3>2 DEF PoweredAlone, Asleep
      <3>3. CASE c \in OffIrq
        <4>1. PICK j \in 1 .. Len(dpm_off_irq) : dpm_off_irq[j] = c
          BY <2>1, <3>3, Positions DEF OffIrq
        <4>2. walk < j
          BY <2>1, <3>1, <4>1 DEF ParentsFirst
        <4>3. j > walk
          BY <2>1, <4>2
        <4> QED
          BY <2>4, <4>1, <4>3 DEF PoweredLate
      <3> QED
        BY <3>1, <3>2, <3>3
    <2> HIDE DEF d
    <2> QED
      BY <2>5, <2>6 DEF TreeStep
  <1>3. CASE PowerUpDevice
    <2> DEFINE h == Head(dpm_off_irq)
    <2>1. /\ dpm_off_irq # <<>> /\ hw' = [hw EXCEPT ![h] = TRUE] /\ pc = "up"
      BY <1>3 DEF PowerUpDevice
    <2>2. h \in OffIrq /\ Up[h] \notin OffIrq
      BY <2>1, TailList, Zenon DEF OffIrq
    <2> HIDE DEF h
    <2>3. hw'[h] /\ \A c \in Devices : c # h => hw'[c] = hw[c]
      BY <2>1, <2>2, Zenon
    <2>4. \/ Parent[h] = NoDevice \/ hw[Parent[h]] \/ power_state[Parent[h]] # 0
          \/ Astray(h)
      <3> SUFFICES ASSUME ~Astray(h), Parent[h] # NoDevice
                   PROVE  hw[Parent[h]] \/ power_state[Parent[h]] # 0
        OBVIOUS
      <3>1. Up[h] = Parent[h] /\ Up[h] \in Late /\ Up[h] \in registered
        BY <2>2, UpParent DEF LateApart
      <3>2. Parent[h] \in Active
        BY <2>2, <3>1 DEF LateApart
      <3> QED
        BY <2>1, <3>2 DEF PoweredAll, Usable, Moving
    <2> QED
      BY <2>2, <2>3, <2>4 DEF TreeStep
  <1>4. CASE ResumeDevice
    <2> DEFINE h == Head(dpm_off)
    <2>1. /\ dpm_off # <<>> /\ hw' = [hw EXCEPT ![h] = @ \/ prev_state[h] = 0]
          /\ pc = "resume"
      BY <1>4 DEF ResumeDevice
    <2>2. h \in Off /\ Up[h] \notin Off
      BY <2>1, TailList, Zenon DEF Off
    <2> HIDE DEF h
    <2>3. (hw[h] => hw'[h]) /\ \A c \in Devices : c # h => hw'[c] = hw[c]
      BY <2>1, <2>2, Zenon
    <2>4. \/ Parent[h] = NoDevice \/ hw[Parent[h]] \/ power_state[Parent[h]] # 0
          \/ Astray(h)
      <3> SUFFICES ASSUME ~Astray(h), Parent[h] # NoDevice
                   PROVE  hw[Parent[h]] \/ power_state[Parent[h]] # 0
        OBVIOUS
      <3>1. Parent[h] \in Active \/ Parent[h] \in OffIrq
        BY <2>2, UpParent
      <3>2. CASE Parent[h] \in Active
        BY <2>1, <3>2 DEF PoweredAll, Usable, Moving
      <3>3. CASE Parent[h] \in OffIrq
        BY <2>1, <3>3 DEF PoweredLate
      <3> QED
        BY <3>1, <3>2, <3>3
    <2> QED
      BY <2>2, <2>3, <2>4 DEF TreeStep
  <1>5. CASE hw' = hw
    BY <1>5 DEF TreeStep
  <1>6. CASE MoveSuspended \/ MoveRemoved \/ SuspendEnds \/ MpmReadyToSleep
    BY <1>5, <1>6 DEF MoveSuspended, MoveRemoved, SuspendEnds, MpmReadyToSleep, states
  <1>7. CASE SysdevSuspend \/ Wake \/ PowerUpEnds \/ SuspendFinish \/ ResumeEnds
    BY <1>5, <1>7 DEF SysdevSuspend, Wake, PowerUpEnds, SuspendFinish, ResumeEnds, states
  <1> QED
    BY <1>1, <1>2, <1>3, <1>4, <1>6, <1>7 DEF Attempt

(* A walk takes power from a device only when its children have none, and  *)
(* gives it only when its parent has it or was put to sleep by hand, but   *)
(* for children that others meddled with or registered behind the walk.    *)
THEOREM WalksInTreeOrder == Spec => TreeOrder
  <1>1. Init => ListInv /\ PowerInv /\ Ordered
    BY InitListed, InitPowered, InitOrdered
  <1>2. ListInv /\ PowerInv /\ Ordered /\ [Next]_vars => (ListInv /\ PowerInv /\ Ordered)'
    BY NextListed, NextPowered, NextOrdered
  <1>3. ListInv /\ PowerInv /\ Ordered /\ [Next]_vars => [TreeStep]_vars
    BY StepInOrder
  <1>4. Spec => [][TreeStep]_vars
    BY <1>1, <1>2, <1>3, PTL DEF Spec
  <1> QED
    BY <1>4 DEF TreeOrder, TreeStep
=============================================================================
