--------------------------- MODULE AccessoryProofs ---------------------------
(***************************************************************************)
(* Theorems about Accessory, for every number of accessories, open files   *)
(* and notifications.                                                      *)
(***************************************************************************)
EXTENDS Accessory, TLAPS

(* A notifier is in the middle of reporting something that it reports: the *)
(* two kernel threads never notify of the same accessory.                  *)
Named == \A n \in Notifiers : pc[n] # "idle" => req[n].accy \in Reports(n)

(* What was interesting ever since the open is interesting.                *)
Steadily == \A s \in open : steady[s] \subseteq interesting[s]

(* The changed flag of file s for accessory a, with what the notifications *)
(* under way still owe, unless a race has got it out of step.              *)
Flag(s, a) ==
    <<s, a>> \notin skewed =>
        (Owed(s, a) <=> (a \in changed[s] <=> (a \in told[s] <=> a \in connected)))

Flags == \A s \in open : \A a \in steady[s] : Flag(s, a)

(* A sleeper with changes was woken, or a notification that has passed its *)
(* slot will wake it.                                                      *)
Wakes ==
    \A s \in Slots : poll[s] = "asleep" /\ changed[s] # {} =>
        woken[s] \/ \E n \in Notifiers : pc[n] = "mark" /\ slot[n] > s

StepInv == Named /\ Steadily /\ Flags

-----------------------------------------------------------------------------
(* The empty request is one.                                               *)
LEMMA InitReq == NoReq \in [accy : Accys, insert : BOOLEAN]
  BY AccessoryAssumption DEF NoReq, Accys

(* No file is open at first and nothing is connected.                      *)
LEMMA InitInv == Init => TypeOK /\ Wakes /\ StepInv
  <1> SUFFICES ASSUME Init PROVE TypeOK /\ Wakes /\ StepInv
    OBVIOUS
  <1>1. NoReq \in [accy : Accys, insert : BOOLEAN]
    BY InitReq
  <1>2. 1 \in 1 .. (MaxOpens + 1) /\ 0 \in 0 .. MaxNotifies
    BY AccessoryAssumption
  <1>3. TypeOK
    BY <1>1, <1>2 DEF Init, TypeOK
  <1>4. Wakes /\ StepInv
    BY DEF Init, Wakes, StepInv, Named, Steadily, Flags
  <1> QED
    BY <1>3, <1>4

(* Every step keeps the types.                                             *)
LEMMA NextTyped == TypeOK /\ [Next]_vars => TypeOK'
  <1> SUFFICES ASSUME TypeOK, [Next]_vars PROVE TypeOK'
    OBVIOUS
  <1> USE AccessoryAssumption DEF TypeOK, At, Slots, files, notifier, apps, ghosts
  <1>1. ASSUME NEW n \in Notifiers, NEW a \in Accys, NEW ins \in BOOLEAN, Notify(n, a, ins)
                PROVE TypeOK'
    BY <1>1 DEF Notify
  <1>2. ASSUME NEW n \in Notifiers, NotifyTest(n) PROVE TypeOK'
    <2>1. /\ Return(n) \/ (pc' = [pc EXCEPT ![n] = "load"] /\ UNCHANGED <<req, old, slot>>)
          /\ UNCHANGED <<connected, files, notifies, apps, ghosts>>
      BY <1>2, Zenon DEF NotifyTest
    <2>2. CASE Return(n)
      BY <2>1, <2>2, InitReq DEF Return
    <2>3. CASE ~Return(n)
      BY <2>1, <2>3
    <2> QED
      BY <2>2, <2>3
  <1>3. ASSUME NEW n \in Notifiers, NotifyLoad(n) PROVE TypeOK'
    BY <1>3 DEF NotifyLoad
  <1>4. ASSUME NEW n \in Notifiers, NotifyStore(n) PROVE TypeOK'
    BY <1>4 DEF NotifyStore
  <1>5. ASSUME NEW n \in Notifiers, NotifyMark(n) PROVE TypeOK'
    BY <1>5 DEF NotifyMark, Marked
  <1>6. ASSUME NEW n \in Notifiers, NotifyWake(n) PROVE TypeOK'
    BY <1>6, InitReq DEF NotifyWake, Return
  <1>7. ASSUME NEW s \in Slots, accy_open(s) PROVE TypeOK'
    BY <1>7 DEF accy_open
  <1>8. ASSUME NEW s \in Slots, accy_free(s) PROVE TypeOK'
    BY <1>8 DEF accy_free, Idle
  <1>9. ASSUME NEW s \in Slots, NEW m \in Masks, SetInterested(s, m) PROVE TypeOK'
    BY <1>9 DEF SetInterested, Idle, Accys
  <1>10. ASSUME NEW s \in Slots, accy_read(s) PROVE TypeOK'
    BY <1>10 DEF accy_read, With
  <1>11. ASSUME NEW s \in Slots, PollWait(s) PROVE TypeOK'
    BY <1>11 DEF PollWait, Idle
  <1>12. ASSUME NEW s \in Slots, PollCheck(s) PROVE TypeOK'
    BY <1>12 DEF PollCheck
  <1>13. ASSUME NEW s \in Slots, PollWoken(s) PROVE TypeOK'
    BY <1>13 DEF PollWoken
  <1>14. CASE UNCHANGED vars
    BY <1>14 DEF vars
  <1>15. \A n \in Notifiers : Reports(n) \subseteq Accys
    BY AccessoryAssumption DEF Reports, Accys
  <1> HIDE DEF TypeOK, At, Slots, files, notifier, apps, ghosts
  <1> QED
    BY <1>1, <1>2, <1>3, <1>4, <1>5, <1>6, <1>7, <1>8, <1>9, <1>10, <1>11, <1>12, <1>13,
       <1>14, <1>15 DEF Next, NotifyStep, Reader

(* No step puts a reader to sleep on a change.                             *)
LEMMA NextWakes == TypeOK /\ Wakes /\ [Next]_vars => Wakes'
  <1> SUFFICES ASSUME TypeOK, Wakes, [Next]_vars PROVE Wakes'
    OBVIOUS
  <1> USE AccessoryAssumption DEF TypeOK, Wakes, At, Slots, files, notifier, apps, ghosts
  <1>1. ASSUME NEW n \in Notifiers, NEW a \in Accys, NEW ins \in BOOLEAN, Notify(n, a, ins)
                PROVE Wakes'
    BY <1>1 DEF Notify
  <1>2. ASSUME NEW n \in Notifiers, NotifyTest(n) PROVE Wakes'
    BY <1>2, InitReq DEF NotifyTest, Return
  <1>3. ASSUME NEW n \in Notifiers, NotifyLoad(n) PROVE Wakes'
    BY <1>3 DEF NotifyLoad
  <1>4. ASSUME NEW n \in Notifiers, NotifyStore(n) PROVE Wakes'
    BY <1>4 DEF NotifyStore
  <1>5. ASSUME NEW n \in Notifiers, NotifyMark(n) PROVE Wakes'
    BY <1>5 DEF NotifyMark, Marked
  <1>6. ASSUME NEW n \in Notifiers, NotifyWake(n) PROVE Wakes'
    BY <1>6, InitReq DEF NotifyWake, Return
  <1>7. ASSUME NEW s \in Slots, accy_open(s) PROVE Wakes'
    BY <1>7 DEF accy_open
  <1>8. ASSUME NEW s \in Slots, accy_free(s) PROVE Wakes'
    BY <1>8 DEF accy_free, Idle
  <1>9. ASSUME NEW s \in Slots, NEW m \in Masks, SetInterested(s, m) PROVE Wakes'
    BY <1>9 DEF SetInterested, Idle, Accys
  <1>10. ASSUME NEW s \in Slots, accy_read(s) PROVE Wakes'
    BY <1>10 DEF accy_read, With
  <1>11. ASSUME NEW s \in Slots, PollWait(s) PROVE Wakes'
    BY <1>11 DEF PollWait, Idle
  <1>12. ASSUME NEW s \in Slots, PollCheck(s) PROVE Wakes'
    BY <1>12 DEF PollCheck
  <1>13. ASSUME NEW s \in Slots, PollWoken(s) PROVE Wakes'
    BY <1>13 DEF PollWoken
  <1>14. CASE UNCHANGED vars
    BY <1>14 DEF vars
  <1>15. \A n \in Notifiers : Reports(n) \subseteq Accys
    BY AccessoryAssumption DEF Reports, Accys
  <1> HIDE DEF TypeOK, Wakes, At, Slots, files, notifier, apps, ghosts
  <1> QED
    BY <1>1, <1>2, <1>3, <1>4, <1>5, <1>6, <1>7, <1>8, <1>9, <1>10, <1>11, <1>12, <1>13,
       <1>14, <1>15 DEF Next, NotifyStep, Reader

(* What is owed of an accessory changes with one notification of it: no    *)
(* two others are under way.                                               *)
LEMMA OwedFlips ==
    ASSUME Named, NEW n \in Notifiers, pc[n] # "idle", NEW s, NEW a, a = req[n].accy,
           OwedBy(n, s, a)' <=> ~OwedBy(n, s, a),
           \A m \in Notifiers \ {n} : OwedBy(m, s, a)' <=> OwedBy(m, s, a)
    PROVE  Owed(s, a)' <=> ~Owed(s, a)
  <1>1. ASSUME NEW k \in Notifiers \ {n}, NEW m \in Notifiers \ {n},
               OwedBy(k, s, a), OwedBy(m, s, a)
        PROVE  k = m
    <2>1. a \in Reports(n) /\ a \in Reports(k) /\ a \in Reports(m)
      BY <1>1 DEF Named, OwedBy
    <2>2. Reports("debounce") = Headsets /\ Reports("usb") = Accys \ Headsets
      BY DEF Reports
    <2>3. \A x \in {n, k, m} : x \in {"debounce", "usb", "write"}
      BY <1>1, AccessoryAssumption
    <2> QED
      BY <1>1, <2>1, <2>2, <2>3
  <1> QED
    BY <1>1 DEF Owed

(* What is owed stays the same if it does for every notifier.              *)
LEMMA OwedSame ==
    ASSUME NEW s, NEW a, \A n \in Notifiers : OwedBy(n, s, a)' <=> OwedBy(n, s, a)
    PROVE  Owed(s, a)' <=> Owed(s, a)
  BY DEF Owed

(* A step that touches no file and leaves what is owed keeps the flags.    *)
LEMMA FlagsSame ==
    ASSUME TypeOK, Flags, UNCHANGED <<connected, open, changed, told, steady, skewed>>,
           \A s \in Slots : \A a : \A n \in Notifiers : OwedBy(n, s, a)' <=> OwedBy(n, s, a)
    PROVE  Flags'
  <1> SUFFICES ASSUME NEW s \in open, NEW a \in steady[s] PROVE Flag(s, a)'
    BY DEF Flags
  <1>1. Owed(s, a)' <=> Owed(s, a)
    BY OwedSame DEF TypeOK
  <1> QED
    BY <1>1 DEF Flags, Flag

(* Every step of the notifiers and of the applications keeps the flags in  *)
(* step.                                                                   *)
LEMMA NextInv == TypeOK /\ StepInv /\ [Next]_vars => StepInv'
  <1> SUFFICES ASSUME TypeOK, StepInv, [Next]_vars PROVE StepInv'
    OBVIOUS
  <1>0. TypeOK /\ TypeOK' /\ Named /\ Steadily /\ Flags
    BY NextTyped DEF StepInv
  <1> USE <1>0, AccessoryAssumption
  <1>1. ASSUME NEW n \in Notifiers, NEW a \in Reports(n), NEW ins \in BOOLEAN,
               Notify(n, a, ins)
        PROVE  StepInv'
    <2>1. Named'
      BY <1>1 DEF Named, Notify, TypeOK
    <2>2. Steadily'
      BY <1>1 DEF Steadily, Notify, files, ghosts
    <2>3. \A s \in Slots : \A b : \A m \in Notifiers :
              OwedBy(m, s, b)' <=> OwedBy(m, s, b)
      BY <1>1 DEF OwedBy, Notify, At, TypeOK
    <2>4. Flags'
      BY <1>1, <2>3, FlagsSame DEF Notify, files, ghosts
    <2> QED
      BY <2>1, <2>2, <2>4 DEF StepInv
  <1>2. ASSUME NEW n \in Notifiers, NotifyTest(n) \/ NotifyLoad(n) \/ NotifyWake(n)
        PROVE  StepInv'
    <2>1. Named'
      BY <1>2 DEF Named, NotifyTest, NotifyLoad, NotifyWake, Return, At, TypeOK
    <2>2. Steadily'
      BY <1>2 DEF Steadily, NotifyTest, NotifyLoad, NotifyWake, files, ghosts
    <2>3. \A s \in Slots : \A b : \A m \in Notifiers :
              OwedBy(m, s, b)' <=> OwedBy(m, s, b)
      BY <1>2 DEF OwedBy, NotifyTest, NotifyLoad, NotifyWake, Return, At, TypeOK, Slots
    <2>4. Flags'
      BY <1>2, <2>3, FlagsSame DEF NotifyTest, NotifyLoad, NotifyWake, files, ghosts
    <2> QED
      BY <2>1, <2>2, <2>4 DEF StepInv
  <1>3. ASSUME NEW n \in Notifiers, NotifyStore(n) PROVE StepInv'
    <2> DEFINE a == req[n].accy
    <2>1. Named'
      BY <1>3 DEF Named, NotifyStore, At, TypeOK
    <2>2. Steadily'
      BY <1>3 DEF Steadily, NotifyStore, files
    <2>3. ASSUME NEW s \in open, NEW b \in steady[s] PROVE Flag(s, b)'
      <3>0. s \in Slots /\ b \in Accys
        BY DEF TypeOK
      <3>1. \A m \in Notifiers \ {n} : OwedBy(m, s, b)' <=> OwedBy(m, s, b)
        BY <1>3 DEF NotifyStore, OwedBy, TypeOK
      <3>2. OwedBy(n, s, b)' <=> (b = a)
        BY <1>3, <3>0 DEF NotifyStore, OwedBy, TypeOK, Slots
      <3>3. ~OwedBy(n, s, b) /\ pc[n] # "idle"
        BY <1>3 DEF NotifyStore, OwedBy, At
      <3>4. Owed(s, b)' <=> (IF b = a THEN ~Owed(s, b) ELSE Owed(s, b))
        <4>1. CASE b = a
          BY <3>1, <3>2, <3>3, <4>1, OwedFlips
        <4>2. CASE b # a
          BY <3>1, <3>2, <3>3, <4>2, OwedSame
        <4> QED
          BY <4>1, <4>2
      <3>5. /\ <<s, b>> \notin skewed' =>
                   <<s, b>> \notin skewed /\ ~(b = a <=> (b \in connected <=> b \in connected'))
            /\ changed' = changed /\ told' = told
        BY <1>3, <3>0 DEF NotifyStore, files
      <3> HIDE DEF a
      <3> QED
        BY <3>4, <3>5 DEF Flag, Flags
    <2>4. Flags'
      BY <1>3, <2>3 DEF Flags, NotifyStore, files
    <2> QED
      BY <2>1, <2>2, <2>4 DEF StepInv
  <1>4. ASSUME NEW n \in Notifiers, NotifyMark(n) PROVE StepInv'
    <2> DEFINE a == req[n].accy
               t == slot[n]
    <2>1. Named'
      BY <1>4 DEF Named, NotifyMark, TypeOK
    <2>2. Steadily'
      BY <1>4 DEF Steadily, NotifyMark, ghosts
    <2>3. ASSUME NEW s \in open, NEW b \in steady[s] PROVE Flag(s, b)'
      <3>0. s \in Slots /\ b \in interesting[s]
        BY DEF TypeOK, Steadily
      <3>1. \A m \in Notifiers \ {n} : OwedBy(m, s, b)' <=> OwedBy(m, s, b)
        BY <1>4 DEF NotifyMark, OwedBy, TypeOK
      <3>2. /\ OwedBy(n, s, b) <=> (b = a /\ t <= s)
            /\ OwedBy(n, s, b)' <=> (b = a /\ t + 1 <= s)
            /\ pc[n] # "idle"
        BY <1>4 DEF NotifyMark, OwedBy, At, TypeOK
      <3>3. /\ skewed' = skewed /\ told' = told /\ connected' = connected
            /\ changed'[s] = IF s = t THEN Marked(s, a) ELSE changed[s]
        BY <1>4, <3>0 DEF NotifyMark, ghosts, TypeOK
      <3>4. CASE s = t /\ b = a
        <4>1. Owed(s, b)' <=> ~Owed(s, b)
          <5>1. OwedBy(n, s, b)' <=> ~OwedBy(n, s, b)
            BY <3>0, <3>2, <3>4 DEF Slots
          <5> QED
            BY <3>1, <3>2, <3>4, <5>1, OwedFlips
        <4>2. b \in changed'[s] <=> b \notin changed[s]
          BY <3>0, <3>3, <3>4 DEF Marked
        <4> QED
          BY <3>3, <4>1, <4>2 DEF Flag, Flags
      <3>5. CASE ~(s = t /\ b = a)
        <4>1. OwedBy(n, s, b)' <=> OwedBy(n, s, b)
          BY <3>0, <3>2, <3>5 DEF TypeOK, Slots
        <4>2. Owed(s, b)' <=> Owed(s, b)
          BY <3>1, <4>1, OwedSame
        <4>3. b \in changed'[s] <=> b \in changed[s]
          BY <3>3, <3>5 DEF Marked
        <4> QED
          BY <3>3, <4>2, <4>3 DEF Flag, Flags
      <3> QED
        BY <3>4, <3>5
    <2>4. Flags'
      BY <1>4, <2>3 DEF Flags, NotifyMark, ghosts
    <2> QED
      BY <2>1, <2>2, <2>4 DEF StepInv
  <1>5. ASSUME UNCHANGED notifier PROVE Named' /\ \A s, a : Owed(s, a)' <=> Owed(s, a)
    BY <1>5 DEF notifier, Named, Owed, OwedBy
  <1>6. ASSUME NEW s \in Slots, accy_open(s) PROVE StepInv'
    <2>1. Steadily'
      BY <1>6 DEF accy_open, Steadily, TypeOK
    <2>2. ASSUME NEW t \in open', NEW a \in steady'[t] PROVE Flag(t, a)'
      <3>0. a \in Accys /\ (Owed(t, a)' <=> Owed(t, a)) /\ connected' = connected
        BY <1>5, <1>6, <2>2 DEF accy_open, TypeOK
      <3>1. CASE t = s
        BY <1>6, <3>0, <3>1 DEF accy_open, Flag, TypeOK
      <3>2. CASE t # s
        BY <1>6, <3>0, <3>2 DEF accy_open, Flag, Flags, TypeOK
      <3> QED
        BY <3>1, <3>2
    <2> QED
      BY <1>5, <1>6, <2>1, <2>2 DEF accy_open, StepInv, Flags
  <1>7. ASSUME NEW s \in Slots, accy_free(s) PROVE StepInv'
    <2>1. Steadily'
      BY <1>7 DEF accy_free, Steadily, TypeOK
    <2>2. ASSUME NEW t \in open', NEW a \in steady'[t] PROVE Flag(t, a)'
      BY <1>5, <1>7 DEF accy_free, Flag, Flags, TypeOK
    <2> QED
      BY <1>5, <1>7, <2>1, <2>2 DEF accy_free, StepInv, Flags
  <1>8. ASSUME NEW s \in Slots, NEW m \in Masks, SetInterested(s, m) PROVE StepInv'
    <2>1. Steadily'
      BY <1>8 DEF SetInterested, Steadily, TypeOK
    <2>2. ASSUME NEW t \in open', NEW a \in steady'[t] PROVE Flag(t, a)'
      BY <1>5, <1>8 DEF SetInterested, Flag, Flags, TypeOK
    <2> QED
      BY <1>5, <1>8, <2>1, <2>2 DEF SetInterested, StepInv, Flags
  <1>9. ASSUME NEW s \in Slots, accy_read(s) PROVE StepInv'
    <2>1. Steadily'
      BY <1>9 DEF accy_read, Steadily
    <2>2. ASSUME NEW t \in open', NEW a \in steady'[t] PROVE Flag(t, a)'
      <3>0. /\ Owed(t, a)' <=> Owed(t, a)
            /\ connected' = connected /\ open' = open /\ steady' = steady
            /\ t \in Slots /\ Flag(t, a)
        BY <1>5, <1>9, <2>2 DEF accy_read, TypeOK, Flags
      <3>1. CASE t = s /\ changed[s] # {} /\ a = Lowest(changed[s])
        <4>1. /\ a \notin changed'[s] /\ (a \in told'[s] <=> a \in connected)
              /\ <<s, a>> \notin skewed' => ~Owed(s, a)
          BY <1>9, <3>1 DEF accy_read, With, TypeOK
        <4> QED
          BY <3>0, <3>1, <4>1 DEF Flag
      <3>2. CASE ~(t = s /\ changed[s] # {} /\ a = Lowest(changed[s]))
        <4>1. /\ a \in changed'[t] <=> a \in changed[t]
              /\ a \in told'[t] <=> a \in told[t]
              /\ <<t, a>> \notin skewed' => <<t, a>> \notin skewed
          BY <1>9, <3>0, <3>2 DEF accy_read, With, TypeOK
        <4> QED
          BY <3>0, <4>1 DEF Flag
      <3> QED
        BY <3>1, <3>2
    <2> QED
      BY <1>5, <1>9, <2>1, <2>2 DEF accy_read, StepInv, Flags
  <1>10. ASSUME UNCHANGED <<connected, files, notifier, ghosts>> PROVE StepInv'
    <2>1. Steadily'
      BY <1>10 DEF Steadily, files, ghosts
    <2>2. ASSUME NEW t \in open', NEW a \in steady'[t] PROVE Flag(t, a)'
      BY <1>5, <1>10 DEF Flag, Flags, files, ghosts
    <2> QED
      BY <1>5, <1>10, <2>1, <2>2 DEF StepInv, Flags
  <1>11. ASSUME NEW s \in Slots, PollWait(s) \/ PollCheck(s) \/ PollWoken(s) PROVE StepInv'
    BY <1>10, <1>11 DEF PollWait, PollCheck, PollWoken
  <1>12. CASE UNCHANGED vars
    BY <1>10, <1>12 DEF vars
  <1> QED
    BY <1>1, <1>2, <1>3, <1>4, <1>6, <1>7, <1>8, <1>9, <1>11, <1>12
       DEF Next, NotifyStep, Reader

-----------------------------------------------------------------------------
(* The state of the accessory driver has its type, and a sleeper with      *)
(* changes is accounted for, whoever notifies.                             *)
THEOREM Invariance == Spec => [](TypeOK /\ Wakes)
  BY InitInv, NextTyped, NextWakes, PTL DEF Spec

(* The state of the accessory driver has its type.                         *)
THEOREM TypeCorrect == Spec => []TypeOK
  <1>1. TypeOK /\ Wakes => TypeOK
    OBVIOUS
  <1> QED
    BY <1>1, Invariance, PTL

(* Whoever notifies, and however notifications preempt one another: no     *)
(* reader sleeps in poll with a change flagged and nobody to wake it.      *)
THEOREM NoSleepThrough == Spec => []SleeperIsWoken
  <1>1. TypeOK /\ Wakes => SleeperIsWoken
    BY DEF Wakes, SleeperIsWoken, Quiet
  <1> QED
    BY <1>1, Invariance, PTL

(* Whoever notifies, and however notifications, opens and reads come       *)
(* together: the changed flags of a file are exactly the differences       *)
(* between what its reader was told and what is connected, but for the     *)
(* accessories that one of the three races has got out of step since the   *)
(* file was opened or they were read last.                                 *)
THEOREM FilesInStep == Spec => []InStep
  <1>1. TypeOK /\ StepInv => InStep
    <2> SUFFICES ASSUME TypeOK, StepInv, Quiet, NEW s \in open, NEW a \in steady[s],
                        <<s, a>> \notin skewed
                 PROVE  a \in changed[s] <=> (a \in told[s] <=> a \notin connected)
      BY DEF InStep
    <2>1. ~Owed(s, a)
      BY DEF Owed, OwedBy, Quiet
    <2> QED
      BY <2>1 DEF StepInv, Flags, Flag
  <1>2. TypeOK /\ StepInv /\ [Next]_vars => (TypeOK /\ StepInv)'
    BY NextTyped, NextInv
  <1> QED
    BY <1>1, <1>2, InitInv, PTL DEF Spec
=============================================================================
