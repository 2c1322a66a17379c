------------------------ MODULE PowerIcEventsProofs ------------------------
(***************************************************************************)
(* Theorems about PowerIcEvents, for every number of events and every      *)
(* split of them over the two registers.                                   *)
(***************************************************************************)
EXTENDS PowerIcEvents, TLAPS

(* A client call under way has read the mask register it will write, and   *)
(* the register has not changed since: the mutex is held.                  *)
CallFresh ==
    /\ call.op \in {"unmask", "mask"} => call.old = mask \cap RegEvents(RegOf(call.event))
    /\ call.op = "clear" => call.old = {}

(* No call is under way while the bottom half is between two accesses.     *)
NoCallInPass == ~MayCall => call = NoCall

(* What the bottom half has read is still what the registers hold: all of  *)
(* it for the mask, at least as much for the status.                       *)
SnapshotFresh ==
    /\ \A r \in {0, 1} : isr[r] \subseteq RegEvents(r) /\ imr[r] \subseteq RegEvents(r)
    /\ pc \in {"rdMask", "wrStat"} => isr[reg] \subseteq stat
    /\ pc \in {"wrStat", "wrMask"} => imr[reg] = mask \cap RegEvents(reg)

(* A pass starts only when everything of the pass before was dispatched.   *)
BatchDone == pc \notin {"dispatch", "handlers"} => enabled = {}

IInv == TypeOK /\ CallFresh /\ NoCallInPass /\ SnapshotFresh /\ BatchDone

-----------------------------------------------------------------------------
(* The initial state: every event masked, nobody running.                  *)
LEMMA InitIInv == Init => IInv
  <1> SUFFICES ASSUME Init PROVE IInv
    OBVIOUS
  <1>1. 0 \in Events
    BY PowerIcAssumption DEF Events
  <1>2. TypeOK
    BY <1>1 DEF Init, TypeOK, NoCall, Calls, PCs
  <1> QED
    BY <1>2 DEF Init, IInv, CallFresh, NoCallInPass, SnapshotFresh, BatchDone,
                MayCall, NoCall

(* Every step of the code keeps the inductive invariant.                   *)
LEMMA NextIInv == IInv /\ [Next]_vars => IInv'
  <1> SUFFICES ASSUME IInv, [Next]_vars PROVE IInv'
    OBVIOUS
  <1> USE DEF IInv
  <1>0. 0 \in Events /\ NoCall \in Calls
    BY PowerIcAssumption DEF Events, NoCall, Calls
  <1>1. ASSUME NEW e \in Events, Raise(e) PROVE IInv'
    BY <1>1 DEF Raise, SetChip, TypeOK, CallFresh, NoCallInPass, SnapshotFresh,
                BatchDone, MayCall, locals
  <1>2. CASE power_ic_irq_handler
    BY <1>2 DEF power_ic_irq_handler, TypeOK, CallFresh, NoCallInPass, SnapshotFresh,
                BatchDone, MayCall, locals
  <1>3. ASSUME NEW op \in ClientOps, NEW e \in Events, BeginCall(op, e) PROVE IInv'
    <2>1. TypeOK'
      BY <1>3, PowerIcAssumption DEF BeginCall, TypeOK, Calls, chip, locals
    <2>2. CallFresh'
      BY <1>3, PowerIcAssumption DEF BeginCall, CallFresh, RegOf, chip
    <2>3. (NoCallInPass /\ SnapshotFresh /\ BatchDone)'
      BY <1>3 DEF BeginCall, NoCallInPass, SnapshotFresh, BatchDone, MayCall, chip, locals
    <2> QED
      BY <2>1, <2>2, <2>3
  <1>4. CASE EndCall
    <2>1. TypeOK'
      BY <1>0, <1>4 DEF EndCall, SetChip, TypeOK, Calls, OtherReg, locals
    <2>2. CallFresh'
      BY <1>4 DEF EndCall, CallFresh, NoCall
    <2>3. MayCall /\ MayCall'
      BY <1>4 DEF EndCall, NoCallInPass, NoCall, MayCall, locals
    <2>4. (NoCallInPass /\ SnapshotFresh /\ BatchDone)'
      BY <1>4, <2>3 DEF EndCall, NoCallInPass, SnapshotFresh, BatchDone, MayCall, locals
    <2> QED
      BY <2>1, <2>2, <2>4
  <1>5. CASE ThreadWait
    BY <1>5 DEF ThreadWait, TypeOK, PCs, CallFresh, NoCallInPass, SnapshotFresh,
                BatchDone, MayCall, chip, locals
  <1>6. CASE ThreadReset
    BY <1>6 DEF ThreadReset, TypeOK, PCs, CallFresh, NoCallInPass, SnapshotFresh,
                BatchDone, MayCall, chip, locals
  <1>7. CASE BhLine
    BY <1>7 DEF BhLine, TypeOK, PCs, CallFresh, NoCallInPass, SnapshotFresh,
                BatchDone, MayCall, chip
  <1>8. CASE BhReadStat
    <2>1. TypeOK'
      BY <1>8 DEF BhReadStat, TypeOK, PCs, chip
    <2>2. (CallFresh /\ NoCallInPass /\ BatchDone)'
      BY <1>8 DEF BhReadStat, CallFresh, NoCallInPass, BatchDone, MayCall, chip
    <2>3. SnapshotFresh'
      BY <1>8 DEF BhReadStat, TypeOK, SnapshotFresh, chip
    <2> QED
      BY <2>1, <2>2, <2>3
  <1>9. CASE BhReadMask
    <2>1. TypeOK'
      BY <1>9 DEF BhReadMask, TypeOK, PCs, chip
    <2>2. (CallFresh /\ NoCallInPass /\ BatchDone)'
      BY <1>9 DEF BhReadMask, CallFresh, NoCallInPass, BatchDone, MayCall, chip
    <2>3. SnapshotFresh'
      BY <1>9 DEF BhReadMask, TypeOK, SnapshotFresh, chip
    <2> QED
      BY <2>1, <2>2, <2>3
  <1>10. CASE BhWriteStat
    BY <1>10 DEF BhWriteStat, SetChip, TypeOK, PCs, CallFresh, NoCallInPass,
                 SnapshotFresh, BatchDone, MayCall, NoCall, locals
  <1>11. CASE BhWriteMask
    <2>1. TypeOK'
      BY <1>11 DEF BhWriteMask, SetChip, TypeOK, PCs
    <2>2. (CallFresh /\ NoCallInPass /\ BatchDone)'
      BY <1>11 DEF BhWriteMask, CallFresh, NoCallInPass, BatchDone, MayCall, NoCall
    <2>3. SnapshotFresh'
      BY <1>11 DEF BhWriteMask, SetChip, TypeOK, SnapshotFresh
    <2> QED
      BY <2>1, <2>2, <2>3
  <1>12. CASE BhCollect
    <2>1. TypeOK'
      BY <1>12, PowerIcAssumption DEF BhCollect, TypeOK, PCs, chip
    <2> QED
      BY <1>12, <2>1 DEF BhCollect, CallFresh, NoCallInPass, SnapshotFresh, BatchDone,
                         MayCall, chip
  <1>13. CASE BhDispatch
    BY <1>13 DEF BhDispatch, TypeOK, PCs, CallFresh, NoCallInPass, SnapshotFresh,
                 BatchDone, MayCall, chip, locals
  <1>14. ASSUME NEW e \in Events, Handled(e) PROVE IInv'
    BY <1>14 DEF Handled, TypeOK, PCs, CallFresh, NoCallInPass, SnapshotFresh,
                 BatchDone, MayCall, chip
  <1>15. CASE UNCHANGED vars
    BY <1>15 DEF vars, TypeOK, CallFresh, NoCallInPass, SnapshotFresh, BatchDone, MayCall
  <1> QED
    BY <1>1, <1>2, <1>3, <1>4, <1>5, <1>6, <1>7, <1>8, <1>9, <1>10, <1>11, <1>12,
       <1>13, <1>14, <1>15 DEF Next, Thread

(* The inductive invariant holds in every reachable state of the driver.   *)
THEOREM Invariance == Spec => []IInv
  BY InitIInv, NextIInv, PTL DEF Spec

(* The driver's state always has its type.                                 *)
THEOREM TypeCorrect == Spec => []TypeOK
  <1>1. IInv => TypeOK
    BY DEF IInv
  <1> QED
    BY <1>1, Invariance, PTL

-----------------------------------------------------------------------------
(* No edge of the interrupt line is lost, whatever the interleaving of the *)
(* top half, the interrupt thread, the chip and the clients' register      *)
(* writes.                                                                 *)
THEOREM EdgeNotLost == Spec => []NoLostEdge
  <1>1. Init => NoLostEdge
    BY DEF Init, NoLostEdge, Line
  <1>2. TypeOK /\ NoLostEdge /\ [Next]_vars => NoLostEdge'
    <2> SUFFICES ASSUME TypeOK, NoLostEdge, [Next]_vars PROVE NoLostEdge'
      OBVIOUS
    <2> USE DEF NoLostEdge
    <2>1. ASSUME NEW st, NEW mk, SetChip(st, mk), pc' = pc, interrupt_flag' = interrupt_flag
          PROVE  NoLostEdge'
      BY <2>1 DEF SetChip, TypeOK, Line
    <2>2. ASSUME NEW e \in Events, Raise(e) PROVE NoLostEdge'
      BY <2>1, <2>2 DEF Raise
    <2>3. CASE EndCall
      BY <2>1, <2>3 DEF EndCall
    <2>4. CASE BhWriteStat \/ BhWriteMask
      BY <2>4 DEF BhWriteStat, BhWriteMask
    <2>5. CASE power_ic_irq_handler
      BY <2>5 DEF power_ic_irq_handler
    <2>6. ASSUME NEW op \in ClientOps, NEW e \in Events, BeginCall(op, e) PROVE NoLostEdge'
      BY <2>6 DEF BeginCall, chip, Line
    <2>7. CASE \/ ThreadWait \/ ThreadReset \/ BhReadStat \/ BhReadMask
               \/ BhCollect \/ BhDispatch \/ \E e \in Events : Handled(e)
      BY <2>7 DEF ThreadWait, ThreadReset, BhReadStat, BhReadMask, BhCollect,
                  BhDispatch, Handled
    <2>8. CASE BhLine
      BY <2>8 DEF BhLine, chip, Line
    <2>9. CASE UNCHANGED vars
      BY <2>9 DEF vars, Line
    <2> QED
      BY <2>2, <2>3, <2>4, <2>5, <2>6, <2>7, <2>8, <2>9 DEF Next, Thread
  <1> QED
    BY <1>1, <1>2, TypeCorrect, PTL DEF Spec

-----------------------------------------------------------------------------
(* What a client's call does to the registers when it completes: exactly   *)
(* what was asked, to exactly one event.                                   *)
LEMMA EndCallEffect ==
    ASSUME IInv, EndCall
    PROVE  /\ call.event \in Events
           /\ call.op = "unmask" => stat' = stat /\ mask' = mask \ {call.event}
           /\ call.op = "mask" => stat' = stat /\ mask' = mask \cup {call.event}
           /\ call.op = "clear" => stat' = stat \ {call.event} /\ mask' = mask
  <1>1. call.event \in Events
    BY DEF IInv, TypeOK, Calls
  <1>2. call.event \in RegEvents(RegOf(call.event))
    BY <1>1, PowerIcAssumption DEF Events, RegEvents, RegOf
  <1>3. CASE call.op \in {"unmask", "mask"}
    <2>1. call.old = mask \cap RegEvents(RegOf(call.event))
      BY <1>3 DEF IInv, CallFresh
    <2>2. OtherReg(call.event) = mask \ RegEvents(RegOf(call.event))
      BY DEF OtherReg
    <2> QED
      BY <1>1, <1>2, <1>3, <2>1, <2>2 DEF EndCall, SetChip
  <1>4. CASE call.op = "clear"
    BY <1>1, <1>4 DEF EndCall, SetChip, IInv, CallFresh
  <1> QED
    BY <1>1, <1>3, <1>4 DEF EndCall

(* A client's mask or unmask call is never undone by the bottom half's     *)
(* write-back of the mask it read earlier, and the bottom half masks only  *)
(* what it goes on to dispatch.                                            *)
THEOREM MaskAsAsked == Spec => MaskChangesAsAsked
  <1>1. IInv /\ [Next]_vars => [MaskStep]_vars
    <2> SUFFICES ASSUME IInv, Next PROVE MaskStep
      BY DEF vars
    <2> USE DEF MaskStep
    <2>1. CASE EndCall
      <3>1. call.op \in {"unmask", "mask", "clear"}
        BY <2>1 DEF EndCall
      <3> QED
        BY <2>1, <3>1, EndCallEffect
    <2>2. CASE BhWriteMask
      BY <2>2 DEF BhWriteMask, SetChip, IInv, SnapshotFresh, TypeOK
    <2>3. ASSUME mask' = mask PROVE MaskStep
      BY <2>3
    <2> QED
      BY <2>1, <2>2, <2>3
      DEF Next, Thread, Raise, SetChip, power_ic_irq_handler, BeginCall, ThreadWait,
          ThreadReset, BhLine, BhReadStat, BhReadMask, BhWriteStat, BhCollect,
          BhDispatch, Handled, chip
  <1> QED
    BY <1>1, Invariance, PTL DEF Spec, MaskChangesAsAsked

-----------------------------------------------------------------------------
(* The register-level bottom half implements the abstract event service:   *)
(* clearing and masking an event is one indivisible step to everybody      *)
(* else.                                                                   *)
THEOREM Implements == Spec => ImplementsService
  <1> USE DEF Service!Events, Events, Service!RegEvents
  <1>1. Init => Service!Init
    BY DEF Init, Service!Init, MaskOnceTaken, Collected
  <1>2. IInv /\ [Next]_vars => [Service!Next]_(Service!serviceVars)
    <2> SUFFICES ASSUME IInv, [Next]_vars PROVE [Service!Next]_(Service!serviceVars)
      OBVIOUS
    <2> USE DEF IInv
    <2>1. ASSUME NEW e \in Events, Raise(e) PROVE Service!Raise(e)
      BY <2>1 DEF Raise, SetChip, locals, Service!Raise, MaskOnceTaken, Collected
    <2>2. CASE EndCall
      <3>1. call.event \in Events
        BY <2>2, EndCallEffect
      <3>2. pc # "wrMask" /\ Collected' = Collected
        BY <2>2 DEF EndCall, NoCallInPass, NoCall, MayCall, Collected, locals
      <3>3. CASE call.op = "unmask"
        <4>1. Service!Unmask(call.event)
          BY <2>2, <3>2, <3>3, EndCallEffect DEF EndCall, locals, MaskOnceTaken, Service!Unmask
        <4> QED
          BY <3>1, <4>1 DEF Service!Next
      <3>4. CASE call.op = "mask"
        <4>1. Service!Mask(call.event)
          BY <2>2, <3>2, <3>4, EndCallEffect DEF EndCall, locals, MaskOnceTaken, Service!Mask
        <4> QED
          BY <3>1, <4>1 DEF Service!Next
      <3>5. CASE call.op = "clear"
        <4>1. Service!Clear(call.event)
          BY <2>2, <3>2, <3>5, EndCallEffect DEF EndCall, locals, MaskOnceTaken, Service!Clear
        <4> QED
          BY <3>1, <4>1 DEF Service!Next
      <3> QED
        BY <2>2, <3>3, <3>4, <3>5 DEF EndCall
    <2>3. CASE BhWriteStat
      <3> DEFINE S == isr[reg] \ imr[reg]
      <3>1. reg \in {0, 1} /\ pc = "wrStat" /\ pc' = "wrMask" /\ UNCHANGED <<reg, isr, imr, enabled>>
        BY <2>3 DEF BhWriteStat, TypeOK, locals
      <3>2. S \in SUBSET (stat \cap Service!RegEvents(reg)) /\ S \cap MaskOnceTaken = {}
        BY <3>1 DEF SnapshotFresh, MaskOnceTaken, RegEvents
      <3>3. stat' = stat \ S /\ MaskOnceTaken' = MaskOnceTaken \cup S
        BY <2>3, <3>1 DEF BhWriteStat, SetChip, MaskOnceTaken
      <3>4. Collected' = Collected \cup S
        BY <3>1 DEF Collected
      <3>5. Service!Service(reg)
        <4> HIDE DEF S
        <4>1. UNCHANGED <<enabled, pm_suspend_mask>>
          BY <2>3, <3>1 DEF BhWriteStat
        <4> QED
          BY <3>2, <3>3, <3>4, <4>1 DEF Service!Service
      <3> QED
        BY <3>1, <3>5 DEF Service!Next
    <2>4. CASE BhWriteMask
      <3>1. MaskOnceTaken' = MaskOnceTaken
        BY <2>4 DEF BhWriteMask, SetChip, MaskOnceTaken, SnapshotFresh, TypeOK
      <3>2. Collected' = Collected
        BY <2>4 DEF BhWriteMask, Collected, TypeOK
      <3> QED
        BY <2>4, <3>1, <3>2 DEF BhWriteMask, SetChip, Service!serviceVars
    <2>5. CASE BhCollect
      <3>1. SuspendEvents \cap isr[0] = {}
        BY PowerIcAssumption DEF SnapshotFresh, RegEvents
      <3>2. Service!BeginDispatch
        BY <2>5, <3>1 DEF BhCollect, Service!BeginDispatch, MaskOnceTaken, Collected,
              BatchDone, chip
      <3> QED
        BY <3>2 DEF Service!Next
    <2>6. ASSUME NEW e \in Events, Handled(e) PROVE Service!Dispatched(e)
      BY <2>6 DEF Handled, Service!Dispatched, MaskOnceTaken, Collected, chip
    <2>7. CASE BhReadStat \/ BhReadMask
      BY <2>7 DEF BhReadStat, BhReadMask, Service!serviceVars, MaskOnceTaken, Collected,
                  TypeOK, chip
    <2>8. CASE ThreadWait \/ ThreadReset \/ BhLine \/ BhDispatch
      BY <2>8 DEF ThreadWait, ThreadReset, BhLine, BhDispatch, Service!serviceVars,
                  MaskOnceTaken, Collected, chip, locals
    <2>9. ASSUME \/ power_ic_irq_handler
                 \/ \E op \in ClientOps, e \in Events : BeginCall(op, e)
                 \/ UNCHANGED vars
          PROVE  UNCHANGED Service!serviceVars
      BY <2>9 DEF power_ic_irq_handler, BeginCall, vars, chip, locals,
                  Service!serviceVars, MaskOnceTaken, Collected
    <2> QED
      BY <2>1, <2>2, <2>3, <2>4, <2>5, <2>6, <2>7, <2>8, <2>9 DEF Next, Thread, Service!Next
  <1> QED
    BY <1>1, <1>2, Invariance, PTL DEF Spec, ImplementsService, Service!Spec
=============================================================================
