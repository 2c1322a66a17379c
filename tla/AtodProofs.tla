----------------------------- MODULE AtodProofs -----------------------------
(***************************************************************************)
(* Theorems about Atod, for any number of applications, clients and calls, *)
(* whichever of them come together, with and without faults.               *)
(***************************************************************************)
EXTENDS Atod, TLAPS

(* The lines between down_interruptible and up of the two mutexes.         *)
HardwarePcs == {"xMask", "xSetUp", "xStart", "xPoll", "xDisable", "xStarted", "xFlag",
                "xBatt", "xClear", "xUnmask", "xTime", "xArm", "xUp",
                "bSetUp", "bClear", "bUnmask", "bTime", "bArm", "bUp"}
PostponablePcs == {"bDownH", "bSetUp", "bClear", "bUnmask", "bTime", "bArm", "bUp",
                   "rReset", "cMask", "cReset"}

(* hardware_mutex is a mutex, and no error path loses it.                  *)
HardwareMutex ==
    /\ \A a, b \in Apps : pc[a] \in HardwarePcs /\ pc[b] \in HardwarePcs => a = b
    /\ hardware_mutex = 0 <=> \E a \in Apps : pc[a] \in HardwarePcs

(* postponable_mutex is a mutex (error paths do lose it).                  *)
PostponableMutex ==
    /\ \A a, b \in Apps : pc[a] \in PostponablePcs /\ pc[b] \in PostponablePcs => a = b
    /\ (\E a \in Apps : pc[a] \in PostponablePcs) => postponable_mutex = 0

MutexInv == TypeOK /\ HardwareMutex /\ PostponableMutex

-----------------------------------------------------------------------------
(* An event that is being served is masked.                                *)
ServedIsMasked == ADCDONEI \in serviced \cup todo => ADCDONEI \in mask

(* The lines of an exclusive conversion from its mask to the unmask of its *)
(* restart.                                                                *)
MaskedPcs == {"xSetUp", "xStart", "xPoll", "xDisable", "xStarted", "xFlag", "xBatt",
              "xClear", "xUnmask"}

(* Unless a read or a cancel came into a restart: the interrupt is         *)
(* unmasked for a conversion only, an exclusive conversion keeps it out,   *)
(* and what is restarted was begun.                                        *)
KeptOut ==
    "ended" \notin spoiled =>
        /\ ADCDONEI \notin mask => postponable_conversion_started
        /\ \A a \in Apps : pc[a] \in MaskedPcs =>
               ADCDONEI \in mask /\ ADCDONEI \notin serviced \cup todo
        /\ \A a \in Apps : pc[a] \in RestartPcs => postponable_conversion_started

(* A begin: started, the trigger fresh or the conversion spoiled, and set  *)
(* up unless it has completed.                                             *)
BeginStages == \A a \in Apps :
    /\ pc[a] \in {"bClear", "bUnmask", "bTime", "bArm"} =>
           /\ postponable_conversion_started
           /\ shot = "fresh" \/ spoiled # {}
           /\ chan = "batt"
           /\ aden \/ postponable_conversion_event_flag
    /\ pc[a] \in {"bTime", "bArm"} =>
           \/ postponable_conversion_event_flag
           \/ ADCDONEI \notin mask \/ ADCDONEI \in serviced \cup todo

(* A restart: the trigger is fresh, and the conversion is set up unless it *)
(* has completed or is being cancelled.                                    *)
RestartStages == \A a \in Apps :
    /\ pc[a] \in {"xPoll", "xDisable", "xStarted", "xFlag", "xBatt", "xClear", "xUnmask",
                  "xTime", "xArm"} =>
           shot = "fresh"
    /\ pc[a] \in {"xClear", "xUnmask", "xTime", "xArm"} =>
           chan = "batt" /\ (Outstanding => aden)
    /\ pc[a] \in {"xTime", "xArm"} =>
           \/ ~Outstanding
           \/ \E b \in Apps : pc[b] = "cReset"
           \/ ADCDONEI \notin mask \/ ADCDONEI \in serviced \cup todo

(* The lines at which the converter is not set up for the conversion that  *)
(* is outstanding.                                                         *)
StolenPcs == MaskedPcs \cup {"xTime", "xArm", "bClear", "bUnmask", "bTime", "bArm"}

(* Nobody is changing the set-up: the conversion is armed or on its way.   *)
ArmedUnlessStolen ==
    /\ spoiled = {}
    /\ Outstanding
    /\ \A a \in Apps : pc[a] \notin StolenPcs \cup {"cReset"}
    => \/ ADCDONEI \in serviced \cup todo
       \/ /\ ADCDONEI \notin mask
          /\ ADCDONEI \in stat \/ (shot = "armed" /\ aden /\ chan = "batt")

StealInv == ServedIsMasked /\ KeptOut /\ BeginStages /\ RestartStages /\ ArmedUnlessStolen

-----------------------------------------------------------------------------
(* Nobody is in a call and both mutexes are free.                          *)
LEMMA InitMutex == AtodInit => MutexInv
  <1> SUFFICES ASSUME AtodInit PROVE MutexInv
    OBVIOUS
  <1>1. /\ aden \in BOOLEAN /\ asc \in BOOLEAN
        /\ postponable_conversion_started \in BOOLEAN
        /\ postponable_conversion_event_flag \in BOOLEAN
    BY Zenon DEF AtodInit
  <1>2. TypeOK
    BY <1>1, AtodAssumption, AdcDoneIsEvent DEF AtodInit, TypeOK
  <1> QED
    BY <1>2 DEF AtodInit, MutexInv, HardwareMutex, PostponableMutex, HardwarePcs,
                PostponablePcs

(* Every step keeps both mutexes: whoever is past a down has it alone.     *)
LEMMA NextMutex == MutexInv /\ [AtodNext]_vars => MutexInv'
  <1> SUFFICES ASSUME MutexInv, [AtodNext]_vars PROVE MutexInv'
    OBVIOUS
  <1> USE AdcDoneIsEvent, AtodAssumption DEF MutexInv, TypeOK, HardwareMutex,
     PostponableMutex, HardwarePcs, PostponablePcs, ExclusivePcs, BeginPcs, EndPcs,
     Spoils, At, Go, chip, locks, flags, timing, call, serviceVars
  <1>1. CASE Burst
    BY <1>1 DEF Burst, Raise
  <1>2. CASE ImmediateEnds
    <2>1. asc' \in BOOLEAN
      BY <1>2, Zenon DEF ImmediateEnds, Raise
    <2> QED
      BY <1>2, <2>1 DEF ImmediateEnds, Raise
  <1>3. CASE IntService
    BY <1>3 DEF IntService, Service
  <1>4. CASE IntCollect
    BY <1>4 DEF IntCollect, BeginDispatch
  <1>5. CASE atod_complete_event_handler
    <2>1. postponable_conversion_event_flag' \in BOOLEAN /\ aden' \in BOOLEAN
      BY <1>5, Zenon DEF atod_complete_event_handler, Dispatched, Ignored
    <2> QED
      BY <1>5, <2>1 DEF atod_complete_event_handler, Dispatched, Ignored
  <1>6. ASSUME NEW a \in Apps, ExclusiveDown(a) PROVE MutexInv'
    BY <1>6 DEF ExclusiveDown
  <1>7. ASSUME NEW a \in Apps, ExclusiveMask(a) PROVE MutexInv'
    BY <1>7 DEF ExclusiveMask, Mask
  <1>8. ASSUME NEW a \in Apps, set_up_hardware_exclusive_conversion(a) PROVE MutexInv'
    BY <1>8 DEF set_up_hardware_exclusive_conversion, SetUp
  <1>9. ASSUME NEW a \in Apps, ExclusiveStart(a) PROVE MutexInv'
    BY <1>9 DEF ExclusiveStart
  <1>10. ASSUME NEW a \in Apps, ExclusivePoll(a) PROVE MutexInv'
    BY <1>10 DEF ExclusivePoll
  <1>11. ASSUME NEW a \in Apps, disable_converter(a) PROVE MutexInv'
    <2>1. aden' \in BOOLEAN
      BY <1>11, Zenon DEF disable_converter, Ignored
    <2> QED
      BY <1>11, <2>1 DEF disable_converter, Ignored
  <1>12. ASSUME NEW a \in Apps, ExclusiveStarted(a) PROVE MutexInv'
    BY <1>12 DEF ExclusiveStarted
  <1>13. ASSUME NEW a \in Apps, ExclusiveFlag(a) PROVE MutexInv'
    BY <1>13 DEF ExclusiveFlag
  <1>14. ASSUME NEW a \in Apps, RestartSetUp(a) PROVE MutexInv'
    BY <1>14 DEF RestartSetUp, SetUp
  <1>15. ASSUME NEW a \in Apps, RestartClear(a) PROVE MutexInv'
    BY <1>15 DEF RestartClear, ClearDone, Clear
  <1>16. ASSUME NEW a \in Apps, RestartUnmask(a) PROVE MutexInv'
    BY <1>16 DEF RestartUnmask, UnmaskDone, Unmask
  <1>17. ASSUME NEW a \in Apps, RestartTime(a) PROVE MutexInv'
    BY <1>17 DEF RestartTime, SetTime, Ignored
  <1>18. ASSUME NEW a \in Apps, RestartArm(a) PROVE MutexInv'
    <2>1. spoiled' \subseteq Spoils
      BY <1>18 DEF RestartArm
    <2>2. shot' \in {"fresh", "armed", "used"}
      BY <1>18 DEF RestartArm, arm_one_shot, Armed
    <2> QED
      BY <1>18, <2>1, <2>2 DEF RestartArm, arm_one_shot
  <1>19. ASSUME NEW a \in Apps, ExclusiveUp(a) PROVE MutexInv'
    BY <1>19 DEF ExclusiveUp
  <1>20. ASSUME NEW a \in Apps, BeginDownP(a) PROVE MutexInv'
    BY <1>20 DEF BeginDownP
  <1>21. ASSUME NEW a \in Apps, BeginDownH(a) PROVE MutexInv'
    BY <1>21 DEF BeginDownH
  <1>22. ASSUME NEW a \in Apps, BeginSetUp(a) PROVE MutexInv'
    <2>1. /\ aden' \in BOOLEAN
          /\ postponable_conversion_started' \in BOOLEAN
          /\ postponable_conversion_event_flag' \in BOOLEAN
      BY <1>22, Zenon DEF BeginSetUp, SetUp
    <2>2. spoiled' \subseteq Spoils
      BY <1>22 DEF BeginSetUp
    <2> HIDE DEF Spoils
    <2> QED
      BY <1>22, <2>1, <2>2 DEF BeginSetUp, SetUp
  <1>23. ASSUME NEW a \in Apps, BeginClear(a) PROVE MutexInv'
    BY <1>23 DEF BeginClear, ClearDone, Clear
  <1>24. ASSUME NEW a \in Apps, BeginUnmask(a) PROVE MutexInv'
    BY <1>24 DEF BeginUnmask, UnmaskDone, Unmask
  <1>25. ASSUME NEW a \in Apps, BeginTime(a) PROVE MutexInv'
    BY <1>25 DEF BeginTime, SetTime, Ignored
  <1>26. ASSUME NEW a \in Apps, BeginArm(a) PROVE MutexInv'
    <2>1. spoiled' \subseteq Spoils
      BY <1>26 DEF BeginArm
    <2>2. shot' \in {"fresh", "armed", "used"}
      BY <1>26 DEF BeginArm, arm_one_shot, Armed
    <2> QED
      BY <1>26, <2>1, <2>2 DEF BeginArm, arm_one_shot
  <1>27. ASSUME NEW a \in Apps, BeginUp(a) PROVE MutexInv'
    BY <1>27 DEF BeginUp
  <1>28. ASSUME NEW a \in Apps, EndDown(a) PROVE MutexInv'
    BY <1>28 DEF EndDown
  <1>29. ASSUME NEW a \in Apps, CancelMask(a) PROVE MutexInv'
    BY <1>29 DEF CancelMask, Mask
  <1>30. ASSUME NEW a \in Apps, EndReset(a) PROVE MutexInv'
    <2>1. /\ postponable_conversion_started' \in BOOLEAN
          /\ postponable_conversion_event_flag' \in BOOLEAN
      BY <1>30, Zenon DEF EndReset
    <2> QED
      BY <1>30, <2>1 DEF EndReset
  <1>31. ASSUME NEW a \in Apps, ExclusiveCall(a) PROVE MutexInv'
    BY <1>31 DEF ExclusiveCall
  <1>32. ASSUME NEW a \in Apps, ReadCall(a) PROVE MutexInv'
    BY <1>32 DEF ReadCall
  <1>33. ASSUME NEW a \in Apps, CancelCall(a) PROVE MutexInv'
    BY <1>33 DEF CancelCall
  <1>34. ASSUME NEW a \in Apps, NEW t \in Timings, BeginCall(a, t) PROVE MutexInv'
    BY <1>34 DEF BeginCall
  <1>35. ASSUME NEW a \in Apps, ExclusiveSignalled(a) PROVE MutexInv'
    BY <1>35 DEF ExclusiveSignalled
  <1>36. ASSUME NEW a \in Apps, BeginSignalled(a) PROVE MutexInv'
    BY <1>36 DEF BeginSignalled
  <1>37. ASSUME NEW a \in Apps, EndFails(a) PROVE MutexInv'
    BY <1>37 DEF EndFails
  <1>38. ASSUME NEW a \in Apps, ExclusiveInvalid(a) PROVE MutexInv'
    BY <1>38 DEF ExclusiveInvalid
  <1>39. CASE UNCHANGED vars
    BY <1>39 DEF vars
  <1> QED
    BY <1>1, <1>2, <1>3, <1>4, <1>5, <1>6, <1>7, <1>8, <1>9, <1>10, <1>11, <1>12,
       <1>13, <1>14, <1>15, <1>16, <1>17, <1>18, <1>19, <1>20, <1>21, <1>22,
       <1>23, <1>24, <1>25, <1>26, <1>27, <1>28, <1>29, <1>30, <1>31, <1>32,
       <1>33, <1>34, <1>35, <1>36, <1>37, <1>38, <1>39 DEF AtodNext, Converter,
       IntThread, InCall, exclusive_conversion, non_blocking_conversion,
       EndConversion

(* The driver's state has its type: in particular no path, error path or   *)
(* not, brings a semaphore above one.                                      *)
THEOREM TypeCorrect == AtodSpec => []TypeOK
  <1>1. MutexInv => TypeOK
    BY DEF MutexInv
  <1> QED
    BY <1>1, InitMutex, NextMutex, PTL DEF AtodSpec

(* At most one application is between taking and releasing hardware_mutex, *)
(* and it is free whenever none is: unlike postponable_mutex, no signal    *)
(* and no fault leaves it taken.                                           *)
THEOREM HardwareMutexKept == AtodSpec => []HardwareMutex
  <1>1. MutexInv => HardwareMutex
    BY DEF MutexInv
  <1> QED
    BY <1>1, InitMutex, NextMutex, PTL DEF AtodSpec

-----------------------------------------------------------------------------
(* Nothing is outstanding and the interrupt is masked.                     *)
LEMMA InitSteal == AtodInit => StealInv
  BY AdcDoneIsEvent
     DEF AtodInit, StealInv, ServedIsMasked, KeptOut, BeginStages, RestartStages,
         ArmedUnlessStolen, Outstanding, MaskedPcs, RestartPcs, StolenPcs

(* Every step of the converter, the interrupt thread and the applications  *)
(* keeps the account of the stolen converter.                              *)
LEMMA NextSteal ==
    MutexInv /\ StealInv /\ [AtodNext]_vars => StealInv'
  <1> SUFFICES ASSUME MutexInv, StealInv, [AtodNext]_vars
               PROVE  StealInv'
    OBVIOUS
  <1> USE AdcDoneIsEvent, AtodAssumption DEF MutexInv, TypeOK, HardwareMutex,
     PostponableMutex, HardwarePcs, PostponablePcs, ExclusivePcs, BeginPcs, EndPcs,
     Spoils, MaskedPcs, RestartPcs, StolenPcs, At, Go, chip, locks, flags, timing, call,
     serviceVars, StealInv, Outstanding, ServedIsMasked, KeptOut, BeginStages,
     RestartStages, ArmedUnlessStolen
  <1>1. CASE Burst
    BY <1>1 DEF Burst, Raise
  <1>2. CASE ImmediateEnds
    BY <1>2 DEF ImmediateEnds, Raise
  <1>3. CASE IntService
    BY <1>3 DEF IntService, Service
  <1>4. CASE IntCollect
    BY <1>4 DEF IntCollect, BeginDispatch
  <1>5. CASE atod_complete_event_handler
    BY <1>5 DEF atod_complete_event_handler, Dispatched, Ignored
  <1>6. ASSUME NEW a \in Apps, ExclusiveDown(a) PROVE StealInv'
    BY <1>6 DEF ExclusiveDown
  <1>7. ASSUME NEW a \in Apps, ExclusiveMask(a) PROVE StealInv'
    BY <1>7 DEF ExclusiveMask, Mask
  <1>8. ASSUME NEW a \in Apps, set_up_hardware_exclusive_conversion(a) PROVE StealInv'
    BY <1>8 DEF set_up_hardware_exclusive_conversion, SetUp
  <1>9. ASSUME NEW a \in Apps, ExclusiveStart(a) PROVE StealInv'
    BY <1>9 DEF ExclusiveStart
  <1>10. ASSUME NEW a \in Apps, ExclusivePoll(a) PROVE StealInv'
    BY <1>10 DEF ExclusivePoll
  <1>11. ASSUME NEW a \in Apps, disable_converter(a) PROVE StealInv'
    BY <1>11 DEF disable_converter, Ignored
  <1>12. ASSUME NEW a \in Apps, ExclusiveStarted(a) PROVE StealInv'
    BY <1>12 DEF ExclusiveStarted
  <1>13. ASSUME NEW a \in Apps, ExclusiveFlag(a) PROVE StealInv'
    BY <1>13 DEF ExclusiveFlag
  <1>14. ASSUME NEW a \in Apps, RestartSetUp(a) PROVE StealInv'
    BY <1>14 DEF RestartSetUp, SetUp
  <1>15. ASSUME NEW a \in Apps, RestartClear(a) PROVE StealInv'
    BY <1>15 DEF RestartClear, ClearDone, Clear
  <1>16. ASSUME NEW a \in Apps, RestartUnmask(a) PROVE StealInv'
    BY <1>16 DEF RestartUnmask, UnmaskDone, Unmask
  <1>17. ASSUME NEW a \in Apps, RestartTime(a) PROVE StealInv'
    BY <1>17 DEF RestartTime, SetTime, Ignored
  <1>18. ASSUME NEW a \in Apps, RestartArm(a) PROVE StealInv'
    <2>1. ServedIsMasked'
      BY <1>18 DEF RestartArm, arm_one_shot, Armed
    <2>2. KeptOut'
      BY <1>18 DEF RestartArm, arm_one_shot, Armed
    <2>3. BeginStages'
      BY <1>18 DEF RestartArm, arm_one_shot, Armed
    <2>4. RestartStages'
      BY <1>18 DEF RestartArm, arm_one_shot, Armed
    <2>5. ArmedUnlessStolen'
      BY <1>18 DEF RestartArm, arm_one_shot, Armed
    <2> QED
      BY <2>1, <2>2, <2>3, <2>4, <2>5
  <1>19. ASSUME NEW a \in Apps, ExclusiveUp(a) PROVE StealInv'
    BY <1>19 DEF ExclusiveUp
  <1>20. ASSUME NEW a \in Apps, BeginDownP(a) PROVE StealInv'
    BY <1>20 DEF BeginDownP
  <1>21. ASSUME NEW a \in Apps, BeginDownH(a) PROVE StealInv'
    BY <1>21 DEF BeginDownH
  <1>22. ASSUME NEW a \in Apps, BeginSetUp(a) PROVE StealInv'
    BY <1>22 DEF BeginSetUp, SetUp
  <1>23. ASSUME NEW a \in Apps, BeginClear(a) PROVE StealInv'
    BY <1>23 DEF BeginClear, ClearDone, Clear
  <1>24. ASSUME NEW a \in Apps, BeginUnmask(a) PROVE StealInv'
    BY <1>24 DEF BeginUnmask, UnmaskDone, Unmask
  <1>25. ASSUME NEW a \in Apps, BeginTime(a) PROVE StealInv'
    BY <1>25 DEF BeginTime, SetTime, Ignored
  <1>26. ASSUME NEW a \in Apps, BeginArm(a) PROVE StealInv'
    <2>1. ServedIsMasked'
      BY <1>26 DEF BeginArm, arm_one_shot, Armed
    <2>2. KeptOut'
      BY <1>26 DEF BeginArm, arm_one_shot, Armed
    <2>3. BeginStages'
      BY <1>26 DEF BeginArm, arm_one_shot, Armed
    <2>4. RestartStages'
      BY <1>26 DEF BeginArm, arm_one_shot, Armed
    <2>5. ArmedUnlessStolen'
      BY <1>26 DEF BeginArm, arm_one_shot, Armed
    <2> QED
      BY <2>1, <2>2, <2>3, <2>4, <2>5
  <1>27. ASSUME NEW a \in Apps, BeginUp(a) PROVE StealInv'
    BY <1>27 DEF BeginUp
  <1>28. ASSUME NEW a \in Apps, EndDown(a) PROVE StealInv'
    BY <1>28 DEF EndDown
  <1>29. ASSUME NEW a \in Apps, CancelMask(a) PROVE StealInv'
    BY <1>29 DEF CancelMask, Mask
  <1>30. ASSUME NEW a \in Apps, EndReset(a) PROVE StealInv'
    BY <1>30 DEF EndReset
  <1>31. ASSUME NEW a \in Apps, ExclusiveCall(a) PROVE StealInv'
    BY <1>31 DEF ExclusiveCall
  <1>32. ASSUME NEW a \in Apps, ReadCall(a) PROVE StealInv'
    BY <1>32 DEF ReadCall
  <1>33. ASSUME NEW a \in Apps, CancelCall(a) PROVE StealInv'
    BY <1>33 DEF CancelCall
  <1>34. ASSUME NEW a \in Apps, NEW t \in Timings, BeginCall(a, t) PROVE StealInv'
    BY <1>34 DEF BeginCall
  <1>35. ASSUME NEW a \in Apps, ExclusiveSignalled(a) PROVE StealInv'
    BY <1>35 DEF ExclusiveSignalled
  <1>36. ASSUME NEW a \in Apps, BeginSignalled(a) PROVE StealInv'
    BY <1>36 DEF BeginSignalled
  <1>37. ASSUME NEW a \in Apps, EndFails(a) PROVE StealInv'
    BY <1>37 DEF EndFails
  <1>38. ASSUME NEW a \in Apps, ExclusiveInvalid(a) PROVE StealInv'
    BY <1>38 DEF ExclusiveInvalid
  <1>39. CASE UNCHANGED vars
    BY <1>39 DEF vars
  <1> HIDE DEF MutexInv, TypeOK, HardwareMutex, PostponableMutex, HardwarePcs,
     PostponablePcs, ExclusivePcs, BeginPcs, EndPcs, Spoils, MaskedPcs, RestartPcs,
     StolenPcs, At, Go, chip, locks, flags, timing, call, serviceVars, StealInv,
     Outstanding, ServedIsMasked, KeptOut, BeginStages, RestartStages,
     ArmedUnlessStolen
  <1> QED
    BY <1>1, <1>2, <1>3, <1>4, <1>5, <1>6, <1>7, <1>8, <1>9, <1>10, <1>11, <1>12,
       <1>13, <1>14, <1>15, <1>16, <1>17, <1>18, <1>19, <1>20, <1>21, <1>22,
       <1>23, <1>24, <1>25, <1>26, <1>27, <1>28, <1>29, <1>30, <1>31, <1>32,
       <1>33, <1>34, <1>35, <1>36, <1>37, <1>38, <1>39 DEF AtodNext, Converter,
       IntThread, InCall, exclusive_conversion, non_blocking_conversion,
       EndConversion

(* The account of the stolen converter holds in every reachable state.     *)
THEOREM StealInvariance == AtodSpec => [](MutexInv /\ StealInv)
  <1>1. AtodInit => MutexInv /\ StealInv
    BY InitMutex, InitSteal
  <1>2. MutexInv /\ StealInv /\ [AtodNext]_vars => (MutexInv /\ StealInv)'
    BY NextMutex, NextSteal
  <1> QED
    BY <1>1, <1>2, PTL DEF AtodSpec

(* However often exclusive conversions steal the converter, whichever      *)
(* calls come together and whichever fail: when it is nobody's, the        *)
(* conversion that was begun is armed with its interrupt unmasked, or its  *)
(* completion is on its way, or one of the four things in Spoils has come  *)
(* in its way since it was begun or restarted last.                        *)
THEOREM StolenIsRestarted == AtodSpec => []OutstandingIsArmed
  <1>1. MutexInv /\ StealInv => OutstandingIsArmed
    <2> SUFFICES ASSUME MutexInv, StealInv, spoiled = {}, hardware_mutex = 1,
                        \A a \in Apps : pc[a] # "cReset"
                 PROVE  ArmedAtRest
      BY DEF OutstandingIsArmed, ArmedAtRest
    <2>1. \A a \in Apps : pc[a] \notin StolenPcs \cup {"cReset"}
      BY DEF MutexInv, HardwareMutex, HardwarePcs, StolenPcs, MaskedPcs
    <2> QED
      BY <2>1 DEF StealInv, ArmedUnlessStolen, ArmedAtRest
  <1> QED
    BY <1>1, StealInvariance, PTL

(* The completion handler never turns the converter off in the middle of   *)
(* an exclusive conversion, unless a read or a cancel has come into a      *)
(* restart, whatever else happens at the same time.                        *)
THEOREM ExclusiveNotDisturbed == AtodSpec => []ExclusiveUndisturbed
  <1>1. StealInv => ExclusiveUndisturbed
    BY DEF StealInv, KeptOut, MaskedPcs, ExclusiveUndisturbed
  <1> QED
    BY <1>1, StealInvariance, PTL
=============================================================================
