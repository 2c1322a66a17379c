------------------------- MODULE UsbDetectionProofs -------------------------
(***************************************************************************)
(* Theorems about UsbDetection, for every set of EMU events, every choice  *)
(* of cables and every number of plugs and opens.                          *)
(***************************************************************************)
EXTENDS UsbDetection, SequenceTheorems, TLAPS

(* The file is open while an open is under way, and once it is finished    *)
(* user space's callback is on the list.                                   *)
Handover ==
    /\ ~emu_proc_opened => apc = "idle"
    /\ emu_proc_opened /\ apc = "idle" => callbacks[USBI] # <<"usb">>

(* The light driver is in charge of VBUS.                                  *)
Light == callbacks[USBI] = <<"usb">> /\ ~emu_proc_opened

(* The thread has been told, will be told, or need not be.                 *)
Told ==
    \/ USBI \in serviced \cup todo
    \/ usb_detection_event_flag
    \/ cable_attached = "FACTORY"

(* On the way into the wait for an interrupt, from the handler's result    *)
(* on, VBUS is unmasked or the thread has been told.                       *)
Watched ==
    Light /\ USBI \in mask =>
        /\ upc = "assign" /\ result = "DISCONNECTED" => Told
        /\ upc = "branch" /\ state = "DISCONNECTED" => Told
        /\ upc = "waitInt" => Told

UsbInv == Handover /\ Watched

-----------------------------------------------------------------------------
(* What list_del leaves of a list.                                         *)
LEMMA RemoveAtProperties ==
    ASSUME NEW S, NEW s \in Seq(S), NEW k \in 1 .. Len(s)
    PROVE  RemoveAt(s, k) \in Seq(S) /\ Len(RemoveAt(s, k)) = Len(s) - 1
  <1> DEFINE a == SubSeq(s, 1, k - 1)
             b == SubSeq(s, k + 1, Len(s))
  <1>1. Len(s) \in Nat /\ RemoveAt(s, k) = a \o b
    BY DEF RemoveAt
  <1>2. a \in Seq(S) /\ Len(a) = k - 1
    BY <1>1, SubSeqProperties
  <1>3. b \in Seq(S) /\ Len(b) = Len(s) - k
    BY <1>1, SubSeqProperties
  <1> HIDE DEF a, b
  <1>4. a \o b \in Seq(S) /\ Len(a \o b) = Len(a) + Len(b)
    BY <1>2, <1>3, ConcatProperties
  <1>5. Len(a) + Len(b) = Len(s) - 1
    BY <1>1, <1>2, <1>3
  <1> QED
    BY <1>1, <1>4, <1>5, Zenon

(* What list_add leaves of it.                                             *)
LEMMA AddProperties ==
    ASSUME NEW s \in Seq({"usb", "emu"})
    PROVE  /\ <<"emu">> \o s \in Seq({"usb", "emu"})
           /\ Len(<<"emu">> \o s) = Len(s) + 1
           /\ <<"emu">> \o s # <<"usb">>
  <1>1. <<"emu">> \in Seq({"usb", "emu"}) /\ Len(<<"emu">>) = 1
    OBVIOUS
  <1>2. (<<"emu">> \o s)[1] = "emu"
    BY <1>1, ConcatProperties
  <1>3. <<"usb">>[1] = "usb"
    OBVIOUS
  <1>4. /\ <<"emu">> \o s \in Seq({"usb", "emu"})
        /\ Len(<<"emu">> \o s) = 1 + Len(s)
    BY <1>1, ConcatProperties, Zenon
  <1>5. 1 + Len(s) = Len(s) + 1
    OBVIOUS
  <1>6. <<"emu">> \o s # <<"usb">>
    BY <1>2, <1>3
  <1> QED
    BY <1>4, <1>5, <1>6, Zenon

(* emu_init: the light driver's callback alone is on VBUS's list.          *)
LEMMA InitInv == UsbInit => TypeOK /\ UsbInv
  <1> SUFFICES ASSUME UsbInit PROVE TypeOK /\ UsbInv
    OBVIOUS
  <1>1. /\ callbacks \in [EmuEvents -> Seq({"usb", "emu"})]
        /\ callbacks[USBI] = <<"usb">> /\ entry \in 1 .. (Len(callbacks[USBI]) + 1)
    <2>1. <<"usb">> \in Seq({"usb", "emu"}) /\ <<>> \in Seq({"usb", "emu"})
      OBVIOUS
    <2>2. Len(<<"usb">>) = 1
      OBVIOUS
    <2>3. callbacks[USBI] = <<"usb">> /\ entry = 1
      BY UsbAssumption DEF UsbInit
    <2>4. callbacks \in [EmuEvents -> Seq({"usb", "emu"})]
      <3>1. callbacks = [e \in EmuEvents |-> IF e = USBI THEN <<"usb">> ELSE <<>>]
        BY DEF UsbInit
      <3> QED
        BY <2>1, <3>1
    <2> QED
      BY <2>2, <2>3, <2>4
  <1>2. TypeOK
    <2>1. /\ usb_detection_event_flag \in BOOLEAN /\ prev_vbus_state \in BOOLEAN
          /\ emu_proc_opened \in BOOLEAN
      BY Zenon DEF UsbInit
    <2>2. mask \in SUBSET Events /\ stat \in SUBSET EmuEvents
      BY UsbAssumption DEF UsbInit
    <2> QED
      BY <1>1, <2>1, <2>2, UsbAssumption DEF UsbInit, TypeOK, States, USB_DEBOUNCED
  <1>3. UsbInv
    BY DEF UsbInit, UsbInv, Handover, Watched
  <1> QED
    BY <1>2, <1>3

(* Every step keeps the types.                                             *)
LEMMA NextTyped == TypeOK /\ [UsbNext]_vars => TypeOK'
  <1> SUFFICES ASSUME TypeOK, [UsbNext]_vars PROVE TypeOK'
    OBVIOUS
  <1> USE UsbAssumption DEF TypeOK, At, AppAt, States, Cables, connector, detection, glue,
     serviceVars
  <1>1. ASSUME NEW e \in EmuEvents, NoCallback(e) PROVE TypeOK'
    BY <1>1 DEF NoCallback, Dispatched
  <1>2. ASSUME NEW e \in EmuEvents, usb_detection_int_handler(e) PROVE TypeOK'
    BY <1>2 DEF usb_detection_int_handler, FirstCallback, Dispatched
  <1>3. ASSUME NEW e \in EmuEvents, emu_glue_int_handler(e) PROVE TypeOK'
    BY <1>3 DEF emu_glue_int_handler, FirstCallback, Dispatched
  <1>4. ASSUME NEW e \in EmuEvents, emu_proc_int_mask(e) PROVE TypeOK'
    BY <1>4 DEF emu_proc_int_mask, Mask, Unmask
  <1>5. CASE Plug
    BY <1>5 DEF Plug, Raise
  <1>6. CASE IntService
    BY <1>6 DEF IntService, Service, RegEvents
  <1>7. CASE IntCollect
    BY <1>7 DEF IntCollect, BeginDispatch
  <1>8. CASE ThreadLoop
    BY <1>8 DEF ThreadLoop
  <1>9. CASE ContinueDebouncing
    BY <1>9 DEF ContinueDebouncing, Debouncing, Sampled, USB_DEBOUNCED
  <1>10. CASE Insertion
    BY <1>10 DEF Insertion, Debouncing, USB_DEBOUNCED
  <1>11. CASE UnsupportedCable
    BY <1>11 DEF UnsupportedCable, Debouncing, USB_DEBOUNCED
  <1>12. CASE Removal
    BY <1>12 DEF Removal, Debouncing, USB_DEBOUNCED
  <1>13. CASE usb_detection_removal_polling_handler
    BY <1>13 DEF usb_detection_removal_polling_handler
  <1>14. CASE ThreadClear
    BY <1>14 DEF ThreadClear, Clear
  <1>15. CASE ThreadUnmask
    BY <1>15 DEF ThreadUnmask, Unmask
  <1>16. CASE ThreadAssign
    BY <1>16 DEF ThreadAssign
  <1>17. CASE ThreadBranch
    BY <1>17 DEF ThreadBranch
  <1>18. CASE ThreadWoken
    BY <1>18 DEF ThreadWoken
  <1>19. CASE ThreadReset
    <2>1. usb_detection_event_flag' \in BOOLEAN
      BY <1>19, Zenon DEF ThreadReset
    <2> QED
      BY <1>19, <2>1 DEF ThreadReset
  <1>20. CASE emu_proc_open
    BY <1>20 DEF emu_proc_open
  <1>21. CASE OpenMask
    BY <1>21 DEF OpenMask, Mask
  <1>22. CASE OpenUnsubscribe
    <2>1. CASE callbacks[USBI][entry] = "usb"
      <3>1. entry \in 1 .. Len(callbacks[USBI]) /\ callbacks[USBI] \in Seq({"usb", "emu"})
        BY <1>22 DEF OpenUnsubscribe
      <3>2. /\ RemoveAt(callbacks[USBI], entry) \in Seq({"usb", "emu"})
            /\ Len(RemoveAt(callbacks[USBI], entry)) = Len(callbacks[USBI]) - 1
        BY <3>1, RemoveAtProperties
      <3>3. callbacks' = [callbacks EXCEPT ![USBI] = RemoveAt(callbacks[USBI], entry)]
        BY <1>22, <2>1 DEF OpenUnsubscribe
      <3>4. /\ callbacks' \in [EmuEvents -> Seq({"usb", "emu"})]
            /\ callbacks'[USBI] = RemoveAt(callbacks[USBI], entry)
        BY <3>2, <3>3
      <3> QED
        BY <1>22, <2>1, <3>1, <3>2, <3>4 DEF OpenUnsubscribe
    <2>2. CASE callbacks[USBI][entry] # "usb"
      BY <1>22, <2>2 DEF OpenUnsubscribe
    <2> QED
      BY <2>1, <2>2
  <1>23. CASE UnsubscribeEnds
    BY <1>23 DEF UnsubscribeEnds
  <1>24. CASE OpenSubscribe
    <2>1. /\ callbacks' \in [EmuEvents -> Seq({"usb", "emu"})]
          /\ Len(callbacks'[USBI]) = Len(callbacks[USBI]) + 1
      BY <1>24, AddProperties DEF OpenSubscribe
    <2> QED
      BY <1>24, <2>1 DEF OpenSubscribe
  <1>25. CASE emu_proc_release
    <2>1. emu_proc_opened' \in BOOLEAN
      BY <1>25, Zenon DEF emu_proc_release
    <2> QED
      BY <1>25, <2>1 DEF emu_proc_release
  <1>26. CASE emu_proc_read
    BY <1>26 DEF emu_proc_read
  <1>27. CASE UNCHANGED vars
    BY <1>27 DEF vars
  <1> HIDE DEF TypeOK, At, AppAt, States, Cables, connector, detection, glue, serviceVars
  <1> QED
    BY <1>1, <1>2, <1>3, <1>4, <1>5, <1>6, <1>7, <1>8, <1>9, <1>10, <1>11, <1>12, <1>13,
       <1>14, <1>15, <1>16, <1>17, <1>18, <1>19, <1>20, <1>21, <1>22, <1>23, <1>24, <1>25,
       <1>26, <1>27 DEF UsbNext, IntThread, DetectionThread, Application

(* Every step of the three threads keeps the thread told.                  *)
LEMMA NextInv == TypeOK /\ UsbInv /\ [UsbNext]_vars => UsbInv'
  <1> SUFFICES ASSUME TypeOK, UsbInv, [UsbNext]_vars PROVE UsbInv'
    OBVIOUS
  <1> USE UsbAssumption DEF TypeOK, At, AppAt, States, Cables, connector, detection, glue,
     serviceVars, UsbInv, Handover, Watched, Light, Told
  <1>1. ASSUME NEW e \in EmuEvents, NoCallback(e) PROVE UsbInv'
    <2>1. <<>> # <<"usb">>
      OBVIOUS
    <2> QED
      BY <1>1, <2>1 DEF NoCallback, Dispatched
  <1>2. ASSUME NEW e \in EmuEvents, usb_detection_int_handler(e) PROVE UsbInv'
    BY <1>2 DEF usb_detection_int_handler, FirstCallback, Dispatched
  <1>3. ASSUME NEW e \in EmuEvents, emu_glue_int_handler(e) PROVE UsbInv'
    BY <1>3 DEF emu_glue_int_handler, FirstCallback, Dispatched
  <1>4. ASSUME NEW e \in EmuEvents, emu_proc_int_mask(e) PROVE UsbInv'
    BY <1>4 DEF emu_proc_int_mask, Mask, Unmask
  <1>5. CASE Plug
    BY <1>5 DEF Plug, Raise
  <1>6. CASE IntService
    BY <1>6 DEF IntService, Service, RegEvents
  <1>7. CASE IntCollect
    BY <1>7 DEF IntCollect, BeginDispatch
  <1>8. CASE ThreadLoop
    BY <1>8 DEF ThreadLoop
  <1>9. CASE ContinueDebouncing
    BY <1>9 DEF ContinueDebouncing, Debouncing, Sampled, USB_DEBOUNCED
  <1>10. CASE Insertion
    BY <1>10 DEF Insertion, Debouncing, USB_DEBOUNCED
  <1>11. CASE UnsupportedCable
    BY <1>11 DEF UnsupportedCable, Debouncing, USB_DEBOUNCED
  <1>12. CASE Removal
    BY <1>12 DEF Removal, Debouncing, USB_DEBOUNCED
  <1>13. CASE usb_detection_removal_polling_handler
    BY <1>13 DEF usb_detection_removal_polling_handler
  <1>14. CASE ThreadClear
    BY <1>14 DEF ThreadClear, Clear
  <1>15. CASE ThreadUnmask
    BY <1>15 DEF ThreadUnmask, Unmask
  <1>16. CASE ThreadAssign
    BY <1>16 DEF ThreadAssign
  <1>17. CASE ThreadBranch
    BY <1>17 DEF ThreadBranch
  <1>18. CASE ThreadWoken
    BY <1>18 DEF ThreadWoken
  <1>19. CASE ThreadReset
    BY <1>19 DEF ThreadReset
  <1>20. CASE emu_proc_open
    BY <1>20 DEF emu_proc_open
  <1>21. CASE OpenMask
    BY <1>21 DEF OpenMask, Mask
  <1>22. CASE OpenUnsubscribe
    BY <1>22 DEF OpenUnsubscribe
  <1>23. CASE UnsubscribeEnds
    BY <1>23 DEF UnsubscribeEnds
  <1>24. CASE OpenSubscribe
    <2>1. callbacks'[USBI] # <<"usb">>
      BY <1>24, AddProperties DEF OpenSubscribe
    <2> QED
      BY <1>24, <2>1 DEF OpenSubscribe
  <1>25. CASE emu_proc_release
    BY <1>25 DEF emu_proc_release
  <1>26. CASE emu_proc_read
    BY <1>26 DEF emu_proc_read
  <1>27. CASE UNCHANGED vars
    BY <1>27 DEF vars
  <1> HIDE DEF TypeOK, At, AppAt, States, Cables, connector, detection, glue, serviceVars,
     UsbInv, Handover, Watched, Light, Told
  <1> QED
    BY <1>1, <1>2, <1>3, <1>4, <1>5, <1>6, <1>7, <1>8, <1>9, <1>10, <1>11, <1>12, <1>13,
       <1>14, <1>15, <1>16, <1>17, <1>18, <1>19, <1>20, <1>21, <1>22, <1>23, <1>24, <1>25,
       <1>26, <1>27 DEF UsbNext, IntThread, DetectionThread, Application

-----------------------------------------------------------------------------
(* The hand-over and the way into the wait, in every reachable state.      *)
THEOREM Invariance == UsbSpec => [](TypeOK /\ UsbInv)
  <1>1. TypeOK /\ UsbInv /\ [UsbNext]_vars => (TypeOK /\ UsbInv)'
    BY NextTyped, NextInv
  <1> QED
    BY <1>1, InitInv, PTL DEF UsbSpec

(* The state of the detection and of the glue has its type; the walk of    *)
(* the unsubscribe stays inside the list.                                  *)
THEOREM TypeCorrect == UsbSpec => []TypeOK
  <1>1. TypeOK /\ UsbInv => TypeOK
    OBVIOUS
  <1> QED
    BY <1>1, Invariance, PTL

(* While the light driver is in charge, VBUS is not left masked with       *)
(* nobody to look at it, however plugs, interrupts and opens fall into the *)
(* windows of the detection thread.                                        *)
THEOREM VbusWatched == UsbSpec => []MaskedIsWatched
  <1>1. TypeOK /\ UsbInv => MaskedIsWatched
    BY DEF UsbInv, Watched, Light, Told, MaskedIsWatched
  <1> QED
    BY <1>1, Invariance, PTL
=============================================================================
