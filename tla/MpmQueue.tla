------------------------------ MODULE MpmQueue ------------------------------
(***************************************************************************)
(* What the event queue of MPM promises to the reader of its events: they  *)
(* come in the order of their notification, each once, and when nobody     *)
(* reads, the newest ones are kept.                                        *)
(***************************************************************************)
EXTENDS Naturals, Sequences

CONSTANTS
    MpmEvents,   \* what an event can say
    Capacity     \* events that are kept

VARIABLES
    queue,       \* the events not read yet, oldest first
    evt          \* the event read last

Init == queue = <<>> /\ evt \in MpmEvents

Notify(e) ==
    /\ queue' = IF Len(queue) = Capacity THEN Append(Tail(queue), e) ELSE Append(queue, e)
    /\ UNCHANGED evt

Get ==
    /\ queue # <<>>
    /\ evt' = Head(queue)
    /\ queue' = Tail(queue)

Next == Get \/ \E e \in MpmEvents : Notify(e)

Spec == Init /\ [][Next]_<<queue, evt>>
=============================================================================
