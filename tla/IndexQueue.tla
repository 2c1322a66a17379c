----------------------------- MODULE IndexQueue -----------------------------
(***************************************************************************)
(* What debounce.c's queue of table indices does as seen from outside its  *)
(* mutex: one step for a call of add_index, one for the thread's taking of *)
(* an index.                                                               *)
(*                                                                         *)
(* add_index computes the new tail before it takes the mutex.  A call that *)
(* another call overlaps therefore stores its index at the tail it finds   *)
(* but sets the tail to where an older tail would have led: indices behind *)
(* it stay in the array and are out of the queue, until a later call       *)
(* writes over them or moves the tail past them again.  A full queue drops *)
(* the index.                                                              *)
(*                                                                         *)
(* DebounceQueue implements this specification; Debounce is built on it.   *)
(***************************************************************************)
EXTENDS Integers, Sequences

CONSTANT QueueMax   \* QUEUE_MAX_EVENTS

ASSUME QueueMaxAssumption == QueueMax \in Nat /\ QueueMax > 1

VARIABLES
    event_queue,    \* the array from queue_head on, what is left past the tail included
    queue_tail,     \* queue_tail - queue_head: how many of them are in the queue
    lost            \* history: the indices that were once dropped or left out

indexVars == <<event_queue, queue_tail, lost>>

(* The indices are of K, and those past the tail have been lost once.      *)
QueueTypeOK(K) ==
    /\ event_queue \in Seq(K) /\ Len(event_queue) <= QueueMax
    /\ queue_tail \in 0 .. Len(event_queue) /\ queue_tail < QueueMax
    /\ lost \in SUBSET K
    /\ \A n \in queue_tail + 1 .. Len(event_queue) : event_queue[n] \in lost

QueueInit ==
    /\ event_queue = <<>>
    /\ queue_tail = 0
    /\ lost = {}

(* The array with index k stored at the tail.                              *)
Placed(k) ==
    IF queue_tail = Len(event_queue)
    THEN Append(event_queue, k)
    ELSE [event_queue EXCEPT ![queue_tail + 1] = k]

(* The critical section of add_index with next_event n places behind the   *)
(* head, which at 0 and QueueMax places is the head itself: the queue      *)
(* looks full.                                                             *)
Add(k, n) ==
    IF n \in {0, QueueMax}
    THEN lost' = lost \cup {k} /\ UNCHANGED <<event_queue, queue_tail>>
    ELSE /\ event_queue' = Placed(k)
         /\ queue_tail' = n
         /\ lost' = lost \cup {Placed(k)[m] : m \in n + 1 .. Len(Placed(k))}

(* What next_event may be: the tail's successor, or, in a call that others *)
(* overlapped, any place up to the end of what was stored.                 *)
FreshNext == queue_tail + 1
StaleNexts == (0 .. Len(event_queue)) \ {FreshNext}

(* The thread takes the index at the head.                                 *)
Take ==
    /\ queue_tail > 0
    /\ event_queue' = Tail(event_queue)
    /\ queue_tail' = queue_tail - 1
    /\ UNCHANGED lost

QueueNext(K) ==
    \/ \E k \in K, n \in StaleNexts \cup {FreshNext} : Add(k, n)
    \/ Take
=============================================================================
