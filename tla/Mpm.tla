--------------------------------- MODULE Mpm ---------------------------------
(***************************************************************************)
(* The static part of the power manager, drivers/mpm/mpm_func.c: the ring  *)
(* of device events (accessories, flip, slider, keys), and the drivers'    *)
(* registrations with the count of those that are busy, by which MPM's     *)
(* loadable part decides whether the phone may sleep.                      *)
(*                                                                         *)
(* Every function is one critical section of devlk or of                   *)
(* mpm_driver_info_lock, with interrupts off, hence one step; the reader's *)
(* look at the queue and its fetch are two.                                *)
(***************************************************************************)
EXTENDS Integers, FiniteSets, Sequences

CONSTANTS
    MpmEvents,        \* what an event can say
    MPM_MAX_EVENTS,   \* slots of the ring
    Drivers,          \* drivers that register
    NULL,
    BITS_PER_LONG     \* the bit arrays grow by this

ASSUME MpmAssumption ==
    /\ MpmEvents # {}
    /\ MPM_MAX_EVENTS \in Nat /\ MPM_MAX_EVENTS > 1
    /\ BITS_PER_LONG \in Nat \ {0}
    /\ NULL \notin Drivers

VARIABLES
    \* dq
    events, event_head, event_tail,
    \* The reader, in the loadable part
    reader,           \* "looks" at the queue or "fetches" from it
    evt,              \* what it fetched last
    \* mpmdi
    size_in_bits, registered_p, busy_p, name_arr,
    registered_count, busy_count,
    \* The drivers
    driver_num,       \* the number each one got, -1 without one
    advice            \* the last advice of each one

dq == <<events, event_head, event_tail>>
fetch == <<reader, evt>>
mpmdi == <<size_in_bits, registered_p, busy_p, name_arr, registered_count, busy_count>>
driver == <<driver_num, advice>>
vars == <<dq, fetch, mpmdi, driver>>

Slots == 0 .. (MPM_MAX_EVENTS - 1)
Advice == {"BUSY", "NOT_BUSY"}
Bits == 0 .. (size_in_bits - 1)

TypeOK ==
    /\ events \in [Slots -> MpmEvents]
    /\ event_head \in Slots /\ event_tail \in Slots
    /\ reader \in {"looks", "fetches"} /\ evt \in MpmEvents
    /\ size_in_bits \in Nat
    /\ registered_p \in SUBSET Bits /\ busy_p \in SUBSET Bits
    /\ name_arr \in [Bits -> Drivers \cup {NULL}]
    /\ registered_count \in Nat /\ busy_count \in Nat
    /\ driver_num \in [Drivers -> Bits \cup {-1}]
    /\ advice \in [Drivers -> Advice]

Init ==
    /\ \E e \in MpmEvents : events = [s \in Slots |-> e] /\ evt = e
    /\ event_head = 0 /\ event_tail = 0
    /\ reader = "looks"
    /\ size_in_bits = 0
    /\ registered_p = {} /\ busy_p = {} /\ name_arr = [b \in {} |-> NULL]
    /\ registered_count = 0 /\ busy_count = 0
    /\ driver_num = [d \in Drivers |-> -1]
    /\ advice = [d \in Drivers |-> "NOT_BUSY"]

-----------------------------------------------------------------------------
(* The queue of events.                                                    *)
(* Mutant: no wrap-around.                                                 *)
FollowingStraight(slot) == slot + 1

Following(slot) == (slot + 1) % MPM_MAX_EVENTS

(* Mutant: an overflow goes unnoticed.                                     *)
NotifyUnnoticed(e) ==
    /\ event_head' = Following(event_head)
    /\ UNCHANGED event_tail
    /\ events' = [events EXCEPT ![Following(event_head)] = e]
    /\ UNCHANGED <<fetch, mpmdi, driver>>

(* queue_mpm_event: a full ring loses its oldest event.  The reader is     *)
(* woken and MPM's state set to awake, both outside this file.             *)
mpm_event_notify(e) ==
    /\ event_head' = Following(event_head)
    /\ event_tail' = IF event_head' = event_tail THEN Following(event_tail) ELSE event_tail
    /\ events' = [events EXCEPT ![event_head'] = e]
    /\ UNCHANGED <<fetch, mpmdi, driver>>

(* The one reader looks whether there is an event ...                      *)
mpm_queue_empty ==
    /\ reader = "looks"
    /\ event_head # event_tail
    /\ reader' = "fetches"
    /\ UNCHANGED <<dq, evt, mpmdi, driver>>

(* ... and fetches it; the function itself does not look again.            *)
mpm_get_queued_event ==
    /\ reader = "fetches"
    /\ event_tail' = Following(event_tail)
    /\ evt' = events[event_tail']
    /\ reader' = "looks"
    /\ UNCHANGED <<events, event_head, mpmdi, driver>>

-----------------------------------------------------------------------------
(* Mutant: the busy bits are searched.                                     *)
find_first_idle_bit ==
    IF Bits \ busy_p = {}
    THEN size_in_bits
    ELSE CHOOSE b \in Bits \ busy_p : \A c \in Bits \ busy_p : b <= c

(* The first number that is free, the first new one if none is.            *)
find_first_zero_bit ==
    IF Bits \ registered_p = {}
    THEN size_in_bits
    ELSE CHOOSE b \in Bits \ registered_p : \A c \in Bits \ registered_p : b <= c

(* The arrays are copied into larger ones when no number is free; without  *)
(* memory (-ENOMEM) nothing changes.                                       *)
mpm_register_with_mpm(d) ==
    LET bit == find_first_zero_bit IN
    /\ driver_num[d] = -1
    /\ size_in_bits' = IF bit < size_in_bits THEN size_in_bits ELSE size_in_bits + BITS_PER_LONG
    /\ registered_p' = registered_p \cup {bit}
    /\ name_arr' = [b \in 0 .. (size_in_bits' - 1) |->
                       IF b = bit THEN d ELSE IF b \in Bits THEN name_arr[b] ELSE NULL]
    /\ registered_count' = registered_count + 1
    /\ driver_num' = [driver_num EXCEPT ![d] = bit]
    /\ advice' = [advice EXCEPT ![d] = "NOT_BUSY"]
    /\ UNCHANGED <<dq, fetch, busy_p, busy_count>>

(* Mutant: the busy bit is left for the next driver with that number.      *)
UnregisterBusy(d) ==
    LET n == driver_num[d] IN
    /\ n \in Bits
    /\ registered_p' = registered_p \ {n}
    /\ registered_count' = registered_count - Cardinality(registered_p \cap {n})
    /\ name_arr' = [name_arr EXCEPT ![n] = NULL]
    /\ driver_num' = [driver_num EXCEPT ![d] = -1]
    /\ UNCHANGED <<dq, fetch, size_in_bits, busy_p, busy_count, advice>>

(* A driver gives its number back and does not use it again.               *)
mpm_unregister_with_mpm(d) ==
    LET n == driver_num[d] IN
    /\ n \in Bits
    /\ busy_p' = busy_p \ {n}
    /\ busy_count' = busy_count - Cardinality(busy_p \cap {n})
    /\ registered_p' = registered_p \ {n}
    /\ registered_count' = registered_count - Cardinality(registered_p \cap {n})
    /\ name_arr' = [name_arr EXCEPT ![n] = NULL]
    /\ driver_num' = [driver_num EXCEPT ![d] = -1]
    /\ UNCHANGED <<dq, fetch, size_in_bits, advice>>

(* Other numbers, and other advice, get -EINVAL.                           *)
mpm_driver_advise(d, a) ==
    LET n == driver_num[d] IN
    /\ n \in Bits /\ n \in registered_p
    /\ advice' = [advice EXCEPT ![d] = a]
    /\ \/ /\ a = "NOT_BUSY"
          /\ busy_p' = busy_p \ {n}
          /\ busy_count' = busy_count - Cardinality(busy_p \cap {n})
       \/ /\ a = "BUSY"
          /\ busy_p' = busy_p \cup {n}
          /\ busy_count' = busy_count + Cardinality({n} \ busy_p)
    /\ UNCHANGED <<dq, fetch, size_in_bits, registered_p, name_arr, registered_count,
                   driver_num>>

mpm_num_busy_drivers == busy_count

-----------------------------------------------------------------------------
Next ==
    \/ \E e \in MpmEvents : mpm_event_notify(e)
    \/ mpm_queue_empty
    \/ mpm_get_queued_event
    \/ \E d \in Drivers :
           \/ mpm_register_with_mpm(d)
           \/ mpm_unregister_with_mpm(d)
           \/ \E a \in Advice : mpm_driver_advise(d, a)

Spec == Init /\ [][Next]_vars

-----------------------------------------------------------------------------
(* The count by which the phone is allowed to sleep is the number of       *)
(* drivers whose last advice was that they are busy, whichever numbers     *)
(* were given back, handed out again or moved to larger arrays meanwhile   *)
(* ("number of drivers that have currently advised the MPM that they are   *)
(* busy").                                                                 *)
BusyIsAdvised ==
    mpm_num_busy_drivers =
        Cardinality({d \in Drivers : driver_num[d] # -1 /\ advice[d] = "BUSY"})

(* A number is one driver's alone, and goes under its name: no driver's    *)
(* advice is taken for another's.                                          *)
OwnNumber ==
    \A d \in Drivers : driver_num[d] # -1 =>
        /\ driver_num[d] \in registered_p
        /\ name_arr[driver_num[d]] = d
        /\ \A c \in Drivers \ {d} : driver_num[c] # driver_num[d]

(* The ring is a queue that keeps the newest events: none is read twice,   *)
(* out of order or before it was written, with any number of overflows and *)
(* one of them between the reader's look and its fetch.                    *)
Queued == [i \in 1 .. ((event_head - event_tail) % MPM_MAX_EVENTS) |->
               events[(event_tail + i) % MPM_MAX_EVENTS]]

Q == INSTANCE MpmQueue WITH queue <- Queued, Capacity <- MPM_MAX_EVENTS - 1

ImplementsQueue == Q!Spec
=============================================================================
