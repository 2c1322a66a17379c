----------------------------- MODULE MCDevicePm -----------------------------
(* A bus with a late child, an early device with a child of its own.       *)
EXTENDS DevicePm

CONSTANTS bus, late, hub, leaf

(* bus (late) - late (late), bus - hub (early) - leaf (early).             *)
Tree == (bus :> NoDevice) @@ (late :> bus) @@ (hub :> bus) @@ (leaf :> hub)
=============================================================================
