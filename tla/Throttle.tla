------------------------------ MODULE Throttle ------------------------------
(***************************************************************************)
(* What the quotes() endpoint of the broker is promised: any two calls are *)
(* at least Window apart.  This is the abstract specification behind the   *)
(* timestamp guard of fyers_provider._ensure_spots_fresh; it knows neither *)
(* threads nor locks nor caches.                                           *)
(***************************************************************************)
EXTENDS Integers

CONSTANT Window    (* The least distance between two calls (_SPOT_TTL).    *)

VARIABLES
  now,             (* The clock.                                           *)
  calledAt         (* The time of the most recent call; 0 before any.      *)

Init == now \in Nat /\ calledAt = 0

Call == /\ now - calledAt >= Window
        /\ calledAt' = now
        /\ UNCHANGED now

Tick == now' = now + 1 /\ UNCHANGED calledAt

Next == Call \/ Tick

Spec == Init /\ [][Next]_<<now, calledAt>>
=============================================================================
