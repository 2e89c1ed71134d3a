--------------------------- MODULE MCClientSession ---------------------------
(***************************************************************************)
(* ClientSession for TLC: a tab with two requests, which may share a       *)
(* refresh, and which may be reloaded once, beside a tab with one request, *)
(* in which the user signs in and out.                                     *)
(***************************************************************************)
EXTENDS ClientSession

CONSTANTS t1, t2, r1, r2

MCTabs == {t1, t2}
MCLoadsOf == [t \in MCTabs |-> IF t = t1 THEN 2 ELSE 1]
MCRequestsOf == [t \in MCTabs |-> IF t = t1 THEN {r1, r2} ELSE {r1}]
=============================================================================
