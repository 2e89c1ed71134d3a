------------------------------ MODULE MCWsFeed -------------------------------
(***************************************************************************)
(* Model checking of WsFeed.                                               *)
(***************************************************************************)
EXTENDS WsFeed
=============================================================================
