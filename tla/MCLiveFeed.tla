----------------------------- MODULE MCLiveFeed ------------------------------
(***************************************************************************)
(* Model checking of LiveFeed.                                             *)
(***************************************************************************)
EXTENDS LiveFeed
=============================================================================
