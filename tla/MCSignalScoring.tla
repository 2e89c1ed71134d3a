--------------------------- MODULE MCSignalScoring ---------------------------
(***************************************************************************)
(* Model checking of SignalScoring.  From the entry in the middle one      *)
(* recorded price touches the target and the other the stop; from the      *)
(* other entry one price touches neither.                                  *)
(***************************************************************************)
EXTENDS SignalScoring

MCPrices == {10, 16}
MCEntries == {10, 13}
=============================================================================
