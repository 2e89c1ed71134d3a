--------------------------- MODULE MCEvaluatePath ----------------------------
(***************************************************************************)
(* Model checking of EvaluatePath.                                         *)
(***************************************************************************)
EXTENDS EvaluatePath

MCPrices == 2..5
=============================================================================
