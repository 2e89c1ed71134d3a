---------------------------- MODULE MCLabCharts -----------------------------
(***************************************************************************)
(* LabCharts for TLC: chains of three strikes with open interest from none *)
(* to two a leg, and a gamma that falls off from the spot to both sides.   *)
(***************************************************************************)
EXTENDS LabCharts

MCAll == -1
MCFuture == -2
MCFilters == {MCAll, 1}
MCSpots == {3, 5}
MCAtmOf(s) == IF s < 4 THEN 2 ELSE 4

Strikes == {2, 4, 8}
Uniform(call, put) == [k \in Strikes |-> [call |-> call, put |-> put]]
MCChain0 == Uniform(1, 0)
MCChains == {MCChain0, [Uniform(1, 0) EXCEPT ![4] = [call |-> 0, put |-> 2]],
             [Uniform(0, 2) EXCEPT ![8] = [call |-> 3, put |-> 0]]}
MCSamples == [Strikes -> [call : 0..2, put : 0..2]]

\* That of a put falls off faster.
MCGamma(side, spot, k) ==
  LET d == IF spot < k THEN k - spot ELSE spot - k
      e == IF side = "put" /\ d > 2 THEN d + 1 ELSE d
  IN  IF e > 6 THEN 0 ELSE 7 - e
=============================================================================
