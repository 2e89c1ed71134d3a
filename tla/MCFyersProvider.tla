-------------------------- MODULE MCFyersProvider ---------------------------
(***************************************************************************)
(* Model checking of FyersProvider.  Threads are interchangeable, and so   *)
(* are instruments, in every safety property; liveness runs use neither.   *)
(***************************************************************************)
EXTENDS FyersProvider, TLC

\* A live chain carries both prices.
BothLegs == {Legs}

Symmetry == Permutations(Threads) \cup Permutations(Instruments)
=============================================================================
