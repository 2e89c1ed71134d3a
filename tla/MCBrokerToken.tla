---------------------------- MODULE MCBrokerToken ----------------------------
(***************************************************************************)
(* Model checking of BrokerToken.  Handlers are interchangeable.           *)
(***************************************************************************)
EXTENDS BrokerToken, TLC

Symmetry == Permutations(Requests)
=============================================================================
