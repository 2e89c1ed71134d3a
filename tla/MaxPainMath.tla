---------------------------- MODULE MaxPainMath -----------------------------
(***************************************************************************)
(* Max pain (lib/maxpain.ts): the settlement at which the holders of all   *)
(* options of a chain get the least.  A chain is a function from strikes   *)
(* to the open interest of its call and its put.                           *)
(***************************************************************************)
EXTENDS Integers, FiniteSets, FiniteSetsExt, Functions

(* computePainCurve(): what a settlement at E pays to the calls below it   *)
(* and to the puts above it.                                               *)
CallPain(chain, E) ==
  SumFunction([k \in {k \in DOMAIN chain : k < E} |-> chain[k].call * (E - k)])

PutPain(chain, E) ==
  SumFunction([k \in {k \in DOMAIN chain : k > E} |-> chain[k].put * (k - E)])

Pain(chain, E) == CallPain(chain, E) + PutPain(chain, E)

(* Mutant: the search begins at the second strike.                         *)
MaxPainFromSecond(chain) ==
  LET from == DOMAIN chain \ {Min(DOMAIN chain)}
  IN  Min({k \in from : \A j \in from : Pain(chain, k) <= Pain(chain, j)})

(* maxPainStrike(): the lowest strike with the least pain.                 *)
MaxPainStrike(chain) ==
  Min({k \in DOMAIN chain : \A j \in DOMAIN chain : Pain(chain, k) <= Pain(chain, j)})
=============================================================================
