------------------------------ MODULE GexMath -------------------------------
(***************************************************************************)
(* Dealer gamma exposure (lib/gex.ts).  A chain is a function from strikes *)
(* to the open interest of its call and its put; a leg that is missing has *)
(* none.  The Black-Scholes gamma of a leg at a spot, before expiry, is a  *)
(* constant of the model, and so is how fine the search for the flip is.   *)
(* Once expired, or with a date that cannot be read, no leg has any.       *)
(***************************************************************************)
EXTENDS Integers, FiniteSets, FiniteSetsExt, Functions

CONSTANTS
  Gamma(_, _, _),  (* bsGamma(): of a side of a strike, each with its own  *)
                   (* volatility, at a spot; 0 for null.                   *)
  Steps,           (* STEPS, the scan of computeZeroGamma().               *)
  Halvings,        (* The rounds of its bisection.                         *)
  None             (* null.                                                *)

Abs(n) == IF n < 0 THEN -n ELSE n

-----------------------------------------------------------------------------
(* computeStrikeGEX(): calls count for the dealers, puts against them.     *)
StrikeGex(chain, spot, expired) ==
  LET gamma(side, k) == IF expired THEN 0 ELSE Gamma(side, spot, k)
  IN  [k \in DOMAIN chain |->
         [call |-> gamma("call", k) * chain[k].call,
          put  |-> -(gamma("put", k) * chain[k].put)]]

Net(rows, k) == rows[k].call + rows[k].put

(* computeWalls(): the first strike with the most of one side, if there is *)
(* any of it.                                                              *)
Wall(rows, Side(_)) ==
  LET most == Max({Side(rows[k]) : k \in DOMAIN rows} \cup {0})
  IN  IF most = 0 THEN None ELSE Min({k \in DOMAIN rows : Side(rows[k]) = most})

CallWall(rows) == Wall(rows, LAMBDA r : r.call)
PutWall(rows)  == Wall(rows, LAMBDA r : -r.put)

-----------------------------------------------------------------------------
(* computeNetGexCross().  A price is a fraction [num, den]: the strike at  *)
(* which the profile is zero, or the crossing of the line between two      *)
(* neighbours of opposite sign.  The highest strike is never looked at.    *)
Next1(rows, k) == Min({j \in DOMAIN rows : j > k})

Crossings(rows) ==
  LET inner == DOMAIN rows \ {Max(DOMAIN rows)}
      a(k) == Net(rows, k)
      b(k) == Net(rows, Next1(rows, k))
  IN  {[num |-> k, den |-> 1] : k \in {k \in inner : a(k) = 0}}
      \cup {[num |-> k * Abs(b(k) - a(k)) + (Next1(rows, k) - k) * Abs(a(k)),
             den |-> Abs(b(k) - a(k))]
              : k \in {k \in inner : a(k) * b(k) < 0}}

(* c is not farther from the spot than d.                                  *)
Nearer(c, d, spot) ==
  Abs(c.num - spot * c.den) * d.den <= Abs(d.num - spot * d.den) * c.den

(* The nearest one; of two at the same distance the lower.                 *)
NetGexCross(rows, spot) ==
  LET near == {c \in Crossings(rows) : \A d \in Crossings(rows) : Nearer(c, d, spot)}
  IN  IF near = {} THEN None
      ELSE CHOOSE c \in near : \A d \in near : c.num * d.den <= d.num * c.den

-----------------------------------------------------------------------------
(* computeZeroGamma(): the spot at which the whole chain changes sign.     *)
NetAt(chain, S) ==
  LET rows == StrikeGex(chain, S, FALSE) IN SumFunction([k \in DOMAIN chain |-> Net(rows, k)])

ScanPoint(chain, i) ==
  LET lo == Min(DOMAIN chain)
      hi == Max(DOMAIN chain)
  IN  lo + ((hi - lo) * i) \div Steps

(* Mutant: the bisection keeps the other half.                             *)
BisectedAway(chain, a0, b0) ==
  LET Half(br) ==
        LET m == (br.a + br.b) \div 2
        IN  IF NetAt(chain, m) * NetAt(chain, br.a) > 0 THEN [br EXCEPT !.b = m]
            ELSE [br EXCEPT !.a = m]
      After[k \in 0..Halvings] ==
        IF k = 0 THEN [a |-> a0, b |-> b0] ELSE Half(After[k - 1])
  IN  After[Halvings]

(* A round of the bisection: the half of the bracket [a, b] at whose ends  *)
(* the signs differ, or the zero in the middle, on which it is closed.     *)
Halved(chain, br) ==
  LET m == (br.a + br.b) \div 2
      fa == NetAt(chain, br.a)
      fm == NetAt(chain, m)
  IN  CASE br.a = br.b -> br
        [] br.a # br.b /\ fm = 0 -> [a |-> m, b |-> m]
        [] br.a # br.b /\ fm * fa > 0 -> [br EXCEPT !.a = m]
        [] OTHER -> [br EXCEPT !.b = m]

Bisected(chain, a0, b0) ==
  LET After[k \in 0..Halvings] ==
        IF k = 0 THEN [a |-> a0, b |-> b0] ELSE Halved(chain, After[k - 1])
  IN  After[Halvings]

(* The scan, up to the first step that leaves a zero or changes sign.  One *)
(* strike is not enough for it, and it is not begun once expired.          *)
ZeroGamma(chain, expired) ==
  LET at == [i \in 0..Steps |-> NetAt(chain, ScanPoint(chain, i))]
      hits == {i \in 1..Steps : at[i - 1] = 0 \/ at[i - 1] * at[i] < 0}
      from == ScanPoint(chain, Min(hits) - 1)
  IN  IF expired \/ Cardinality(DOMAIN chain) < 2 \/ hits = {} THEN None
      ELSE IF at[Min(hits) - 1] = 0 THEN [a |-> from, b |-> from]
      ELSE Bisected(chain, from, ScanPoint(chain, Min(hits)))
=============================================================================
