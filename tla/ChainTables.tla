----------------------------- MODULE ChainTables ----------------------------
(***************************************************************************)
(* The option chain as the pages lay it out: the rows that the Option      *)
(* Chain page (pages/OptionChainPage.tsx), the Options page                *)
(* (pages/OptionsPage.tsx) and the Dashboard (pages/DashboardPage.tsx)     *)
(* choose of it, and the marks that they put on them.                      *)
(*                                                                         *)
(* A row is a leg: [strike, type, oi, oiChg, volume, ltp].                 *)
(***************************************************************************)
EXTENDS Integers, Sequences, FiniteSets, FiniteSetsExt, SequencesExt

CONSTANTS
  None,            (* undefined.                                           *)
  All              (* 'all', of the strike counts.                        *)

Abs(x) == IF x < 0 THEN -x ELSE x

(* A figure, or 0 in its place.                                            *)
OrZero(x) == IF x = None THEN 0 ELSE x

(* Every strike of the chain once, in ascending order.                     *)
Strikes(rows) ==
  LET all == {rows[k].strike : k \in DOMAIN rows}
  IN  [k \in 1..Cardinality(all) |->
         CHOOSE s \in all : Cardinality({t \in all : t < s}) = k - 1]

(* The leg of a strike; of several of one type, the last one.              *)
Leg(rows, strike, type) ==
  LET at == {k \in DOMAIN rows : rows[k].strike = strike /\ rows[k].type = type}
  IN  IF at = {} THEN None ELSE rows[CHOOSE k \in at : \A j \in at : j <= k]

(* The strike nearest to the spot, in a sequence: the first of equals.     *)
Nearest(strikes, spot) ==
  LET far(k) == Abs(strikes[k] - spot) IN
  strikes[CHOOSE k \in DOMAIN strikes : \A j \in DOMAIN strikes :
            far(k) < far(j) \/ (far(k) = far(j) /\ k <= j)]

-----------------------------------------------------------------------------
(* The Option Chain page.                                                  *)

Spot(m, snap) == IF m.spot # None THEN m.spot ELSE snap.spot

AtmStrike(rows, m, snap) ==
  LET strikes == Strikes(rows) IN
  IF Spot(m, snap) # None /\ strikes # << >> THEN Nearest(strikes, Spot(m, snap))
  ELSE IF m.atm # None THEN m.atm
  ELSE IF strikes # << >> THEN strikes[Len(strikes) \div 2 + 1] ELSE 0

(* Mutant: the end of the slice is one too far.                            *)
VisibleOneMore(rows, m, snap, count) ==
  LET strikes == Strikes(rows)
      at == {k \in DOMAIN strikes : strikes[k] = AtmStrike(rows, m, snap)}
      idx == IF at = {} THEN 0 ELSE CHOOSE k \in at : TRUE
      lo == IF count = All \/ idx - count < 1 THEN 1 ELSE idx - count
      hi == IF count = All \/ idx + count + 1 > Len(strikes) THEN Len(strikes)
            ELSE idx + count + 1
  IN  SubSeq(strikes, lo, hi)

(* The strikes in view: `count' on each side of the one at the money.  If  *)
(* that is not in the chain, its index is that of indexOf, one before the  *)
(* first.                                                                  *)
Visible(rows, m, snap, count) ==
  LET strikes == Strikes(rows)
      atm == AtmStrike(rows, m, snap)
      at == {k \in DOMAIN strikes : strikes[k] = atm}
      idx == IF at = {} THEN 0 ELSE CHOOSE k \in at : TRUE
      lo == IF count = All \/ idx - count < 1 THEN 1 ELSE idx - count
      hi == IF count = All \/ idx + count > Len(strikes) THEN Len(strikes) ELSE idx + count
  IN  SubSeq(strikes, lo, hi)

LegOi(rows, s, type) ==
  LET leg == Leg(rows, s, type) IN IF leg = None THEN 0 ELSE OrZero(leg.oi)

LegVolume(rows, s, type) ==
  LET leg == Leg(rows, s, type) IN IF leg = None THEN 0 ELSE OrZero(leg.volume)

(* The open interest that fills a bar of a side: at least one.             *)
BarMax(rows, visible, type) ==
  Max({1} \cup {LegOi(rows, visible[k], type) : k \in DOMAIN visible})

(* The rank of a strike in view by the volume of a side; equals keep the   *)
(* order of their strikes.                                                 *)
VolumeRank(rows, visible, strike, type) ==
  LET vol(s) == LegVolume(rows, s, type) IN
  1 + Cardinality({s \in ToSet(visible) :
                     vol(s) > vol(strike) \/ (vol(s) = vol(strike) /\ s < strike)})

(* The length of the bar of a leg, in percent.                             *)
OIBar(oi, max) == IF max > 0 THEN (IF oi > max THEN 100 ELSE (100 * oi) \div max) ELSE 0

(* The sign of the change of open interest, against what it was before.    *)
OiChange(leg) ==
  IF leg = None \/ None \in {leg.oi, leg.oiChg} \/ leg.oiChg = 0 \/ leg.oi = leg.oiChg
  THEN None ELSE IF leg.oiChg > 0 THEN 1 ELSE -1

(* The table: its rows, and the marks on each.                             *)
Table(rows, m, snap, count) ==
  LET visible == Visible(rows, m, snap, count)
      atm == AtmStrike(rows, m, snap)
      max == [type \in {"CE", "PE"} |-> BarMax(rows, visible, type)]
      side(s, type) ==
        [oi        |-> LegOi(rows, s, type),
         bar       |-> OIBar(LegOi(rows, s, type), max[type]),
         highlight |-> VolumeRank(rows, visible, s, type) <= 3,
         change    |-> OiChange(Leg(rows, s, type))]
  IN  [k \in DOMAIN visible |->
        LET s == visible[k] IN
        [strike    |-> s,
         isAtm     |-> s = atm,
         isMaxPain |-> s = m.maxPain,
         ce        |-> side(s, "CE"),
         pe        |-> side(s, "PE")]]

-----------------------------------------------------------------------------
(* The Options page: the legs of one type or of both, and the strike       *)
(* nearest to the spot by the order of the rows.                           *)
Filtered(rows, filter) ==
  SelectSeq(rows, LAMBDA r : filter = "all" \/ r.type = filter)

OptionsAtm(rows, m) ==
  IF m.spot # None /\ rows # << >>
  THEN Nearest([k \in DOMAIN rows |-> rows[k].strike], m.spot)
  ELSE m.atm

(* The Dashboard: the legs of the five strikes nearest to the one at the   *)
(* money, of two as near the one that the chain has first; each put before *)
(* its call; the whole chain if there is none.                             *)
AtmChain(rows, atm) ==
  LET strikes == {rows[k].strike : k \in DOMAIN rows}
      earlier(t, s) == \E k \in DOMAIN rows :
                         /\ rows[k].strike = t
                         /\ \A j \in DOMAIN rows : rows[j].strike = s => k < j
      rank(s) == Cardinality({t \in strikes : \/ Abs(t - atm) < Abs(s - atm)
                                              \/ Abs(t - atm) = Abs(s - atm) /\ earlier(t, s)})
      near == {k \in DOMAIN rows : rank(rows[k].strike) < 5}
      side == [k \in DOMAIN rows |-> IF rows[k].type = "PE" THEN 0 ELSE 1]
      before(k) ==
        {j \in near : \/ rows[j].strike < rows[k].strike
                      \/ rows[j].strike = rows[k].strike /\ side[j] < side[k]
                      \/ rows[j].strike = rows[k].strike /\ side[j] = side[k] /\ j < k}
  IN  IF atm \in {None, 0} THEN rows
      ELSE [k \in 1..Cardinality(near) |->
              rows[CHOOSE i \in near : Cardinality(before(i)) = k - 1]]

(* OptionChainTable: the rows that are marked.                             *)
AtmRows(rows, atm) == {k \in DOMAIN rows : atm # None /\ rows[k].strike = atm}
=============================================================================
