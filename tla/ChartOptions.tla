---------------------------- MODULE ChartOptions ----------------------------
(***************************************************************************)
(* What the four charts of the Options Lab draw (buildOption() of          *)
(* OpenInterestChart, GexChart, MaxPainChart and MultiLineChart), as a     *)
(* function of their properties.  Colours, labels and layout are left out. *)
(*                                                                         *)
(* An option has the series, a function from the ids of the series to      *)
(* their values, the band at the money, the vertical marks, and whether    *)
(* the labels of the axis count lots.                                      *)
(***************************************************************************)
EXTENDS Integers, FiniteSets, FiniteSetsExt, TLC

CONSTANTS
  Gamma(_, _, _),  (* bsGamma(): of a side of a strike, each with its own  *)
                   (* volatility, at a spot; 0 for null.                   *)
  Steps, Halvings, (* The search for the flip: its scan, its bisection.    *)
  NoValue,         (* null, and undefined.                                 *)
  AllStrikes,      (* 'all', of a strike filter.                           *)
  Future           (* FUTURE_ID.                                           *)

GexLib  == INSTANCE GexMath WITH None <- NoValue
PainLib == INSTANCE MaxPainMath

(* A price is a fraction.  priceIndex(): the two strikes it is drawn        *)
(* between, one strike twice when it is that strike or is beyond it.       *)
Exactly(n) == IF n = NoValue THEN NoValue ELSE [num |-> n, den |-> 1]

PriceIndex(price, strikes) ==
  LET lo == {k \in strikes : k * price.den <= price.num}
      hi == {k \in strikes : k * price.den >= price.num}
  IN  CASE lo = {} -> <<Min(strikes), Min(strikes)>>
        [] hi = {} -> <<Max(strikes), Max(strikes)>>
        [] OTHER   -> <<Max(lo), Min(hi)>>

Mark(what, price, strikes) ==
  IF price = NoValue \/ strikes = {} THEN {}
  ELSE {[what |-> what, at |-> PriceIndex(price, strikes)]}

Band(atm, strikes) == IF atm \in strikes THEN atm ELSE NoValue

(* chartBars and chartRows: as many strikes on each side of the money, the *)
(* nearest strike where the money is at none.                              *)
Centred(strikes, atm, filter) ==
  LET far(k) == IF k < atm THEN atm - k ELSE k - atm
      at == Min({k \in strikes : \A j \in strikes : far(k) <= far(j)})
      below == {k \in strikes : k < at}
      above == {k \in strikes : k > at}
      avail == Min({Cardinality(below), Cardinality(above)})
      half == IF filter = AllStrikes THEN avail ELSE Min({filter, avail})
  IN  {at} \cup {k \in below : Cardinality({j \in below : j > k}) < half}
           \cup {k \in above : Cardinality({j \in above : j < k}) < half}

(* bars of Open Interest: the prices up to so many steps from the money, a *)
(* step being the distance of the two lowest strikes, 50 for one strike.   *)
Within(strikes, atm, filter) ==
  LET low == Min(strikes)
      step == IF Cardinality(strikes) > 1 THEN Min(strikes \ {low}) - low ELSE 50
  IN  IF filter = AllStrikes THEN strikes
      ELSE {k \in strikes : atm - filter * step <= k /\ k <= atm + filter * step}

-----------------------------------------------------------------------------
(* OpenInterestChart: the bars of one side, from the day's open to now.    *)
OiSide(open, now, ks, mode, which) ==
  LET was(k) == open[k][which]
      is(k) == now[k][which]
      moved == [k \in ks |-> IF is(k) >= was(k) THEN is(k) - was(k) ELSE was(k) - is(k)]
  IN  CASE mode = "total"  -> <<which, "bar">> :> [k \in ks |-> is(k)]
        [] mode = "change" -> <<which, "bar">> :> moved
        [] mode = "change_total" ->
             <<which, "base">> :> [k \in ks |-> Min({was(k), is(k)})]
               @@ <<which, "seg">> :> moved

OiMarks(p, ks) ==
  Mark("Max Pain", Exactly(p.pin), ks) \cup Mark("Spot", Exactly(p.spot), ks)

OiOption(p) ==
  LET ks == Within(DOMAIN p.chain, p.atm, p.filter)
  IN  [series |-> OiSide(p.open, p.chain, ks, p.mode, "call")
                    @@ OiSide(p.open, p.chain, ks, p.mode, "put"),
       band |-> Band(p.atm, ks), marks |-> OiMarks(p, ks), lot |-> p.lot]

-----------------------------------------------------------------------------
(* GexChart: the walls and the flip are those of the whole chain, the rows *)
(* those of the window.                                                    *)
GexMarks(p, ks) ==
  LET rows == GexLib!StrikeGex(p.chain, p.spot, p.expired)
      flip == GexLib!ZeroGamma(p.chain, p.expired)
      middle == IF flip = NoValue THEN NoValue ELSE [num |-> flip.a + flip.b, den |-> 2]
  IN  Mark("Spot", Exactly(p.spot), ks)
      \cup (IF ~p.walls THEN {}
            ELSE Mark("Call Wall", Exactly(GexLib!CallWall(rows)), ks)
                   \cup Mark("Put Wall", Exactly(GexLib!PutWall(rows)), ks))
      \cup (IF ~p.flip THEN {}
            ELSE Mark("Net GEX Cross", GexLib!NetGexCross(rows, p.spot), ks)
                   \cup Mark("Gamma Flip", middle, ks))

GexSeries(rows, ks, mode) ==
  LET net == [k \in ks |-> GexLib!Net(rows, k)]
  IN  IF mode = "net_abs"
      THEN "net" :> net
             @@ "abs" :> [k \in ks |-> GexLib!Abs(rows[k].call) + GexLib!Abs(rows[k].put)]
      ELSE "call" :> [k \in ks |-> rows[k].call]
             @@ "put" :> [k \in ks |-> rows[k].put]
             @@ "net-line" :> net

GexOption(p) ==
  LET ks == Centred(DOMAIN p.chain, p.atm, p.filter)
  IN  [series |-> GexSeries(GexLib!StrikeGex(p.chain, p.spot, p.expired), ks, p.mode),
       band |-> Band(p.atm, ks), marks |-> GexMarks(p, ks), lot |-> FALSE]

-----------------------------------------------------------------------------
(* MaxPainChart: each bar is green where the calls cost more, or as much.  *)
PainMarks(p, ks) ==
  Mark("Max Pain", Exactly(PainLib!MaxPainStrike(p.chain)), ks)
    \cup Mark("Spot", Exactly(p.spot), ks)

PainSeries(p, ks) ==
  "pain" :> [k \in ks |->
    [value |-> PainLib!Pain(p.chain, k),
     green |-> PainLib!CallPain(p.chain, k) >= PainLib!PutPain(p.chain, k)]]

PainOption(p) ==
  LET ks == Centred(DOMAIN p.chain, p.atm, p.filter)
  IN  [series |-> PainSeries(p, ks), band |-> Band(p.atm, ks),
       marks |-> PainMarks(p, ks), lot |-> FALSE]

-----------------------------------------------------------------------------
(* MultiLineChart: a line for each contract that is ticked, and the future *)
(* where it is known; the value of a line at a time is the pair of both.   *)
LinesOption(p) ==
  LET Line(c) == [t \in 1..p.n |-> <<c, t>>]
  IN  [series |-> [c \in p.lines \cup (IF p.fut THEN {Future} ELSE {}) |-> Line(c)],
       band |-> NoValue, marks |-> {}, lot |-> FALSE]

Option(kind, p) ==
  CASE kind = "oi"    -> OiOption(p)
    [] kind = "gex"   -> GexOption(p)
    [] kind = "pain"  -> PainOption(p)
    [] kind = "lines" -> LinesOption(p)
=============================================================================
