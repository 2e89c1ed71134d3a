------------------------------ MODULE Factors -------------------------------
(***************************************************************************)
(* The twenty factors of All in 1 (pages/all-in-1/factorRegistry.ts) and   *)
(* what the page makes of them (useAllInOne.ts).                           *)
(*                                                                         *)
(* A context has a record for every feed, whose fields are None while the  *)
(* feed has no data or does not send them.  A reading is what decides the  *)
(* text of a card: its headline, the case its second line comes from, and  *)
(* its bias.  Percents and ratios are in hundredths.                       *)
(***************************************************************************)
EXTENDS Integers, Sequences

CONSTANT None      (* undefined.                                           *)

Or(a, b) == IF a # None THEN a ELSE b

Reading(value, detail, bias) == [value |-> value, detail |-> detail, bias |-> bias]

(* The card of a factor without a feed.                                    *)
Soon(bias) == Reading("soon", "soon", bias)

-----------------------------------------------------------------------------
(* A call or put writers' posture as a direction.                          *)
PostureBias(posture) ==
  CASE posture \in {"put writers", "short covering", "call unwinding"} -> 1
    [] posture \in {"call writers", "long unwinding", "put unwinding"} -> -1
    [] OTHER -> 0

(* The change of the day, of the feed or from the close before.            *)
ChangeAbove(s, x) ==
  IF s.change # None THEN s.change > x
  ELSE s.spot # None /\ s.prev \notin {None, 0} /\ 10000 * (s.spot - s.prev) > x * s.prev

ChangeBelow(s, x) ==
  IF s.change # None THEN s.change < x
  ELSE s.spot # None /\ s.prev \notin {None, 0} /\ 10000 * (s.spot - s.prev) < x * s.prev

PriceAction(ctx) ==
  LET s == ctx.snapshot
      pivot == ctx.levels.pivot
      bias == IF s.dir = "UP" \/ ChangeAbove(s, 5) THEN 1
              ELSE IF s.dir = "DOWN" \/ ChangeBelow(s, -5) THEN -1 ELSE 0
  IN  Reading(<<bias, s.change>>,
              IF pivot = None \/ s.spot = None THEN "intraday trend"
              ELSE IF s.spot >= pivot THEN "above pivot" ELSE "below pivot",
              bias)

(* A wall of the levels, of the snapshot or of the metrics, whichever      *)
(* comes first; the position of the spot in the outer thirds of the band.  *)
SupportResistance(ctx) ==
  LET r == Or(ctx.levels.resistance, Or(ctx.snapshot.resistance, ctx.optionsMetrics.resistance))
      s == Or(ctx.levels.support, Or(ctx.snapshot.support, ctx.optionsMetrics.support))
      ltp == ctx.snapshot.spot
      bias == IF None \in {r, s, ltp} THEN 0
              ELSE IF 20 * ltp > 13 * r + 7 * s THEN 1
              ELSE IF 20 * ltp < 7 * r + 13 * s THEN -1 ELSE 0
  IN  Reading(<<r, s>>, bias, bias)

OpenInterest(ctx) ==
  LET m == ctx.optionsMetrics IN
  Reading(m.posture, IF None \in {m.calls, m.puts} THEN << >> ELSE <<m.calls, m.puts>>,
          PostureBias(m.posture))

Pcr(ctx) ==
  LET pcr == ctx.optionsMetrics.pcr
      bias == IF pcr = None THEN 0 ELSE IF pcr >= 110 THEN 1 ELSE IF pcr <= 90 THEN -1 ELSE 0
  IN  Reading(pcr, bias, bias)

MaxPain(ctx) ==
  LET pain == ctx.optionsMetrics.maxPain
      ltp == ctx.snapshot.spot
  IN  Reading(pain, IF None \in {pain, ltp} THEN None ELSE pain - ltp, 0)

(* The strike with most open interest of a side, the first of equals.      *)
Wall(chain, type) ==
  LET side == SelectSeq(chain, LAMBDA r : r.type = type /\ r.oi # None)
      top == {k \in DOMAIN side : \A j \in DOMAIN side :
                \/ side[k].oi > side[j].oi
                \/ side[k].oi = side[j].oi /\ k <= j}
  IN  IF top = {} THEN None ELSE side[CHOOSE k \in top : TRUE].strike

MagnetZones(ctx) ==
  Reading(<<Wall(ctx.chain.rows, "PE"), Wall(ctx.chain.rows, "CE")>>, "walls", 0)

(* The band that a number falls in.                                        *)
Band(x, low, high) == IF x = None THEN None ELSE IF x < low THEN "low"
                      ELSE IF x < high THEN "middle" ELSE "high"

ImpliedVol(ctx) ==
  LET iv == ctx.optionsMetrics.iv IN Reading(iv, Band(iv, 12, 18), 0)

IvRank(ctx) ==
  LET m == ctx.optionsMetrics IN
  Reading(<<m.ivp, m.ivLabel>>, Band(m.ivp, 35, 66), 0)

Greeks == Soon(1)

IndiaVix(ctx) ==
  LET vix == ctx.snapshot.vix IN Reading(vix, Band(vix, 13, 20), 0)

Gex == Soon(0)
VolumeProfile == Soon(0)
Vwap == Soon(1)
Atr == Soon(0)

(* The price of the first leg of a side at a strike.                       *)
Premium(chain, type, strike) ==
  LET legs == SelectSeq(chain, LAMBDA r : r.type = type /\ r.strike = strike)
  IN  IF legs = << >> THEN None ELSE legs[1].ltp

(* The premium of the straddle at the money.                               *)
ExpectedMove(ctx) ==
  LET rows == ctx.chain.rows
      atm == Or(ctx.optionsMetrics.atm, ctx.snapshot.atm)
      call == Premium(rows, "CE", atm)
      put == Premium(rows, "PE", atm)
  IN  Reading(IF None \in {call, put} THEN None ELSE call + put, "straddle", 0)

(* The volume of all legs, leg by leg; none is no liquidity.               *)
Volumes(chain) ==
  LET traded == SelectSeq(chain, LAMBDA r : r.volume \notin {None, 0})
  IN  [k \in DOMAIN traded |-> traded[k].volume]

Liquidity(ctx) ==
  LET volumes == Volumes(ctx.chain.rows)
  IN  Reading(volumes, "spread", IF volumes # << >> THEN 1 ELSE 0)

EventRisk == Soon(-1)

RiskReward(ctx) ==
  LET rr == ctx.signal.rr IN Reading(rr, Band(rr, 150, 200), 0)

PositionSizing(ctx) ==
  LET s == ctx.signal
      risk == IF None \in {s.entry, s.stop} THEN None
              ELSE IF s.entry > s.stop THEN s.entry - s.stop ELSE s.stop - s.entry
  IN  Reading(risk, "2%", 0)

TradingDecision(ctx) ==
  LET s == ctx.signal
      bias == IF s.bias \in {1, -1} THEN s.bias ELSE 0
  IN  Reading(<<s.label, bias>>, s.confidence, bias)

-----------------------------------------------------------------------------
(* The ids of the cards, and the feeds that each declares.                 *)
Cards ==
  {"price-action", "support-resistance", "open-interest", "pcr", "max-pain",
   "magnet-zones", "iv", "iv-rank", "greeks", "india-vix", "gex", "volume-profile",
   "vwap", "atr", "expected-move", "liquidity", "event-risk", "risk-reward",
   "position-sizing", "trading-decision"}

Sources ==
  [card \in Cards |->
     CASE card \in {"price-action", "india-vix"} -> {"snapshot"}
       [] card = "support-resistance" -> {"levels"}
       [] card \in {"open-interest", "pcr", "max-pain", "iv", "iv-rank"} -> {"optionsMetrics"}
       [] card \in {"magnet-zones", "liquidity"} -> {"chain"}
       [] card = "expected-move" -> {"chain", "optionsMetrics"}
       [] card \in {"risk-reward", "position-sizing", "trading-decision"} -> {"signal"}
       [] OTHER -> {}]

(* FACTOR_MODULES: every card's compute().                                 *)
Compute(card, ctx) ==
  CASE card = "price-action"       -> PriceAction(ctx)
    [] card = "support-resistance" -> SupportResistance(ctx)
    [] card = "open-interest"      -> OpenInterest(ctx)
    [] card = "pcr"                -> Pcr(ctx)
    [] card = "max-pain"           -> MaxPain(ctx)
    [] card = "magnet-zones"       -> MagnetZones(ctx)
    [] card = "iv"                 -> ImpliedVol(ctx)
    [] card = "iv-rank"            -> IvRank(ctx)
    [] card = "greeks"             -> Greeks
    [] card = "india-vix"          -> IndiaVix(ctx)
    [] card = "gex"                -> Gex
    [] card = "volume-profile"     -> VolumeProfile
    [] card = "vwap"               -> Vwap
    [] card = "atr"                -> Atr
    [] card = "expected-move"      -> ExpectedMove(ctx)
    [] card = "liquidity"          -> Liquidity(ctx)
    [] card = "event-risk"         -> EventRisk
    [] card = "risk-reward"        -> RiskReward(ctx)
    [] card = "position-sizing"    -> PositionSizing(ctx)
    [] card = "trading-decision"   -> TradingDecision(ctx)

(* Mutant: a failure hides the last good data.                             *)
StatusOfErrorFirst(h, noData) ==
  IF h.error THEN "error" ELSE IF h.data # noData THEN "ok" ELSE "loading"

(* The status of a feed, of its hook: the last good data outlives a        *)
(* failure, and loading is not looked at.                                  *)
StatusOf(h, noData) ==
  IF h.data # noData THEN "ok" ELSE IF h.error THEN "error" ELSE "loading"

(* Mutant: the failure of any feed is that of every card.                  *)
FactorStatusOfAll(card, status) ==
  IF "loading" \in {status[f] : f \in Sources[card]} THEN "loading"
  ELSE IF \E f \in DOMAIN status : status[f] = "error" THEN "error" ELSE "ok"

(* The status of a card, of the status of every feed.                      *)
FactorStatus(card, status) ==
  LET states == {status[f] : f \in Sources[card]} IN
  IF "loading" \in states THEN "loading" ELSE IF "error" \in states THEN "error" ELSE "ok"

(* What a card shows: its reading, or why it has none.                     *)
FactorCard(card, status, ctx) ==
  <<FactorStatus(card, status),
    IF FactorStatus(card, status) = "ok" THEN Compute(card, ctx) ELSE None>>

(* The strip of key levels.                                                *)
KeyLevels(ctx) ==
  [resistance |-> Or(ctx.levels.resistance, ctx.optionsMetrics.resistance),
   support    |-> Or(ctx.levels.support, ctx.optionsMetrics.support),
   maxPain    |-> ctx.optionsMetrics.maxPain]

(* The columns of the breakdown, which do not look at the status.          *)
Breakdown(ctx) ==
  [bias \in {1, -1, 0} |-> {card \in Cards : Compute(card, ctx).bias = bias}]
=============================================================================
