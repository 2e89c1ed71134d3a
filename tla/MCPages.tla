------------------------------- MODULE MCPages ------------------------------
(***************************************************************************)
(* Pages for TLC: two instruments whose strikes are far apart.  Of their   *)
(* series, with two contracts each, the second is two snapshots behind,    *)
(* and the window of contracts of the first moves with its third snapshot. *)
(***************************************************************************)
EXTENDS Pages

MCAll == -1
MCLive == -2
MCFilters == {MCAll, 2}
MCRanges == {MCAll, 1}
MCShown == PageNames

MCBehind(i) == IF i = 2 THEN 2 ELSE 0

(* A contract is a pair of an instrument and a strike.                     *)
Ranks(d) == IF d.n = 0 THEN << >>
            ELSE IF d.inst = 1 /\ d.n = 3 THEN <<2, 3>> ELSE <<1, 2>>
MCRanked(d, by) ==
  LET r == [k \in DOMAIN Ranks(d) |-> <<d.inst, Ranks(d)[k]>>]
  IN  IF by = "oi" THEN r ELSE Reverse(r)
MCContracts(d) == ToSet(MCRanked(d, "oi"))

(* The feeds at work: on a page of many, the ones its regions wait for.    *)
MCAnswers(p) ==
  IF p = "all-in-1" THEN {"snapshot", "optionsMetrics", "chain"}
  ELSE ToSet(FeedsOf(p)) \ {"futures"}
MCFails(p) ==
  CASE p = "all-in-1" -> {"chain"}
    [] p = "dashboard" -> {"dashboard", "chain"}
    [] p = "advanced-dashboard" -> {"dashboard"}
    [] p = "option-chain" -> {"snapshot"}
    [] OTHER -> ToSet(FeedsOf(p))

(* What the server sends: six strikes around the spot, with equal open   *)
(* interest at two of them; the spot is half way between two strikes, so   *)
(* that prices are doubled.                                                *)
Base(i) == 20 * i
Leg(i, s, type) ==
  [strike |-> Base(i) + 2 * s, option_type |-> type,
   oi |-> IF s \in {2, 4} THEN 90 ELSE 10 * s, oi_change |-> 4 - s,
   volume |-> 100 - 7 * s, ltp |-> s]
MCWire(f, i) ==
  CASE f = "snapshot" ->
         [last_price |-> Base(i) + 7, prev_close |-> Base(i) + 10,
          change_pct |-> IF i = 1 THEN Null ELSE 40, india_vix |-> 14 + i]
    [] f = "levels" ->
         [spot |-> Base(i) + 7, atm_strike |-> Base(i) + 8,
          support_zone |-> Base(i) + 4, resistance_zone |-> Base(i) + 12]
    [] f = "optionsMetrics" ->
         [spot |-> Base(i) + 7, atm_strike |-> Base(i) + 8, pcr_oi |-> 80 + 20 * i,
          max_pain_strike |-> Base(i) + 8, support_strike |-> Base(i) + 4,
          resistance_strike |-> Base(i) + 12, total_call_oi |-> 100 * i,
          total_put_oi |-> 200, writing_posture |-> IF i = 1 THEN "call writers" ELSE "balanced",
          atm_iv |-> 11 * i, iv_percentile |-> 40 * i]
    [] f = "chain" ->
         [chain_rows |-> [k \in 1..12 |-> Leg(i, (k + 1) \div 2, IF k % 2 = 1 THEN "CE" ELSE "PE")]]
    [] f = "signal" ->
         [risk_reward |-> Null, entry_ref |-> Null, stop_ref |-> Null, bias |-> 0,
          bias_label |-> "Neutral", confidence |-> 50]
    [] f = "smartMoney" ->
         [top_signals |-> <<[signal_type |-> i, signal_label |-> "long build-up", strength |-> 60],
                            [signal_type |-> 4, strength |-> 40]>>]
    [] f = "institutional" -> [fii_futures_net |-> 5]
    [] f = "dashboard" -> [atm_strike |-> Base(i) + 8]
=============================================================================
