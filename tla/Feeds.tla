-------------------------------- MODULE Feeds -------------------------------
(***************************************************************************)
(* What the pages get of the server's answers (api/endpoints.ts): an       *)
(* answer is a record of the fields that the server sends.  Some are       *)
(* mapped field by field to what the pages know, others are passed on as   *)
(* they are, whether or not the pages know their fields.                   *)
(*                                                                         *)
(* Every context has all fields that a page may read; those that are not   *)
(* there are None.                                                         *)
(***************************************************************************)
EXTENDS Integers, Sequences

CONSTANTS
  None,            (* undefined.                                           *)
  Null             (* null, as JSON sends it.                              *)

(* A field as it is sent; `x != null' takes null for undefined.            *)
Sent(w, field) ==
  IF field \in DOMAIN w /\ w[field] # Null THEN w[field] ELSE None

(* The first that is a number, of a field and its other name: num().       *)
Named(w, name, other) == IF Sent(w, name) # None THEN Sent(w, name) ELSE Sent(w, other)

(* Number(x), of a field that is there: null is 0.                         *)
Numeric(w, field) ==
  IF field \in DOMAIN w /\ w[field] = Null THEN 0 ELSE Sent(w, field)

-----------------------------------------------------------------------------
(* getSnapshot(): as the server sends it.  Its price is required by the    *)
(* server's schema and never null, so that a page that looks for undefined *)
(* only (OptionChainPage) does the same as one that looks for both.        *)
Snapshot(w) ==
  [spot |-> Sent(w, "last_price"), prev |-> Sent(w, "prev_close"),
   change |-> Sent(w, "change_pct"), dir |-> Sent(w, "direction"),
   vix |-> Sent(w, "india_vix"), atm |-> Sent(w, "atm_strike"),
   support |-> Sent(w, "support"), resistance |-> Sent(w, "resistance")]

(* getLevels(): as the server sends it, whose fields are the two zones.    *)
Levels(w) ==
  [support |-> Sent(w, "support"), resistance |-> Sent(w, "resistance"),
   pivot |-> Sent(w, "pivot")]

(* mapOptionsMetrics().                                                    *)
OptionsMetrics(w) ==
  [spot |-> Sent(w, "spot"), atm |-> Sent(w, "atm_strike"), pcr |-> Sent(w, "pcr_oi"),
   maxPain |-> Named(w, "max_pain", "max_pain_strike"),
   support |-> Named(w, "support", "support_strike"),
   resistance |-> Named(w, "resistance", "resistance_strike"),
   calls |-> Sent(w, "total_call_oi"), puts |-> Sent(w, "total_put_oi"),
   posture |-> Sent(w, "writing_posture"), iv |-> Sent(w, "atm_iv"),
   ivp |-> Sent(w, "iv_percentile"), ivLabel |-> Sent(w, "iv_percentile_label")]

(* mapChainRow(): a strike that is missing is 0, and what is not a put is  *)
(* a call.                                                                 *)
ChainRow(w) ==
  [strike |-> IF Sent(w, "strike") = None THEN 0 ELSE Sent(w, "strike"),
   type |-> IF Named(w, "type", "option_type") = "PE" THEN "PE" ELSE "CE",
   oi |-> Sent(w, "oi"), oiChg |-> Sent(w, "oi_change"),
   volume |-> Sent(w, "volume"), ltp |-> Sent(w, "ltp")]

(* asArray(), of a chain: the array under the first key that has one.      *)
ChainArray(w) ==
  LET keys == <<"chain_rows", "rows", "chain", "data", "options">>
      found == {k \in DOMAIN keys : Sent(w, keys[k]) # None}
  IN  IF found = {} THEN << >>
      ELSE w[keys[CHOOSE k \in found : \A j \in found : k <= j]]

(* getOptionsChain().                                                      *)
Chain(w) ==
  LET raw == ChainArray(w) IN [rows |-> [k \in DOMAIN raw |-> ChainRow(raw[k])]]

(* getLatestSignal(): as the server sends it.                              *)
Signal(w) ==
  [rr |-> Sent(w, "risk_reward"), entry |-> Numeric(w, "entry_ref"),
   stop |-> Numeric(w, "stop_ref"), bias |-> Sent(w, "bias"),
   label |-> Named(w, "label", "bias_label"), confidence |-> Sent(w, "confidence")]

(* mapSmartMoney(): the signals, each with its type, label and strength.   *)
SmartMoney(w) ==
  LET raw == IF Named(w, "signals", "top_signals") = None THEN << >>
             ELSE Named(w, "signals", "top_signals")
  IN  [signals |-> [k \in DOMAIN raw |->
         [type |-> Sent(raw[k], "signal_type"),
          label |-> Named(raw[k], "signal_label", "label"),
          strength |-> Sent(raw[k], "strength")]]]

(* mapInstitutional(): the contracts that foreign institutions hold.       *)
Institutional(w) ==
  [long |-> Sent(w, "fii_long_contracts"), short |-> Sent(w, "fii_short_contracts")]

(* getDashboard(), and of it the card of an instrument: as they are sent.  *)
Card(w) == [atm |-> Sent(w, "atm_strike")]

(* What a page gets of an answer of a feed.                                *)
Received(feed, w) ==
  CASE feed = "snapshot"       -> Snapshot(w)
    [] feed = "levels"         -> Levels(w)
    [] feed = "optionsMetrics" -> OptionsMetrics(w)
    [] feed = "chain"          -> Chain(w)
    [] feed = "signal"         -> Signal(w)
    [] feed = "smartMoney"     -> SmartMoney(w)
    [] feed = "institutional"  -> Institutional(w)
    [] feed = "dashboard"      -> Card(w)

(* What it has before there is one.                                        *)
Nothing(feed) == Received(feed, << >>)
=============================================================================
