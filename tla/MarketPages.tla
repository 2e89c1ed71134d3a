----------------------------- MODULE MarketPages ----------------------------
(***************************************************************************)
(* The pages that show the market, each over one or more feeds: Dashboard, *)
(* Advanced Dashboard, Options, Option Chain, Smart Money, Institutional   *)
(* and All in 1.                                                           *)
(*                                                                         *)
(* A page is given the hooks of its feeds, by the name of the feed, and    *)
(* what it received of each.  Its view is the set of the regions it shows. *)
(***************************************************************************)
EXTENDS Integers, Sequences, SequencesExt

CONSTANTS
  NoData,          (* A feed has no data yet.                              *)
  None, Null,      (* undefined and null.                                  *)
  All,             (* 'all', of a strike count.                           *)
  StrikeCounts,    (* STRIKE_PRESETS of the Option Chain page.             *)
  Strike0          (* The count that it opens with.                        *)

Tables == INSTANCE ChainTables
Cards  == INSTANCE Factors

(* The useFetch calls of each page, in their order.                        *)
Feeds(page) ==
  CASE page = "dashboard" -> <<"dashboard", "optionsMetrics", "chain">>
    [] page = "advanced-dashboard" ->
         <<"dashboard", "futures1", "futures2", "futures3", "optionsMetrics">>
    [] page = "options" -> <<"optionsMetrics", "chain">>
    [] page = "option-chain" -> <<"snapshot", "optionsMetrics", "chain", "futures">>
    [] page = "smart-money" -> <<"smartMoney">>
    [] page = "institutional" -> <<"institutional">>
    [] page = "all-in-1" -> <<"snapshot", "levels", "optionsMetrics", "chain", "signal">>

MarketNames ==
  {"dashboard", "advanced-dashboard", "options", "option-chain", "smart-money",
   "institutional", "all-in-1"}

(* The feeds without an instrument: deps is [].                            *)
Global == {"dashboard", "institutional", "futures1", "futures2", "futures3"}

(* The feeds that the Retry of a page's banner asks again.                 *)
RetryFeeds(page) ==
  CASE page \in {"dashboard", "advanced-dashboard"} -> {"dashboard"}
    [] page \in {"option-chain", "all-in-1"}         -> {}
    [] OTHER                                         -> ToSet(Feeds(page))

(* The banner shows the error of a feed that can be retried.               *)
Banner(page, h) ==
  IF \E f \in RetryFeeds(page) : h[f].error THEN {"banner"} ELSE {}

LOCAL Either(waits, region) == {IF waits THEN region \o " skeleton" ELSE region}

-----------------------------------------------------------------------------
(* The state of the pages that have some.                                  *)
Start(page) ==
  CASE page = "options"      -> [side |-> "all"]
    [] page = "option-chain" -> [count |-> Strike0]
    [] OTHER                 -> << >>

States(page) ==
  CASE page = "options"      -> [side : {"all", "CE", "PE"}]
    [] page = "option-chain" -> [count : StrikeCounts \cup {All}]
    [] OTHER                 -> {<< >>}

Presses(page, ui) == States(page) \ {ui}

-----------------------------------------------------------------------------
(* The strike at the money of the Dashboard: of the metrics, or of the     *)
(* card of the instrument before there are any.                            *)
DashboardAtm(c) ==
  IF c["optionsMetrics"].atm # None THEN c["optionsMetrics"].atm ELSE c["dashboard"].atm

DashboardRows(c) == Tables!AtmChain(c["chain"].rows, DashboardAtm(c))

DashboardView(h, c) ==
  Either(h["dashboard"].loading, "indices")
    \cup Either(h["optionsMetrics"].loading, "metrics")
    \cup (IF c["chain"].rows # << >> THEN {"chain"}
          ELSE IF h["chain"].loading THEN {"chain skeleton"} ELSE {"no chain"})

AdvancedView(h) ==
  Either(h["dashboard"].loading, "indices")
    \cup Either(h["futures1"].loading, "nifty future")
    \cup Either(h["futures2"].loading, "sensex future")
    \cup Either(h["futures3"].loading, "banknifty future")
    \cup Either(h["optionsMetrics"].loading, "metrics")

OptionsView(ui, h, c) ==
  Either(h["optionsMetrics"].loading, "metrics")
    \cup (IF h["chain"].loading THEN {"chain skeleton"}
          ELSE IF Tables!Filtered(c["chain"].rows, ui.side) = << >>
               THEN {"no chain"} ELSE {"chain"})

(* The table of the Option Chain page, and what it waits for: the future,  *)
(* which is shown above it, is not among it.                               *)
ChainTable(ui, c) ==
  Tables!Table(c["chain"].rows, c["optionsMetrics"], c["snapshot"], ui.count)

ChainLoading(h) == \E f \in {"snapshot", "optionsMetrics", "chain"} : h[f].loading

OptionChainView(ui, h, c) ==
  (IF h["futures"].data # NoData THEN {"future"} ELSE {})
    \cup (IF c["snapshot"].vix # None THEN {"vix"} ELSE {})
    \cup (IF c["optionsMetrics"].pcr # None THEN {"pcr"} ELSE {})
    \cup (IF c["optionsMetrics"].maxPain # None THEN {"max pain"} ELSE {})
    \cup (IF c["optionsMetrics"].iv # None THEN {"atm iv"} ELSE {})
    \cup (IF ChainLoading(h) THEN {"table skeleton"}
          ELSE IF c["chain"].rows = << >> THEN {"no chain"} ELSE {"table"})

-----------------------------------------------------------------------------
(* The tone of a signal: by its type, or else by its label.                *)
SignalTone(s) ==
  CASE s.type \in {1, 4} -> "bull"
    [] s.type \in {2, 3} -> "bear"
    [] s.label \in {"long build-up", "short covering"} -> "bull"
    [] s.label \in {"short build-up", "long unwinding"} -> "bear"
    [] OTHER -> "neutral"

(* The strength of the signals of a tone.                                  *)
Pressure(signals, tone) ==
  FoldLeft(LAMBDA sum, s : sum + (IF SignalTone(s) # tone \/ s.strength = None THEN 0
                                  ELSE s.strength), 0, signals)

SmartMoneyView(h, c) ==
  LET signals == c["smartMoney"].signals
      bull == Pressure(signals, "bull")
      bear == Pressure(signals, "bear")
  IN  IF h["smartMoney"].loading THEN {"bias skeleton", "signals skeleton"}
      ELSE IF signals = << >> THEN {"bias", "no signals"}
      ELSE {"bias", "signals",
            IF bull > bear THEN "mostly bullish"
            ELSE IF bear > bull THEN "mostly bearish" ELSE "even"}

(* The side that the contracts of foreign institutions lean to.            *)
FuturesTilt(c) ==
  LET long == c["institutional"].long
      short == c["institutional"].short
  IN  IF None \in {long, short} \/ long + short = 0 THEN "no positions"
      ELSE IF 100 * long > 115 * short THEN "net long"
      ELSE IF 100 * short > 115 * long THEN "net short" ELSE "balanced"

InstitutionalView(h, c) ==
  IF h["institutional"].loading
  THEN {"flows skeleton", "positions skeleton", "interpretation skeleton"}
  ELSE {"flows", FuturesTilt(c), "interpretation"}

-----------------------------------------------------------------------------
(* All in 1: the status of every feed, and the twenty cards.               *)
SourceStatus(h) == [f \in DOMAIN h |-> Cards!StatusOf(h[f], NoData)]

FactorCards(h, c) ==
  [card \in Cards!Cards |-> Cards!FactorCard(card, SourceStatus(h), c)]

(* What of it is there from the start: the verdict and the trade setup are *)
(* placeholders.                                                           *)
AllInOneView == {"verdict", "trade setup", "breakdown", "key levels", "cards"}

View(page, ui, h, c) ==
  Banner(page, h) \cup
    CASE page = "dashboard"          -> DashboardView(h, c)
      [] page = "advanced-dashboard" -> AdvancedView(h)
      [] page = "options"            -> OptionsView(ui, h, c)
      [] page = "option-chain"       -> OptionChainView(ui, h, c)
      [] page = "smart-money"        -> SmartMoneyView(h, c)
      [] page = "institutional"      -> InstitutionalView(h, c)
      [] page = "all-in-1"           -> AllInOneView
=============================================================================
