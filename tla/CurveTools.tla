----------------------------- MODULE CurveTools -----------------------------
(***************************************************************************)
(* The tools that show one payload as a whole: Put-Call Ratio and Max Pain *)
(* of the Options Lab, and Price vs OI of the Future Lab.                  *)
(***************************************************************************)
EXTENDS Integers

CONSTANTS
  NoData,          (* No payload.                                          *)
  Filters,         (* STRIKE_FILTERS of Max Pain.                          *)
  Filter0,         (* The filter it opens with.                            *)
  Timeframes,      (* TIMEFRAMES of Put-Call Ratio, in minutes.            *)
  Expiries         (* The number of expiries that Price vs OI lists.       *)

(* data_quality is 'empty' when there is no snapshot.                      *)
Empty(d) == d # NoData /\ d.n = 0

-----------------------------------------------------------------------------
PcrStart == [timeframe |-> 5]
PcrStates == [timeframe : Timeframes \cup {5}]
PcrPresses(ui) == {[ui EXCEPT !.timeframe = m] : m \in Timeframes}

(* The summary of the sidebar.                                             *)
PcrSummary(h) ==
  IF h.loading \/ h.data = NoData THEN {"pcr skeleton"} ELSE {"pcr", "regime"}

(* The three charts: ratio, change of open interest, open interest.        *)
PcrCharts(h) ==
  (IF h.error THEN {"banner"} ELSE {})
    \cup (IF h.loading \/ h.data = NoData THEN {"chart skeleton"}
          ELSE IF Empty(h.data) THEN {"no data"}
          ELSE {"ratio chart", "change chart", "total chart"})

PcrView(h) == PcrSummary(h) \cup PcrCharts(h)

-----------------------------------------------------------------------------
PainStart == [filter |-> Filter0]
PainStates == [filter : Filters]
PainPresses(ui) == {[ui EXCEPT !.filter = f] : f \in Filters}

(* The chart and the sentiment read from it.                               *)
PainView(h) ==
  (IF h.error THEN {"banner"} ELSE {})
    \cup (IF h.loading \/ h.data = NoData THEN {"chart skeleton", "sentiment skeleton"}
          ELSE {IF Empty(h.data) THEN "no data" ELSE "chart", "sentiment"})

-----------------------------------------------------------------------------
FutureStart == [price |-> TRUE, oi |-> TRUE, collapsed |-> FALSE, expiry |-> 0]
FutureStates ==
  [price : BOOLEAN, oi : BOOLEAN, collapsed : BOOLEAN, expiry : 0..(Expiries - 1)]

(* The settings fold away, and the selector of expiries with them.         *)
FuturePresses(ui) ==
  {[ui EXCEPT !.price = ~@], [ui EXCEPT !.oi = ~@], [ui EXCEPT !.collapsed = ~@]}
    \cup (IF ui.collapsed THEN {} ELSE {[ui EXCEPT !.expiry = e] : e \in 0..(Expiries - 1)})

(* Once there is data, this chart is never replaced by a skeleton.         *)
FutureView(ui, h) ==
  (IF h.error THEN {"banner"} ELSE {})
    \cup (IF h.loading /\ h.data = NoData THEN {"chart skeleton"}
          ELSE IF h.data = NoData \/ Empty(h.data) THEN {"no data"}
          ELSE {"chart"} \cup (IF ui.price THEN {"price line"} ELSE {})
                         \cup (IF ui.oi THEN {"oi line"} ELSE {}))
=============================================================================
