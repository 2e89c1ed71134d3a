-------------------------- MODULE OpenInterestTool --------------------------
(***************************************************************************)
(* Options Lab, Open Interest (pages/options-lab/OpenInterestTool.tsx):    *)
(* the bars of a window of the day, from an open to a now snapshot, which  *)
(* the user sets with a slider and with quick ranges.                      *)
(*                                                                         *)
(* A payload has the field n, the snapshots of its series; snapshot k is   *)
(* taken at minute k.                                                      *)
(***************************************************************************)
EXTENDS Integers, FiniteSetsExt

CONSTANTS
  NoData,          (* No payload.                                          *)
  All,             (* 'all', of a strike filter or of a quick range.       *)
  Live,            (* null: the slider follows the last snapshot.          *)
  Filters,         (* STRIKE_FILTERS.                                      *)
  Filter0,         (* The filter a tool opens with.                        *)
  Ranges           (* QUICK_RANGES, in minutes.                            *)

Modes == {"change_total", "change", "total"}

(* The state of the component as it mounts.                                *)
Start == [mode |-> "change_total", lot |-> FALSE, filter |-> Filter0,
          now |-> Live, open |-> All]

States(Snapshots) ==
  [mode : Modes, lot : BOOLEAN, filter : Filters,
   now : Snapshots \cup {Live}, open : Ranges]

(* The series is empty unless it has two points at least.                  *)
HasSeries(d) == d # NoData /\ d.n >= 2
LastIdx(d) == d.n - 1

(* effNow and effOpen: a pinned snapshot that is not there is the last one; *)
(* the window opens at the last snapshot that is old enough, or the first.  *)
EffNow(ui, d) ==
  IF ~HasSeries(d) THEN 0
  ELSE IF ui.now = Live \/ ui.now > LastIdx(d) THEN LastIdx(d) ELSE ui.now

EffOpen(ui, d) ==
  IF ~HasSeries(d) \/ ui.open = All THEN 0
  ELSE Max({0} \cup {k \in 0..EffNow(ui, d) : k <= EffNow(ui, d) - ui.open})

(* The filter buttons of the sidebar, the mode tabs and Show Lot.          *)
FilterButtons(ui) == {[ui EXCEPT !.filter = f] : f \in Filters}
ModeRow(ui) == {[ui EXCEPT !.mode = m] : m \in Modes} \cup {[ui EXCEPT !.lot = ~@]}

(* The slider, Reset and the quick ranges: there only with a series.  The  *)
(* end of the slider is to follow live again.                              *)
TimeRange(ui, d) ==
  IF ~HasSeries(d) THEN {}
  ELSE {[ui EXCEPT !.now = IF v >= LastIdx(d) THEN Live ELSE v] : v \in 0..LastIdx(d)}
         \cup {[ui EXCEPT !.open = r] : r \in Ranges}
         \cup {[ui EXCEPT !.now = Live, !.open = All]}

Presses(ui, d) == FilterButtons(ui) \cup ModeRow(ui) \cup TimeRange(ui, d)

(* The sidebar: the sentiment of the payload.                              *)
Sidebar(h) ==
  IF h.loading \/ h.data = NoData THEN {"sentiment skeleton"}
  ELSE {"sentiment donut", "pcr", "insight"}

(* The chart, and the time range beneath it.                               *)
ChartPanel(h) ==
  (IF h.error THEN {"banner"} ELSE {})
    \cup (IF h.loading THEN {"chart skeleton"}
          ELSE IF h.data = NoData \/ h.data.n = 0 THEN {"no data"} ELSE {"chart"})
    \cup (IF HasSeries(h.data) THEN {"slider", "reset"} ELSE {"session bar"})

(* The three panels at the bottom, shown with old data while loading.      *)
BottomPanels(h) ==
  IF h.data = NoData THEN {} ELSE {"oi change", "total oi", "pcr donut"}

View(h) == Sidebar(h) \cup ChartPanel(h) \cup BottomPanels(h)
=============================================================================
