------------------------- MODULE GammaExposureTool --------------------------
(***************************************************************************)
(* Options Lab, Gamma Exposure (pages/options-lab/GammaExposureTool.tsx):  *)
(* the exposure of one snapshot of the day, which the user picks with a    *)
(* slider.  The numbers are those of GexMath; here is what the user can  *)
(* press and what is shown.                                                *)
(***************************************************************************)
EXTENDS Integers

CONSTANTS
  NoData,          (* No payload.                                          *)
  Live,            (* null: the slider follows the last snapshot.          *)
  Filters,         (* STRIKE_FILTERS.                                      *)
  Filter0          (* The filter the tool opens with.                      *)

Modes == {"net_abs", "call_put"}

(* The state of the component as it mounts.                                *)
Start == [mode |-> "net_abs", filter |-> Filter0, walls |-> TRUE,
          flip |-> TRUE, now |-> Live]

States(Snapshots) ==
  [mode : Modes, filter : Filters, walls : BOOLEAN, flip : BOOLEAN,
   now : Snapshots \cup {Live}]

(* The series of this tool has its only point, too.                        *)
Series(d) == IF d = NoData THEN 0 ELSE d.n
HasSeries(d) == Series(d) >= 2
LastIdx(d) == IF Series(d) = 0 THEN 0 ELSE Series(d) - 1

(* effIdx: the snapshot shown.                                             *)
EffIdx(ui, d) ==
  IF Series(d) = 0 THEN 0
  ELSE IF ui.now = Live \/ ui.now > LastIdx(d) THEN LastIdx(d) ELSE ui.now

(* Chart type, strike filter and overlays.                                 *)
Settings(ui) ==
  {[ui EXCEPT !.mode = m] : m \in Modes}
    \cup {[ui EXCEPT !.filter = f] : f \in Filters}
    \cup {[ui EXCEPT !.walls = ~@], [ui EXCEPT !.flip = ~@]}

(* Live is there while a snapshot is pinned, whichever one is shown.       *)
TimeSlider(ui, d) ==
  IF ~HasSeries(d) THEN {}
  ELSE {[ui EXCEPT !.now = IF v >= LastIdx(d) THEN Live ELSE v] : v \in 0..LastIdx(d)}
         \cup {[ui EXCEPT !.now = Live]}

Presses(ui, d) == Settings(ui) \cup TimeSlider(ui, d)

KeyLevels(h) ==
  IF h.loading \/ h.data = NoData THEN {"levels skeleton"}
  ELSE {"call wall", "put wall", "gamma flip", "regime"}

(* The chart: no rows come out of a payload without a snapshot.            *)
ChartPanel(ui, h) ==
  (IF h.error THEN {"banner"} ELSE {})
    \cup (IF h.loading THEN {"chart skeleton"}
          ELSE IF Series(h.data) = 0 THEN {"no data"} ELSE {"chart"})
    \cup (IF ~HasSeries(h.data) THEN {"session bar"}
          ELSE {"slider"} \cup (IF ui.now # Live THEN {"live button"} ELSE {}))

View(ui, h) == KeyLevels(h) \cup ChartPanel(ui, h)
=============================================================================
