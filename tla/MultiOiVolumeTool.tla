------------------------- MODULE MultiOiVolumeTool --------------------------
(***************************************************************************)
(* Options Lab, Multi OI & Volume (pages/options-lab/MultiOiVolumeTool.tsx): *)
(* lines of the contracts the user selects, by one of two rankings of the  *)
(* server or by hand.                                                      *)
(*                                                                         *)
(* A payload has the fields inst and n.  The key of a payload, instrument  *)
(* and trading day, is the instrument: the model has one day.              *)
(***************************************************************************)
EXTENDS Integers, Sequences, SequencesExt

CONSTANTS
  NoData,          (* No payload.                                          *)
  Counts,          (* HIGH_OI_COUNTS.                                      *)
  Count0,          (* The count the tool opens with.                       *)
  Contracts(_),    (* The contracts of a payload, a set.                   *)
  Ranked(_, _)     (* default_ids and default_vol_ids: the contracts of a  *)
                   (* payload by "oi" or by "vol".                         *)

NoKey == 0

(* The state of the component as it mounts.                                *)
Start == [metric |-> "oi", view |-> "individual", highOi |-> Count0,
          highVol |-> Count0, source |-> "oi", selected |-> << >>,
          hidden |-> {}, custom |-> FALSE, seeded |-> NoKey]

States(Keys, Drawn) ==
  [metric : {"oi", "vol"}, view : {"individual", "callput"}, highOi : Nat,
   highVol : Nat, source : {"oi", "vol", "custom"}, selected : Seq(Drawn),
   hidden : SUBSET Drawn, custom : BOOLEAN, seeded : Keys \cup {NoKey}]

Top(d, by, n) == SubSeq(Ranked(d, by), 1, IF n < Len(Ranked(d, by)) THEN n ELSE Len(Ranked(d, by)))

(* Mutant: the selection is seeded once.                                   *)
RenderedOnce(ui, d) ==
  IF d = NoData \/ ui.seeded # NoKey THEN ui
  ELSE [ui EXCEPT !.seeded = d.inst, !.selected = Top(d, "oi", ui.highOi)]

(* A render: the first payload with a new key seeds the selection, by open *)
(* interest, whatever helper was active.                                   *)
Rendered(ui, d) ==
  IF d = NoData \/ d.inst = ui.seeded THEN ui
  ELSE [ui EXCEPT !.seeded = d.inst, !.selected = Top(d, "oi", ui.highOi)]

(* applyHighOi() and applyHighVol(): from a header, which has a list of    *)
(* counts when its helper is active, and else a button for the same count. *)
HighOi(ui, d) ==
  {[ui EXCEPT !.highOi = n, !.source = "oi",
              !.selected = IF d = NoData THEN @ ELSE Top(d, "oi", n)]
     : n \in IF ui.source = "oi" THEN Counts ELSE {ui.highOi}}

HighVol(ui, d) ==
  {[ui EXCEPT !.highVol = n, !.source = "vol",
              !.selected = IF d = NoData THEN @ ELSE Top(d, "vol", n)]
     : n \in IF ui.source = "vol" THEN Counts ELSE {ui.highVol}}

(* Mutant: what is selected is selected again.                             *)
CustomAppends(ui, d) ==
  IF ~ui.custom \/ d = NoData THEN {}
  ELSE {[ui EXCEPT !.source = "custom", !.selected = Append(@, c)] : c \in Contracts(d)}

(* Nothing is selected twice: a filter takes one contract away.            *)
Without(selected, c) == RemoveAt(selected, CHOOSE k \in DOMAIN selected : selected[k] = c)

(* toggleSelected(): in the picker, which lists the contracts of the       *)
(* payload, whether or not another one is on its way.                      *)
Custom(ui, d) ==
  IF ~ui.custom \/ d = NoData THEN {}
  ELSE {[ui EXCEPT !.source = "custom",
                   !.selected = IF c \in ToSet(@) THEN Without(@, c) ELSE Append(@, c)]
          : c \in Contracts(d)}

(* The chips of the selection: under the active helper while it does not   *)
(* load, under the custom strikes while the picker is closed.              *)
Chips(ui, h) ==
  IF h.data # NoData /\ (IF ui.source = "custom" THEN ~ui.custom ELSE ~h.loading)
  THEN ToSet(ui.selected) \cap Contracts(h.data) ELSE {}

Toggled(S, c) == IF c \in S THEN S \ {c} ELSE S \cup {c}

(* All that the user can press.                                            *)
Presses(ui, h) ==
  HighOi(ui, h.data) \cup HighVol(ui, h.data) \cup Custom(ui, h.data)
    \cup {[ui EXCEPT !.hidden = Toggled(@, c)] : c \in Chips(ui, h)}
    \cup {[ui EXCEPT !.custom = ~@]}
    \cup {[ui EXCEPT !.metric = m] : m \in {"oi", "vol"}}
    \cup {[ui EXCEPT !.view = v] : v \in {"individual", "callput"}}

(* buildSeries(): a line for each contract, or one for the calls and one   *)
(* for the puts; what is not in the payload is passed over.                *)
Lines(ui, d) ==
  IF d = NoData THEN {}
  ELSE IF ui.view = "callput" THEN {"CALL", "PUT"}
  ELSE (ToSet(ui.selected) \ ui.hidden) \cap Contracts(d)

(* The sidebar and the charts.                                             *)
Sidebar(ui, h) ==
  IF ui.source # "custom" /\ (h.loading \/ h.data = NoData) THEN {"chips skeleton"}
  ELSE {"chips"}

Charts(h) ==
  (IF h.error THEN {"banner"} ELSE {})
    \cup (IF h.loading \/ h.data = NoData THEN {"chart skeleton"}
          ELSE {"metric chart", "change chart"}
                 \cup (IF h.data.n > 0 THEN {"change bars", "total bars"} ELSE {}))

View(ui, h) == Sidebar(ui, h) \cup Charts(h)
=============================================================================
