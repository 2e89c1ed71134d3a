----------------------------- MODULE LabCharts ------------------------------
(***************************************************************************)
(* A chart of the Options Lab (components/options-lab/*Chart.tsx) on its   *)
(* canvas: the component, rendered by React with the properties its tool   *)
(* gives it, and the instance of ECharts that it keeps up to date with     *)
(* setOption() from an effect, so that what the user did on the canvas     *)
(* stays.                                                                  *)
(*                                                                         *)
(* ECharts and its wrapper are not in this repository; they are modelled   *)
(* as the code uses them.  The wrapper takes its time: getEchartsInstance() *)
(* may give nothing at first (`if (!inst) return'), or an instance that is *)
(* replaced once the canvas has its size.  It paints the option of the     *)
(* first render (initialOption, a memo without dependencies) and never the *)
(* later ones (shouldSetOption gives false).                               *)
(***************************************************************************)
EXTENDS ChartOptions

CONSTANTS
  Kinds,           (* The charts: "oi", "gex", "pain", "lines".            *)
  Chains,          (* The chains a poll may bring.                         *)
  Chain0,          (* The chain the tool has first, the day's open.        *)
  Samples,         (* The chains the figures are checked for.              *)
  Spots,           (* The spots, each with its strike at the money.        *)
  AtmOf(_),        (* atm_strike of a payload with that spot.              *)
  ChartFilters,    (* The strike filters.                                  *)
  LineContracts,   (* The contracts one may tick.                          *)
  MaxTimes         (* Bound on the snapshots of a line.                    *)

ASSUME ChartsAssumption ==
  /\ Kinds \subseteq {"oi", "gex", "pain", "lines"}
  /\ Chain0 \in Chains /\ Spots # {} /\ MaxTimes \in Nat \ {0}
  /\ Future \notin LineContracts

(* Open interest is no less than none, and gamma is not negative within    *)
(* the strikes of a chain (bsGamma, a density over a positive number).     *)
ASSUME SamplesAssumption ==
  /\ Steps \in Nat \ {0} /\ Halvings \in Nat /\ NoValue \notin [a : Nat, b : Nat]
  /\ \A chain \in Samples :
       /\ DOMAIN chain \subseteq Nat \ {0} /\ IsFiniteSet(DOMAIN chain) /\ DOMAIN chain # {}
       /\ \A k \in DOMAIN chain :
            /\ chain[k].call \in Nat /\ chain[k].put \in Nat
            /\ \A side \in {"call", "put"}, S \in Min(DOMAIN chain)..Max(DOMAIN chain) :
                 Gamma(side, S, k) \in Nat

VARIABLES
  kind,            (* Which chart it is.                                   *)
  props,           (* Its properties: what the tool has it draw.           *)
  mounted,         (* The tool shows the chart, not a skeleton.            *)
  first,           (* initialOption.                                       *)
  instance,        (* getEchartsInstance() gives one.                      *)
  canvas,          (* What is painted on it.                               *)
  ready,           (* The wrapper is done.                                 *)
  seenLot,         (* prevShowLot.                                         *)
  bound,           (* The instance hears a double click.                   *)
  zoomed           (* The component shows "Reset zoom".                    *)

chartVars == <<kind, props, mounted, first, instance, canvas, ready, seenLot, bound, zoomed>>

Painted(opt) ==
  [series |-> opt.series, band |-> opt.band, marks |-> opt.marks,
   lot |-> opt.lot, zoom |-> FALSE, off |-> {}]

NoOption == [series |-> << >>, band |-> NoValue, marks |-> {}, lot |-> FALSE]
Blank == Painted(NoOption)

(* The tool's first properties.                                            *)
Spot0 == CHOOSE s \in Spots : TRUE
Props0(k) ==
  [chain |-> Chain0, open |-> Chain0, spot |-> Spot0, atm |-> AtmOf(Spot0), pin |-> NoValue,
   expired |-> FALSE, filter |-> AllStrikes, mode |-> IF k = "gex" THEN "net_abs" ELSE "change_total",
   lot |-> FALSE, walls |-> TRUE, flip |-> TRUE,
   lines |-> LineContracts, n |-> 0, fut |-> FALSE]

ChartInit ==
  /\ kind \in Kinds /\ props = Props0(kind)
  /\ mounted = FALSE /\ first = NoOption /\ ready = FALSE
  /\ instance = FALSE /\ canvas = Blank
  /\ seenLot = FALSE /\ bound = FALSE /\ zoomed = FALSE

(* A chart of lines without a time is a sentence, without the wrapper.     *)
HasCanvas(p) == kind # "lines" \/ p.n > 0

-----------------------------------------------------------------------------
(* setOption() with replaceMerge for the series: the series of the option  *)
(* and no others; the zoom and the legend stay.  The labels of the axis    *)
(* are painted again only when its extent changes.  A series of the same   *)
(* id is merged, so that a band it no longer has would stay; but atm is    *)
(* always one of the strikes, so there always is a band.                   *)
Extent(series) ==
  UNION {{series[id][k] : k \in DOMAIN series[id]} : id \in DOMAIN series}

Merged(c, opt) ==
  [c EXCEPT !.series = opt.series, !.band = opt.band, !.marks = opt.marks,
            !.lot = IF Extent(opt.series) = Extent(c.series) THEN @ ELSE opt.lot]

(* Mutants: Show Lot is merged like the rest; the lines are painted anew;  *)
(* the effect of the lines is missing.                                     *)
OiEffectMerged(c, opt) == Merged(c, opt)
LinesEffectAnew(c, opt) == Painted(opt)
LinesEffectMissing(c, opt) == c

(* The effects of the four charts, on an instance.  Only that of Open      *)
(* Interest clears the instance first, when Show Lot was toggled.          *)
OiEffect(c, opt) == IF seenLot # opt.lot THEN Painted(opt) ELSE Merged(c, opt)

GexEffect(c, opt)   == Merged(c, opt)
PainEffect(c, opt)  == Merged(c, opt)
LinesEffect(c, opt) == Merged(c, opt)

Effect(c, opt) ==
  CASE kind = "oi"    -> OiEffect(c, opt)
    [] kind = "gex"   -> GexEffect(c, opt)
    [] kind = "pain"  -> PainEffect(c, opt)
    [] kind = "lines" -> LinesEffect(c, opt)

(* The wrapper has just been mounted and the effect has run.               *)
Begun(p) ==
  /\ instance' \in IF HasCanvas(p) THEN BOOLEAN ELSE {FALSE}
  /\ canvas' = IF instance' THEN Painted(Option(kind, p)) ELSE Blank
  /\ ready' = FALSE

(* The tool has its data and renders the chart.                            *)
Mount ==
  /\ ~mounted /\ mounted' = TRUE
  /\ first' = Option(kind, props)
  /\ Begun(props)
  /\ seenLot' = props.lot /\ bound' = instance' /\ zoomed' = FALSE
  /\ UNCHANGED <<kind, props>>

(* The tool shows a skeleton, or is left.                                  *)
Unmount ==
  /\ mounted /\ mounted' = FALSE
  /\ first' = NoOption /\ instance' = FALSE /\ canvas' = Blank
  /\ ready' = FALSE /\ seenLot' = FALSE /\ bound' = FALSE /\ zoomed' = FALSE
  /\ UNCHANGED <<kind, props>>

(* The wrapper is done: with the instance there was, or with a new one,    *)
(* which paints the first option and which no effect has heard of.         *)
Ready ==
  /\ mounted /\ HasCanvas(props) /\ ~ready /\ ready' = TRUE
  /\ \/ instance /\ UNCHANGED <<instance, canvas, bound>>
     \/ instance' = TRUE /\ canvas' = Painted(first) /\ bound' = FALSE
  /\ UNCHANGED <<kind, props, mounted, first, seenLot, zoomed>>

(* New properties, props': the component is rendered and its effect runs. *)
(* That of the double click has run for good.                              *)
Render ==
  /\ IF mounted /\ HasCanvas(props) /\ HasCanvas(props')
     THEN /\ \E opt \in {Option(kind, props')} :
               canvas' = IF instance THEN Effect(canvas, opt) ELSE canvas
          /\ seenLot' = IF instance THEN props'.lot ELSE seenLot
          /\ UNCHANGED <<instance, ready, bound>>
     ELSE /\ IF mounted THEN Begun(props') ELSE UNCHANGED <<instance, canvas, ready>>
          /\ bound' = FALSE /\ UNCHANGED seenLot
  /\ UNCHANGED <<kind, mounted, first, zoomed>>

(* A poll of the tool.  Only Gamma Exposure looks at the time to expiry.   *)
PollLines ==
  /\ kind = "lines"
  /\ \E n \in 0..MaxTimes, fut \in BOOLEAN : props' = [props EXCEPT !.n = n, !.fut = fut]
  /\ Render

PollBars ==
  /\ kind # "lines"
  /\ \E chain \in Chains, s \in Spots, over \in IF kind = "gex" THEN BOOLEAN ELSE {FALSE} :
       props' = [props EXCEPT !.chain = chain, !.spot = s, !.atm = AtmOf(s), !.expired = over,
                              !.pin = IF kind = "oi" THEN s ELSE NoValue]
  /\ Render

(* The user, in the tool's settings.                                       *)
Setting ==
  CASE kind = "oi" ->
         \/ \E m \in {"change_total", "change", "total"} : props' = [props EXCEPT !.mode = m]
         \/ props' = [props EXCEPT !.lot = ~@]
         \/ \E f \in ChartFilters : props' = [props EXCEPT !.filter = f]
    [] kind = "gex" ->
         \/ \E m \in {"net_abs", "call_put"} : props' = [props EXCEPT !.mode = m]
         \/ props' = [props EXCEPT !.walls = ~@]
         \/ props' = [props EXCEPT !.flip = ~@]
         \/ \E f \in ChartFilters : props' = [props EXCEPT !.filter = f]
    [] kind = "pain" -> \E f \in ChartFilters : props' = [props EXCEPT !.filter = f]
    [] kind = "lines" -> \E l \in SUBSET LineContracts : props' = [props EXCEPT !.lines = l]

Set == Setting /\ Render

(* The user, on the canvas of a chart of lines: the wheel or the slider,   *)
(* the legend, and the ways back to the whole day.                         *)
OnCanvas == kind = "lines" /\ ready

Zoom ==
  /\ OnCanvas /\ canvas' = [canvas EXCEPT !.zoom = TRUE] /\ zoomed' = TRUE
  /\ UNCHANGED <<kind, props, mounted, first, instance, ready, seenLot, bound>>

ResetZoom ==
  /\ OnCanvas /\ (zoomed \/ bound)
  /\ canvas' = [canvas EXCEPT !.zoom = FALSE] /\ zoomed' = FALSE
  /\ UNCHANGED <<kind, props, mounted, first, instance, ready, seenLot, bound>>

Legend ==
  /\ OnCanvas
  /\ \E id \in DOMAIN canvas.series :
       canvas' = [canvas EXCEPT !.off = (@ \ {id}) \cup ({id} \ @)]
  /\ UNCHANGED <<kind, props, mounted, first, instance, ready, seenLot, bound, zoomed>>

ChartNext ==
  \/ Mount \/ Unmount \/ Ready \/ PollLines \/ PollBars \/ Set
  \/ Zoom \/ ResetZoom \/ Legend

(* The tool polls.                                                         *)
ChartSpec == ChartInit /\ [][ChartNext]_chartVars /\ WF_chartVars(PollLines)

-----------------------------------------------------------------------------
Shows(c, p) ==
  LET opt == Option(kind, p)
  IN  c.series = opt.series /\ c.band = opt.band /\ c.marks = opt.marks

ChartTypeOK ==
  /\ kind \in Kinds /\ props.chain \in Chains /\ props.n \in 0..MaxTimes
  /\ (instance => mounted /\ HasCanvas(props))
  /\ (ready => instance) /\ (bound => instance)

(* Once the canvas is there, each render puts on it what it is given:      *)
(* no bar or mark of the mode, the window or the poll before stays, and a  *)
(* toggle of Show Lot is seen on the axis though no bar moves.             *)
PaintedIsCurrent ==
  [][ready /\ ready' /\ props' # props =>
       /\ Shows(canvas', props')
       /\ props'.lot # props.lot => canvas'.lot = props'.lot]_chartVars

(* No poll and no setting undoes what the user did on the canvas: a zoom   *)
(* and a line hidden in the legend stay until the user undoes them, and a  *)
(* zoomed chart always has its way back.                                   *)
ViewKept ==
  [][/\ ready /\ ready' /\ props' # props /\ kind = "lines" =>
          canvas'.zoom = canvas.zoom /\ canvas'.off = canvas.off
     /\ ready' /\ canvas'.zoom => zoomed']_chartVars

(* A canvas that was late was painted as of the first render, which for a  *)
(* chart of lines may have been before there was any data: it shows what   *)
(* the tool has some time.                                                 *)
Stale == kind = "lines" /\ ready /\ ~Shows(canvas, props)
CatchesUp == Stale ~> ~Stale

(* The figures of a chain depend on nothing else, so it is enough to look  *)
(* at them once, for every sample, before the chart opens.                 *)
Opening == ~mounted /\ props = Props0(kind)

(* The pin costs the least of all settlements, at a strike or between two, *)
(* and the costs fall towards it from both sides (the "V").                *)
PainIsLeast ==
  kind = "pain" /\ Opening =>
    \A chain \in Samples :
      LET pin == PainLib!MaxPainStrike(chain)
          cost == [E \in Min(DOMAIN chain)..Max(DOMAIN chain) |-> PainLib!Pain(chain, E)]
      IN  /\ \A E \in DOMAIN cost : cost[E] >= cost[pin]
          /\ \A E \in DOMAIN cost \ {Max(DOMAIN cost)} :
               IF E < pin THEN cost[E] >= cost[E + 1] ELSE cost[E] <= cost[E + 1]

(* Where the flip is drawn the chain as a whole changes sign, or is zero;  *)
(* where none is drawn it has one sign at every point of the scan but the  *)
(* last.                                                                   *)
FlipIsBracketed ==
  kind = "gex" /\ Opening =>
    \A chain \in Samples :
      LET at(S) == GexLib!NetAt(chain, S)
          scan == [i \in 0..Steps |-> at(GexLib!ScanPoint(chain, i))]
      IN  \E z \in {GexLib!ZeroGamma(chain, FALSE)} :
            IF z # NoValue
            THEN IF z.a = z.b THEN at(z.a) = 0 ELSE at(z.a) * at(z.b) < 0
            ELSE Cardinality(DOMAIN chain) > 1 =>
                   \A i \in 0..(Steps - 1) : scan[i] * scan[0] > 0
=============================================================================
