---------------------------- MODULE EvaluatePath -----------------------------
(***************************************************************************)
(* The loop of evaluate_path (engines/outcome.py) on the levels that       *)
(* synthesize (engines/synthesizer.py) gives a signal.                     *)
(***************************************************************************)
EXTENDS OutcomeRules

CONSTANTS
  PathPrices,      (* Prices and strikes.                                  *)
  HalfAtrs,        (* Halves of an ATR.                                    *)
  MaxBars          (* Bound on the length of a path.                       *)

ASSUME EvaluateAssumption ==
  PathPrices \subseteq Nat \ {0} /\ HalfAtrs \subseteq Nat \ {0} /\ MaxBars \in Nat

VARIABLES
  bias, level,     (* The signal.                                          *)
  bars, elapsed,   (* The path, and whether the horizon has elapsed.       *)
  pos,             (* The bar the loop looks at.                           *)
  result           (* What evaluate_path returns.                          *)

inputVars == <<bias, level, bars, elapsed>>
pathVars == <<inputVars, pos, result>>

PathBar ==
  {b \in [high : PathPrices, low : PathPrices, close : PathPrices] :
     b.low <= b.close /\ b.close <= b.high}

Pending == Unsettled("pending")

PathTypeOK ==
  /\ bias \in Biases
  /\ level \in [entry : Int, stop : Int, target : Int]
  /\ bars \in Seq(PathBar) /\ elapsed \in BOOLEAN
  /\ pos \in 1..(Len(bars) + 1)
  /\ result \in [status : Statuses \cup {"pending"}, exit : Int, r : Int \X Int]

PathInit ==
  /\ bias \in Biases
  /\ \E spot \in PathPrices, half \in HalfAtrs :
       \E support \in Supports(spot, PathPrices), resistance \in Resistances(spot, PathPrices) :
         level = Levels(bias, spot, support, resistance, half)
  /\ \E n \in 0..MaxBars : bars \in [1..n -> PathBar]
  /\ elapsed \in BOOLEAN
  /\ pos = 1
  /\ result = Pending

\* Mutant: the target wins a tie.
TouchTargetFirst ==
  /\ bias # 0 /\ result = Pending /\ pos <= Len(bars)
  /\ HitStop(bias, level, bars[pos]) \/ HitTarget(bias, level, bars[pos])
  /\ result' = IF HitTarget(bias, level, bars[pos]) THEN Result("WIN", bias, level, level.target)
               ELSE Result("LOSS", bias, level, level.stop)
  /\ UNCHANGED <<inputVars, pos>>

\* A neutral signal is not scored.
Neutral == /\ bias = 0 /\ result = Pending
           /\ result' = Unsettled("NEUTRAL")
           /\ UNCHANGED <<inputVars, pos>>

\* A bar that touches the stop, or else the target.
Touch ==
  /\ bias # 0 /\ result = Pending /\ pos <= Len(bars)
  /\ HitStop(bias, level, bars[pos]) \/ HitTarget(bias, level, bars[pos])
  /\ result' = AtBar(bias, level, bars[pos])
  /\ UNCHANGED <<inputVars, pos>>

Pass ==
  /\ bias # 0 /\ result = Pending /\ pos <= Len(bars)
  /\ ~HitStop(bias, level, bars[pos]) /\ ~HitTarget(bias, level, bars[pos])
  /\ pos' = pos + 1
  /\ UNCHANGED <<inputVars, result>>

PathEnd == /\ bias # 0 /\ result = Pending /\ pos > Len(bars)
           /\ result' = AtEnd(bias, level, bars, elapsed)
           /\ UNCHANGED <<inputVars, pos>>

PathNext == Neutral \/ Touch \/ Pass \/ PathEnd

PathSpec == PathInit /\ [][PathNext]_pathVars

(***************************************************************************)
(* Properties.                                                             *)
(***************************************************************************)

\* The loop returns the verdict: the first bar that touches a level decides, a
\* loss on a tie, and an untouched path is open or settled at its last close.
ReturnsVerdict == result # Pending => result = Verdict(bias, level, bars, elapsed)

\* The sign of R agrees with the status, so that get_accuracy may count a win by
\* either: a loss costs the risk, a win gains, and what expires lost less than
\* the risk.
SignsAgree ==
  LET gain == result.r[1]  risk == result.r[2] IN
  /\ result.status = "LOSS"    => risk > 0 /\ gain = -risk
  /\ result.status = "WIN"     => risk > 0 /\ gain > 0
  /\ result.status = "EXPIRED" => risk > 0 /\ gain > -risk
=============================================================================
