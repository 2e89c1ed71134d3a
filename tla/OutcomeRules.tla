---------------------------- MODULE OutcomeRules -----------------------------
(***************************************************************************)
(* The levels of a signal and the verdict on it: the risk framework of     *)
(* engines/synthesizer.py and the rules of engines/outcome.py.             *)
(*                                                                         *)
(* Prices are positive integers (paise), so that half an ATR is one too;   *)
(* rounding to two decimals and R to three is left out, and R is the pair  *)
(* of profit and initial risk.                                             *)
(***************************************************************************)
EXTENDS Integers, Sequences

Biases == {-1, 0, 1}

Statuses == {"OPEN", "WIN", "LOSS", "EXPIRED", "NEUTRAL"}

NoLevel == 0
NoR == <<0, 0>>

(***************************************************************************)
(* Levels.  A missing wall is NoLevel, which is what `if inp.support` of   *)
(* the code takes it for.                                                  *)
(***************************************************************************)

\* oi_walls: support is a strike below the spot, resistance one above it.
Supports(spot, strikes)    == {NoLevel} \cup {k \in strikes : k < spot}
Resistances(spot, strikes) == {NoLevel} \cup {k \in strikes : k > spot}

\* Mutant: half an ATR is taken from the wrong side of the support.
LevelsInside(bias, spot, support, resistance, half) ==
  [entry  |-> spot,
   stop   |-> IF bias = 1
              THEN IF support # NoLevel THEN support + half ELSE spot - 3 * half
              ELSE IF resistance # NoLevel THEN resistance - half ELSE spot + 3 * half,
   target |-> IF bias = 1
              THEN IF resistance # NoLevel THEN resistance ELSE spot + 4 * half
              ELSE IF support # NoLevel THEN support ELSE spot - 4 * half]

\* Entry, stop and target of a directional signal; half is half the ATR.
Levels(bias, spot, support, resistance, half) ==
  [entry  |-> spot,
   stop   |-> IF bias = 1
              THEN IF support # NoLevel THEN support - half ELSE spot - 3 * half
              ELSE IF resistance # NoLevel THEN resistance + half ELSE spot + 3 * half,
   target |-> IF bias = 1
              THEN IF resistance # NoLevel THEN resistance ELSE spot + 4 * half
              ELSE IF support # NoLevel THEN support ELSE spot - 4 * half]

(***************************************************************************)
(* The verdict.                                                            *)
(***************************************************************************)
Gain(bias, level, price) == IF bias = 1 THEN price - level.entry ELSE level.entry - price

Risk(level) == IF level.entry >= level.stop THEN level.entry - level.stop
               ELSE level.stop - level.entry

RealizedR(bias, level, price) ==
  IF Risk(level) = 0 THEN NoR ELSE <<Gain(bias, level, price), Risk(level)>>

HitStop(bias, level, bar) ==
  IF bias = 1 THEN bar.low <= level.stop ELSE bar.high >= level.stop

HitTarget(bias, level, bar) ==
  IF bias = 1 THEN bar.high >= level.target ELSE bar.low <= level.target

Result(status, bias, level, price) ==
  [status |-> status, exit |-> price, r |-> RealizedR(bias, level, price)]

Unsettled(status) == [status |-> status, exit |-> NoLevel, r |-> NoR]

\* A bar that touches both counts as a loss.
AtBar(bias, level, bar) ==
  IF HitStop(bias, level, bar) THEN Result("LOSS", bias, level, level.stop)
  ELSE Result("WIN", bias, level, level.target)

\* Neither level was touched.
AtEnd(bias, level, bars, elapsed) ==
  IF elapsed /\ bars # <<>> THEN Result("EXPIRED", bias, level, bars[Len(bars)].close)
  ELSE Unsettled("OPEN")

Hits(bias, level, bars) ==
  {i \in 1..Len(bars) : HitStop(bias, level, bars[i]) \/ HitTarget(bias, level, bars[i])}

\* What evaluate_path promises: the first bar that touches a level decides.
\* Its callers give it a directional signal with all its levels, and bars made
\* of prices, so that the guards for what is missing never act.
Verdict(bias, level, bars, elapsed) ==
  LET H == Hits(bias, level, bars) IN
  IF bias = 0 THEN Unsettled("NEUTRAL")
  ELSE IF H = {} THEN AtEnd(bias, level, bars, elapsed)
  ELSE AtBar(bias, level, bars[CHOOSE i \in H : \A j \in H : i <= j])
=============================================================================
