---------------------------- MODULE SignalScoring ----------------------------
(***************************************************************************)
(* The feedback loop on one instrument: the ingestion loop that records    *)
(* the index (ingestion/scheduler.py), the readers that persist a signal   *)
(* (services/signal_service.py), and the scorers that judge the signals by *)
(* the recorded prices (services/signal_outcome_service.py).               *)
(*                                                                         *)
(* A step is what a coroutine does between two awaits; a query sees what   *)
(* is committed (READ COMMITTED).  The clock counts ingestion intervals.   *)
(* bars_held and evaluated_at of an outcome are left out.                  *)
(***************************************************************************)
EXTENDS OutcomeRules, FiniteSets

CONSTANTS
  Readers,         (* Requests that read the latest signal.                *)
  Loop,            (* The scorer loop ...                                  *)
  Forced,          (* ... and the requests that force a scoring.           *)
  Prices,          (* Prices of the index when it is recorded ...          *)
  Entries,         (* ... and when a signal is given.                      *)
  Wall,            (* Distance of support and resistance from the spot.    *)
  HalfAtr,         (* Half an ATR.                                         *)
  MinInterval,     (* SIGNAL_PERSIST_MIN_INTERVAL_MINUTES                  *)
  Horizon,         (* SIGNAL_EVAL_HORIZON_HOURS                            *)
  Lookback,        (* lookback_days                                        *)
  MaxTime,         (* Bound on the clock.                                  *)
  MaxSignals,      (* Bound on the signals.                                *)
  MaxFailures      (* Bound on the failures of the database and broker.    *)

ASSUME ScoringAssumption ==
  /\ Loop \notin Forced
  /\ Prices \subseteq Nat \ {0} /\ Prices # {}
  /\ Wall \in Nat \ {0} /\ HalfAtr \in Nat \ {0}
  /\ Entries \subseteq Nat /\ \A p \in Entries : p > Wall + HalfAtr  \* Levels are prices.
  /\ MinInterval \in Nat /\ Horizon \in Nat \ {0} /\ Lookback \in Nat
  /\ MaxTime \in Nat /\ MaxSignals \in Nat /\ MaxFailures \in Nat

Scorers == {Loop} \cup Forced

VARIABLES
  now,             (* The clock.                                           *)
  quote,           (* The provider's last live quote, and when it was.     *)
  rows,            (* index_live_data, in the order of snap_ts.            *)
  added,           (* The row the ingestion loop has not committed yet.    *)
  signals,         (* ai_trade_signals, in the order of their ids.         *)
  reader,          (* The requests' coroutines.                            *)
  outcome,         (* signal_outcomes, by signal_id.                       *)
  scorer,          (* The scorers' coroutines.                             *)
  failures         (* The failures so far.                                 *)

feedVars == <<quote, rows, added>>
signalVars == <<signals, reader>>
scoreVars == <<outcome, scorer>>
vars == <<now, feedVars, signalVars, scoreVars, failures>>

Ids == 1..MaxSignals
NoOutcome == Unsettled("none")

Quotation == [at : 0..MaxTime, price : Prices]
Row == [ts : 0..MaxTime, quote : Quotation]
NoRow == [ts |-> 0, quote |-> [at |-> 0, price |-> 0]]
Signal == [asOf : 0..MaxTime, bias : Biases, entry : Entries]
OutcomeRow == [status : Statuses \cup {"none"}, exit : Int, r : Int \X Int]

NoSignal == [asOf |-> 0, bias |-> 0, entry |-> 0]
IdleReader == [pc |-> "idle", signal |-> NoSignal]
IdleScorer == [pc |-> "idle", now |-> 0, todo |-> {}, prior |-> [s \in Ids |-> NoOutcome],
               verdicts |-> [s \in Ids |-> NoOutcome], aborted |-> FALSE]

TypeOK ==
  /\ now \in 0..MaxTime /\ failures \in 0..MaxFailures
  /\ quote \in Quotation
  /\ rows \in Seq(Row) /\ added \in Row \cup {NoRow}
  /\ signals \in Seq(Signal) /\ Len(signals) <= MaxSignals
  /\ reader \in [Readers -> [pc : {"idle", "select", "commit"}, signal : Signal \cup {NoSignal}]]
  /\ outcome \in [Ids -> OutcomeRow]
  /\ scorer \in [Scorers -> [pc : {"idle", "outcomes", "paths"}, now : 0..MaxTime,
                             todo : SUBSET Ids, prior : [Ids -> OutcomeRow],
                             verdicts : [Ids -> OutcomeRow], aborted : BOOLEAN]]
  /\ \A s \in Scorers : scorer[s].todo \subseteq 1..Len(signals)

Init == /\ now = 0 /\ failures = 0
        /\ \E p \in Prices : quote = [at |-> 0, price |-> p]
        /\ rows = <<>> /\ added = NoRow
        /\ signals = <<>>
        /\ reader = [r \in Readers |-> IdleReader]
        /\ outcome = [s \in Ids |-> NoOutcome]
        /\ scorer = [s \in Scorers |-> IdleScorer]

Tick == /\ now < MaxTime
        /\ now' = now + 1
        /\ UNCHANGED <<feedVars, signalVars, scoreVars, failures>>

(***************************************************************************)
(* The provider and the ingestion loop.                                    *)
(***************************************************************************)

\* get_spot serves a live quote, or when the broker fails the last one.  A mock
\* quote, which the loop skips, changes nothing.
GetSpot == \/ /\ \E p \in Prices : quote' = [at |-> now, price |-> p]
              /\ UNCHANGED failures
           \/ /\ failures < MaxFailures
              /\ failures' = failures + 1
              /\ UNCHANGED quote

\* _snapshot_index, up to its commit; the loop sleeps an interval between two.
SnapshotIndex ==
  /\ added = NoRow
  /\ rows # <<>> => rows[Len(rows)].ts < now
  /\ GetSpot
  /\ added' = [ts |-> now, quote |-> quote']
  /\ UNCHANGED <<now, rows, signalVars, scoreVars>>

CommitIndex == /\ added # NoRow
               /\ rows' = Append(rows, added)
               /\ added' = NoRow
               /\ UNCHANGED <<now, quote, signalVars, scoreVars, failures>>

\* _index_loop logs the exception and goes on.
CommitIndexFails == /\ added # NoRow /\ failures < MaxFailures
                    /\ added' = NoRow
                    /\ failures' = failures + 1
                    /\ UNCHANGED <<now, quote, rows, signalVars, scoreVars>>

(***************************************************************************)
(* The readers: get_latest_signal.                                         *)
(***************************************************************************)

\* Quote and chain, with whatever source, give a signal.
Synthesize(r) ==
  /\ reader[r].pc = "idle" /\ Len(signals) < MaxSignals
  /\ \E b \in Biases, p \in Entries :
       reader' = [reader EXCEPT ![r] = [pc |-> "select",
                                        signal |-> [asOf |-> now, bias |-> b, entry |-> p]]]
  /\ UNCHANGED <<now, feedVars, signals, scoreVars, failures>>

\* The latest signal that is committed, 0 if there is none.
Latest == IF signals = <<>> THEN 0
          ELSE CHOOSE k \in 1..Len(signals) :
                 \A j \in 1..Len(signals) : signals[j].asOf <= signals[k].asOf

\* should_persist
IsNew(signal) == \/ Latest = 0
                 \/ signal.asOf - signals[Latest].asOf >= MinInterval
                 \/ signals[Latest].bias # signal.bias

SelectLatest(r) ==
  /\ reader[r].pc = "select"
  /\ reader' = [reader EXCEPT ![r] = IF IsNew(reader[r].signal) THEN [@ EXCEPT !.pc = "commit"]
                                     ELSE IdleReader]
  /\ UNCHANGED <<now, feedVars, signals, scoreVars, failures>>

CommitSignal(r) ==
  /\ reader[r].pc = "commit" /\ Len(signals) < MaxSignals
  /\ signals' = Append(signals, reader[r].signal)
  /\ reader' = [reader EXCEPT ![r] = IdleReader]
  /\ UNCHANGED <<now, feedVars, scoreVars, failures>>

(***************************************************************************)
(* The scorers: score_pending.                                             *)
(***************************************************************************)
Terminal(o) == o.status \notin {"none", "OPEN"}

\* The levels stored with a signal.
LevelsOf(sig) == Levels(sig.bias, sig.entry, sig.entry - Wall, sig.entry + Wall, HalfAtr)

End(sig) == sig.asOf + Horizon

\* The rows of R after one time, up to another: R is in the order of snap_ts.
CountTo(R, t) == Cardinality({k \in 1..Len(R) : R[k].ts <= t})
Between(R, from, to) == SubSeq(R, CountTo(R, from) + 1, CountTo(R, to))

\* Every row gives its last price alone.
Bar(row) == LET p == row.quote.price IN [high |-> p, low |-> p, close |-> p]
Bars(R) == [k \in 1..Len(R) |-> Bar(R[k])]

\* The rows on a signal at time t: up to its horizon, or up to t before that.
RowsOn(R, sig, t) == Between(R, sig.asOf, IF t < End(sig) THEN t ELSE End(sig))

\* Mutant: the latest row comes first.
PathBackwards(R, sig, t) ==
  LET path == RowsOn(R, sig, t)
  IN [k \in 1..Len(path) |-> Bar(path[Len(path) + 1 - k])]

\* _price_path, of the committed rows R.
PathTo(R, sig, t) == Bars(RowsOn(R, sig, t))

\* Mutant: a signal without a path stays open.
JudgeOpen(R, sig, t) == Verdict(sig.bias, LevelsOf(sig), PathTo(R, sig, t), t >= End(sig))

\* The verdict at time t.  Without a path, the horizon's end expires a signal.
Judge(R, sig, t) ==
  LET elapsed == t >= End(sig)
      v == Verdict(sig.bias, LevelsOf(sig), PathTo(R, sig, t), elapsed)
  IN IF v.status = "OPEN" /\ elapsed THEN Unsettled("EXPIRED") ELSE v

\* Reads the signals of the lookback window.
Begin(s) ==
  /\ scorer[s].pc = "idle" /\ signals # <<>>
  /\ scorer' = [scorer EXCEPT
                  ![s] = [IdleScorer EXCEPT
                            !.pc = "outcomes", !.now = now,
                            !.todo = {k \in 1..Len(signals) : signals[k].asOf >= now - Lookback}]]
  /\ UNCHANGED <<now, feedVars, signalVars, outcome, failures>>

\* Reads the outcomes there are; resolved signals are skipped.
ReadOutcomes(s) ==
  /\ scorer[s].pc = "outcomes"
  /\ scorer' = [scorer EXCEPT ![s].pc = "paths", ![s].prior = outcome,
                              ![s].todo = {k \in @ : ~Terminal(outcome[k])}]
  /\ UNCHANGED <<now, feedVars, signalVars, outcome, failures>>

\* Reads the path of a signal and judges it.
ScoreOne(s) ==
  /\ scorer[s].pc = "paths"
  /\ \E k \in scorer[s].todo :
       scorer' = [scorer EXCEPT ![s].todo = @ \ {k},
                                ![s].verdicts[k] = Judge(rows, signals[k], scorer[s].now)]
  /\ UNCHANGED <<now, feedVars, signalVars, outcome, failures>>

\* _price_path_safe hides the error of a query; the transaction stays aborted.
PathFails(s) ==
  /\ scorer[s].pc = "paths" /\ scorer[s].todo # {} /\ failures < MaxFailures
  /\ scorer' = [scorer EXCEPT ![s].todo = {}, ![s].aborted = TRUE]
  /\ failures' = failures + 1
  /\ UNCHANGED <<now, feedVars, signalVars, outcome>>

\* The commit is refused when another scorer inserted an outcome meanwhile.
Refused(s) == \/ scorer[s].aborted
              \/ \E k \in Ids : /\ scorer[s].verdicts[k] # NoOutcome
                                /\ scorer[s].prior[k] = NoOutcome
                                /\ outcome[k] # NoOutcome

\* An UPDATE writes the columns that differ from what was read.
Updated(db, prior, new) ==
  LET Column(f) == IF new[f] = prior[f] THEN db[f] ELSE new[f]
  IN [status |-> Column("status"), exit |-> Column("exit"), r |-> Column("r")]

Commit(s) ==
  /\ scorer[s].pc = "paths" /\ scorer[s].todo = {}
  /\ outcome' = IF Refused(s) THEN outcome
                ELSE [k \in Ids |->
                        IF scorer[s].verdicts[k] = NoOutcome THEN outcome[k]
                        ELSE Updated(outcome[k], scorer[s].prior[k], scorer[s].verdicts[k])]
  /\ scorer' = [scorer EXCEPT ![s] = IdleScorer]
  /\ UNCHANGED <<now, feedVars, signalVars, failures>>

Ingest == SnapshotIndex \/ CommitIndex \/ CommitIndexFails
Read(r) == Synthesize(r) \/ SelectLatest(r) \/ CommitSignal(r)
Score(s) == Begin(s) \/ ReadOutcomes(s) \/ ScoreOne(s) \/ Commit(s)

Next == Tick \/ Ingest \/ (\E r \in Readers : Read(r))
        \/ \E s \in Scorers : Score(s) \/ PathFails(s)

Spec == Init /\ [][Next]_vars

\* Time passes, and the scorer loop runs again and again.
FairSpec == Spec /\ WF_vars(Tick) /\ WF_vars(Score(Loop))

(***************************************************************************)
(* Properties.                                                             *)
(***************************************************************************)

\* A win or a loss on record is the verdict of the whole recorded path, though it
\* was given before the path was complete and rows are committed late.
VerdictStands ==
  \A k \in 1..Len(signals) :
    outcome[k].status \in {"WIN", "LOSS"} => outcome[k] = Judge(rows, signals[k], MaxTime)

\* Signals of one bias in a row are MinInterval apart: signal_service.py lines
\* 226-229, "Only persist when the signal is meaningfully new".
NoNearDuplicates ==
  \A j, k \in 1..Len(signals) :
    \/ j = k \/ signals[j].bias # signals[k].bias \/ signals[k].asOf < signals[j].asOf
    \/ signals[k].asOf - signals[j].asOf >= MinInterval
    \/ \E m \in 1..Len(signals) : /\ signals[m].bias # signals[j].bias
                                  /\ signals[j].asOf <= signals[m].asOf
                                  /\ signals[m].asOf <= signals[k].asOf

\* score_pending skips what is resolved (signal_outcome_service.py line 73): the
\* outcome of a resolved signal never changes.
ResolvedForGood == [][\A k \in Ids : Terminal(outcome[k]) => outcome'[k] = outcome[k]]_vars

\* A signal whose horizon ends is resolved, by the loop alone and although forced
\* scorings get in its way.
EveryHorizonResolves ==
  \A k \in Ids :
    (k <= Len(signals) /\ End(signals[k]) <= MaxTime) ~> Terminal(outcome[k])

\* outcome.py line 18, "neither hit within horizon": no recorded price of an
\* expired signal touches its levels.
ExpiredUntouched ==
  \A k \in 1..Len(signals) :
    outcome[k].status = "EXPIRED" => Judge(rows, signals[k], MaxTime).status = "EXPIRED"

\* scheduler.py line 69, "Don't pollute history with fallback/empty quotes": a row
\* holds a quote taken at its snap_ts.
HistoryIsLive == \A k \in 1..Len(rows) : rows[k].quote.at = rows[k].ts
=============================================================================
