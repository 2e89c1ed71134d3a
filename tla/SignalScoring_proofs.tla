----------------------- MODULE SignalScoring_proofs --------------------------
(***************************************************************************)
(* Proofs about the judging of signals.  About SignalScoring, for any      *)
(* readers, scorers, prices and clock: its types, and that a final verdict *)
(* is never taken back.  About EvaluatePath, for any prices, ATRs and      *)
(* paths: the loop returns the verdict, and R has the sign the status says.*)
(***************************************************************************)
EXTENDS SignalScoring, EvaluatePath, TLAPS, WellFoundedInduction, FiniteSetTheorems

\* Every set of naturals that is not empty has a least element.
LEMMA LeastNatural ==
  ASSUME NEW S \in SUBSET Nat, S # {}
  PROVE  \E m \in S : \A k \in S : m <= k
<1>1. \E m \in S : \A k \in S : ~(<<k, m>> \in OpToRel(<, Nat))
  BY WFMin, NatLessThanWellFounded, Zenon
<1>2. \A m, k \in S : k < m => <<k, m>> \in OpToRel(<, Nat)
  BY DEF OpToRel
<1>3. \E m \in S : \A k \in S : ~(k < m)
  BY <1>1, <1>2, Zenon
<1>4. QED
  BY <1>3

(***************************************************************************)
(* The operators of the scorer.                                            *)
(***************************************************************************)

\* Times are integers.
LEMMA RowTimes ==
  ASSUME NEW R \in Seq(Row)
  PROVE  \A k \in 1..Len(R) : R[k].ts \in Int
<1>1. \A k \in 1..Len(R) : R[k] \in Row
  OBVIOUS
<1>2. \A row \in Row : row.ts \in Int
  BY ScoringAssumption DEF Row
<1>3. QED
  BY <1>1, <1>2

Ascending(R) == \A n, j \in 1..Len(R) : n < j => R[n].ts < R[j].ts

\* The rows up to a time are the first ones.
LEMMA CountIsPrefix ==
  ASSUME NEW R \in Seq(Row), Ascending(R), NEW t \in Int
  PROVE  /\ CountTo(R, t) \in 0..Len(R)
         /\ \A k \in 1..Len(R) : R[k].ts <= t <=> k <= CountTo(R, t)
<1> DEFINE Later == {k \in 1..(Len(R) + 1) : k = Len(R) + 1 \/ R[k].ts > t}
<1>1. Later \in SUBSET Nat /\ Len(R) + 1 \in Later /\ Len(R) \in Nat
  OBVIOUS
<1>2. PICK m \in Later : \A k \in Later : m <= k
  BY <1>1, LeastNatural
<1>3. m \in 1..(Len(R) + 1)
  OBVIOUS
<1>4. \A k \in 1..Len(R) : R[k].ts \in Int
  BY RowTimes
<1>5. ASSUME NEW k \in 1..Len(R) PROVE R[k].ts <= t <=> k <= m - 1
  <2>1. CASE k < m
    <3>1. k \notin Later
      BY <1>2, <2>1, <1>3
    <3>2. QED
      BY <1>1, <1>3, <1>4, <2>1, <3>1
  <2>2. CASE k >= m
    <3>1. m \in 1..Len(R) /\ R[m].ts > t
      BY <1>1, <1>2, <2>2, <1>3
    <3>2. R[k].ts >= R[m].ts
      BY <1>1, <1>4, <2>2, <3>1 DEF Ascending
    <3>3. QED
      BY <1>1, <1>3, <1>4, <2>2, <3>1, <3>2
  <2>3. QED
    BY <1>1, <1>3, <2>1, <2>2
<1>6. {k \in 1..Len(R) : R[k].ts <= t} = 1..(m - 1)
  BY <1>1, <1>3, <1>5
<1>7. Cardinality(1..(m - 1)) = m - 1
  BY <1>3, FS_Interval
<1>8. CountTo(R, t) = m - 1
  BY <1>6, <1>7 DEF CountTo
<1>9. QED
  BY <1>1, <1>3, <1>5, <1>8

Decided(o) == o.status \in {"WIN", "LOSS"}

Prefix(p, q) == Len(p) <= Len(q) /\ \A n \in 1..Len(p) : q[n] = p[n]

\* Rows committed later come after the others on a path.
LEMMA PathGrows ==
  ASSUME NEW R \in Seq(Row), NEW S \in Seq(Row), Ascending(R), Ascending(S), Prefix(R, S),
         NEW from \in Int, NEW t \in Int, NEW u \in Int, t <= u
  PROVE  /\ Between(R, from, t) \in Seq(Row) /\ Between(S, from, u) \in Seq(Row)
         /\ Prefix(Between(R, from, t), Between(S, from, u))
<1> DEFINE a == CountTo(R, from)
           b == CountTo(R, t)
           c == CountTo(S, from)
           d == CountTo(S, u)
<1>1. a \in 0..Len(R) /\ b \in 0..Len(R) /\ c \in 0..Len(S) /\ d \in 0..Len(S)
  BY CountIsPrefix
<1>2. /\ \A k \in 1..Len(R) : R[k].ts <= from <=> k <= a
      /\ \A k \in 1..Len(R) : R[k].ts <= t <=> k <= b
      /\ \A k \in 1..Len(S) : S[k].ts <= from <=> k <= c
      /\ \A k \in 1..Len(S) : S[k].ts <= u <=> k <= d
  BY CountIsPrefix
<1>3. Between(R, from, t) = SubSeq(R, a + 1, b) /\ Between(S, from, u) = SubSeq(S, c + 1, d)
  BY DEF Between
<1> HIDE DEF a, b, c, d
<1>4. Len(R) \in Nat /\ Len(S) \in Nat /\ Len(R) <= Len(S) /\ \A n \in 1..Len(R) : S[n] = R[n]
  BY DEF Prefix
<1>5. /\ SubSeq(R, a + 1, b) \in Seq(Row) /\ SubSeq(S, c + 1, d) \in Seq(Row)
      /\ Len(SubSeq(R, a + 1, b)) = (IF a + 1 <= b THEN b - a ELSE 0)
      /\ Len(SubSeq(S, c + 1, d)) = (IF c + 1 <= d THEN d - c ELSE 0)
      /\ \A n \in 1..(b - a) : SubSeq(R, a + 1, b)[n] = R[a + n]
      /\ \A n \in 1..(d - c) : SubSeq(S, c + 1, d)[n] = S[c + n]
  BY <1>1, <1>4
<1>6. \A k \in 1..Len(S) : S[k].ts \in Int
  BY RowTimes
<1>7. CASE a + 1 <= b
  <2>1. a = c
    BY <1>1, <1>2, <1>4, <1>7
  <2>2. b <= d
    <3>1. b \in 1..Len(R) /\ R[b].ts <= t /\ S[b] = R[b] /\ b \in 1..Len(S)
      BY <1>1, <1>2, <1>4, <1>7
    <3>2. S[b].ts <= u
      BY <1>6, <3>1
    <3>3. QED
      BY <1>2, <3>1, <3>2
  <2>3. QED
    BY <1>1, <1>3, <1>4, <1>5, <1>7, <2>1, <2>2 DEF Prefix
<1>8. CASE b < a + 1
  BY <1>1, <1>3, <1>5, <1>8 DEF Prefix
<1>9. QED
  BY <1>1, <1>7, <1>8, <1>3, <1>5

\* The first touch of a path stays the first when the path grows.
LEMMA VerdictOfPrefix ==
  ASSUME NEW b, NEW l, NEW p, NEW q, NEW e, NEW f, Len(p) \in Nat, Len(q) \in Nat, Prefix(p, q),
         Decided(Verdict(b, l, p, e))
  PROVE  Verdict(b, l, q, f) = Verdict(b, l, p, e)
<1> DEFINE H == Hits(b, l, p)
           K == Hits(b, l, q)
<1>1. b # 0 /\ H # {}
  <2>1. CASE b = 0
    BY <2>1 DEF Verdict, Decided, Unsettled
  <2>2. CASE b # 0 /\ H = {}
    <3>1. Verdict(b, l, p, e) = AtEnd(b, l, p, e)
      BY <2>2 DEF Verdict
    <3>2. AtEnd(b, l, p, e).status \in {"EXPIRED", "OPEN"}
      BY DEF AtEnd, Result, Unsettled
    <3>3. QED
      BY <3>1, <3>2 DEF Decided
  <2>3. QED
    BY <2>1, <2>2
<1>2. H \subseteq 1..Len(p) /\ K \subseteq 1..Len(q)
  BY DEF Hits
<1>3. \A n \in 1..Len(p) : n \in H <=> n \in K
  BY DEF Hits, Prefix
<1>4. \A n \in 1..Len(p) : n \in 1..Len(q) /\ q[n] = p[n]
  BY DEF Prefix
<1>5. Verdict(b, l, p, e) = AtBar(b, l, p[CHOOSE n \in H : \A j \in H : n <= j])
  BY <1>1 DEF Verdict
<1>6. K # {}
  BY <1>1, <1>2, <1>3
<1>7. Verdict(b, l, q, f) = AtBar(b, l, q[CHOOSE n \in K : \A j \in K : n <= j])
  BY <1>1, <1>6 DEF Verdict
<1> HIDE DEF H, K
<1>8. PICK m \in H : \A j \in H : m <= j
  BY <1>1, <1>2, LeastNatural
<1>9. m \in K /\ \A j \in K : m <= j
  BY <1>2, <1>3, <1>8
<1>10. (CHOOSE n \in H : \A j \in H : n <= j) = m
  <2>1. \A n \in H : (\A j \in H : n <= j) => n = m
    BY <1>2, <1>8
  <2>2. QED
    BY <1>8, <2>1
<1>11. (CHOOSE n \in K : \A j \in K : n <= j) = m
  <2>1. \A n \in K : (\A j \in K : n <= j) => n = m
    BY <1>2, <1>9
  <2>2. QED
    BY <1>9, <2>1
<1>12. q[m] = p[m]
  BY <1>2, <1>4, <1>8
<1>13. QED
  BY <1>5, <1>7, <1>10, <1>11, <1>12

\* A win or a loss is the verdict on the path.
LEMMA DecidedJudge ==
  ASSUME NEW R, NEW sig, NEW t
  PROVE  LET v == Verdict(sig.bias, LevelsOf(sig), PathTo(R, sig, t), t >= End(sig)) IN
         /\ Decided(v) => Judge(R, sig, t) = v
         /\ Decided(Judge(R, sig, t)) => Decided(v)
<1> DEFINE v == Verdict(sig.bias, LevelsOf(sig), PathTo(R, sig, t), t >= End(sig))
<1>1. Judge(R, sig, t) = IF v.status = "OPEN" /\ t >= End(sig) THEN Unsettled("EXPIRED") ELSE v
  BY DEF Judge
<1> HIDE DEF v
<1>2. ~Decided(Unsettled("EXPIRED"))
  BY DEF Decided, Unsettled
<1>3. Decided(v) => Judge(R, sig, t) = v
  BY <1>1 DEF Decided
<1>4. Decided(Judge(R, sig, t)) => Decided(v)
  BY <1>1, <1>2
<1>5. QED
  BY <1>3, <1>4 DEF v

\* A win or a loss stands whatever rows are committed later.
LEMMA JudgeStands ==
  ASSUME NEW R \in Seq(Row), NEW S \in Seq(Row), Ascending(R), Ascending(S), Prefix(R, S),
         NEW sig \in Signal, NEW t \in Int, NEW u \in Int, t <= u,
         Decided(Judge(R, sig, t))
  PROVE  Judge(S, sig, u) = Judge(R, sig, t)
<1> DEFINE T(x) == IF x < End(sig) THEN x ELSE End(sig)
<1>1. sig.asOf \in Int /\ End(sig) \in Int
  BY ScoringAssumption DEF Signal, End
<1>2. T(t) \in Int /\ T(u) \in Int /\ T(t) <= T(u)
  BY <1>1
<1> DEFINE p == Between(R, sig.asOf, T(t))
           q == Between(S, sig.asOf, T(u))
<1>3. PathTo(R, sig, t) = Bars(p) /\ PathTo(S, sig, u) = Bars(q)
  BY DEF PathTo, RowsOn
<1> HIDE DEF T
<1>4. p \in Seq(Row) /\ q \in Seq(Row) /\ Prefix(p, q)
  BY <1>1, <1>2, PathGrows
<1> HIDE DEF p, q
<1>5. Len(Bars(p)) = Len(p) /\ Len(Bars(q)) = Len(q) /\ Len(p) \in Nat /\ Len(q) \in Nat
  BY <1>4 DEF Bars
<1>6. Prefix(Bars(p), Bars(q))
  BY <1>4, <1>5 DEF Bars, Prefix
<1> DEFINE v == Verdict(sig.bias, LevelsOf(sig), Bars(p), t >= End(sig))
           w == Verdict(sig.bias, LevelsOf(sig), Bars(q), u >= End(sig))
<1>7. Decided(v) /\ Judge(R, sig, t) = v
  BY <1>3, DecidedJudge
<1>8. w = v
  BY <1>5, <1>6, <1>7, VerdictOfPrefix
<1>9. Judge(S, sig, u) = w
  BY <1>3, <1>7, <1>8, DecidedJudge
<1>10. QED
  BY <1>7, <1>8, <1>9

\* The levels of a directional signal are prices, and the risk is not zero.
LEMMA LevelsArePrices ==
  ASSUME NEW sig \in Signal
  PROVE  LET l == LevelsOf(sig) IN
         /\ l.entry \in Int /\ l.stop \in Int /\ l.target \in Int
         /\ l.stop # NoLevel /\ l.target # NoLevel
         /\ Risk(l) \in Int \ {0}
<1>1. /\ sig.entry \in Nat /\ sig.entry > Wall + HalfAtr
      /\ Wall \in Nat \ {0} /\ HalfAtr \in Nat \ {0}
  BY ScoringAssumption DEF Signal
<1>2. LevelsOf(sig) =
        [entry  |-> sig.entry,
         stop   |-> IF sig.bias = 1 THEN sig.entry - Wall - HalfAtr ELSE sig.entry + Wall + HalfAtr,
         target |-> IF sig.bias = 1 THEN sig.entry + Wall ELSE sig.entry - Wall]
  BY <1>1 DEF LevelsOf, Levels, NoLevel
<1> DEFINE l == LevelsOf(sig)
<1>3. /\ l.entry = sig.entry
      /\ l.stop = IF sig.bias = 1 THEN sig.entry - Wall - HalfAtr ELSE sig.entry + Wall + HalfAtr
      /\ l.target = IF sig.bias = 1 THEN sig.entry + Wall ELSE sig.entry - Wall
  BY <1>2
<1> HIDE DEF l
<1>4. QED
  BY <1>1, <1>3 DEF Risk, NoLevel, l

\* R is a pair of integers, and not that of an open signal.
LEMMA RealizedRTypes ==
  ASSUME NEW sig \in Signal, NEW price \in Int
  PROVE  /\ RealizedR(sig.bias, LevelsOf(sig), price) \in Int \X Int
         /\ RealizedR(sig.bias, LevelsOf(sig), price) # NoR
<1> DEFINE l == LevelsOf(sig)
<1>1. l.entry \in Int /\ Risk(l) \in Int \ {0}
  BY LevelsArePrices
<1> HIDE DEF l
<1>2. Gain(sig.bias, l, price) \in Int
  BY <1>1 DEF Gain
<1>3. RealizedR(sig.bias, l, price) = <<Gain(sig.bias, l, price), Risk(l)>>
  BY <1>1 DEF RealizedR
<1>4. QED
  BY <1>1, <1>2, <1>3 DEF NoR, l

\* What a judgement looks like: an open signal has no exit and no R, and a win or a
\* loss has both.
LEMMA JudgeShape ==
  ASSUME NEW R \in Seq(Row), Ascending(R), NEW sig \in Signal, NEW t \in Int
  PROVE  LET o == Judge(R, sig, t) IN
         /\ o \in OutcomeRow /\ o.status # "none"
         /\ o.status = "OPEN" => o = Unsettled("OPEN")
         /\ Decided(o) => o.exit # NoLevel /\ o.r # NoR
<1> DEFINE l == LevelsOf(sig)
           seen == PathTo(R, sig, t)
           v == Verdict(sig.bias, l, seen, t >= End(sig))
           Shape(o) == /\ o \in OutcomeRow /\ o.status # "none"
                       /\ o.status = "OPEN" => o = Unsettled("OPEN")
                       /\ Decided(o) => o.exit # NoLevel /\ o.r # NoR
<1>1. \A st \in {"OPEN", "EXPIRED", "NEUTRAL"} : Shape(Unsettled(st))
  BY DEF Unsettled, OutcomeRow, Statuses, Decided, NoLevel, NoR
<1>2. \A st \in {"EXPIRED", "WIN", "LOSS"}, price \in Int :
        (st # "EXPIRED" => price # NoLevel) => Shape(Result(st, sig.bias, l, price))
  <2> SUFFICES ASSUME NEW st \in {"EXPIRED", "WIN", "LOSS"}, NEW price \in Int,
                      st # "EXPIRED" => price # NoLevel
               PROVE  Shape(Result(st, sig.bias, l, price))
    OBVIOUS
  <2> DEFINE x == RealizedR(sig.bias, l, price)
  <2>1. x \in Int \X Int /\ x # NoR
    BY RealizedRTypes
  <2>2. Result(st, sig.bias, l, price) = [status |-> st, exit |-> price, r |-> x]
    BY DEF Result
  <2> HIDE DEF x
  <2>3. QED
    BY <2>1, <2>2 DEF OutcomeRow, Statuses, Decided
<1>3. l.stop \in Int /\ l.target \in Int /\ l.stop # NoLevel /\ l.target # NoLevel
  BY LevelsArePrices
<1>4. seen # <<>> => seen[Len(seen)].close \in Int
  <2> DEFINE p == RowsOn(R, sig, t)
  <2>1. p \in Seq(Row)
    <3>1. sig.asOf \in Int /\ End(sig) \in Int
      BY ScoringAssumption DEF Signal, End
    <3>2. Prefix(R, R)
      BY DEF Prefix
    <3>3. QED
      BY <3>1, <3>2, PathGrows DEF RowsOn
  <2> HIDE DEF p
  <2>2. Len(p) \in Nat /\ \A k \in 1..Len(p) : p[k] \in Row
    BY <2>1
  <2>3. \A row \in Row : Bar(row).close \in Int
    <3>1. \A row \in Row : row.quote.price \in Int
      <4>1. \A price \in Prices : price \in Int
        BY ScoringAssumption
      <4>2. \A x \in Quotation : x.price \in Int
        BY <4>1 DEF Quotation
      <4>3. QED
        BY <4>2 DEF Row
    <3>2. \A row : Bar(row).close = row.quote.price
      BY DEF Bar
    <3>3. QED
      BY <3>1, <3>2
  <2>4. seen = [k \in 1..Len(p) |-> Bar(p[k])]
    BY DEF PathTo, Bars, p
  <2>5. Len(seen) = Len(p)
    BY <2>2, <2>4
  <2>6. Len(p) = 0 => seen = <<>>
    BY <2>4
  <2>7. QED
    BY <2>2, <2>3, <2>4, <2>5, <2>6
<1> HIDE DEF l, seen, Shape
<1>5. Shape(v)
  <2>1. CASE sig.bias = 0
    BY <1>1, <2>1 DEF Verdict
  <2>2. CASE sig.bias # 0 /\ Hits(sig.bias, l, seen) = {}
    <3>1. v = AtEnd(sig.bias, l, seen, t >= End(sig))
      BY <2>2 DEF Verdict
    <3>2. QED
      BY <3>1, <1>1, <1>2, <1>4 DEF AtEnd
  <2>3. CASE sig.bias # 0 /\ Hits(sig.bias, l, seen) # {}
    <3>1. PICK bar : v = AtBar(sig.bias, l, bar)
      BY <2>3 DEF Verdict
    <3>2. QED
      BY <3>1, <1>2, <1>3 DEF AtBar
  <2>4. QED
    BY <2>1, <2>2, <2>3
<1>6. Judge(R, sig, t) = v \/ Judge(R, sig, t) = Unsettled("EXPIRED")
  BY DEF Judge, l, seen
<1>7. Shape(Judge(R, sig, t))
  BY <1>1, <1>5, <1>6
<1>8. QED
  BY <1>7 DEF Shape

(***************************************************************************)
(* Types and history.                                                      *)
(***************************************************************************)

ScorerState == [pc : {"idle", "outcomes", "paths"}, now : 0..MaxTime, todo : SUBSET Ids,
                prior : [Ids -> OutcomeRow], verdicts : [Ids -> OutcomeRow], aborted : BOOLEAN]

ReaderState == [pc : {"idle", "select", "commit"}, signal : Signal \cup {NoSignal}]

\* Rows are committed in the order of their time, one at a time.
HistoryInv ==
  /\ Ascending(rows)
  /\ \A n \in 1..Len(rows) : rows[n].ts <= now
  /\ added # NoRow => added.ts <= now /\ \A n \in 1..Len(rows) : rows[n].ts < added.ts

\* A reader has a signal once it has synthesized one.
ReaderInv == \A r \in Readers : reader[r].pc # "idle" => reader[r].signal \in Signal

Typed == TypeOK /\ HistoryInv /\ ReaderInv

\* The constant states have their types.
LEMMA ConstantStates ==
  /\ NoOutcome \in OutcomeRow /\ \A st \in Statuses : Unsettled(st) \in OutcomeRow
  /\ IdleScorer \in ScorerState /\ IdleScorer.todo = {}
  /\ IdleReader \in ReaderState /\ IdleReader.pc = "idle"
<1>1. NoOutcome \in OutcomeRow /\ \A st \in Statuses : Unsettled(st) \in OutcomeRow
  BY DEF NoOutcome, Unsettled, OutcomeRow, NoLevel, NoR
<1>2. 0 \in 0..MaxTime
  BY ScoringAssumption
<1>3. IdleScorer \in ScorerState /\ IdleScorer.todo = {}
  BY <1>1, <1>2 DEF IdleScorer, ScorerState
<1>4. IdleReader \in ReaderState /\ IdleReader.pc = "idle"
  BY DEF IdleReader, ReaderState
<1>5. QED
  BY <1>1, <1>3, <1>4

\* A row the loop is about to commit is none of NoRow.
LEMMA RowIsNotNoRow == NoRow \notin Row
<1>1. \A row \in Row : row.quote.price # 0
  BY ScoringAssumption DEF Row, Quotation
<1>2. NoRow.quote.price = 0
  BY DEF NoRow
<1>3. QED
  BY <1>1, <1>2

\* The ingestion loop keeps the history in order.
LEMMA IngestTypes ==
  ASSUME Typed, Ingest
  PROVE  Typed'
<1> USE DEF Typed
<1>0. UNCHANGED <<now, signalVars, scoreVars>> /\ now \in 0..MaxTime
  BY DEF Ingest, SnapshotIndex, CommitIndex, CommitIndexFails, TypeOK
<1>1. failures' \in 0..MaxFailures
  BY ScoringAssumption DEF Ingest, SnapshotIndex, CommitIndex, CommitIndexFails, GetSpot, TypeOK
<1>2. quote' \in Quotation
  <2>1. \A p \in Prices : [at |-> now, price |-> p] \in Quotation
    BY <1>0 DEF Quotation
  <2>2. QED
    BY <2>1 DEF Ingest, SnapshotIndex, CommitIndex, CommitIndexFails, GetSpot, TypeOK
<1>3. /\ rows' \in Seq(Row) /\ added' \in Row \cup {NoRow}
      /\ HistoryInv'
  <2>1. CASE SnapshotIndex
    <3>1. added' = [ts |-> now, quote |-> quote'] /\ rows' = rows
      BY <2>1 DEF SnapshotIndex
    <3>2. added' \in Row /\ added'.ts = now
      BY <1>0, <1>2, <3>1 DEF Row
    <3>3. \A n \in 1..Len(rows) : rows[n].ts \in Int
      BY RowTimes DEF TypeOK
    <3>4. Len(rows) \in Nat
      BY DEF TypeOK
    <3>5. ASSUME NEW n \in 1..Len(rows) PROVE rows[n].ts < now
      <4>1. rows # <<>> /\ Len(rows) \in 1..Len(rows)
        BY <3>4, <3>5
      <4>2. rows[Len(rows)].ts < now
        BY <2>1, <4>1 DEF SnapshotIndex
      <4>3. n = Len(rows) \/ rows[n].ts < rows[Len(rows)].ts
        BY <3>4, <4>1 DEF HistoryInv, Ascending
      <4>4. QED
        BY <1>0, <3>3, <4>1, <4>2, <4>3
    <3>6. HistoryInv'
      BY <1>0, <3>1, <3>2, <3>5 DEF HistoryInv, Ascending
    <3>7. QED
      BY <3>1, <3>2, <3>6 DEF TypeOK
  <2>2. CASE CommitIndex
    <3>1. added \in Row /\ rows' = Append(rows, added) /\ added' = NoRow
      BY <2>2 DEF CommitIndex, TypeOK
    <3>2. rows' \in Seq(Row) /\ Len(rows) \in Nat /\ Len(rows') = Len(rows) + 1
      BY <3>1 DEF TypeOK
    <3>3. /\ \A n \in 1..Len(rows) : rows'[n] = rows[n]
          /\ rows'[Len(rows) + 1] = added
      BY <3>1 DEF TypeOK
    <3>4. added.ts <= now /\ \A n \in 1..Len(rows) : rows[n].ts < added.ts
      BY <2>2 DEF CommitIndex, HistoryInv
    <3>5. Ascending(rows')
      BY <3>2, <3>3, <3>4 DEF HistoryInv, Ascending
    <3>6. \A n \in 1..Len(rows') : rows'[n].ts <= now
      BY <3>2, <3>3, <3>4 DEF HistoryInv
    <3>7. QED
      BY <1>0, <3>1, <3>2, <3>5, <3>6 DEF HistoryInv
  <2>3. CASE CommitIndexFails
    BY <1>0, <2>3 DEF CommitIndexFails, HistoryInv, Ascending, TypeOK
  <2>4. QED
    BY <2>1, <2>2, <2>3 DEF Ingest
<1>4. UNCHANGED <<signals, reader, outcome, scorer>>
  BY <1>0 DEF signalVars, scoreVars
<1>5. ReaderInv'
  BY <1>4 DEF ReaderInv
<1>6. QED
  BY <1>0, <1>1, <1>2, <1>3, <1>4, <1>5 DEF TypeOK

\* A step of a reader keeps the types.
LEMMA ReaderTypes ==
  ASSUME Typed, NEW r \in Readers, Read(r)
  PROVE  Typed' /\ (signals' = signals \/ \E sig \in Signal : signals' = Append(signals, sig))
<1> USE DEF Typed
<1>0. UNCHANGED <<now, quote, rows, added, outcome, scorer, failures>>
  BY DEF Read, Synthesize, SelectLatest, CommitSignal, feedVars, scoreVars
<1>1. reader \in [Readers -> ReaderState]
  BY DEF TypeOK, ReaderState
<1>2. PICK x \in ReaderState : /\ reader' = [reader EXCEPT ![r] = x]
                               /\ x.pc # "idle" => x.signal \in Signal
  <2>1. CASE Synthesize(r)
    <3>1. PICK b \in Biases, p \in Entries :
            reader' = [reader EXCEPT ![r] = [pc |-> "select",
                                             signal |-> [asOf |-> now, bias |-> b, entry |-> p]]]
      BY <2>1 DEF Synthesize
    <3>2. [asOf |-> now, bias |-> b, entry |-> p] \in Signal
      BY DEF Signal, TypeOK
    <3> DEFINE y == [pc |-> "select", signal |-> [asOf |-> now, bias |-> b, entry |-> p]]
    <3>3. y \in ReaderState /\ y.signal \in Signal
      BY <3>2 DEF ReaderState
    <3> HIDE DEF y
    <3>4. QED
      BY <3>1, <3>3 DEF y
  <2>2. CASE SelectLatest(r)
    <3>1. reader[r].pc = "select" /\ reader[r].signal \in Signal /\ reader[r] \in ReaderState
      BY <1>1, <2>2 DEF SelectLatest, ReaderInv
    <3>2. [reader[r] EXCEPT !.pc = "commit"] \in ReaderState
          /\ [reader[r] EXCEPT !.pc = "commit"].signal = reader[r].signal
      BY <3>1 DEF ReaderState
    <3>3. \/ reader' = [reader EXCEPT ![r] = [reader[r] EXCEPT !.pc = "commit"]]
          \/ reader' = [reader EXCEPT ![r] = IdleReader]
      BY <2>2 DEF SelectLatest
    <3>4. QED
      BY <3>1, <3>2, <3>3, ConstantStates
  <2>3. CASE CommitSignal(r)
    BY <2>3, ConstantStates DEF CommitSignal
  <2>4. QED
    BY <2>1, <2>2, <2>3 DEF Read
<1>3. reader' \in [Readers -> ReaderState] /\ ReaderInv'
  BY <1>1, <1>2 DEF ReaderInv
<1>4. \/ signals' = signals
      \/ /\ signals' = Append(signals, reader[r].signal) /\ Len(signals) < MaxSignals
         /\ reader[r].signal \in Signal
  <2>1. CASE CommitSignal(r)
    BY <2>1 DEF CommitSignal, ReaderInv
  <2>2. CASE ~CommitSignal(r)
    BY <2>2 DEF Read, Synthesize, SelectLatest
  <2>3. QED
    BY <2>1, <2>2
<1>5. signals' \in Seq(Signal) /\ Len(signals') <= MaxSignals /\ Len(signals) <= Len(signals')
      /\ Len(signals) \in Nat /\ Len(signals') \in Nat
  <2>1. signals \in Seq(Signal) /\ Len(signals) \in Nat /\ Len(signals) <= MaxSignals /\ MaxSignals \in Nat
    BY ScoringAssumption DEF TypeOK
  <2>2. CASE signals' = signals
    BY <2>1, <2>2
  <2>3. CASE signals' # signals
    <3> DEFINE sig == reader[r].signal
    <3>1. signals' = Append(signals, sig) /\ Len(signals) < MaxSignals /\ sig \in Signal
      BY <1>4, <2>3
    <3> HIDE DEF sig
    <3>2. signals' \in Seq(Signal) /\ Len(signals') = Len(signals) + 1
      BY <2>1, <3>1
    <3>3. QED
      BY <2>1, <3>1, <3>2
  <2>4. QED
    BY <2>2, <2>3
<1>6. HistoryInv'
  BY <1>0 DEF HistoryInv, Ascending
<1>7. \A s \in Scorers : scorer'[s].todo \subseteq 1..Len(signals')
  BY <1>0, <1>5 DEF TypeOK
<1>8. TypeOK'
  BY <1>0, <1>3, <1>5, <1>7 DEF TypeOK, ReaderState
<1>9. QED
  BY <1>3, <1>4, <1>6, <1>8

(***************************************************************************)
(* The verdicts.                                                           *)
(***************************************************************************)

\* An outcome, of the signals G and the rows R: without a verdict it has no exit and
\* no R, and a win or a loss is the judgement on all rows.
OutcomeOK(R, G, k, o) ==
  /\ o.status \in {"none", "OPEN"} => o = Unsettled(o.status)
  /\ Decided(o) => k \in 1..Len(G) /\ o = Judge(R, G[k], MaxTime)

\* A scorer holds such outcomes, and judges only what it has read as unresolved.
ScorerOK(R, G, x) ==
  \A k \in Ids :
    /\ OutcomeOK(R, G, k, x.verdicts[k])
    /\ x.pc # "paths" => x.verdicts[k] = NoOutcome
    /\ x.pc = "paths" /\ (k \in x.todo \/ x.verdicts[k] # NoOutcome) =>
         x.prior[k] \in {NoOutcome, Unsettled("OPEN")}

VerdictInv == /\ \A k \in Ids : OutcomeOK(rows, signals, k, outcome[k])
              /\ \A s \in Scorers : ScorerOK(rows, signals, scorer[s])

\* More rows and more signals take nothing back.
LEMMA OutcomeStands ==
  ASSUME NEW R \in Seq(Row), NEW S \in Seq(Row), Ascending(R), Ascending(S), Prefix(R, S),
         NEW G \in Seq(Signal), NEW H \in Seq(Signal), Prefix(G, H),
         NEW k, NEW o, OutcomeOK(R, G, k, o)
  PROVE  OutcomeOK(S, H, k, o)
<1>1. CASE Decided(o)
  <2>1. k \in 1..Len(G) /\ o = Judge(R, G[k], MaxTime)
    BY <1>1 DEF OutcomeOK
  <2>2. k \in 1..Len(H) /\ H[k] = G[k] /\ G[k] \in Signal
    BY <2>1 DEF Prefix
  <2>3. MaxTime \in Int /\ MaxTime <= MaxTime
    BY ScoringAssumption
  <2>4. Judge(S, G[k], MaxTime) = Judge(R, G[k], MaxTime)
    BY <1>1, <2>1, <2>2, <2>3, JudgeStands
  <2>5. QED
    BY <2>1, <2>2, <2>4 DEF OutcomeOK
<1>2. CASE ~Decided(o)
  BY <1>2 DEF OutcomeOK
<1>3. QED
  BY <1>1, <1>2

\* A step that adds rows or signals, or nothing, keeps every verdict.
LEMMA RecordsGrow ==
  ASSUME Typed, Typed', VerdictInv, Prefix(rows, rows'), Prefix(signals, signals'),
         UNCHANGED <<outcome, scorer>>
  PROVE  VerdictInv'
<1>1. /\ rows \in Seq(Row) /\ rows' \in Seq(Row) /\ Ascending(rows) /\ Ascending(rows')
      /\ signals \in Seq(Signal) /\ signals' \in Seq(Signal)
  BY DEF Typed, TypeOK, HistoryInv
<1>2. \A k, o : OutcomeOK(rows, signals, k, o) => OutcomeOK(rows', signals', k, o)
  BY <1>1, OutcomeStands
<1>3. \A x : ScorerOK(rows, signals, x) => ScorerOK(rows', signals', x)
  BY <1>2 DEF ScorerOK
<1>4. QED
  BY <1>2, <1>3 DEF VerdictInv

\* What an update makes of a row that was read as unresolved: the new verdict, if
\* that is a win or a loss, and otherwise nothing that is one unless the row is.
LEMMA UpdateStands ==
  ASSUME NEW G, NEW R, NEW k, NEW db \in OutcomeRow, NEW new \in OutcomeRow,
         OutcomeOK(R, G, k, db), OutcomeOK(R, G, k, new), new # NoOutcome,
         Decided(new) => new.exit # NoLevel /\ new.r # NoR,
         new.status # "none"
  PROVE  /\ OutcomeOK(R, G, k, Updated(db, Unsettled("OPEN"), new))
         /\ OutcomeOK(R, G, k, Updated(NoOutcome, NoOutcome, new))
         /\ Updated(db, Unsettled("OPEN"), new) \in OutcomeRow
         /\ Updated(NoOutcome, NoOutcome, new) \in OutcomeRow
<1> DEFINE o == Unsettled("OPEN")
           u == Updated(db, o, new)
           w == Updated(NoOutcome, NoOutcome, new)
<1>1. /\ o.status = "OPEN" /\ o.exit = NoLevel /\ o.r = NoR
      /\ NoOutcome.status = "none" /\ NoOutcome.exit = NoLevel /\ NoOutcome.r = NoR
  BY DEF Unsettled, NoOutcome
<1>2. /\ new = [status |-> new.status, exit |-> new.exit, r |-> new.r]
      /\ db = [status |-> db.status, exit |-> db.exit, r |-> db.r]
      /\ new.status \in Statuses \cup {"none"} /\ new.exit \in Int /\ new.r \in Int \X Int
      /\ db.status \in Statuses \cup {"none"} /\ db.exit \in Int /\ db.r \in Int \X Int
  BY DEF OutcomeRow
<1>3. w = new
  BY <1>1, <1>2 DEF Updated
<1>4. u = [status |-> IF new.status = "OPEN" THEN db.status ELSE new.status,
           exit   |-> IF new.exit = NoLevel THEN db.exit ELSE new.exit,
           r      |-> IF new.r = NoR THEN db.r ELSE new.r]
  BY <1>1, Zenon DEF Updated
<1> HIDE DEF o, u, w
<1>5. u \in OutcomeRow
  BY <1>2, <1>4 DEF OutcomeRow
<1>6. OutcomeOK(R, G, k, u)
  <2>1. CASE new.status = "OPEN"
    <3>1. new = Unsettled("OPEN")
      BY <2>1 DEF OutcomeOK
    <3>2. u = db
      BY <1>2, <1>4, <3>1 DEF Unsettled
    <3>3. QED
      BY <3>2
  <2>2. CASE Decided(new)
    <3>1. u = new
      BY <1>2, <1>4, <2>2 DEF Decided
    <3>2. QED
      BY <3>1
  <2>3. CASE new.status \in {"EXPIRED", "NEUTRAL"}
    <3>1. u.status \in {"EXPIRED", "NEUTRAL"}
      BY <1>4, <2>3
    <3>2. QED
      BY <3>1 DEF OutcomeOK, Decided
  <2>4. QED
    BY <1>2, <2>1, <2>2, <2>3 DEF Statuses, Decided
<1>7. QED
  BY <1>3, <1>5, <1>6 DEF o, u, w

\* What a step makes of one scorer's state suffices for the types and the verdicts.
LEMMA ScorerMoves ==
  ASSUME Typed, VerdictInv, NEW s \in Scorers, NEW x \in ScorerState,
         x.todo \subseteq 1..Len(signals), ScorerOK(rows, signals, x),
         scorer' = [scorer EXCEPT ![s] = x],
         UNCHANGED <<now, feedVars, signalVars>>, failures' \in 0..MaxFailures,
         outcome' \in [Ids -> OutcomeRow], \A k \in Ids : OutcomeOK(rows, signals, k, outcome'[k])
  PROVE  Typed' /\ VerdictInv'
<1>1. UNCHANGED <<now, quote, rows, added, signals, reader>>
  BY DEF feedVars, signalVars
<1>2. scorer \in [Scorers -> ScorerState]
  BY DEF Typed, TypeOK, ScorerState
<1>3. /\ scorer' \in [Scorers -> ScorerState] /\ scorer'[s] = x
      /\ \A z \in Scorers \ {s} : scorer'[z] = scorer[z]
  BY <1>2
<1>4. \A z \in Scorers : scorer'[z].todo \subseteq 1..Len(signals)
  BY <1>3 DEF Typed, TypeOK
<1>5. TypeOK'
  BY <1>1, <1>3, <1>4 DEF Typed, TypeOK, ScorerState
<1>6. HistoryInv' /\ ReaderInv'
  BY <1>1 DEF Typed, HistoryInv, ReaderInv, Ascending
<1>7. VerdictInv'
  BY <1>1, <1>3 DEF VerdictInv
<1>8. QED
  BY <1>5, <1>6, <1>7 DEF Typed

\* A commit writes nothing that its signal's rows do not bear out.
LEMMA CommitStands ==
  ASSUME Typed, VerdictInv, NEW s \in Scorers, Commit(s)
  PROVE  /\ outcome' \in [Ids -> OutcomeRow]
         /\ \A k \in Ids : OutcomeOK(rows, signals, k, outcome'[k])
<1> DEFINE x == scorer[s]
           New(k) == Updated(outcome[k], x.prior[k], x.verdicts[k])
<1>1. /\ outcome \in [Ids -> OutcomeRow] /\ \A k \in Ids : OutcomeOK(rows, signals, k, outcome[k])
      /\ ScorerOK(rows, signals, x) /\ x.pc = "paths"
      /\ x.prior \in [Ids -> OutcomeRow] /\ x.verdicts \in [Ids -> OutcomeRow]
  BY DEF Typed, TypeOK, VerdictInv, Commit
<1>2. \/ outcome' = outcome
      \/ /\ ~Refused(s)
         /\ outcome' = [k \in Ids |-> IF x.verdicts[k] = NoOutcome THEN outcome[k] ELSE New(k)]
  BY DEF Commit
<1>3. ~Refused(s) =>
        \A k \in Ids : x.verdicts[k] # NoOutcome /\ x.prior[k] = NoOutcome => outcome[k] = NoOutcome
  BY DEF Refused
<1> HIDE DEF x
<1>4. ASSUME NEW k \in Ids, ~Refused(s), x.verdicts[k] # NoOutcome
      PROVE  New(k) \in OutcomeRow /\ OutcomeOK(rows, signals, k, New(k))
  <2> DEFINE db == outcome[k]
             new == x.verdicts[k]
  <2>1. db \in OutcomeRow /\ new \in OutcomeRow
    BY <1>1
  <2>2. OutcomeOK(rows, signals, k, db) /\ OutcomeOK(rows, signals, k, new)
    BY <1>1 DEF ScorerOK
  <2>3. x.prior[k] \in {NoOutcome, Unsettled("OPEN")}
    BY <1>1, <1>4 DEF ScorerOK
  <2>4. x.prior[k] = NoOutcome => db = NoOutcome
    BY <1>3, <1>4
  <2>5. new # NoOutcome
    BY <1>4
  <2>6. New(k) = Updated(db, x.prior[k], new)
    OBVIOUS
  <2> HIDE DEF db, new, New
  <2>7. new.status # "none"
    BY <2>2, <2>5 DEF OutcomeOK, NoOutcome
  <2>8. Decided(new) => new.exit # NoLevel /\ new.r # NoR
    <3>1. rows \in Seq(Row) /\ Ascending(rows) /\ signals \in Seq(Signal) /\ MaxTime \in Int
      BY ScoringAssumption DEF Typed, TypeOK, HistoryInv
    <3>2. Decided(new) => new = Judge(rows, signals[k], MaxTime) /\ signals[k] \in Signal
      BY <2>2, <3>1 DEF OutcomeOK
    <3>3. QED
      BY <3>1, <3>2, JudgeShape
  <2>9. CASE x.prior[k] = NoOutcome
    BY <2>1, <2>2, <2>4, <2>5, <2>6, <2>7, <2>8, <2>9, UpdateStands
  <2>10. CASE x.prior[k] = Unsettled("OPEN")
    BY <2>1, <2>2, <2>5, <2>6, <2>7, <2>8, <2>10, UpdateStands
  <2>11. QED
    BY <2>3, <2>9, <2>10
<1> HIDE DEF New
<1>5. QED
  BY <1>1, <1>2, <1>4

\* Each step of a scorer keeps the types and the verdicts.
LEMMA ScorerSteps ==
  ASSUME Typed, VerdictInv, NEW s \in Scorers, Score(s) \/ PathFails(s)
  PROVE  Typed' /\ VerdictInv'
<1>1. /\ scorer[s] \in ScorerState /\ scorer[s].todo \subseteq 1..Len(signals)
      /\ ScorerOK(rows, signals, scorer[s])
      /\ scorer \in [Scorers -> ScorerState]
  BY DEF Typed, TypeOK, VerdictInv, ScorerState
<1>2. /\ outcome \in [Ids -> OutcomeRow] /\ \A k \in Ids : OutcomeOK(rows, signals, k, outcome[k])
      /\ failures \in 0..MaxFailures /\ now \in 0..MaxTime /\ now \in Int
      /\ rows \in Seq(Row) /\ Ascending(rows) /\ signals \in Seq(Signal)
      /\ Len(signals) \in Nat /\ Len(signals) <= MaxSignals /\ MaxSignals \in Nat
  BY ScoringAssumption DEF Typed, TypeOK, VerdictInv, HistoryInv
<1>3. NoOutcome = Unsettled("none") /\ NoOutcome.status = "none"
  BY DEF NoOutcome, Unsettled
<1>4. ScorerOK(rows, signals, IdleScorer) /\ \A k \in Ids : IdleScorer.verdicts[k] = NoOutcome
  BY <1>3 DEF ScorerOK, IdleScorer, OutcomeOK, Decided
<1>5. CASE Begin(s)
  <2> DEFINE T == {k \in 1..Len(signals) : signals[k].asOf >= now - Lookback}
             x == [IdleScorer EXCEPT !.pc = "outcomes", !.now = now, !.todo = T]
  <2>1. scorer' = [scorer EXCEPT ![s] = x] /\ UNCHANGED <<now, feedVars, signalVars, outcome, failures>>
    BY <1>5 DEF Begin
  <2>2. T \subseteq 1..Len(signals) /\ T \subseteq Ids
    BY <1>2 DEF Ids
  <2> HIDE DEF T
  <2>3. x \in ScorerState /\ x.todo = T /\ x.pc = "outcomes" /\ x.verdicts = IdleScorer.verdicts
    BY <1>2, <2>2, ConstantStates DEF ScorerState
  <2> HIDE DEF x
  <2>4. ScorerOK(rows, signals, x)
    BY <1>4, <2>3 DEF ScorerOK
  <2>5. QED
    BY <1>2, <2>1, <2>2, <2>3, <2>4, ScorerMoves
<1>6. CASE ReadOutcomes(s)
  <2> DEFINE T == {k \in scorer[s].todo : ~Terminal(outcome[k])}
             x == [scorer[s] EXCEPT !.pc = "paths", !.prior = outcome, !.todo = T]
  <2>1. scorer' = [scorer EXCEPT ![s] = x] /\ UNCHANGED <<now, feedVars, signalVars, outcome, failures>>
    BY <1>1, <1>6 DEF ReadOutcomes
  <2>2. T \subseteq scorer[s].todo /\ \A k \in T : ~Terminal(outcome[k])
    OBVIOUS
  <2> HIDE DEF T
  <2>3. /\ x \in ScorerState /\ x.todo = T /\ x.pc = "paths" /\ x.prior = outcome
        /\ x.verdicts = scorer[s].verdicts
    BY <1>1, <1>2, <2>2 DEF ScorerState
  <2> HIDE DEF x
  <2>4. \A k \in Ids : scorer[s].verdicts[k] = NoOutcome
    BY <1>1, <1>6 DEF ReadOutcomes, ScorerOK
  <2>5. \A k \in T : outcome[k] \in {NoOutcome, Unsettled("OPEN")}
    <3>1. \A k \in T : k \in Ids /\ outcome[k].status \in {"none", "OPEN"}
      BY <1>1, <2>2 DEF Terminal, ScorerState
    <3>2. QED
      BY <1>2, <1>3, <3>1 DEF OutcomeOK
  <2>6. ScorerOK(rows, signals, x)
    BY <1>1, <2>3, <2>4, <2>5 DEF ScorerOK
  <2>7. QED
    BY <1>1, <1>2, <2>1, <2>2, <2>3, <2>6, ScorerMoves
<1>7. CASE ScoreOne(s)
  <2>1. PICK k \in scorer[s].todo :
          scorer' = [scorer EXCEPT ![s].todo = @ \ {k},
                                   ![s].verdicts[k] = Judge(rows, signals[k], scorer[s].now)]
    BY <1>7 DEF ScoreOne
  <2> DEFINE J == Judge(rows, signals[k], scorer[s].now)
             V == [scorer[s].verdicts EXCEPT ![k] = J]
             T == scorer[s].todo \ {k}
             x == [scorer[s] EXCEPT !.todo = T, !.verdicts = V]
  <2>2. scorer' = [scorer EXCEPT ![s] = x]
    BY <2>1
  <2>3. UNCHANGED <<now, feedVars, signalVars, outcome, failures>> /\ scorer[s].pc = "paths"
    BY <1>7 DEF ScoreOne
  <2>4. k \in Ids /\ k \in 1..Len(signals) /\ signals[k] \in Signal /\ scorer[s].now \in Int
        /\ scorer[s].now <= MaxTime /\ MaxTime \in Int
    BY <1>1, <1>2, ScoringAssumption DEF ScorerState
  <2>5. /\ J \in OutcomeRow /\ J.status # "none"
        /\ J.status = "OPEN" => J = Unsettled("OPEN")
    BY <1>2, <2>4, JudgeShape
  <2>6. Decided(J) => J = Judge(rows, signals[k], MaxTime)
    <3>1. Prefix(rows, rows)
      BY <1>2 DEF Prefix
    <3>2. QED
      BY <1>2, <2>4, <3>1, JudgeStands
  <2> HIDE DEF J
  <2>7. OutcomeOK(rows, signals, k, J)
    BY <2>4, <2>5, <2>6 DEF OutcomeOK
  <2>8. V \in [Ids -> OutcomeRow] /\ V[k] = J /\ \A j \in Ids \ {k} : V[j] = scorer[s].verdicts[j]
    BY <1>1, <2>4, <2>5 DEF ScorerState
  <2> HIDE DEF V
  <2>9. T \subseteq scorer[s].todo
    OBVIOUS
  <2> HIDE DEF T
  <2>10. /\ x \in ScorerState /\ x.todo = T /\ x.verdicts = V
         /\ x.pc = "paths" /\ x.prior = scorer[s].prior
    BY <1>1, <2>3, <2>8, <2>9 DEF ScorerState
  <2> HIDE DEF x
  <2>11. \A j \in Ids : OutcomeOK(rows, signals, j, x.verdicts[j])
    BY <1>1, <2>7, <2>8, <2>10 DEF ScorerOK
  <2>12. ASSUME NEW j \in Ids, j \in x.todo \/ x.verdicts[j] # NoOutcome
         PROVE  x.prior[j] \in {NoOutcome, Unsettled("OPEN")}
    <3>1. j \in scorer[s].todo \/ scorer[s].verdicts[j] # NoOutcome
      BY <2>8, <2>9, <2>10, <2>12
    <3>2. QED
      BY <1>1, <2>3, <2>10, <3>1 DEF ScorerOK
  <2>13. ScorerOK(rows, signals, x)
    BY <2>10, <2>11, <2>12 DEF ScorerOK
  <2>14. QED
    BY <1>1, <1>2, <2>2, <2>3, <2>9, <2>10, <2>13, ScorerMoves
<1>8. CASE Commit(s)
  <2>1. scorer' = [scorer EXCEPT ![s] = IdleScorer] /\ UNCHANGED <<now, feedVars, signalVars, failures>>
    BY <1>8 DEF Commit
  <2>2. /\ outcome' \in [Ids -> OutcomeRow]
        /\ \A k \in Ids : OutcomeOK(rows, signals, k, outcome'[k])
    BY <1>8, CommitStands
  <2>3. QED
    BY <1>2, <1>4, <2>1, <2>2, ConstantStates, ScorerMoves
<1>9. CASE PathFails(s)
  <2> DEFINE x == [scorer[s] EXCEPT !.todo = {}, !.aborted = TRUE]
  <2>0. failures' \in 0..MaxFailures
    BY <1>2, <1>9, ScoringAssumption DEF PathFails
  <2>1. /\ scorer' = [scorer EXCEPT ![s] = x] /\ UNCHANGED <<now, feedVars, signalVars, outcome>>
        /\ scorer[s].pc = "paths"
    BY <1>9 DEF PathFails
  <2>2. /\ x \in ScorerState /\ x.todo = {} /\ x.verdicts = scorer[s].verdicts
        /\ x.pc = scorer[s].pc /\ x.prior = scorer[s].prior
    BY <1>1 DEF ScorerState
  <2> HIDE DEF x
  <2>3. ScorerOK(rows, signals, x)
    BY <1>1, <2>2 DEF ScorerOK
  <2>4. QED
    BY <1>2, <2>0, <2>1, <2>2, <2>3, ScorerMoves
<1>10. QED
  BY <1>5, <1>6, <1>7, <1>8, <1>9 DEF Score

(***************************************************************************)
(* The theorems.                                                           *)
(***************************************************************************)

\* The initial state is typed and has no verdict.
LEMMA InitScoring ==
  ASSUME Init
  PROVE  Typed /\ VerdictInv
<1> USE DEF Init
<1>1. rows = <<>> /\ signals = <<>> /\ added = NoRow /\ now = 0 /\ failures = 0
  OBVIOUS
<1>2. quote \in Quotation
  BY ScoringAssumption DEF Quotation
<1>3. \A s \in Scorers : scorer[s] = IdleScorer
  OBVIOUS
<1>4. scorer \in [Scorers -> ScorerState] /\ outcome \in [Ids -> OutcomeRow]
      /\ reader \in [Readers -> ReaderState]
  BY ConstantStates
<1>5. TypeOK
  BY <1>1, <1>2, <1>3, <1>4, ConstantStates, ScoringAssumption DEF TypeOK, ScorerState, ReaderState
<1>6. HistoryInv /\ ReaderInv
  BY <1>1, ConstantStates DEF HistoryInv, ReaderInv, Ascending
<1>7. NoOutcome = Unsettled("none") /\ NoOutcome.status = "none"
  BY DEF NoOutcome, Unsettled
<1>8. \A k \in Ids : OutcomeOK(rows, signals, k, outcome[k])
  BY <1>7 DEF OutcomeOK, Decided
<1>9. ScorerOK(rows, signals, IdleScorer)
  BY <1>7 DEF ScorerOK, IdleScorer, OutcomeOK, Decided
<1>10. QED
  BY <1>3, <1>5, <1>6, <1>8, <1>9 DEF Typed, VerdictInv

\* Every step keeps the types and the verdicts.
LEMMA NextScoring ==
  ASSUME Typed, VerdictInv, [Next]_vars
  PROVE  Typed' /\ VerdictInv'
<1>1. rows \in Seq(Row) /\ signals \in Seq(Signal)
  BY DEF Typed, TypeOK
<1>2. Prefix(rows, rows) /\ Prefix(signals, signals)
  BY <1>1 DEF Prefix
<1>3. CASE UNCHANGED vars \/ Tick
  <2>1. /\ UNCHANGED <<quote, rows, added, signals, reader, outcome, scorer, failures>>
        /\ now' \in 0..MaxTime /\ now' >= now
    BY <1>3, ScoringAssumption DEF Typed, TypeOK, Tick, vars, feedVars, signalVars, scoreVars
  <2>2. \A k \in 1..Len(rows) : rows[k].ts \in Int
    BY <1>1, RowTimes
  <2>3. added.ts \in Int
    BY ScoringAssumption DEF Typed, TypeOK, Row, NoRow
  <2>4. Typed'
    BY <2>1, <2>2, <2>3 DEF Typed, TypeOK, HistoryInv, ReaderInv, Ascending
  <2>5. QED
    BY <1>2, <2>1, <2>4, RecordsGrow
<1>4. CASE Ingest
  <2>1. UNCHANGED <<signals, outcome, scorer>> /\ Typed'
    BY <1>4, IngestTypes
       DEF Ingest, SnapshotIndex, CommitIndex, CommitIndexFails, signalVars, scoreVars
  <2>2. rows' = rows \/ (added \in Row /\ rows' = Append(rows, added))
    BY <1>4 DEF Ingest, SnapshotIndex, CommitIndex, CommitIndexFails, Typed, TypeOK
  <2>3. Prefix(rows, rows')
    BY <1>1, <1>2, <2>2 DEF Prefix
  <2>4. QED
    BY <1>2, <2>1, <2>3, RecordsGrow
<1>5. ASSUME NEW r \in Readers, Read(r) PROVE Typed' /\ VerdictInv'
  <2>1. Typed' /\ (signals' = signals \/ \E sig \in Signal : signals' = Append(signals, sig))
    BY <1>5, ReaderTypes
  <2>2. UNCHANGED <<rows, outcome, scorer>>
    BY <1>5 DEF Read, Synthesize, SelectLatest, CommitSignal, feedVars, scoreVars
  <2>3. Prefix(signals, signals')
    BY <1>1, <1>2, <2>1 DEF Prefix
  <2>4. QED
    BY <1>2, <2>1, <2>2, <2>3, RecordsGrow
<1>6. QED
  BY <1>3, <1>4, <1>5, ScorerSteps DEF Next

\* The types, the order of the rows and the verdicts hold in every state.
LEMMA ScoringInvariance == Spec => [](Typed /\ VerdictInv)
<1>1. Init => Typed /\ VerdictInv
  BY InitScoring
<1>2. Typed /\ VerdictInv /\ [Next]_vars => Typed' /\ VerdictInv'
  BY NextScoring
<1>3. QED
  BY <1>1, <1>2, PTL DEF Spec

\* The types, and with them that no scorer judges a signal there is not.
THEOREM TypeInvariance == Spec => []TypeOK
<1>1. Typed => TypeOK
  BY DEF Typed
<1>2. QED
  BY <1>1, ScoringInvariance, PTL

\* A win or a loss on record is what all the recorded prices say, whichever scorer
\* wrote it, however early, and whatever rows were committed after it read the path
\* (signal_outcome_service.py, score_pending; outcome.py, evaluate_path).
THEOREM VerdictsStand == Spec => []VerdictStands
<1>1. Typed /\ VerdictInv => VerdictStands
  <2> SUFFICES ASSUME Typed, VerdictInv, NEW k \in 1..Len(signals), Decided(outcome[k])
               PROVE  outcome[k] = Judge(rows, signals[k], MaxTime)
    BY DEF VerdictStands, Decided
  <2>1. k \in Ids
    BY ScoringAssumption DEF Typed, TypeOK, Ids
  <2>2. QED
    BY <2>1 DEF VerdictInv, OutcomeOK
<1>2. QED
  BY <1>1, ScoringInvariance, PTL

(***************************************************************************)
(* The loop of evaluate_path.                                              *)
(***************************************************************************)
\* The levels lie on either side of the entry.
Bracketed ==
  /\ level \in [entry : Int, stop : Int, target : Int]
  /\ bias = 1 => level.stop < level.entry /\ level.entry < level.target
  /\ bias = -1 => level.target < level.entry /\ level.entry < level.stop

\* The types the proofs need.
PathTypes ==
  /\ bias \in Biases /\ elapsed \in BOOLEAN
  /\ bars \in Seq(PathBar)
  /\ pos \in 1..(Len(bars) + 1)

\* The bars the loop has passed touch no level.
PassedClean ==
  \A j \in 1..(pos - 1) : ~HitStop(bias, level, bars[j]) /\ ~HitTarget(bias, level, bars[j])

PathInv ==
  /\ PathTypes /\ Bracketed
  /\ result = Pending => PassedClean
  /\ ReturnsVerdict

\* oi_walls and synthesize bracket the entry.
LEMMA LevelsBracket ==
  ASSUME NEW b \in Biases, NEW spot \in PathPrices, NEW half \in HalfAtrs,
         NEW support \in Supports(spot, PathPrices), NEW resistance \in Resistances(spot, PathPrices)
  PROVE  LET l == Levels(b, spot, support, resistance, half) IN
         /\ l \in [entry : Int, stop : Int, target : Int]
         /\ b = 1 => l.stop < l.entry /\ l.entry < l.target
         /\ b = -1 => l.target < l.entry /\ l.entry < l.stop
<1>1. spot \in Nat \ {0} /\ half \in Nat \ {0}
  BY EvaluateAssumption
<1>2. support \in Nat /\ (support # NoLevel => support < spot)
  BY EvaluateAssumption DEF Supports, NoLevel
<1>3. resistance \in Nat /\ (resistance # NoLevel => resistance > spot)
  BY EvaluateAssumption DEF Resistances, NoLevel
<1>4. QED
  BY <1>1, <1>2, <1>3 DEF Levels, NoLevel

\* The initial state satisfies the inductive invariant.
LEMMA InitPath == PathInit => PathInv
<1> SUFFICES ASSUME PathInit PROVE PathInv
  OBVIOUS
<1>1. Bracketed
  <2>1. PICK spot \in PathPrices, half \in HalfAtrs :
          \E support \in Supports(spot, PathPrices), resistance \in Resistances(spot, PathPrices) :
            level = Levels(bias, spot, support, resistance, half)
    BY DEF PathInit
  <2>2. PICK support \in Supports(spot, PathPrices), resistance \in Resistances(spot, PathPrices) :
          level = Levels(bias, spot, support, resistance, half)
    BY <2>1
  <2>3. bias \in Biases
    BY DEF PathInit
  <2>4. QED
    BY <2>2, <2>3, LevelsBracket DEF Bracketed
<1>2. PathTypes
  BY EvaluateAssumption DEF PathInit, PathTypes
<1>3. PassedClean /\ ReturnsVerdict
  BY DEF PathInit, PassedClean, ReturnsVerdict
<1>4. QED
  BY <1>1, <1>2, <1>3 DEF PathInv

\* What a finished loop returns is not Pending.
LEMMA ResultIsNotPending ==
  ASSUME NEW b, NEW l, NEW p, NEW s \in Statuses
  PROVE  Result(s, b, l, p) # Pending /\ Unsettled(s) # Pending
<1>1. s # "pending"
  BY DEF Statuses
<1>2. Result(s, b, l, p).status = s /\ Unsettled(s).status = s /\ Pending.status = "pending"
  BY DEF Result, Unsettled, Pending
<1>3. QED
  BY <1>1, <1>2

\* The first touched bar decides the verdict.
LEMMA VerdictAtTouch ==
  ASSUME PathTypes, PassedClean, bias # 0, pos <= Len(bars),
         HitStop(bias, level, bars[pos]) \/ HitTarget(bias, level, bars[pos])
  PROVE  Verdict(bias, level, bars, elapsed) = AtBar(bias, level, bars[pos])
<1> DEFINE H == Hits(bias, level, bars)
<1>1. pos \in H
  BY DEF Hits, PathTypes
<1>2. \A j \in H : pos <= j
  BY DEF Hits, PathTypes, PassedClean
<1>3. H \subseteq Nat
  BY DEF Hits
<1> HIDE DEF H
<1>4. (CHOOSE k \in H : \A j \in H : k <= j) = pos
  <2>1. \A k \in H : (\A j \in H : k <= j) => k = pos
    BY <1>1, <1>2, <1>3
  <2>2. QED
    BY <1>1, <1>2, <2>1
<1>5. H # {}
  BY <1>1
<1>6. QED
  BY <1>4, <1>5 DEF Verdict, H

\* A path that touches no level is judged at its end.
LEMMA VerdictAtEnd ==
  ASSUME PathTypes, PassedClean, bias # 0, pos > Len(bars)
  PROVE  Verdict(bias, level, bars, elapsed) = AtEnd(bias, level, bars, elapsed)
<1>1. pos - 1 = Len(bars)
  BY DEF PathTypes
<1>2. Hits(bias, level, bars) = {}
  BY <1>1 DEF Hits, PassedClean
<1>3. QED
  BY <1>2 DEF Verdict

\* Each step of the loop keeps the inductive invariant.
LEMMA NextPath ==
  ASSUME PathInv, [PathNext]_pathVars
  PROVE  PathInv'
<1>1. CASE UNCHANGED pathVars
  BY <1>1 DEF PathInv, PathTypes, Bracketed, PassedClean, ReturnsVerdict, Pending, pathVars, inputVars
<1>2. CASE Neutral
  <2>1. result' = Verdict(bias, level, bars, elapsed) /\ result' # Pending
    BY <1>2, ResultIsNotPending DEF Neutral, Verdict, Statuses
  <2>2. QED
    BY <1>2, <2>1 DEF Neutral, PathInv, PathTypes, Bracketed, ReturnsVerdict, Pending, inputVars
<1>3. CASE Touch
  <2>1. result' = Verdict(bias, level, bars, elapsed)
    BY <1>3, VerdictAtTouch DEF Touch, PathInv
  <2>2. result' # Pending
    BY <1>3, ResultIsNotPending DEF Touch, AtBar, Statuses
  <2>3. QED
    BY <1>3, <2>1, <2>2 DEF Touch, PathInv, PathTypes, Bracketed, ReturnsVerdict, Pending, inputVars
<1>4. CASE Pass
  <2>1. PassedClean'
    <3>1. PassedClean /\ pos' = pos + 1 /\ pos \in Nat
      BY <1>4 DEF Pass, PathInv, PathTypes
    <3>2. bias' = bias /\ level' = level /\ bars' = bars
      BY <1>4 DEF Pass, inputVars
    <3>3. ~HitStop(bias, level, bars[pos]) /\ ~HitTarget(bias, level, bars[pos])
      BY <1>4 DEF Pass
    <3>4. ASSUME NEW j \in 1..pos
          PROVE  ~HitStop(bias, level, bars[j]) /\ ~HitTarget(bias, level, bars[j])
      <4>1. j \in 1..(pos - 1) \/ j = pos
        BY <3>1
      <4>2. QED
        BY <3>1, <3>3, <4>1 DEF PassedClean
    <3>5. pos' - 1 = pos
      BY <3>1
    <3>6. QED
      BY <3>2, <3>4, <3>5 DEF PassedClean, HitStop, HitTarget
  <2>2. PathTypes'
    BY <1>4 DEF Pass, PathInv, PathTypes, inputVars
  <2>3. QED
    BY <1>4, <2>1, <2>2 DEF Pass, PathInv, Bracketed, ReturnsVerdict, Pending, inputVars
<1>5. CASE PathEnd
  <2>1. result' = Verdict(bias, level, bars, elapsed)
    BY <1>5, VerdictAtEnd DEF PathEnd, PathInv
  <2>2. result' # Pending
    BY <1>5, ResultIsNotPending DEF PathEnd, AtEnd, Statuses
  <2>3. QED
    BY <1>5, <2>1, <2>2 DEF PathEnd, PathInv, PathTypes, Bracketed, ReturnsVerdict, Pending, inputVars
<1>6. QED
  BY <1>1, <1>2, <1>3, <1>4, <1>5 DEF PathNext

\* The inductive invariant holds in every state.
LEMMA PathInvariance == PathSpec => []PathInv
<1>1. PathInv /\ [PathNext]_pathVars => PathInv'
  BY NextPath
<1>2. QED
  BY InitPath, <1>1, PTL DEF PathSpec

\* evaluate_path returns the verdict, for every path and every signal that
\* synthesize makes: the first bar that touches a level decides.
THEOREM LoopReturnsVerdict == PathSpec => []ReturnsVerdict
<1>1. PathInv => ReturnsVerdict
  BY DEF PathInv
<1>2. QED
  BY <1>1, PathInvariance, PTL

\* The verdict's R has the sign its status says.
LEMMA VerdictSigns ==
  ASSUME PathTypes, Bracketed, result = Verdict(bias, level, bars, elapsed)
  PROVE  SignsAgree
<1>1. CASE bias = 0
  BY <1>1 DEF Verdict, Unsettled, SignsAgree
<1>2. ASSUME bias # 0, NEW p \in Int
      PROVE  /\ Risk(level) > 0 /\ Risk(level) \in Int /\ Gain(bias, level, p) \in Int
             /\ RealizedR(bias, level, p) = <<Gain(bias, level, p), Risk(level)>>
             /\ Gain(bias, level, level.stop) = -Risk(level)
             /\ Gain(bias, level, level.target) > 0
  <2>1. level.entry \in Int /\ level.stop \in Int /\ level.target \in Int
    BY DEF Bracketed
  <2>2. bias = 1 \/ bias = -1
    BY <1>2 DEF PathTypes, Biases
  <2>3. CASE bias = 1
    <3>1. level.stop < level.entry /\ level.entry < level.target
      BY <2>3 DEF Bracketed
    <3>2. Risk(level) = level.entry - level.stop /\ Gain(bias, level, p) = p - level.entry
      BY <2>1, <2>3, <3>1 DEF Risk, Gain
    <3>3. QED
      BY <2>1, <2>3, <3>1, <3>2 DEF RealizedR, Gain
  <2>4. CASE bias = -1
    <3>1. level.target < level.entry /\ level.entry < level.stop
      BY <2>4 DEF Bracketed
    <3>2. Risk(level) = level.stop - level.entry /\ Gain(bias, level, p) = level.entry - p
      BY <2>1, <2>4, <3>1 DEF Risk, Gain
    <3>3. QED
      BY <2>1, <2>4, <3>1, <3>2 DEF RealizedR, Gain
  <2>5. QED
    BY <2>2, <2>3, <2>4
<1>3. CASE bias # 0 /\ Hits(bias, level, bars) # {}
  <2>1. PICK bar : result = AtBar(bias, level, bar)
    BY <1>3 DEF Verdict
  <2>2. level.stop \in Int /\ level.target \in Int
    BY DEF Bracketed
  <2>3. CASE result = Result("LOSS", bias, level, level.stop)
    BY <1>2, <1>3, <2>2, <2>3 DEF Result, SignsAgree
  <2>4. CASE result = Result("WIN", bias, level, level.target)
    BY <1>2, <1>3, <2>2, <2>4 DEF Result, SignsAgree
  <2>5. QED
    BY <2>1, <2>3, <2>4 DEF AtBar
<1>4. CASE bias # 0 /\ Hits(bias, level, bars) = {}
  <2>1. result = AtEnd(bias, level, bars, elapsed)
    BY <1>4 DEF Verdict
  <2>2. CASE result = Unsettled("OPEN")
    BY <2>2 DEF Unsettled, SignsAgree
  <2>3. CASE bars # <<>> /\ result = Result("EXPIRED", bias, level, bars[Len(bars)].close)
    <3> DEFINE bar == bars[Len(bars)]
    <3>1. Len(bars) \in 1..Len(bars) /\ bar \in PathBar
      BY <2>3 DEF PathTypes
    <3>2. /\ bar.high \in Int /\ bar.low \in Int /\ bar.close \in Int
          /\ bar.low <= bar.close /\ bar.close <= bar.high
      <4>1. bar.high \in PathPrices /\ bar.low \in PathPrices /\ bar.close \in PathPrices
        BY <3>1 DEF PathBar
      <4>2. bar.low <= bar.close /\ bar.close <= bar.high
        BY <3>1 DEF PathBar
      <4>3. \A q \in PathPrices : q \in Int
        BY EvaluateAssumption
      <4>4. QED
        BY <4>1, <4>2, <4>3
    <3>3. ~HitStop(bias, level, bar)
      BY <1>4, <3>1 DEF Hits
    <3> HIDE DEF bar
    <3>4. Gain(bias, level, bar.close) > -Risk(level)
      <4>1. level.entry \in Int /\ level.stop \in Int
        BY DEF Bracketed
      <4>2. bias = 1 \/ bias = -1
        BY <1>4 DEF PathTypes, Biases
      <4>3. CASE bias = 1
        BY <3>2, <3>3, <4>1, <4>3 DEF Bracketed, Risk, Gain, HitStop
      <4>4. CASE bias = -1
        BY <3>2, <3>3, <4>1, <4>4 DEF Bracketed, Risk, Gain, HitStop
      <4>5. QED
        BY <4>2, <4>3, <4>4
    <3>5. result.r = <<Gain(bias, level, bar.close), Risk(level)>> /\ result.status = "EXPIRED"
      <4>1. result = Result("EXPIRED", bias, level, bar.close)
        BY <2>3 DEF bar
      <4>2. RealizedR(bias, level, bar.close) = <<Gain(bias, level, bar.close), Risk(level)>>
        BY <1>2, <1>4, <3>2
      <4>3. QED
        BY <4>1, <4>2 DEF Result
    <3>6. QED
      BY <1>2, <1>4, <3>2, <3>4, <3>5 DEF SignsAgree
  <2>4. QED
    BY <2>1, <2>2, <2>3 DEF AtEnd
<1>5. QED
  BY <1>1, <1>3, <1>4

\* A loss costs exactly the risk, a win gains and what expires lost less than the
\* risk, for every signal that oi_walls and synthesize make.
THEOREM ROfEachStatus == PathSpec => []SignsAgree
<1>1. PathInv => SignsAgree
  <2>1. CASE result = Pending
    BY <2>1 DEF Pending, Unsettled, SignsAgree
  <2>2. CASE result # Pending
    BY <2>2, VerdictSigns DEF PathInv, ReturnsVerdict
  <2>3. QED
    BY <2>1, <2>2
<1>2. QED
  BY <1>1, PathInvariance, PTL
=============================================================================
