---------------------------- MODULE Pages_proofs ----------------------------
(***************************************************************************)
(* Proofs about the pages and their charts, for any instruments, answers   *)
(* and bounds.  Pages: the types, the selection of Multi OI & Volume, the  *)
(* cards of All in 1, the strikes at the money.  LabCharts: what a canvas  *)
(* shows, the pin of the max-pain chart and the flip of the gamma chart.   *)
(***************************************************************************)
EXTENDS Pages, LabCharts, TLAPS, FiniteSetTheorems, SequenceTheorems,
        WellFoundedInduction

(***************************************************************************)
(* What the user can press keeps a component in its states.                *)
(***************************************************************************)
LEMMA OiPresses ==
  ASSUME NEW d \in Payload \cup {NoData}, NEW u \in OI!States(Snapshots),
         NEW v \in OI!Presses(u, d)
  PROVE  v \in OI!States(Snapshots)
<1> USE PagesAssumption, ComponentAssumption
<1>1. CASE v \in OI!FilterButtons(u)
  BY <1>1 DEF OI!FilterButtons, OI!States
<1>2. CASE v \in OI!ModeRow(u)
  <2>1. (\E m \in OI!Modes : v = [u EXCEPT !.mode = m]) \/ v = [u EXCEPT !.lot = ~u.lot]
    BY <1>2 DEF OI!ModeRow
  <2>2. CASE \E m \in OI!Modes : v = [u EXCEPT !.mode = m]
    BY <2>2 DEF OI!States
  <2>3. CASE v = [u EXCEPT !.lot = ~u.lot]
    BY <2>3 DEF OI!States
  <2>4. QED
    BY <2>1, <2>2, <2>3
<1>3. CASE v \in OI!TimeRange(u, d)
  <2>1. OI!HasSeries(d) /\ d \in Payload
    BY <1>3 DEF OI!TimeRange, OI!HasSeries
  <2>2. \A t \in 0..OI!LastIdx(d) : t >= OI!LastIdx(d) \/ t \in Snapshots
    BY <2>1 DEF OI!HasSeries, OI!LastIdx, Snapshots, Payload
  <2>3. CASE \E t \in 0..OI!LastIdx(d) :
               v = [u EXCEPT !.now = IF t >= OI!LastIdx(d) THEN Live ELSE t]
    BY <2>2, <2>3 DEF OI!States
  <2>4. CASE \E r \in Ranges : v = [u EXCEPT !.open = r]
    BY <2>4 DEF OI!States
  <2>5. CASE v = [u EXCEPT !.now = Live, !.open = All]
    BY <2>5 DEF OI!States
  <2>6. QED
    BY <1>3, <2>1, <2>3, <2>4, <2>5 DEF OI!TimeRange
<1>4. QED
  BY <1>1, <1>2, <1>3 DEF OI!Presses

LEMMA GexPresses ==
  ASSUME NEW d \in Payload \cup {NoData}, NEW u \in Gex!States(Snapshots),
         NEW v \in Gex!Presses(u, d)
  PROVE  v \in Gex!States(Snapshots)
<1> USE PagesAssumption, ComponentAssumption
<1>1. CASE v \in Gex!Settings(u)
  <2>1. \/ \E m \in Gex!Modes : v = [u EXCEPT !.mode = m]
        \/ \E f \in Filters : v = [u EXCEPT !.filter = f]
        \/ v = [u EXCEPT !.walls = ~u.walls]
        \/ v = [u EXCEPT !.flip = ~u.flip]
    BY <1>1 DEF Gex!Settings
  <2>2. CASE \E m \in Gex!Modes : v = [u EXCEPT !.mode = m]
    BY <2>2 DEF Gex!States
  <2>3. CASE \E f \in Filters : v = [u EXCEPT !.filter = f]
    BY <2>3 DEF Gex!States
  <2>4. CASE v = [u EXCEPT !.walls = ~u.walls]
    BY <2>4 DEF Gex!States
  <2>5. CASE v = [u EXCEPT !.flip = ~u.flip]
    BY <2>5 DEF Gex!States
  <2>6. QED
    BY <2>1, <2>2, <2>3, <2>4, <2>5
<1>2. CASE v \in Gex!TimeSlider(u, d)
  <2>1. Gex!HasSeries(d) /\ d \in Payload
    BY <1>2 DEF Gex!TimeSlider, Gex!HasSeries, Gex!Series
  <2>2. \A t \in 0..Gex!LastIdx(d) : t >= Gex!LastIdx(d) \/ t \in Snapshots
    BY <2>1 DEF Gex!HasSeries, Gex!LastIdx, Gex!Series, Snapshots, Payload
  <2>3. CASE \E t \in 0..Gex!LastIdx(d) :
               v = [u EXCEPT !.now = IF t >= Gex!LastIdx(d) THEN Live ELSE t]
    BY <2>2, <2>3 DEF Gex!States
  <2>4. CASE v = [u EXCEPT !.now = Live]
    BY <2>4 DEF Gex!States
  <2>5. QED
    BY <1>2, <2>1, <2>3, <2>4 DEF Gex!TimeSlider
<1>3. QED
  BY <1>1, <1>2 DEF Gex!Presses

LEMMA CurvePresses ==
  /\ \A u \in Curve!PcrStates : Curve!PcrPresses(u) \subseteq Curve!PcrStates
  /\ \A u \in Curve!PainStates : Curve!PainPresses(u) \subseteq Curve!PainStates
  /\ \A u \in Curve!FutureStates : Curve!FuturePresses(u) \subseteq Curve!FutureStates
<1>1. \A u \in Curve!PcrStates : Curve!PcrPresses(u) \subseteq Curve!PcrStates
  BY DEF Curve!PcrPresses, Curve!PcrStates
<1>2. \A u \in Curve!PainStates : Curve!PainPresses(u) \subseteq Curve!PainStates
  BY DEF Curve!PainPresses, Curve!PainStates
<1>3. \A u \in Curve!FutureStates : Curve!FuturePresses(u) \subseteq Curve!FutureStates
  <2> SUFFICES ASSUME NEW u \in Curve!FutureStates
               PROVE  Curve!FuturePresses(u) \subseteq Curve!FutureStates
    OBVIOUS
  <2>1. \A e \in 0..(Expiries - 1) : [u EXCEPT !.expiry = e] \in Curve!FutureStates
    BY DEF Curve!FutureStates
  <2>2. /\ [u EXCEPT !.price = ~@] \in Curve!FutureStates
        /\ [u EXCEPT !.oi = ~@] \in Curve!FutureStates
        /\ [u EXCEPT !.collapsed = ~@] \in Curve!FutureStates
    BY DEF Curve!FutureStates
  <2>3. QED
    BY <2>1, <2>2 DEF Curve!FuturePresses
<1>4. QED
  BY <1>1, <1>2, <1>3

(***************************************************************************)
(* Sequences.                                                              *)
(***************************************************************************)
LEMMA Removed ==
  ASSUME NEW S, NEW s \in Seq(S), NEW k \in 1..Len(s)
  PROVE  /\ RemoveAt(s, k) \in Seq(S) /\ Len(RemoveAt(s, k)) = Len(s) - 1
         /\ \A i \in 1..(Len(s) - 1) : RemoveAt(s, k)[i] = IF i < k THEN s[i] ELSE s[i + 1]
<1> DEFINE a == SubSeq(s, 1, k - 1)
           b == SubSeq(s, k + 1, Len(s))
<1>1. Len(s) \in Nat /\ k \in Int
  OBVIOUS
<1>2. a \in Seq(S) /\ Len(a) = k - 1 /\ \A i \in 1..(k - 1) : a[i] = s[i]
  OBVIOUS
<1>3. b \in Seq(S) /\ Len(b) = Len(s) - k /\ \A i \in 1..(Len(s) - k) : b[i] = s[k + i]
  OBVIOUS
<1> HIDE DEF a, b
<1>4. RemoveAt(s, k) = a \o b
  BY DEF RemoveAt, a, b
<1>5. /\ a \o b \in Seq(S) /\ Len(a \o b) = Len(s) - 1
      /\ \A i \in 1..(Len(s) - 1) : (a \o b)[i] = IF i < k THEN a[i] ELSE b[i - (k - 1)]
  <2>1. /\ a \o b \in Seq(S) /\ Len(a \o b) = Len(a) + Len(b)
        /\ \A i \in 1..(Len(a) + Len(b)) : (a \o b)[i] = IF i <= Len(a) THEN a[i] ELSE b[i - Len(a)]
    BY <1>2, <1>3, ConcatProperties
  <2>2. Len(a) + Len(b) = Len(s) - 1
    BY <1>1, <1>2, <1>3
  <2>3. \A i \in 1..(Len(s) - 1) : i <= Len(a) <=> i < k
    BY <1>1, <1>2
  <2>4. QED
    BY <1>2, <2>1, <2>2, <2>3
<1>6. ASSUME NEW i \in 1..(Len(s) - 1)
      PROVE  (a \o b)[i] = IF i < k THEN s[i] ELSE s[i + 1]
  <2>1. CASE i < k
    <3>1. i \in 1..(k - 1)
      BY <1>1, <2>1
    <3>2. QED
      BY <1>2, <1>5, <2>1, <3>1
  <2>2. CASE i >= k
    <3>1. i - (k - 1) \in 1..(Len(s) - k) /\ k + (i - (k - 1)) = i + 1
      BY <1>1, <2>2
    <3>2. QED
      BY <1>1, <1>3, <1>5, <2>2, <3>1
  <2>3. QED
    <3>1. i < k \/ i >= k
      BY <1>1
    <3>2. QED
      BY <2>1, <2>2, <3>1
<1>7. QED
  BY <1>4, <1>5, <1>6

LEMMA InjectiveSequences ==
  ASSUME NEW S, NEW s \in Seq(S), IsInjective(s)
  PROVE  /\ \A k \in 1..Len(s) : IsInjective(RemoveAt(s, k))
         /\ \A c \in S \ ToSet(s) : IsInjective(Append(s, c))
         /\ \A n \in Nat : n <= Len(s) => IsInjective(SubSeq(s, 1, n))
<1>1. \A i, j \in 1..Len(s) : s[i] = s[j] => i = j
  BY DEF IsInjective
<1>2. ASSUME NEW k \in 1..Len(s)  PROVE IsInjective(RemoveAt(s, k))
  <2> DEFINE r == RemoveAt(s, k)
  <2>1. /\ r \in Seq(S) /\ Len(r) = Len(s) - 1
        /\ \A i \in 1..(Len(s) - 1) : r[i] = IF i < k THEN s[i] ELSE s[i + 1]
    BY Removed
  <2> HIDE DEF r
  <2>2. ASSUME NEW i \in 1..Len(r), NEW j \in 1..Len(r), r[i] = r[j]  PROVE i = j
    <3>1. i \in 1..Len(s) /\ i + 1 \in 1..Len(s) /\ j \in 1..Len(s) /\ j + 1 \in 1..Len(s)
      BY <2>1
    <3>2. QED
      BY <1>1, <2>1, <2>2, <3>1
  <2>3. IsInjective(r)
    BY <2>1, <2>2 DEF IsInjective
  <2>4. QED
    BY <2>3 DEF r
<1>3. ASSUME NEW c \in S \ ToSet(s)  PROVE IsInjective(Append(s, c))
  <2>1. \A i \in 1..Len(s) : s[i] # c
    BY DEF ToSet
  <2>2. /\ Append(s, c) \in Seq(S) /\ Len(Append(s, c)) = Len(s) + 1
        /\ \A i \in 1..Len(s) : Append(s, c)[i] = s[i]
        /\ Append(s, c)[Len(s) + 1] = c
    OBVIOUS
  <2>3. QED
    BY <1>1, <2>1, <2>2 DEF IsInjective
<1>4. ASSUME NEW n \in Nat, n <= Len(s)  PROVE IsInjective(SubSeq(s, 1, n))
  <2>1. /\ SubSeq(s, 1, n) \in Seq(S) /\ Len(SubSeq(s, 1, n)) = n
        /\ \A i \in 1..n : SubSeq(s, 1, n)[i] = s[i]
    BY <1>4
  <2>2. QED
    BY <1>1, <1>4, <2>1 DEF IsInjective
<1>5. QED
  BY <1>2, <1>3, <1>4

(***************************************************************************)
(* Multi OI & Volume: the selection follows the data that is shown.        *)
(***************************************************************************)
OwnPayload == [inst : Instruments, n : 0..MaxSnaps]

\* The contracts of the series of an instrument, whatever its length.
ContractsOf(i) == UNION {Contracts(d) : d \in PayloadsOf(i)}

FollowsShown(u, d) ==
  IF d = NoData THEN u.seeded = Multi!NoKey /\ u.selected = << >>
  ELSE /\ u.seeded = d.inst
       /\ ToSet(u.selected) \subseteq ContractsOf(d.inst)
       /\ u.source = "oi" =>
            \E e \in PayloadsOf(d.inst) : u.selected = Multi!Top(e, "oi", u.highOi)

MultiOK(u, d) ==
  /\ u \in Multi!States(Instruments, Drawn) /\ IsInjective(u.selected)
  /\ FollowsShown(u, d)

LEMMA PayloadFacts ==
  /\ OwnPayload \subseteq Payload
  /\ NoData \notin OwnPayload
  /\ \A d \in OwnPayload : /\ d \in PayloadsOf(d.inst) /\ d.inst \in Instruments
                           /\ Contracts(d) \subseteq ContractsOf(d.inst)
                           /\ Contracts(d) \subseteq Drawn
  /\ 0 \notin Instruments
<1>1. OwnPayload \subseteq Payload
  BY DEF OwnPayload, Payload
<1>2. \A d \in OwnPayload : d \in PayloadsOf(d.inst) /\ d.inst \in Instruments
  BY DEF OwnPayload, PayloadsOf
<1>3. \A d \in OwnPayload : Contracts(d) \subseteq ContractsOf(d.inst)
  BY <1>2 DEF ContractsOf
<1>4. \A d \in OwnPayload : Contracts(d) \subseteq Drawn
  BY <1>1 DEF Drawn
<1>5. 0 \notin Instruments
  <2>1. Cardinality(Instruments) \in Nat
    BY FS_CardinalityType, PagesAssumption
  <2>2. QED
    BY <2>1, PagesAssumption
<1>6. QED
  BY <1>1, <1>2, <1>3, <1>4, <1>5, PagesAssumption

\* What a ranking gives: contracts of the payload, none of them twice.
LEMMA TopOf ==
  ASSUME NEW d \in OwnPayload, NEW by \in {"oi", "vol"}, NEW n \in Nat
  PROVE  LET top == Multi!Top(d, by, n) IN
         top \in Seq(Contracts(d)) /\ IsInjective(top) /\ ToSet(top) \subseteq Contracts(d)
<1> DEFINE r == Ranked(d, by)
           len == IF n < Len(r) THEN n ELSE Len(r)
<1>1. r \in Seq(Contracts(d)) /\ IsInjective(r)
  BY PayloadFacts, ServerAssumption
<1> HIDE DEF r
<1>2. len \in Nat /\ len <= Len(r)
  BY <1>1
<1> HIDE DEF len
<1>3. /\ SubSeq(r, 1, len) \in Seq(Contracts(d)) /\ Len(SubSeq(r, 1, len)) = len
      /\ \A i \in 1..len : SubSeq(r, 1, len)[i] \in Contracts(d)
  BY <1>1, <1>2
<1>4. ToSet(SubSeq(r, 1, len)) \subseteq Contracts(d)
  BY <1>2, <1>3 DEF ToSet
<1>5. IsInjective(SubSeq(r, 1, len))
  BY <1>1, <1>2, InjectiveSequences
<1>6. Multi!Top(d, by, n) = SubSeq(r, 1, len)
  BY DEF Multi!Top, r, len
<1>7. QED
  BY <1>3, <1>4, <1>5, <1>6

\* A new selection: the first of a ranking of the payload.
LEMMA TopSelected ==
  ASSUME NEW d \in OwnPayload, NEW by \in {"oi", "vol"}, NEW n \in Nat, NEW v,
         v \in Multi!States(Instruments, Drawn), v.seeded = d.inst,
         v.selected = Multi!Top(d, by, n), v.source = "oi" => by = "oi" /\ v.highOi = n
  PROVE  MultiOK(v, d)
<1> DEFINE top == Multi!Top(d, by, n)
<1>1. IsInjective(top) /\ ToSet(top) \subseteq Contracts(d)
  BY TopOf
<1>2. d # NoData /\ d \in PayloadsOf(d.inst) /\ Contracts(d) \subseteq ContractsOf(d.inst)
  BY PayloadFacts
<1>3. v.source = "oi" =>
        \E e \in PayloadsOf(d.inst) : v.selected = Multi!Top(e, "oi", v.highOi)
  BY <1>2
<1> HIDE DEF top
<1>4. v.selected = top
  BY DEF top
<1>5. QED
  BY <1>1, <1>2, <1>3, <1>4 DEF MultiOK, FollowsShown

\* The same selection.
LEMMA SameSelected ==
  ASSUME NEW d \in OwnPayload \cup {NoData}, NEW u, MultiOK(u, d), NEW v,
         v \in Multi!States(Instruments, Drawn), v.seeded = u.seeded, v.selected = u.selected,
         d # NoData => v.source = u.source /\ v.highOi = u.highOi
  PROVE  MultiOK(v, d)
BY DEF MultiOK, FollowsShown

LEMMA MultiStart == MultiOK(Multi!Start, NoData)
<1>1. Multi!Start \in Multi!States(Instruments, Drawn)
  BY ComponentAssumption DEF Multi!Start, Multi!States
<1>2. IsInjective(Multi!Start.selected)
  BY DEF IsInjective, Multi!Start
<1>3. QED
  BY <1>1, <1>2 DEF MultiOK, FollowsShown, Multi!Start

LEMMA MultiRendered ==
  ASSUME NEW d \in OwnPayload \cup {NoData}, NEW u, MultiOK(u, d), NEW e \in OwnPayload
  PROVE  MultiOK(Multi!Rendered(u, e), e)
<1>1. e # NoData /\ e.inst \in Instruments /\ 0 \notin Instruments
  BY PayloadFacts
<1>2. CASE e.inst = u.seeded
  <2>1. d # NoData
    BY <1>1, <1>2 DEF MultiOK, FollowsShown, Multi!NoKey
  <2>2. d.inst = e.inst
    BY <1>2, <2>1 DEF MultiOK, FollowsShown
  <2>3. Multi!Rendered(u, e) = u
    BY <1>2 DEF Multi!Rendered
  <2>4. QED
    BY <1>1, <2>1, <2>2, <2>3 DEF MultiOK, FollowsShown
<1>3. CASE e.inst # u.seeded
  <2> DEFINE top == Multi!Top(e, "oi", u.highOi)
             v == [u EXCEPT !.seeded = e.inst, !.selected = top]
  <2>1. u \in Multi!States(Instruments, Drawn) /\ u.highOi \in Nat
    BY DEF MultiOK, Multi!States
  <2>2. top \in Seq(Contracts(e)) /\ Contracts(e) \subseteq Drawn
    BY <2>1, TopOf, PayloadFacts
  <2>3. top \in Seq(Drawn)
    BY <2>2
  <2>4. Multi!Rendered(u, e) = v
    BY <1>1, <1>3 DEF Multi!Rendered
  <2>5. v.selected = top
    BY <2>1 DEF Multi!States
  <2> HIDE DEF top
  <2>6. /\ v \in Multi!States(Instruments, Drawn)
        /\ v.seeded = e.inst /\ v.highOi = u.highOi
    BY <1>1, <2>1, <2>3 DEF Multi!States
  <2> HIDE DEF v
  <2>7. MultiOK(v, e)
    BY <2>1, <2>5, <2>6, TopSelected DEF top
  <2>8. QED
    BY <2>4, <2>7
<1>4. QED
  BY <1>2, <1>3

LEMMA HelperPresses ==
  ASSUME NEW d \in OwnPayload \cup {NoData}, NEW u, MultiOK(u, d),
         NEW v \in Multi!HighOi(u, d) \cup Multi!HighVol(u, d)
  PROVE  MultiOK(v, d)
<1>1. u \in Multi!States(Instruments, Drawn) /\ u.highOi \in Nat /\ u.highVol \in Nat
  BY DEF MultiOK, Multi!States
<1>2. CASE v \in Multi!HighOi(u, d)
  <2>1. PICK n \in Nat : v = [u EXCEPT !.highOi = n, !.source = "oi",
          !.selected = IF d = NoData THEN u.selected ELSE Multi!Top(d, "oi", n)]
    BY <1>1, <1>2, ComponentAssumption DEF Multi!HighOi
  <2>2. CASE d = NoData
    <3>1. v = [u EXCEPT !.highOi = n, !.source = "oi", !.selected = u.selected]
      BY <2>1, <2>2
    <3>2. /\ v \in Multi!States(Instruments, Drawn)
          /\ v.seeded = u.seeded /\ v.selected = u.selected
      BY <1>1, <3>1 DEF Multi!States
    <3>3. QED
      BY <2>2, <3>2, SameSelected
  <2>3. CASE d # NoData
    <3> DEFINE top == Multi!Top(d, "oi", n)
    <3>1. v = [u EXCEPT !.highOi = n, !.source = "oi", !.selected = top]
      BY <2>1, <2>3
    <3>2. top \in Seq(Drawn)
      BY <2>3, TopOf, PayloadFacts
    <3> HIDE DEF top
    <3>3. /\ v \in Multi!States(Instruments, Drawn)
          /\ v.seeded = u.seeded /\ v.selected = top /\ v.highOi = n
      BY <1>1, <3>1, <3>2 DEF Multi!States
    <3>4. u.seeded = d.inst
      BY <2>3 DEF MultiOK, FollowsShown
    <3>5. QED
      BY <2>3, <3>3, <3>4, TopSelected DEF top
  <2>4. QED
    BY <2>2, <2>3
<1>3. CASE v \in Multi!HighVol(u, d)
  <2>1. PICK n \in Nat : v = [u EXCEPT !.highVol = n, !.source = "vol",
          !.selected = IF d = NoData THEN u.selected ELSE Multi!Top(d, "vol", n)]
    BY <1>1, <1>3, ComponentAssumption DEF Multi!HighVol
  <2>2. CASE d = NoData
    <3>1. v = [u EXCEPT !.highVol = n, !.source = "vol", !.selected = u.selected]
      BY <2>1, <2>2
    <3>2. /\ v \in Multi!States(Instruments, Drawn)
          /\ v.seeded = u.seeded /\ v.selected = u.selected
      BY <1>1, <3>1 DEF Multi!States
    <3>3. QED
      BY <2>2, <3>2, SameSelected
  <2>3. CASE d # NoData
    <3> DEFINE top == Multi!Top(d, "vol", n)
    <3>1. v = [u EXCEPT !.highVol = n, !.source = "vol", !.selected = top]
      BY <2>1, <2>3
    <3>2. top \in Seq(Drawn)
      BY <2>3, TopOf, PayloadFacts
    <3> HIDE DEF top
    <3>3. /\ v \in Multi!States(Instruments, Drawn)
          /\ v.seeded = u.seeded /\ v.selected = top /\ v.source = "vol"
      BY <1>1, <3>1, <3>2 DEF Multi!States
    <3>4. u.seeded = d.inst
      BY <2>3 DEF MultiOK, FollowsShown
    <3>5. QED
      BY <2>3, <3>3, <3>4, TopSelected DEF top
  <2>4. QED
    BY <2>2, <2>3
<1>4. QED
  BY <1>2, <1>3

LEMMA PickerPresses ==
  ASSUME NEW d \in OwnPayload \cup {NoData}, NEW u, MultiOK(u, d), NEW v \in Multi!Custom(u, d)
  PROVE  MultiOK(v, d)
<1>1. d \in OwnPayload
  BY DEF Multi!Custom
<1>2. PICK c \in Contracts(d) : v = [u EXCEPT !.source = "custom",
        !.selected = IF c \in ToSet(u.selected) THEN Multi!Without(u.selected, c)
                     ELSE Append(u.selected, c)]
  BY DEF Multi!Custom, Multi!ToSet, ToSet
<1> DEFINE s == u.selected
           new == IF c \in ToSet(s) THEN Multi!Without(s, c) ELSE Append(s, c)
<1>3. /\ u \in Multi!States(Instruments, Drawn) /\ s \in Seq(Drawn) /\ IsInjective(s)
      /\ u.seeded = d.inst /\ ToSet(s) \subseteq ContractsOf(d.inst)
  BY <1>1, PayloadFacts DEF MultiOK, FollowsShown, Multi!States
<1>4. c \in Drawn /\ c \in ContractsOf(d.inst)
  BY <1>1, PayloadFacts
<1>5. v = [u EXCEPT !.source = "custom", !.selected = new]
  BY <1>2
<1> HIDE DEF s
<1>6. new \in Seq(Drawn) /\ IsInjective(new) /\ ToSet(new) \subseteq ContractsOf(d.inst)
  <2>1. CASE c \in ToSet(s)
    <3> DEFINE k == CHOOSE i \in DOMAIN s : s[i] = c
    <3>1. k \in 1..Len(s)
      BY <1>3, <2>1 DEF ToSet
    <3>2. new = RemoveAt(s, k)
      <4>1. Multi!Without(s, c) = RemoveAt(s, k)
        BY DEF Multi!Without, Multi!RemoveAt, RemoveAt
      <4>2. QED
        BY <2>1, <4>1
    <3> HIDE DEF k, new
    <3>3. /\ new \in Seq(Drawn) /\ Len(new) = Len(s) - 1
          /\ \A i \in 1..(Len(s) - 1) : new[i] = IF i < k THEN s[i] ELSE s[i + 1]
      BY <1>3, <3>1, <3>2, Removed
    <3>4. IsInjective(new)
      BY <1>3, <3>1, <3>2, InjectiveSequences
    <3>5. ASSUME NEW i \in 1..Len(new)  PROVE new[i] \in ToSet(s)
      <4>1. i \in 1..Len(s) /\ i + 1 \in 1..Len(s)
        BY <1>3, <3>3
      <4>2. new[i] = s[i] \/ new[i] = s[i + 1]
        BY <3>3
      <4>3. QED
        BY <1>3, <4>1, <4>2 DEF ToSet
    <3>6. ToSet(new) \subseteq ToSet(s)
      BY <3>3, <3>5 DEF ToSet
    <3>7. QED
      BY <1>3, <3>3, <3>4, <3>6
  <2>2. CASE c \notin ToSet(s)
    <3>1. new = Append(s, c)
      BY <2>2
    <3> HIDE DEF new
    <3>2. new \in Seq(Drawn) /\ IsInjective(new)
      BY <1>3, <1>4, <2>2, <3>1, InjectiveSequences
    <3>3. \A i \in 1..Len(new) : new[i] = c \/ new[i] \in ToSet(s)
      BY <1>3, <1>4, <3>1 DEF ToSet
    <3>4. QED
      BY <1>3, <1>4, <3>2, <3>3 DEF ToSet
  <2>3. QED
    BY <2>1, <2>2
<1> HIDE DEF new
<1>7. /\ v \in Multi!States(Instruments, Drawn)
      /\ v.seeded = d.inst /\ v.selected = new /\ v.source = "custom"
  BY <1>3, <1>5, <1>6 DEF Multi!States
<1>8. d # NoData
  BY <1>1, PayloadFacts
<1>9. QED
  BY <1>6, <1>7, <1>8 DEF MultiOK, FollowsShown

LEMMA MultiPresses ==
  ASSUME NEW h \in Fetch!Hooks(OwnPayload), NEW u, MultiOK(u, h.data),
         NEW v \in Multi!Presses(u, h)
  PROVE  MultiOK(v, h.data)
<1>1. h.data \in OwnPayload \cup {NoData}
  BY DEF Fetch!Hooks
<1>2. u \in Multi!States(Instruments, Drawn)
  BY DEF MultiOK
<1>3. \/ v \in Multi!HighOi(u, h.data) \cup Multi!HighVol(u, h.data)
      \/ v \in Multi!Custom(u, h.data)
      \/ \E c \in Multi!Chips(u, h) : v = [u EXCEPT !.hidden = Multi!Toggled(u.hidden, c)]
      \/ v = [u EXCEPT !.custom = ~u.custom]
      \/ \E m \in {"oi", "vol"} : v = [u EXCEPT !.metric = m]
      \/ \E w \in {"individual", "callput"} : v = [u EXCEPT !.view = w]
  BY DEF Multi!Presses
<1>4. CASE v \in Multi!HighOi(u, h.data) \cup Multi!HighVol(u, h.data)
  BY <1>1, <1>4, HelperPresses
<1>5. CASE v \in Multi!Custom(u, h.data)
  BY <1>1, <1>5, PickerPresses
<1>6. CASE \E c \in Multi!Chips(u, h) : v = [u EXCEPT !.hidden = Multi!Toggled(u.hidden, c)]
  <2>1. PICK c \in Multi!Chips(u, h) : v = [u EXCEPT !.hidden = Multi!Toggled(u.hidden, c)]
    BY <1>6
  <2>2. c \in Drawn
    BY <1>1, <2>1, PayloadFacts DEF Multi!Chips
  <2>3. u.hidden \in SUBSET Drawn
    BY <1>2 DEF Multi!States
  <2>4. Multi!Toggled(u.hidden, c) \in SUBSET Drawn
    BY <2>2, <2>3 DEF Multi!Toggled
  <2>5. /\ v \in Multi!States(Instruments, Drawn) /\ v.seeded = u.seeded
        /\ v.selected = u.selected /\ v.source = u.source /\ v.highOi = u.highOi
    BY <1>2, <2>1, <2>4 DEF Multi!States
  <2>6. QED
    BY <1>1, <2>5, SameSelected
<1>7. CASE v = [u EXCEPT !.custom = ~u.custom]
  <2>1. /\ v \in Multi!States(Instruments, Drawn) /\ v.seeded = u.seeded
        /\ v.selected = u.selected /\ v.source = u.source /\ v.highOi = u.highOi
    BY <1>2, <1>7 DEF Multi!States
  <2>2. QED
    BY <1>1, <2>1, SameSelected
<1>8. CASE \E m \in {"oi", "vol"} : v = [u EXCEPT !.metric = m]
  <2>1. /\ v \in Multi!States(Instruments, Drawn) /\ v.seeded = u.seeded
        /\ v.selected = u.selected /\ v.source = u.source /\ v.highOi = u.highOi
    BY <1>2, <1>8 DEF Multi!States
  <2>2. QED
    BY <1>1, <2>1, SameSelected
<1>9. CASE \E w \in {"individual", "callput"} : v = [u EXCEPT !.view = w]
  <2>1. /\ v \in Multi!States(Instruments, Drawn) /\ v.seeded = u.seeded
        /\ v.selected = u.selected /\ v.source = u.source /\ v.highOi = u.highOi
    BY <1>2, <1>9 DEF Multi!States
  <2>2. QED
    BY <1>1, <2>1, SameSelected
<1>10. QED
  BY <1>3, <1>4, <1>5, <1>6, <1>7, <1>8, <1>9

(***************************************************************************)
(* What every reachable state satisfies: the types, with the answers and   *)
(* requests of a feed of instruments being of one of them, and what is     *)
(* selected in Multi OI & Volume following the data.                       *)
(***************************************************************************)
PayloadFor(f) == IF f \in Market!Global THEN Payload ELSE OwnPayload

HookOK(f) ==
  /\ hook[f] \in Fetch!Hooks(PayloadFor(f))
  /\ asked[f] \in Seq(PayloadFor(f)) /\ Len(asked[f]) <= MaxAsked

Typed ==
  /\ page \in PageNames /\ inst \in Instruments
  /\ presses \in 0..MaxPresses /\ snaps \in FirstSnaps..MaxSnaps
  /\ DOMAIN hook = ToSet(FeedsOf(page)) /\ DOMAIN asked = DOMAIN hook
  /\ \A f \in DOMAIN hook : HookOK(f)

UiInv ==
  /\ UiOK(page, ui)
  /\ page = "multi-oi-volume" => MultiOK(ui, hook["series"].data)

PagesInv == Typed /\ UiInv

LEMMA LabFeeds ==
  /\ \A p \in LabTools : ToSet(FeedsOf(p)) = {"series"}
  /\ "series" \notin Market!Global
  /\ PayloadFor("series") = OwnPayload
  /\ LabTools \subseteq PageNames
  /\ \A f : PayloadFor(f) \subseteq Payload
<1>1. ToSet(<<"series">>) = {"series"}
  BY DEF ToSet
<1>2. \A p \in LabTools : ToSet(FeedsOf(p)) = {"series"}
  BY <1>1 DEF FeedsOf
<1>3. "series" \notin Market!Global
  BY DEF Market!Global
<1>4. \A f : PayloadFor(f) \subseteq Payload
  BY PayloadFacts DEF PayloadFor
<1>5. QED
  BY <1>2, <1>3, <1>4 DEF PayloadFor, PageNames

LEMMA StartOK ==
  ASSUME NEW p \in PageNames
  PROVE  /\ UiOK(p, Start(p))
         /\ p = "multi-oi-volume" => Start(p) = Multi!Start
<1> USE ComponentAssumption
<1>1. OI!Start \in OI!States(Snapshots)
  BY DEF OI!Start, OI!States, OI!Modes
<1>2. Gex!Start \in Gex!States(Snapshots)
  BY DEF Gex!Start, Gex!States, Gex!Modes
<1>3. Multi!Start \in Multi!States(Instruments, Drawn) /\ IsInjective(Multi!Start.selected)
  BY MultiStart DEF MultiOK
<1>4. Curve!PcrStart \in Curve!PcrStates
  BY DEF Curve!PcrStart, Curve!PcrStates
<1>5. Curve!PainStart \in Curve!PainStates
  BY DEF Curve!PainStart, Curve!PainStates
<1>6. Curve!FutureStart \in Curve!FutureStates
  BY DEF Curve!FutureStart, Curve!FutureStates
<1>7. Market!Start(p) \in Market!States(p)
  BY DEF Market!Start, Market!States
<1>8. QED
  BY <1>1, <1>2, <1>3, <1>4, <1>5, <1>6, <1>7 DEF Start, UiOK

LEMMA AskingOK ==
  ASSUME NEW p, NEW f, NEW i \in Instruments, NEW requests \in Seq(PayloadFor(f)),
         Len(requests) < MaxAsked, snaps \in FirstSnaps..MaxSnaps
  PROVE  /\ Asking(p, f, i, requests) \in Seq(PayloadFor(f))
         /\ Len(Asking(p, f, i, requests)) <= MaxAsked
<1>1. Served(f, i) \in PayloadFor(f)
  <2> DEFINE n == IF f = "series" /\ snaps > Behind(i) THEN snaps - Behind(i) ELSE 0
  <2>1. n \in 0..MaxSnaps
    BY PagesAssumption
  <2> HIDE DEF n
  <2>2. Served(f, i) = [inst |-> IF f \in Market!Global THEN 0 ELSE i, n |-> n]
    BY DEF Served, n
  <2>3. CASE f \in Market!Global
    <3>1. Served(f, i) = [inst |-> 0, n |-> n]
      BY <2>2, <2>3
    <3>2. QED
      BY <2>1, <2>3, <3>1 DEF PayloadFor, Payload
  <2>4. CASE f \notin Market!Global
    <3>1. Served(f, i) = [inst |-> i, n |-> n]
      BY <2>2, <2>4
    <3>2. QED
      BY <2>1, <2>4, <3>1 DEF PayloadFor, OwnPayload
  <2>5. QED
    BY <2>3, <2>4
<1>2. /\ Append(requests, Served(f, i)) \in Seq(PayloadFor(f))
      /\ Len(Append(requests, Served(f, i))) = Len(requests) + 1
  BY <1>1
<1>3. MaxAsked \in Nat /\ Len(requests) \in Nat
  BY PagesAssumption
<1>4. QED
  BY <1>2, <1>3 DEF Asking

-----------------------------------------------------------------------------
(***************************************************************************)
(* Each action preserves it.                                               *)
(***************************************************************************)
LEMMA MountStep ==
  ASSUME NEW p \in PageNames, NEW i \in Instruments, Typed, Mounts(p, i)
  PROVE  PagesInv'
<1>1. /\ page' = p /\ inst' = i /\ ui' = Start(p) /\ presses' = 0 /\ snaps' = snaps
      /\ hook' = [f \in ToSet(FeedsOf(p)) |-> Fetch!Mounted]
      /\ asked' = [f \in ToSet(FeedsOf(p)) |-> Asking(p, f, i, << >>)]
  BY DEF Mounts, MountedAs
<1>2. ASSUME NEW f \in ToSet(FeedsOf(p))  PROVE HookOK(f)'
  <2>1. Fetch!Mounted \in Fetch!Hooks(PayloadFor(f))
    BY DEF Fetch!Mounted, Fetch!Hooks
  <2>2. /\ Asking(p, f, i, << >>) \in Seq(PayloadFor(f))
        /\ Len(Asking(p, f, i, << >>)) <= MaxAsked
    <3>1. << >> \in Seq(PayloadFor(f)) /\ Len(<< >>) < MaxAsked
      BY PagesAssumption
    <3>2. QED
      BY <3>1, AskingOK DEF Typed
  <2>3. QED
    BY <1>1, <2>1, <2>2 DEF HookOK
<1>3. Typed'
  BY <1>1, <1>2, PagesAssumption DEF Typed
<1>4. UiInv'
  <2>1. p = "multi-oi-volume" => hook'["series"].data = NoData
    BY <1>1, LabFeeds DEF LabTools, OiTools, Fetch!Mounted
  <2>2. QED
    BY <1>1, <2>1, StartOK, MultiStart DEF UiInv
<1>5. QED
  BY <1>3, <1>4 DEF PagesInv

LEMMA SwitchStep ==
  ASSUME NEW i \in Instruments, PagesInv, Switches(i)
  PROVE  PagesInv'
<1> DEFINE local == DOMAIN hook \ Market!Global
<1>1. /\ \A f \in local : Len(asked[f]) < MaxAsked
      /\ inst' = i /\ page' = page /\ ui' = ui /\ presses' = presses /\ snaps' = snaps
      /\ hook' = [f \in DOMAIN hook |-> IF f \in local THEN Fetch!Begun(hook[f], TRUE) ELSE hook[f]]
      /\ asked' = [f \in DOMAIN hook |-> IF f \in local THEN Asking(page, f, i, asked[f])
                                        ELSE asked[f]]
  BY DEF Switches
<1> HIDE DEF local
<1>2. ASSUME NEW f \in DOMAIN hook
      PROVE  HookOK(f)' /\ hook'[f].data = hook[f].data
  <2>1. HookOK(f)
    BY DEF PagesInv, Typed
  <2>2. CASE f \in local
    <3>1. hook'[f] = Fetch!Begun(hook[f], TRUE) /\ asked'[f] = Asking(page, f, i, asked[f])
      BY <1>1, <2>2
    <3>2. /\ Fetch!Begun(hook[f], TRUE) \in Fetch!Hooks(PayloadFor(f))
          /\ Fetch!Begun(hook[f], TRUE).data = hook[f].data
      BY <2>1 DEF HookOK, Fetch!Hooks, Fetch!Begun
    <3>3. /\ Asking(page, f, i, asked[f]) \in Seq(PayloadFor(f))
          /\ Len(Asking(page, f, i, asked[f])) <= MaxAsked
      BY <1>1, <2>1, <2>2, AskingOK DEF HookOK, PagesInv, Typed
    <3>4. QED
      BY <3>1, <3>2, <3>3 DEF HookOK
  <2>3. CASE f \notin local
    BY <1>1, <2>1, <2>3 DEF HookOK
  <2>4. QED
    BY <2>2, <2>3
<1>3. Typed'
  BY <1>1, <1>2 DEF PagesInv, Typed
<1>4. page = "multi-oi-volume" => "series" \in DOMAIN hook
  BY LabFeeds DEF PagesInv, Typed, LabTools, OiTools
<1>5. UiInv'
  BY <1>1, <1>2, <1>4 DEF PagesInv, UiInv
<1>6. QED
  BY <1>3, <1>5 DEF PagesInv

LEMMA RefetchStep ==
  ASSUME NEW feeds, PagesInv, Refetch(feeds)
  PROVE  PagesInv'
<1>1. /\ \A f \in feeds : Room(f)
      /\ UNCHANGED <<page, inst, ui, presses, hook, snaps>>
      /\ asked' = [f \in DOMAIN hook |-> IF f \in feeds THEN Asking(page, f, inst, asked[f])
                                        ELSE asked[f]]
  BY DEF Refetch
<1>2. ASSUME NEW f \in DOMAIN hook  PROVE HookOK(f)'
  <2>1. HookOK(f)
    BY DEF PagesInv, Typed
  <2>2. CASE f \in feeds
    <3>1. Len(asked[f]) < MaxAsked
      <4>1. Len(asked[f]) < MaxAsked \/ Len(asked[f]) < 1
        BY <1>1, <2>2 DEF Room
      <4>2. Len(asked[f]) \in Nat /\ MaxAsked \in Nat \ {0}
        BY <2>1, PagesAssumption DEF HookOK
      <4>3. QED
        BY <4>1, <4>2
    <3>2. /\ Asking(page, f, inst, asked[f]) \in Seq(PayloadFor(f))
          /\ Len(Asking(page, f, inst, asked[f])) <= MaxAsked
      BY <2>1, <3>1, AskingOK DEF HookOK, PagesInv, Typed
    <3>3. QED
      BY <1>1, <2>1, <2>2, <3>2 DEF HookOK
  <2>3. CASE f \notin feeds
    BY <1>1, <2>1, <2>3 DEF HookOK
  <2>4. QED
    BY <2>2, <2>3
<1>3. Typed'
  BY <1>1, <1>2 DEF PagesInv, Typed
<1>4. UiInv'
  BY <1>1 DEF PagesInv, UiInv
<1>5. QED
  BY <1>3, <1>4 DEF PagesInv

LEMMA PressStep ==
  ASSUME PagesInv, Press
  PROVE  PagesInv'
<1>1. /\ ui' \in Pressed
      /\ UNCHANGED <<page, inst, hook, asked, snaps>>
      /\ IF page \in LabTools THEN presses < MaxPresses /\ presses' = presses + 1
         ELSE UNCHANGED presses
  BY DEF Press
<1>2. presses' \in 0..MaxPresses
  BY <1>1, PagesAssumption DEF PagesInv, Typed
<1>3. Typed'
  BY <1>1, <1>2 DEF PagesInv, Typed, HookOK
<1>4. ASSUME page \in LabTools
      PROVE  /\ hook["series"] \in Fetch!Hooks(OwnPayload)
             /\ hook["series"].data \in OwnPayload \cup {NoData}
             /\ hook["series"].data \in Payload \cup {NoData}
  <2>1. HookOK("series")
    BY <1>4, LabFeeds DEF PagesInv, Typed
  <2>2. hook["series"] \in Fetch!Hooks(OwnPayload)
    BY <2>1, LabFeeds DEF HookOK
  <2>3. QED
    BY <2>2, PayloadFacts DEF Fetch!Hooks
<1>5. UiOK(page, ui)
  BY DEF PagesInv, UiInv
<1>6. CASE page = "open-interest"
  <2>1. ui \in OI!States(Snapshots) /\ ui' \in OI!Presses(ui, hook["series"].data)
    BY <1>1, <1>5, <1>6 DEF UiOK, Pressed
  <2>2. ui' \in OI!States(Snapshots)
    BY <1>4, <1>6, <2>1, OiPresses DEF LabTools, OiTools
  <2>3. QED
    BY <1>1, <1>3, <1>6, <2>2 DEF PagesInv, UiInv, UiOK
<1>7. CASE page = "gamma-exposure"
  <2>1. ui \in Gex!States(Snapshots) /\ ui' \in Gex!Presses(ui, hook["series"].data)
    BY <1>1, <1>5, <1>7 DEF UiOK, Pressed
  <2>2. ui' \in Gex!States(Snapshots)
    BY <1>4, <1>7, <2>1, GexPresses DEF LabTools, OiTools
  <2>3. QED
    BY <1>1, <1>3, <1>7, <2>2 DEF PagesInv, UiInv, UiOK
<1>8. CASE page = "multi-oi-volume"
  <2>1. MultiOK(ui, hook["series"].data) /\ ui' \in Multi!Presses(ui, hook["series"])
    BY <1>1, <1>8 DEF PagesInv, UiInv, Pressed
  <2>2. MultiOK(ui', hook["series"].data)
    BY <1>4, <1>8, <2>1, MultiPresses DEF LabTools, OiTools
  <2>3. UiOK("multi-oi-volume", ui')
    BY <2>2 DEF UiOK, MultiOK
  <2>4. QED
    BY <1>1, <1>3, <1>8, <2>2, <2>3 DEF PagesInv, UiInv
<1>9. CASE page \in {"put-call-ratio", "max-pain", "price-vs-oi"}
  <2>1. UiOK(page, ui')
    BY <1>1, <1>5, <1>9, CurvePresses DEF UiOK, Pressed
  <2>2. QED
    BY <1>1, <1>3, <1>9, <2>1 DEF PagesInv, UiInv
<1>10. CASE page \notin LabTools
  <2>1. ui' \in Market!States(page)
    BY <1>1, <1>10 DEF Pressed, Market!Presses, LabTools, OiTools
  <2>2. UiOK(page, ui') /\ page # "multi-oi-volume"
    BY <1>10, <2>1 DEF UiOK, LabTools, OiTools
  <2>3. QED
    BY <1>1, <1>3, <2>2 DEF PagesInv, UiInv
<1>11. QED
  BY <1>6, <1>7, <1>8, <1>9, <1>10 DEF LabTools, OiTools

\* The requests of a feed when one of them has come back.
LEMMA AskedLess ==
  ASSUME NEW f \in DOMAIN hook, PagesInv, NEW k \in DOMAIN asked[f]
  PROVE  /\ asked[f][k] \in PayloadFor(f)
         /\ RemoveAt(asked[f], k) \in Seq(PayloadFor(f))
         /\ Len(RemoveAt(asked[f], k)) <= MaxAsked
<1>1. asked[f] \in Seq(PayloadFor(f)) /\ Len(asked[f]) <= MaxAsked
  BY DEF PagesInv, Typed, HookOK
<1>2. k \in 1..Len(asked[f])
  BY <1>1
<1>3. /\ RemoveAt(asked[f], k) \in Seq(PayloadFor(f))
      /\ Len(RemoveAt(asked[f], k)) = Len(asked[f]) - 1
  BY <1>1, <1>2, Removed
<1>4. QED
  BY <1>1, <1>2, <1>3, PagesAssumption

LEMMA AnswerStep ==
  ASSUME NEW k \in Slots, NEW j \in 1..MaxAsked, PagesInv, Answer(k, j)
  PROVE  PagesInv'
<1> DEFINE f == Feed(k)
           d == asked[f][j]
<1>1. /\ f \in Answers(page) /\ j \in DOMAIN asked[f]
      /\ hook' = [hook EXCEPT ![f] = Fetch!Answered(hook[f], d)]
      /\ ui' = IF page = "multi-oi-volume" THEN Multi!Rendered(ui, d) ELSE ui
      /\ asked' = [asked EXCEPT ![f] = RemoveAt(asked[f], j)]
      /\ UNCHANGED <<page, inst, presses, snaps>>
  BY DEF Answer
<1> HIDE DEF f
<1>2. f \in DOMAIN hook
  BY <1>1, PagesAssumption DEF PagesInv, Typed
<1>3. /\ d \in PayloadFor(f) /\ RemoveAt(asked[f], j) \in Seq(PayloadFor(f))
      /\ Len(RemoveAt(asked[f], j)) <= MaxAsked
  BY <1>1, <1>2, AskedLess
<1> HIDE DEF d
<1>4. hook[f] \in Fetch!Hooks(PayloadFor(f))
  BY <1>2 DEF PagesInv, Typed, HookOK
<1>5. /\ Fetch!Answered(hook[f], d) \in Fetch!Hooks(PayloadFor(f))
      /\ Fetch!Answered(hook[f], d).data = d
  BY <1>3, <1>4 DEF Fetch!Hooks, Fetch!Answered
<1>6. ASSUME NEW g \in DOMAIN hook  PROVE HookOK(g)'
  BY <1>1, <1>2, <1>3, <1>5 DEF PagesInv, Typed, HookOK
<1>7. Typed'
  BY <1>1, <1>6 DEF PagesInv, Typed
<1>8. CASE page = "multi-oi-volume"
  <2>1. f = "series" /\ d \in OwnPayload /\ hook["series"].data \in OwnPayload \cup {NoData}
    BY <1>2, <1>3, <1>4, <1>8, LabFeeds DEF PagesInv, Typed, LabTools, OiTools, Fetch!Hooks
  <2>2. hook'["series"].data = d
    BY <1>1, <1>2, <1>5, <2>1
  <2>3. MultiOK(ui', hook'["series"].data)
    BY <1>1, <1>8, <2>1, <2>2, MultiRendered DEF PagesInv, UiInv
  <2>4. UiOK("multi-oi-volume", ui')
    BY <2>3 DEF UiOK, MultiOK
  <2>5. QED
    BY <1>1, <1>7, <1>8, <2>3, <2>4 DEF PagesInv, UiInv
<1>9. CASE page # "multi-oi-volume"
  BY <1>1, <1>7, <1>9 DEF PagesInv, UiInv
<1>10. QED
  BY <1>8, <1>9

LEMMA FailStep ==
  ASSUME NEW k \in Slots, NEW j \in 1..MaxAsked, PagesInv, Fail(k, j)
  PROVE  PagesInv'
<1> DEFINE f == Feed(k)
<1>1. /\ f \in Fails(page) /\ j \in DOMAIN asked[f]
      /\ hook' = [hook EXCEPT ![f] = Fetch!Failed(hook[f])]
      /\ asked' = [asked EXCEPT ![f] = RemoveAt(asked[f], j)]
      /\ UNCHANGED <<page, inst, ui, presses, snaps>>
  BY DEF Fail
<1> HIDE DEF f
<1>2. f \in DOMAIN hook
  BY <1>1, PagesAssumption DEF PagesInv, Typed
<1>3. /\ RemoveAt(asked[f], j) \in Seq(PayloadFor(f))
      /\ Len(RemoveAt(asked[f], j)) <= MaxAsked
  BY <1>1, <1>2, AskedLess
<1>4. hook[f] \in Fetch!Hooks(PayloadFor(f))
  BY <1>2 DEF PagesInv, Typed, HookOK
<1>5. /\ Fetch!Failed(hook[f]) \in Fetch!Hooks(PayloadFor(f))
      /\ Fetch!Failed(hook[f]).data = hook[f].data
  BY <1>4 DEF Fetch!Hooks, Fetch!Failed
<1>6. ASSUME NEW g \in DOMAIN hook
      PROVE  HookOK(g)' /\ hook'[g].data = hook[g].data
  BY <1>1, <1>2, <1>3, <1>5 DEF PagesInv, Typed, HookOK
<1>7. Typed'
  BY <1>1, <1>6 DEF PagesInv, Typed
<1>8. page = "multi-oi-volume" => "series" \in DOMAIN hook
  BY LabFeeds DEF PagesInv, Typed, LabTools, OiTools
<1>9. QED
  BY <1>1, <1>6, <1>7, <1>8 DEF PagesInv, UiInv

LEMMA CycleStep ==
  ASSUME NEW dir \in {1, -1}, PagesInv, Cycle(dir)
  PROVE  \E i \in Instruments : Switches(i)
<1> DEFINE n == Cardinality(Instruments)
           i == ((inst - 1 + dir + n) % n) + 1
<1>1. n \in Nat /\ Instruments = 1..n /\ inst \in Instruments
  BY FS_CardinalityType, PagesAssumption DEF PagesInv, Typed
<1>2. n # 0 /\ inst - 1 + dir + n \in Int
  BY <1>1
<1>3. (inst - 1 + dir + n) % n \in 0..(n - 1)
  BY <1>1, <1>2
<1>4. i \in Instruments
  BY <1>1, <1>2, <1>3
<1>5. Switches(i)
  BY DEF Cycle
<1>6. QED
  BY <1>4, <1>5

\* Every step mounts another page, changes what is shown of this one, or its requests.
LEMMA PageSteps ==
  ASSUME PagesInv, Next
  PROVE  \/ \E p \in PageNames, i \in Instruments : p # page /\ Mounts(p, i)
         \/ \E i \in Instruments : Switches(i)
         \/ Press
         \/ \E feeds : Refetch(feeds)
         \/ \E k \in Slots, j \in 1..MaxAsked : Answer(k, j) \/ Fail(k, j)
         \/ Record
<1>1. inst \in Instruments /\ 1 \in Instruments
  <2>1. Cardinality(Instruments) \in Nat
    BY FS_CardinalityType, PagesAssumption
  <2>2. QED
    BY <2>1, PagesAssumption DEF PagesInv, Typed
<1>2. ASSUME NEW p \in Shown, Select(p)  PROVE p \in PageNames /\ p # page /\ Mounts(p, inst)
  BY <1>2, PagesAssumption DEF Select
<1>3. ASSUME NEW p \in Shown, FollowLink(p)
      PROVE  p \in PageNames /\ ((p # page /\ Mounts(p, 1)) \/ Switches(1))
  BY <1>3, PagesAssumption DEF FollowLink
<1>4. ASSUME NEW i \in Instruments, Pick(i)  PROVE Switches(i)
  BY <1>4 DEF Pick
<1>5. Cycle(1) \/ Cycle(-1) => \E i \in Instruments : Switches(i)
  BY CycleStep
<1>6. Retry => \E feeds : Refetch(feeds)
  BY DEF Retry
<1>7. ASSUME NEW k \in Slots, Poll(k)  PROVE \E feeds : Refetch(feeds)
  BY <1>7 DEF Poll
<1>8. QED
  BY <1>1, <1>2, <1>3, <1>4, <1>5, <1>6, <1>7 DEF Next

LEMMA PageNext ==
  ASSUME PagesInv, [Next]_vars
  PROVE  PagesInv'
<1>1. CASE \E p \in PageNames, i \in Instruments : p # page /\ Mounts(p, i)
  BY <1>1, MountStep DEF PagesInv
<1>2. CASE \E i \in Instruments : Switches(i)
  BY <1>2, SwitchStep
<1>3. CASE Press
  BY <1>3, PressStep
<1>4. CASE \E feeds : Refetch(feeds)
  BY <1>4, RefetchStep
<1>5. CASE \E k \in Slots, j \in 1..MaxAsked : Answer(k, j) \/ Fail(k, j)
  BY <1>5, AnswerStep, FailStep
<1>6. CASE Record
  BY <1>6, PagesAssumption DEF Record, PagesInv, Typed, UiInv, HookOK
<1>7. CASE UNCHANGED vars
  BY <1>7 DEF vars, PagesInv, Typed, UiInv, HookOK
<1>8. QED
  BY <1>1, <1>2, <1>3, <1>4, <1>5, <1>6, <1>7, PageSteps

LEMMA Starts == Init => PagesInv
<1> SUFFICES ASSUME Init  PROVE PagesInv
  OBVIOUS
<1>1. /\ page = "open-interest" /\ inst = 1 /\ ui = OI!Start /\ presses = 0 /\ snaps = FirstSnaps
      /\ hook = [f \in {"series"} |-> Fetch!Mounted]
      /\ asked = [f \in {"series"} |-> Asking(page, f, inst, << >>)]
  BY DEF Init
<1>2. 1 \in Instruments
  <2>1. Cardinality(Instruments) \in Nat
    BY FS_CardinalityType, PagesAssumption
  <2>2. QED
    BY <2>1, PagesAssumption
<1>3. page \in LabTools /\ page \in PageNames
  BY <1>1 DEF LabTools, OiTools, PageNames
<1>4. HookOK("series")
  <2>1. Fetch!Mounted \in Fetch!Hooks(PayloadFor("series"))
    BY DEF Fetch!Mounted, Fetch!Hooks
  <2>2. << >> \in Seq(PayloadFor("series")) /\ Len(<< >>) < MaxAsked
    BY PagesAssumption
  <2>3. snaps \in FirstSnaps..MaxSnaps
    BY <1>1, PagesAssumption
  <2>4. /\ Asking(page, "series", inst, << >>) \in Seq(PayloadFor("series"))
        /\ Len(Asking(page, "series", inst, << >>)) <= MaxAsked
    BY <1>1, <1>2, <2>2, <2>3, AskingOK
  <2>5. QED
    BY <1>1, <2>1, <2>4 DEF HookOK
<1>5. Typed
  BY <1>1, <1>2, <1>3, <1>4, LabFeeds, PagesAssumption DEF Typed
<1>6. UiInv
  <2>1. UiOK("open-interest", Start("open-interest"))
    BY <1>1, <1>3, StartOK
  <2>2. Start("open-interest") = OI!Start
    BY DEF Start
  <2>3. QED
    BY <1>1, <2>1, <2>2 DEF UiInv
<1>7. QED
  BY <1>5, <1>6 DEF PagesInv

LEMMA Inductive == Spec => []PagesInv
<1>1. PagesInv /\ [Next]_vars => PagesInv'
  BY PageNext
<1>2. QED
  BY <1>1, Starts, PTL DEF Spec

-----------------------------------------------------------------------------
\* Types.  Every page is in its states and has its hooks, whichever answers come late.
THEOREM TypeInvariance == Spec => []TypeOK
<1>1. ASSUME PagesInv  PROVE TypeOK
  <2>1. ASSUME NEW f \in DOMAIN hook
        PROVE  /\ hook[f] \in Fetch!Hooks(Payload)
               /\ asked[f] \in Seq(Payload) /\ Len(asked[f]) <= MaxAsked
    <3>1. HookOK(f) /\ PayloadFor(f) \subseteq Payload
      BY <1>1, LabFeeds DEF PagesInv, Typed
    <3>2. hook[f] \in Fetch!Hooks(Payload)
      BY <3>1 DEF HookOK, Fetch!Hooks
    <3>3. asked[f] \in Seq(Payload)
      BY <3>1 DEF HookOK
    <3>4. QED
      BY <3>1, <3>2, <3>3 DEF HookOK
  <2>2. QED
    BY <1>1, <2>1 DEF TypeOK, PagesInv, Typed, UiInv
<1>2. QED
  BY <1>1, Inductive, PTL

\* What is selected in Multi OI & Volume is of the instrument whose data is shown, and
\* is what the helper of open interest says while it is active, for any number of
\* instruments and requests under way.
THEOREM SelectionFollowsData == Spec => []SelectionIsOfShownData
<1>1. ASSUME PagesInv  PROVE SelectionIsOfShownData
  BY <1>1 DEF PagesInv, UiInv, MultiOK, FollowsShown, SelectionIsOfShownData, ContractsOf
<1>2. QED
  BY <1>1, Inductive, PTL

(***************************************************************************)
(* All in 1: what a card shows.                                            *)
(***************************************************************************)
CardFeeds == {"snapshot", "levels", "optionsMetrics", "chain", "signal"}

\* Feeds that no card can read: no snapshot has a strike at the money, no levels a pivot.
NeverSent(c) == c.snapshot.atm = None /\ c.levels.pivot = None

LEMMA CardFacts ==
  /\ Card!Cards = Market!Cards!Cards /\ Card!Sources = Market!Cards!Sources
  /\ \A card \in Card!Cards : Card!Sources[card] \subseteq CardFeeds
<1>1. Card!Cards = Market!Cards!Cards
  BY DEF Card!Cards, Market!Cards!Cards
<1>2. Card!Sources = Market!Cards!Sources
  BY DEF Card!Cards, Market!Cards!Cards, Card!Sources, Market!Cards!Sources
<1>3. \A card \in Card!Cards : Card!Sources[card] \subseteq CardFeeds
  BY DEF Card!Cards, Card!Sources, CardFeeds
<1>4. QED
  BY <1>1, <1>2, <1>3

\* A reading depends on the feeds that the card declares.
LEMMA ComputeReads ==
  ASSUME NEW card \in Card!Cards \ Undeclared, NEW c, NEW d, NeverSent(c), NeverSent(d),
         \A f \in Card!Sources[card] : c[f] = d[f]
  PROVE  Market!Cards!Compute(card, c) = Market!Cards!Compute(card, d)
<1>1. CASE card = "price-action"
  <2>1. c.snapshot = d.snapshot /\ c.levels.pivot = d.levels.pivot
    BY <1>1 DEF Card!Sources, Card!Cards, NeverSent
  <2>2. Market!Cards!PriceAction(c) = Market!Cards!PriceAction(d)
    BY <2>1 DEF Market!Cards!PriceAction
  <2>3. QED
    BY <1>1, <2>2 DEF Market!Cards!Compute
<1>2. CASE card = "india-vix"
  <2>1. c.snapshot = d.snapshot
    BY <1>2 DEF Card!Sources, Card!Cards
  <2>2. QED
    BY <1>2, <2>1 DEF Market!Cards!Compute, Market!Cards!IndiaVix
<1>3. CASE card \in {"open-interest", "pcr", "iv", "iv-rank"}
  <2>1. c.optionsMetrics = d.optionsMetrics
    BY <1>3 DEF Card!Sources, Card!Cards
  <2>2. QED
    BY <1>3, <2>1 DEF Market!Cards!Compute, Market!Cards!OpenInterest, Market!Cards!Pcr,
         Market!Cards!ImpliedVol, Market!Cards!IvRank
<1>4. CASE card = "magnet-zones"
  <2>1. c.chain = d.chain
    BY <1>4 DEF Card!Sources, Card!Cards
  <2>2. QED
    BY <1>4, <2>1 DEF Market!Cards!Compute, Market!Cards!MagnetZones
<1>5. CASE card = "liquidity"
  <2>1. c.chain = d.chain
    BY <1>5 DEF Card!Sources, Card!Cards
  <2>2. QED
    BY <1>5, <2>1 DEF Market!Cards!Compute, Market!Cards!Liquidity
<1>6. CASE card = "expected-move"
  <2>1. c.chain = d.chain /\ c.optionsMetrics = d.optionsMetrics /\ c.snapshot.atm = d.snapshot.atm
    BY <1>6 DEF Card!Sources, Card!Cards, NeverSent
  <2>2. QED
    BY <1>6, <2>1 DEF Market!Cards!Compute, Market!Cards!ExpectedMove
<1>7. CASE card \in {"risk-reward", "position-sizing", "trading-decision"}
  <2>1. c.signal = d.signal
    BY <1>7 DEF Card!Sources, Card!Cards
  <2>2. QED
    BY <1>7, <2>1 DEF Market!Cards!Compute, Market!Cards!RiskReward,
         Market!Cards!PositionSizing, Market!Cards!TradingDecision
<1>8. CASE card \in {"greeks", "gex", "volume-profile", "vwap", "atr", "event-risk"}
  BY <1>8 DEF Market!Cards!Compute
<1>9. QED
  BY <1>1, <1>2, <1>3, <1>4, <1>5, <1>6, <1>7, <1>8 DEF Card!Cards, Undeclared

\* What the page has of its feeds, as a function of its hooks.
Content(f, d) == IF d = NoData THEN Api!Nothing(f) ELSE Api!Received(f, Wire(f, d.inst))

ContentsFrom(h, i) ==
  [f \in DOMAIN h \cap Read |->
     IF h[f].data = NoData THEN NothingOf[f]
     ELSE PayloadOf[f][IF f \in Market!Global THEN i ELSE h[f].data.inst]]

CardHooks(h) ==
  DOMAIN h = CardFeeds /\ \A f \in CardFeeds : h[f].data \in OwnPayload \cup {NoData}

LEMMA CardContents ==
  ASSUME NEW h, CardHooks(h), NEW i
  PROVE  /\ \A f \in CardFeeds : ContentsFrom(h, i)[f] = Content(f, h[f].data)
         /\ NeverSent(ContentsFrom(h, i))
<1>1. CardFeeds \subseteq DOMAIN h \cap Read /\ CardFeeds \cap Market!Global = {}
  BY DEF CardHooks, CardFeeds, Read, Market!Global
<1>2. ASSUME NEW f \in CardFeeds
      PROVE  ContentsFrom(h, i)[f] = Content(f, h[f].data)
  <2>1. h[f].data # NoData => h[f].data.inst \in Instruments
    BY PayloadFacts DEF CardHooks
  <2>2. ContentsFrom(h, i)[f] = IF h[f].data = NoData THEN NothingOf[f]
                                ELSE PayloadOf[f][h[f].data.inst]
    BY <1>1 DEF ContentsFrom
  <2>3. NothingOf[f] = Api!Nothing(f)
    BY <1>1 DEF NothingOf
  <2>4. ASSUME NEW j \in Instruments  PROVE PayloadOf[f][j] = Api!Received(f, Wire(f, j))
    BY <1>1 DEF PayloadOf
  <2>5. QED
    BY <2>1, <2>2, <2>3, <2>4 DEF Content
<1>3. ASSUME NEW d \in OwnPayload \cup {NoData}
      PROVE  Content("snapshot", d).atm = None /\ Content("levels", d).pivot = None
  <2>1. CASE d = NoData
    BY <2>1 DEF Content, Api!Nothing, Api!Received, Api!Snapshot, Api!Levels, Api!Sent
  <2>2. CASE d # NoData
    <3>1. /\ "atm_strike" \notin DOMAIN Wire("snapshot", d.inst)
          /\ "pivot" \notin DOMAIN Wire("levels", d.inst)
      BY <2>2, PayloadFacts, ServerAssumption
    <3>2. QED
      BY <2>2, <3>1 DEF Content, Api!Received, Api!Snapshot, Api!Levels, Api!Sent
  <2>3. QED
    BY <2>1, <2>2
<1>4. NeverSent(ContentsFrom(h, i))
  BY <1>2, <1>3 DEF NeverSent, CardFeeds, CardHooks
<1>5. QED
  BY <1>2, <1>4

LEMMA CardReads ==
  ASSUME NEW card \in Card!Cards \ Undeclared, NEW g, NEW h, CardHooks(g), CardHooks(h),
         NEW i, NEW j,
         \A f \in Card!Sources[card] : g[f].data = h[f].data /\ g[f].error = h[f].error
  PROVE  Market!FactorCards(g, ContentsFrom(g, i))[card]
           = Market!FactorCards(h, ContentsFrom(h, j))[card]
<1> DEFINE c == ContentsFrom(g, i)
           d == ContentsFrom(h, j)
           sources == Card!Sources[card]
<1>1. sources \subseteq CardFeeds
  BY CardFacts
<1>2. NeverSent(c) /\ NeverSent(d) /\ \A f \in sources : c[f] = d[f]
  BY <1>1, CardContents
<1>3. Market!Cards!Compute(card, c) = Market!Cards!Compute(card, d)
  BY <1>2, ComputeReads
<1>4. ASSUME NEW f \in sources  PROVE Market!SourceStatus(g)[f] = Market!SourceStatus(h)[f]
  BY <1>1 DEF Market!SourceStatus, Market!Cards!StatusOf, CardHooks
<1>5. {Market!SourceStatus(g)[f] : f \in sources} = {Market!SourceStatus(h)[f] : f \in sources}
  BY <1>4
<1>6. Market!Cards!FactorStatus(card, Market!SourceStatus(g))
        = Market!Cards!FactorStatus(card, Market!SourceStatus(h))
  BY <1>5, CardFacts DEF Market!Cards!FactorStatus
<1> HIDE DEF c, d
<1>7. Market!Cards!FactorCard(card, Market!SourceStatus(g), c)
        = Market!Cards!FactorCard(card, Market!SourceStatus(h), d)
  BY <1>3, <1>6 DEF Market!Cards!FactorCard
<1>8. Market!FactorCards(g, c)[card] = Market!FactorCards(h, d)[card]
  BY <1>7, CardFacts DEF Market!FactorCards
<1>9. QED
  BY <1>8 DEF c, d

LEMMA AllInOneHooks ==
  ASSUME NEW p, p = "all-in-1"
  PROVE  ToSet(FeedsOf(p)) = CardFeeds /\ \A f \in CardFeeds : PayloadFor(f) = OwnPayload
<1>1. ToSet(FeedsOf(p)) = CardFeeds
  <2>1. FeedsOf(p) = <<"snapshot", "levels", "optionsMetrics", "chain", "signal">>
    BY DEF FeedsOf, LabTools, OiTools, Market!MarketNames, Market!Feeds
  <2>2. QED
    BY <2>1 DEF ToSet, CardFeeds
<1>2. QED
  BY <1>1 DEF PayloadFor, CardFeeds, Market!Global

\* A card of All in 1 changes only with the feeds that it declares, whatever the other
\* feeds of the page send or fail to send, and in which order.
THEOREM CardsStandAlone == Spec => OnlyItsFeeds
<1> DEFINE A == page = "all-in-1" /\ page' = page /\ hook' # hook =>
       \A card \in Card!Cards \ Undeclared :
         (\A f \in Card!Sources[card] : /\ hook'[f].data = hook[f].data
                                        /\ hook'[f].error = hook[f].error)
           => CardsShown'[card] = CardsShown[card]
<1>1. ASSUME PagesInv, PagesInv', page = "all-in-1", page' = page,
             NEW card \in Card!Cards \ Undeclared,
             \A f \in Card!Sources[card] : hook'[f].data = hook[f].data /\ hook'[f].error = hook[f].error
      PROVE  CardsShown'[card] = CardsShown[card]
  <2>1. CardHooks(hook)
    BY <1>1, AllInOneHooks DEF CardHooks, PagesInv, Typed, HookOK, Fetch!Hooks
  <2>2. CardHooks(hook')
    BY <1>1, AllInOneHooks DEF CardHooks, PagesInv, Typed, HookOK, Fetch!Hooks
  <2>3. /\ CardsShown = Market!FactorCards(hook, ContentsFrom(hook, inst))
        /\ CardsShown' = Market!FactorCards(hook', ContentsFrom(hook', inst'))
    BY DEF CardsShown, Contents, ContentsFrom
  <2>4. QED
    BY <1>1, <2>1, <2>2, <2>3, CardReads
<1>2. PagesInv /\ PagesInv' /\ [Next]_vars => [A]_vars
  BY <1>1
<1>3. QED
  BY <1>2, Inductive, PTL DEF Spec, OnlyItsFeeds

\* A card that has shown a reading keeps one while the page stays, whatever fails.
THEOREM CardsStay == Spec => CardsKeepTheirWord
<1> DEFINE A == page = "all-in-1" /\ page' = page =>
       \A card \in Card!Cards : CardStatus(card) = "ok" => CardStatus(card)' = "ok"
<1>1. ASSUME PagesInv, PagesInv', Next, page = "all-in-1", page' = page
      PROVE  \A f \in CardFeeds : hook[f].data # NoData => hook'[f].data # NoData
  <2>1. DOMAIN hook = CardFeeds
    BY <1>1, AllInOneHooks DEF PagesInv, Typed
  <2>2. ASSUME NEW p, NEW i, p # page, Mounts(p, i)  PROVE FALSE
    BY <1>1, <2>2 DEF Mounts, MountedAs
  <2>3. ASSUME NEW i \in Instruments, Switches(i), NEW f \in CardFeeds
        PROVE  hook'[f].data = hook[f].data
    <3>1. hook[f] \in Fetch!Hooks(PayloadFor(f))
      BY <1>1, <2>1 DEF PagesInv, Typed, HookOK
    <3>2. Fetch!Begun(hook[f], TRUE).data = hook[f].data
      BY <3>1 DEF Fetch!Begun, Fetch!Hooks
    <3>3. QED
      BY <2>1, <2>3, <3>2 DEF Switches
  <2>4. ASSUME NEW k \in Slots, NEW j \in 1..MaxAsked, Answer(k, j), NEW f \in CardFeeds,
               hook[f].data # NoData
        PROVE  hook'[f].data # NoData
    <3> DEFINE g == Feed(k)
    <3>1. /\ g \in Answers(page) /\ j \in DOMAIN asked[g]
          /\ hook' = [hook EXCEPT ![g] = Fetch!Answered(hook[g], asked[g][j])]
      BY <2>4 DEF Answer
    <3> HIDE DEF g
    <3>2. g \in DOMAIN hook
      BY <1>1, <3>1, PagesAssumption DEF PagesInv, Typed
    <3>3. asked[g][j] \in PayloadFor(g) /\ asked[g][j] # NoData
      BY <1>1, <3>1, <3>2, AskedLess, LabFeeds, PagesAssumption
    <3>4. hook[g] \in Fetch!Hooks(PayloadFor(g))
      BY <1>1, <3>2 DEF PagesInv, Typed, HookOK
    <3>5. Fetch!Answered(hook[g], asked[g][j]).data # NoData
      BY <3>3, <3>4 DEF Fetch!Answered, Fetch!Hooks
    <3>6. QED
      BY <2>1, <2>4, <3>1, <3>2, <3>5
  <2>5. ASSUME NEW k \in Slots, NEW j \in 1..MaxAsked, Fail(k, j), NEW f \in CardFeeds
        PROVE  hook'[f].data = hook[f].data
    <3> DEFINE g == Feed(k)
    <3>1. g \in Fails(page) /\ hook' = [hook EXCEPT ![g] = Fetch!Failed(hook[g])]
      BY <2>5 DEF Fail
    <3> HIDE DEF g
    <3>2. hook[f] \in Fetch!Hooks(PayloadFor(f))
      BY <1>1, <2>1 DEF PagesInv, Typed, HookOK
    <3>3. Fetch!Failed(hook[f]).data = hook[f].data
      BY <3>2 DEF Fetch!Failed, Fetch!Hooks
    <3>4. QED
      BY <2>1, <3>1, <3>3
  <2>6. CASE Press \/ (\E feeds : Refetch(feeds)) \/ Record
    BY <2>6 DEF Press, Refetch, Record
  <2>7. QED
    BY <1>1, <2>2, <2>3, <2>4, <2>5, <2>6, PageSteps
<1>2. ASSUME NEW card \in Card!Cards, NEW h, CardHooks(h),
             Card!FactorStatus(card, Market!SourceStatus(h)) = "ok"
      PROVE  \A f \in Card!Sources[card] : h[f].data # NoData
  <2>1. Card!Sources[card] \subseteq CardFeeds
    BY CardFacts
  <2>2. \A f \in CardFeeds : Market!SourceStatus(h)[f] = IF h[f].data # NoData THEN "ok"
                               ELSE IF h[f].error THEN "error" ELSE "loading"
    BY <1>2 DEF Market!SourceStatus, Market!Cards!StatusOf, CardHooks
  <2>3. \A f \in Card!Sources[card] : Market!SourceStatus(h)[f] \notin {"loading", "error"}
    BY <1>2 DEF Card!FactorStatus
  <2>4. QED
    BY <2>1, <2>2, <2>3
<1>3. ASSUME NEW card \in Card!Cards, NEW h, CardHooks(h),
             \A f \in Card!Sources[card] : h[f].data # NoData
      PROVE  Card!FactorStatus(card, Market!SourceStatus(h)) = "ok"
  <2>1. \A f \in Card!Sources[card] : Market!SourceStatus(h)[f] = "ok"
    BY <1>3, CardFacts DEF Market!SourceStatus, Market!Cards!StatusOf, CardHooks
  <2>2. QED
    BY <2>1 DEF Card!FactorStatus
<1>4. ASSUME PagesInv, PagesInv', [Next]_vars  PROVE A
  <2> SUFFICES ASSUME page = "all-in-1", page' = page, NEW card \in Card!Cards,
                      CardStatus(card) = "ok"
               PROVE  CardStatus(card)' = "ok"
    OBVIOUS
  <2>1. CardHooks(hook) /\ CardHooks(hook')
    BY <1>4, AllInOneHooks DEF CardHooks, PagesInv, Typed, HookOK, Fetch!Hooks
  <2>2. \A f \in CardFeeds : hook[f].data # NoData => hook'[f].data # NoData
    BY <1>1, <1>4 DEF vars
  <2>3. \A f \in Card!Sources[card] : hook[f].data # NoData
    BY <1>2, <2>1 DEF CardStatus
  <2>4. \A f \in Card!Sources[card] : hook'[f].data # NoData
    BY <2>2, <2>3, CardFacts
  <2>5. QED
    BY <1>3, <2>1, <2>4 DEF CardStatus
<1>5. PagesInv /\ PagesInv' /\ [Next]_vars => [A]_vars
  BY <1>4
<1>6. QED
  BY <1>5, Inductive, PTL DEF Spec, CardsKeepTheirWord

-----------------------------------------------------------------------------
(***************************************************************************)
(* The charts on their canvas.                                             *)
(***************************************************************************)

\* A canvas, and the properties of a chart, have these fields, whatever is in them.
Canvas(c) ==
  c = [series |-> c.series, band |-> c.band, marks |-> c.marks,
       lot |-> c.lot, zoom |-> c.zoom, off |-> c.off]

Fields == {"chain", "open", "spot", "atm", "pin", "filter", "mode", "lot", "walls", "flip",
           "lines", "n", "fut", "expired"}
Properties(p) == p = [field \in Fields |-> p[field]]

\* The unit on the axis of Open Interest.  prevShowLot lags behind the properties only
\* if the instance came late, and then it is what the first option was painted with.
LotInv ==
  kind = "oi" /\ mounted =>
    /\ instance /\ ~ready => seenLot = props.lot
    /\ ~instance => seenLot = first.lot
    /\ seenLot = props.lot \/ ~instance \/ canvas.lot = seenLot

ChartInv ==
  /\ kind \in {"oi", "gex", "pain", "lines"}
  /\ Properties(props) /\ props.lot \in BOOLEAN
  /\ Canvas(canvas)
  /\ ready => instance
  /\ instance => mounted /\ HasCanvas(props)
  /\ canvas.zoom => instance /\ zoomed
  /\ LotInv

\* What is painted on an instance.
LEMMA PaintedFields ==
  ASSUME NEW opt
  PROVE  LET c == Painted(opt) IN
         /\ Canvas(c)
         /\ c.series = opt.series /\ c.band = opt.band /\ c.marks = opt.marks
         /\ c.lot = opt.lot /\ c.zoom = FALSE /\ c.off = {}
BY DEF Painted, Canvas

\* setOption() leaves the zoom and the legend as they are.
LEMMA MergedFields ==
  ASSUME NEW c, Canvas(c), NEW opt
  PROVE  LET d == Merged(c, opt) IN
         /\ Canvas(d)
         /\ d.series = opt.series /\ d.band = opt.band /\ d.marks = opt.marks
         /\ d.lot \in {c.lot, opt.lot} /\ d.zoom = c.zoom /\ d.off = c.off
<1> DEFINE lot == IF Extent(opt.series) = Extent(c.series) THEN c.lot ELSE opt.lot
           d == [series |-> opt.series, band |-> opt.band, marks |-> opt.marks,
                 lot |-> lot, zoom |-> c.zoom, off |-> c.off]
<1>1. Merged(c, opt) = d
  <2>1. c = [series |-> c.series, band |-> c.band, marks |-> c.marks,
             lot |-> c.lot, zoom |-> c.zoom, off |-> c.off]
    BY DEF Canvas
  <2>2. Merged(c, opt) = [c EXCEPT !.series = opt.series, !.band = opt.band, !.marks = opt.marks,
                                   !.lot = lot]
    BY DEF Merged
  <2> HIDE DEF lot
  <2>3. QED
    BY <2>1, <2>2
<1>2. lot \in {c.lot, opt.lot}
  OBVIOUS
<1> HIDE DEF lot
<1>3. QED
  BY <1>1, <1>2 DEF Canvas

\* Only the option of Open Interest counts in lots.
LEMMA LotOfOption ==
  ASSUME NEW p
  PROVE  Option("oi", p).lot = p.lot
BY DEF Option, OiOption

\* An effect puts the option on the canvas.
LEMMA EffectFields ==
  ASSUME ChartInv, NEW opt
  PROVE  LET d == Effect(canvas, opt) IN
         /\ Canvas(d)
         /\ d.series = opt.series /\ d.band = opt.band /\ d.marks = opt.marks
         /\ d.lot \in {canvas.lot, opt.lot} /\ d.zoom \in {canvas.zoom, FALSE}
         /\ kind = "oi" /\ seenLot # opt.lot => d.lot = opt.lot
         /\ kind = "lines" => d.zoom = canvas.zoom /\ d.off = canvas.off
<1>1. Canvas(canvas) /\ kind \in {"oi", "gex", "pain", "lines"}
  BY DEF ChartInv
<1>2. CASE kind = "oi" /\ seenLot # opt.lot
  <2>1. Effect(canvas, opt) = Painted(opt)
    BY <1>2 DEF Effect, OiEffect
  <2>2. QED
    BY <1>2, <2>1, PaintedFields
<1>3. CASE ~(kind = "oi" /\ seenLot # opt.lot)
  <2>1. Effect(canvas, opt) = Merged(canvas, opt)
    BY <1>1, <1>3 DEF Effect, OiEffect, GexEffect, PainEffect, LinesEffect
  <2> DEFINE d == Merged(canvas, opt)
  <2>2. /\ Canvas(d)
        /\ d.series = opt.series /\ d.band = opt.band /\ d.marks = opt.marks
        /\ d.lot \in {canvas.lot, opt.lot} /\ d.zoom = canvas.zoom /\ d.off = canvas.off
    BY <1>1, MergedFields
  <2> HIDE DEF d
  <2>3. d.zoom \in {canvas.zoom, FALSE}
    BY <2>2
  <2>4. Effect(canvas, opt) = d
    BY <2>1 DEF d
  <2>5. QED
    BY <1>3, <2>2, <2>3, <2>4
<1>4. QED
  BY <1>2, <1>3

\* Of the properties, a step of a chart other than Open Interest changes the lot never,
\* and a poll of any chart neither.
NewProps ==
  /\ Properties(props') /\ props'.lot \in BOOLEAN
  /\ props'.lot = props.lot \/ kind = "oi"

LEMMA PropertiesSteps ==
  ASSUME ChartInv, PollLines \/ PollBars \/ Set
  PROVE  NewProps /\ Render
<1>0. Properties(props) /\ props.lot \in BOOLEAN
  BY DEF ChartInv
<1>1. ASSUME NEW field \in Fields \ {"lot"}, NEW v PROVE
        LET p == [props EXCEPT ![field] = v] IN Properties(p) /\ p.lot = props.lot
  BY <1>0 DEF Properties, Fields
<1>2. CASE PollLines
  <2>1. PICK n, fut : props' = [props EXCEPT !.n = n, !.fut = fut]
    BY <1>2 DEF PollLines
  <2>2. QED
    BY <1>0, <1>2, <2>1 DEF PollLines, Properties, Fields, NewProps
<1>3. CASE PollBars
  <2>1. PICK chain, s, over, pin :
          props' = [props EXCEPT !.chain = chain, !.spot = s, !.atm = AtmOf(s),
                                 !.expired = over, !.pin = pin]
    BY <1>3 DEF PollBars
  <2>2. QED
    BY <1>0, <1>3, <2>1 DEF PollBars, Properties, Fields, NewProps
<1>4. CASE Set
  <2>1. \/ \E field \in Fields \ {"lot"} : \E v : props' = [props EXCEPT ![field] = v]
        \/ kind = "oi" /\ props' = [props EXCEPT !.lot = ~props.lot]
    BY <1>4 DEF Set, Setting, ChartInv, Fields
  <2>2. CASE \E field \in Fields \ {"lot"} : \E v : props' = [props EXCEPT ![field] = v]
    BY <1>0, <1>1, <1>4, <2>2 DEF NewProps, Set
  <2>3. CASE kind = "oi" /\ props' = [props EXCEPT !.lot = ~props.lot]
    BY <1>0, <1>4, <2>3 DEF Properties, Fields, NewProps, Set
  <2>4. QED
    BY <2>1, <2>2, <2>3
<1>5. QED
  BY <1>2, <1>3, <1>4

\* A canvas the wrapper has just painted.
LEMMA BegunKeeps ==
  ASSUME NEW p, Begun(p)
  PROVE  /\ Canvas(canvas') /\ canvas'.zoom = FALSE
         /\ instance' \in BOOLEAN /\ (instance' => HasCanvas(p)) /\ ready' = FALSE
<1>1. canvas' = Painted(Option(kind, p)) \/ canvas' = Painted(NoOption)
  BY DEF Begun, Blank
<1>2. QED
  BY <1>1, PaintedFields DEF Begun

\* A render keeps the invariant.  If an instance was ready it is still there, with the
\* option of the new properties on it.
LEMMA RenderKeeps ==
  ASSUME ChartInv, NewProps, Render
  PROVE  /\ ChartInv'
         /\ ready /\ ready' =>
              /\ Shows(canvas', props')
              /\ props'.lot # props.lot => canvas'.lot = props'.lot
              /\ kind = "lines" => canvas'.zoom = canvas.zoom /\ canvas'.off = canvas.off
<1> DEFINE opt == Option(kind, props')
<1>1. /\ kind \in {"oi", "gex", "pain", "lines"} /\ Canvas(canvas) /\ (ready => instance)
      /\ (instance => mounted /\ HasCanvas(props)) /\ (canvas.zoom => instance /\ zoomed)
      /\ Properties(props') /\ props'.lot \in BOOLEAN /\ (props'.lot = props.lot \/ kind = "oi")
  BY DEF ChartInv, NewProps
<1>2. UNCHANGED <<kind, mounted, first, zoomed>>
  BY DEF Render
<1>3. kind = "oi" => opt.lot = props'.lot
  BY LotOfOption
<1> HIDE DEF opt
<1>4. CASE mounted /\ HasCanvas(props) /\ HasCanvas(props')
  <2>1. /\ canvas' = IF instance THEN Effect(canvas, opt) ELSE canvas
        /\ seenLot' = IF instance THEN props'.lot ELSE seenLot
        /\ UNCHANGED <<instance, ready>>
    BY <1>4 DEF Render, opt
  <2>2. HasCanvas(props)'
    BY <1>2, <1>4 DEF HasCanvas
  <2>3. CASE instance
    <3> DEFINE d == Effect(canvas, opt)
    <3>1. /\ Canvas(d)
          /\ d.series = opt.series /\ d.band = opt.band /\ d.marks = opt.marks
          /\ d.lot \in {canvas.lot, opt.lot} /\ d.zoom \in {canvas.zoom, FALSE}
          /\ kind = "oi" /\ seenLot # opt.lot => d.lot = opt.lot
          /\ kind = "lines" => d.zoom = canvas.zoom /\ d.off = canvas.off
      BY EffectFields
    <3> HIDE DEF d
    <3>2. canvas' = d /\ seenLot' = props'.lot
      BY <2>1, <2>3 DEF d
    <3>3. ASSUME ready, props'.lot # props.lot PROVE d.lot = props'.lot
      <4>1. kind = "oi" /\ opt.lot = props'.lot
        BY <1>1, <1>3, <3>3
      <4>2. seenLot = props.lot \/ canvas.lot = seenLot
        BY <1>1, <2>3, <4>1 DEF ChartInv, LotInv
      <4>3. CASE seenLot # opt.lot
        BY <3>1, <4>1, <4>3
      <4>4. CASE seenLot = opt.lot
        BY <3>1, <3>3, <4>1, <4>2, <4>4
      <4>5. QED
        BY <4>3, <4>4
    <3>4. canvas'.zoom => instance' /\ zoomed'
      BY <1>1, <1>2, <2>1, <3>1, <3>2
    <3>5. LotInv'
      BY <1>2, <2>1, <2>3, <3>2 DEF LotInv
    <3>6. ChartInv'
      BY <1>1, <1>2, <1>4, <2>1, <2>2, <3>1, <3>2, <3>4, <3>5 DEF ChartInv
    <3>7. Shows(canvas', props')
      BY <3>1, <3>2 DEF Shows, opt
    <3>8. QED
      BY <3>1, <3>2, <3>3, <3>6, <3>7
  <2>4. CASE ~instance
    <3>1. canvas' = canvas /\ seenLot' = seenLot /\ ~ready
      BY <1>1, <2>1, <2>4
    <3>2. LotInv'
      BY <1>2, <2>1, <2>4, <3>1 DEF ChartInv, LotInv
    <3>3. QED
      BY <1>1, <1>2, <2>1, <2>2, <2>4, <3>1, <3>2 DEF ChartInv
  <2>5. QED
    BY <2>3, <2>4
<1>5. CASE mounted /\ ~(HasCanvas(props) /\ HasCanvas(props'))
  <2>1. Begun(props')
    BY <1>5 DEF Render
  <2>2. /\ Canvas(canvas') /\ canvas'.zoom = FALSE
        /\ instance' \in BOOLEAN /\ (instance' => HasCanvas(props')) /\ ready' = FALSE
    BY <2>1, BegunKeeps
  <2>3. HasCanvas(props') => HasCanvas(props)'
    BY <1>2 DEF HasCanvas
  <2>4. kind = "lines"
    BY <1>5 DEF HasCanvas
  <2>5. LotInv'
    BY <1>2, <2>4 DEF LotInv
  <2>6. QED
    BY <1>1, <1>2, <1>5, <2>2, <2>3, <2>5 DEF ChartInv
<1>6. CASE ~mounted
  <2>1. UNCHANGED <<instance, canvas, ready>> /\ ~instance /\ ~ready
    BY <1>1, <1>6 DEF Render
  <2>2. LotInv'
    BY <1>2, <1>6 DEF LotInv
  <2>3. QED
    BY <1>1, <1>2, <2>1, <2>2 DEF ChartInv
<1>7. QED
  BY <1>4, <1>5, <1>6

\* The other steps keep it, and the properties of the chart.
LEMMA CanvasSteps ==
  ASSUME ChartInv, Mount \/ Unmount \/ Ready \/ Zoom \/ ResetZoom \/ Legend
  PROVE  ChartInv' /\ UNCHANGED props
<1>1. /\ kind \in {"oi", "gex", "pain", "lines"} /\ Canvas(canvas) /\ (ready => instance)
      /\ (instance => mounted /\ HasCanvas(props)) /\ (canvas.zoom => instance /\ zoomed)
      /\ Properties(props) /\ props.lot \in BOOLEAN
  BY DEF ChartInv
<1>2. UNCHANGED <<kind, props>>
  BY DEF Mount, Unmount, Ready, Zoom, ResetZoom, Legend
<1>3. HasCanvas(props)' <=> HasCanvas(props)
  BY <1>2 DEF HasCanvas
<1>4. CASE Mount
  <2>1. /\ Canvas(canvas') /\ canvas'.zoom = FALSE
        /\ instance' \in BOOLEAN /\ (instance' => HasCanvas(props)) /\ ready' = FALSE
    BY <1>4, BegunKeeps DEF Mount
  <2>2. mounted' /\ seenLot' = props.lot /\ first' = Option(kind, props)
    BY <1>4 DEF Mount
  <2>3. kind = "oi" => first'.lot = props.lot
    BY <2>2, LotOfOption
  <2>4. LotInv'
    BY <1>2, <2>1, <2>2, <2>3 DEF LotInv
  <2>5. QED
    BY <1>1, <1>2, <1>3, <2>1, <2>2, <2>4 DEF ChartInv
<1>5. CASE Unmount
  <2>1. Canvas(canvas') /\ canvas'.zoom = FALSE
    BY <1>5, PaintedFields DEF Unmount, Blank
  <2>2. QED
    BY <1>1, <1>2, <1>5, <2>1 DEF Unmount, ChartInv, LotInv
<1>6. CASE Ready
  <2>1. mounted /\ mounted' /\ HasCanvas(props) /\ instance' /\ UNCHANGED <<first, seenLot, zoomed>>
        /\ ~ready /\ ready'
    BY <1>1, <1>6 DEF Ready
  <2>2. CASE instance /\ canvas' = canvas
    <3>1. kind = "oi" => seenLot' = props'.lot
      BY <1>2, <2>1, <2>2 DEF ChartInv, LotInv
    <3>2. QED
      BY <1>1, <1>2, <1>3, <2>1, <2>2, <3>1 DEF ChartInv, LotInv
  <2>3. CASE canvas' = Painted(first)
    <3>1. Canvas(canvas') /\ canvas'.zoom = FALSE /\ canvas'.lot = first.lot
      BY <2>3, PaintedFields
    <3>2. kind = "oi" => seenLot' = props'.lot \/ canvas'.lot = seenLot'
      BY <1>2, <2>1, <3>1 DEF ChartInv, LotInv
    <3>3. QED
      BY <1>1, <1>2, <1>3, <2>1, <3>1, <3>2 DEF ChartInv, LotInv
  <2>4. QED
    BY <1>6, <2>2, <2>3 DEF Ready
<1>7. CASE Zoom \/ ResetZoom \/ Legend
  <2>1. kind = "lines" /\ ready /\ UNCHANGED <<mounted, instance, ready>>
    BY <1>7 DEF Zoom, ResetZoom, Legend, OnCanvas
  <2>2. \/ canvas' = [canvas EXCEPT !.zoom = TRUE] /\ zoomed'
        \/ canvas' = [canvas EXCEPT !.zoom = FALSE]
        \/ \E off : canvas' = [canvas EXCEPT !.off = off] /\ zoomed' = zoomed
    BY <1>7 DEF Zoom, ResetZoom, Legend
  <2>3. Canvas(canvas') /\ (canvas'.zoom => zoomed')
    <3>1. CASE canvas' = [canvas EXCEPT !.zoom = TRUE] /\ zoomed'
      BY <1>1, <3>1 DEF Canvas
    <3>2. CASE canvas' = [canvas EXCEPT !.zoom = FALSE]
      BY <1>1, <3>2 DEF Canvas
    <3>3. CASE \E off : canvas' = [canvas EXCEPT !.off = off] /\ zoomed' = zoomed
      BY <1>1, <3>3 DEF Canvas
    <3>4. QED
      BY <2>2, <3>1, <3>2, <3>3
  <2>4. LotInv'
    BY <1>2, <2>1 DEF LotInv
  <2>5. QED
    BY <1>1, <1>2, <1>3, <2>1, <2>3, <2>4 DEF ChartInv
<1>8. QED
  BY <1>2, <1>4, <1>5, <1>6, <1>7

\* Every step of a chart.
LEMMA ChartSteps ==
  ASSUME ChartInv, [ChartNext]_chartVars
  PROVE  /\ ChartInv'
         /\ ready /\ ready' /\ props' # props =>
              /\ Shows(canvas', props')
              /\ props'.lot # props.lot => canvas'.lot = props'.lot
              /\ kind = "lines" => canvas'.zoom = canvas.zoom /\ canvas'.off = canvas.off
<1>1. CASE PollLines \/ PollBars \/ Set
  BY <1>1, PropertiesSteps, RenderKeeps
<1>2. CASE Mount \/ Unmount \/ Ready \/ Zoom \/ ResetZoom \/ Legend
  BY <1>2, CanvasSteps
<1>3. CASE UNCHANGED chartVars
  BY <1>3 DEF chartVars, ChartInv, LotInv, Properties, Canvas, HasCanvas
<1>4. QED
  BY <1>1, <1>2, <1>3 DEF ChartNext

\* A chart starts without a canvas.
LEMMA InitChart ==
  ASSUME ChartInit
  PROVE  ChartInv
<1>1. Properties(props) /\ props.lot = FALSE
  BY DEF ChartInit, Props0, Properties, Fields
<1>2. Canvas(canvas) /\ canvas.zoom = FALSE
  BY PaintedFields DEF ChartInit, Blank
<1>3. kind \in {"oi", "gex", "pain", "lines"}
  BY ChartsAssumption DEF ChartInit
<1>4. QED
  BY <1>1, <1>2, <1>3 DEF ChartInit, ChartInv, LotInv

\* Once the canvas is there, each render puts on it what it is given (the effects of
\* OpenInterestChart, GexChart, MaxPainChart and MultiLineChart), for any chains, spots,
\* gamma and settings; a toggle of Show Lot is seen on the axis, whenever the instance came.
THEOREM EachRenderIsPainted == ChartSpec => PaintedIsCurrent
<1>1. ChartInv /\ [ChartNext]_chartVars =>
        [ready /\ ready' /\ props' # props =>
           /\ Shows(canvas', props')
           /\ props'.lot # props.lot => canvas'.lot = props'.lot]_chartVars
  BY ChartSteps
<1>2. ChartInv /\ [ChartNext]_chartVars => ChartInv'
  BY ChartSteps
<1>3. ChartInit => ChartInv
  BY InitChart
<1>4. QED
  BY <1>1, <1>2, <1>3, PTL DEF ChartSpec, PaintedIsCurrent

\* No poll and no setting undoes a zoom or a line hidden in the legend (MultiLineChart),
\* and a zoomed chart has its way back.
THEOREM TheViewIsKept == ChartSpec => ViewKept
<1>1. ChartInv /\ [ChartNext]_chartVars =>
        [/\ ready /\ ready' /\ props' # props /\ kind = "lines" =>
              canvas'.zoom = canvas.zoom /\ canvas'.off = canvas.off
         /\ ready' /\ canvas'.zoom => zoomed']_chartVars
  <2> SUFFICES ASSUME ChartInv, [ChartNext]_chartVars
               PROVE  /\ ready /\ ready' /\ props' # props /\ kind = "lines" =>
                           canvas'.zoom = canvas.zoom /\ canvas'.off = canvas.off
                      /\ ready' /\ canvas'.zoom => zoomed'
    OBVIOUS
  <2>1. ChartInv'
    BY ChartSteps
  <2>2. QED
    BY <2>1, ChartSteps DEF ChartInv
<1>2. ChartInv /\ [ChartNext]_chartVars => ChartInv'
  BY ChartSteps
<1>3. ChartInit => ChartInv
  BY InitChart
<1>4. QED
  BY <1>1, <1>2, <1>3, PTL DEF ChartSpec, ViewKept

-----------------------------------------------------------------------------
(***************************************************************************)
(* Induction, as facts about sets: a set of naturals, or of the subsets of *)
(* a finite set, that is closed under one more.                            *)
(***************************************************************************)
LEMMA LeastNatural ==
  ASSUME NEW T, T \subseteq Nat, T # {}
  PROVE  \E n \in T : \A m \in T : n <= m
<1>1. PICK n \in T : \A m \in T : ~(<<m, n>> \in OpToRel(<, Nat))
  BY NatLessThanWellFounded, WFMin
<1>2. \A m \in T : n <= m
  <2> SUFFICES ASSUME NEW m \in T  PROVE n <= m
    OBVIOUS
  <2>1. m \in Nat /\ n \in Nat
    OBVIOUS
  <2>2. ~(m < n)
    BY <1>1, <2>1 DEF OpToRel
  <2>3. QED
    BY <2>1, <2>2
<1>3. QED
  BY <1>2

LEMMA ByInduction ==
  ASSUME NEW T, 0 \in T, \A n \in Nat : n \in T => n + 1 \in T
  PROVE  \A n \in Nat : n \in T
<1> SUFFICES ASSUME NEW n0 \in Nat, n0 \notin T  PROVE FALSE
  OBVIOUS
<1>1. PICK n \in Nat \ T : \A m \in Nat \ T : n <= m
  BY LeastNatural
<1>2. n # 0
  OBVIOUS
<1>3. n - 1 \in Nat /\ n - 1 \in T
  BY <1>1, <1>2
<1>4. n \in T
  BY <1>3
<1>5. QED
  BY <1>4

LEMMA BySubsets ==
  ASSUME NEW S, IsFiniteSet(S), NEW G, {} \in G,
         \A U \in SUBSET S : \A x \in S \ U : U \in G => U \cup {x} \in G
  PROVE  S \in G
<1> DEFINE Bad == (SUBSET S) \ G
           Sizes == {n \in Nat : \E U \in Bad : Cardinality(U) = n}
<1> SUFFICES ASSUME S \notin G  PROVE FALSE
  OBVIOUS
<1>1. \A U \in SUBSET S : IsFiniteSet(U) /\ Cardinality(U) \in Nat
  BY FS_Subset, FS_CardinalityType
<1>2. Sizes # {}
  <2>1. S \in Bad /\ Cardinality(S) \in Nat
    BY <1>1
  <2>2. QED
    BY <2>1
<1>3. PICK n \in Sizes : \A m \in Sizes : n <= m
  BY <1>2, LeastNatural
<1>4. PICK U \in Bad : Cardinality(U) = n
  BY <1>3
<1>5. PICK x : x \in U
  BY <1>4
<1>6. U \ {x} \in SUBSET S /\ Cardinality(U \ {x}) = n - 1 /\ n - 1 \in Nat
  <2>1. IsFiniteSet(U) /\ Cardinality(U) \in Nat /\ x \in U
    BY <1>1, <1>4, <1>5
  <2>2. IsFiniteSet(U \ {x}) /\ Cardinality(U \ {x}) = n - 1
    BY <1>4, <2>1, FS_RemoveElement
  <2>3. Cardinality(U \ {x}) \in Nat
    BY <2>2, FS_CardinalityType
  <2>4. QED
    BY <1>4, <2>2, <2>3
<1>7. U \ {x} \in G
  BY <1>3, <1>6
<1>8. (U \ {x}) \cup {x} = U /\ x \in S \ (U \ {x})
  BY <1>4, <1>5
<1>9. QED
  BY <1>4, <1>6, <1>7, <1>8

\* A finite set of integers has a greatest and a least member.
LEMMA Greatest ==
  ASSUME NEW S, S \subseteq Int, IsFiniteSet(S), S # {}
  PROVE  /\ Max(S) \in S /\ \A x \in S : x <= Max(S)
         /\ Min(S) \in S /\ \A x \in S : Min(S) <= x
<1> DEFINE G == {U \in SUBSET S :
                   U # {} => /\ \E m \in U : \A x \in U : x <= m
                             /\ \E m \in U : \A x \in U : m <= x}
<1>1. {} \in G
  OBVIOUS
<1>2. ASSUME NEW U \in SUBSET S, NEW y \in S \ U, U \in G  PROVE U \cup {y} \in G
  <2>1. CASE U = {}
    BY <2>1
  <2>2. CASE U # {}
    <3>1. PICK a \in U : \A x \in U : x <= a
      BY <1>2, <2>2
    <3>2. PICK b \in U : \A x \in U : b <= x
      BY <1>2, <2>2
    <3>3. a \in Int /\ b \in Int /\ y \in Int
      OBVIOUS
    <3>4. \E m \in U \cup {y} : \A x \in U \cup {y} : x <= m
      <4>1. CASE a <= y
        BY <3>1, <3>3, <4>1
      <4>2. CASE ~(a <= y)
        BY <3>1, <3>3, <4>2
      <4>3. QED
        BY <4>1, <4>2
    <3>5. \E m \in U \cup {y} : \A x \in U \cup {y} : m <= x
      <4>1. CASE y <= b
        BY <3>2, <3>3, <4>1
      <4>2. CASE ~(y <= b)
        BY <3>2, <3>3, <4>2
      <4>3. QED
        BY <4>1, <4>2
    <3>6. QED
      BY <3>4, <3>5
  <2>3. QED
    BY <2>1, <2>2
<1> HIDE DEF G
<1>3. S \in G
  BY <1>1, <1>2, BySubsets
<1>4. /\ \E m \in S : \A x \in S : m >= x
      /\ \E m \in S : \A x \in S : m <= x
  BY <1>3 DEF G
<1>5. Max(S) \in S /\ \A x \in S : Max(S) >= x
  BY <1>4 DEF Max
<1>6. Min(S) \in S /\ \A x \in S : Min(S) <= x
  BY <1>4 DEF Min
<1>7. QED
  BY <1>5, <1>6
-----------------------------------------------------------------------------
(***************************************************************************)
(* Sums.  A sum is a fold, whose order is that of CHOOSE; it is the same   *)
(* in every order.                                                         *)
(***************************************************************************)
Picked(T) == CHOOSE x \in T : TRUE

IsFold(sum, f, S) ==
  sum = [T \in SUBSET S |-> IF T = {} THEN 0 ELSE f[Picked(T)] + sum[T \ {Picked(T)}]]

Fold(f, S) == CHOOSE sum : IsFold(sum, f, S)

Total(f) == Fold(f, DOMAIN f)[DOMAIN f]

Ints(S) == [S -> Int]

\* The fold is the function its equation asks for, with integers for values.
LEMMA FoldExists ==
  ASSUME NEW S, IsFiniteSet(S), NEW f \in Ints(S)
  PROVE  \E sum : IsFold(sum, f, S)
<1> DEFINE Good(n) == {U \in SUBSET S : Cardinality(U) <= n}
           EqN(sum, n) == sum = [T \in Good(n) |-> IF T = {} THEN 0
                                   ELSE f[Picked(T)] + sum[T \ {Picked(T)}]]
           Ok == {n \in Nat : \E sum \in [Good(n) -> Int] : EqN(sum, n)}
<1>0. \A U \in SUBSET S : IsFiniteSet(U) /\ Cardinality(U) \in Nat /\ (Cardinality(U) = 0 <=> U = {})
  BY FS_Subset, FS_CardinalityType, FS_EmptySet
<1>a. \A T \in SUBSET S : T # {} => /\ Picked(T) \in T /\ T \ {Picked(T)} \in SUBSET S
                                    /\ Cardinality(T \ {Picked(T)}) = Cardinality(T) - 1
  BY <1>0, FS_RemoveElement DEF Picked
<1>b. \A T \in SUBSET S : T # {} => f[Picked(T)] \in Int
  BY <1>a DEF Ints
<1>1. 0 \in Ok
  <2> DEFINE zero == [T \in Good(0) |-> 0]
  <2>1. \A T \in Good(0) : T = {}
    BY <1>0
  <2>2. EqN(zero, 0) /\ zero \in [Good(0) -> Int]
    BY <2>1
  <2>3. QED
    BY <2>2
<1>2. ASSUME NEW n \in Nat, n \in Ok  PROVE n + 1 \in Ok
  <2>1. PICK sum \in [Good(n) -> Int] : EqN(sum, n)
    BY <1>2
  <2> DEFINE more == [T \in Good(n + 1) |-> IF T = {} THEN 0
                                   ELSE f[Picked(T)] + sum[T \ {Picked(T)}]]
  <2>2. \A T \in Good(n + 1) : T # {} => T \ {Picked(T)} \in Good(n)
    BY <1>0, <1>a
  <2>3. more \in [Good(n + 1) -> Int]
    BY <1>b, <2>2
  <2>4. \A T \in Good(n) : T \in Good(n + 1) /\ more[T] = sum[T]
    <3>1. \A T \in Good(n) : sum[T] = IF T = {} THEN 0 ELSE f[Picked(T)] + sum[T \ {Picked(T)}]
      BY <2>1
    <3>2. \A T \in Good(n) : T \in Good(n + 1)
      BY <1>0
    <3>3. QED
      BY <3>1, <3>2
  <2>5. EqN(more, n + 1)
    BY <2>2, <2>4
  <2> HIDE DEF more, Good, EqN
  <2>6. \E g \in [Good(n + 1) -> Int] : EqN(g, n + 1)
    BY <2>3, <2>5
  <2>7. QED
    BY <2>6
<1> HIDE DEF Ok
<1>3. Cardinality(S) \in Ok
  BY <1>0, <1>1, <1>2, ByInduction
<1>4. Good(Cardinality(S)) = SUBSET S
  BY FS_Subset
<1>5. QED
  BY <1>3, <1>4 DEF Ok, IsFold

LEMMA FoldEquation ==
  ASSUME NEW S, IsFiniteSet(S), NEW f \in Ints(S)
  PROVE  /\ \A T \in SUBSET S : Fold(f, S)[T] \in Int
         /\ Fold(f, S)[{}] = 0
         /\ \A T \in SUBSET S : T # {} =>
              Fold(f, S)[T] = f[Picked(T)] + Fold(f, S)[T \ {Picked(T)}]
<1> DEFINE sum == Fold(f, S)
           Ok == {n \in Nat : \A T \in SUBSET S : Cardinality(T) = n => sum[T] \in Int}
<1>1. IsFold(sum, f, S)
  BY FoldExists DEF Fold
<1> HIDE DEF sum
<1>2. \A T \in SUBSET S : sum[T] = IF T = {} THEN 0 ELSE f[Picked(T)] + sum[T \ {Picked(T)}]
  BY <1>1 DEF IsFold
<1>3. \A T \in SUBSET S : IsFiniteSet(T) /\ Cardinality(T) \in Nat /\ (Cardinality(T) = 0 <=> T = {})
  BY FS_Subset, FS_CardinalityType, FS_EmptySet
<1>4. \A T \in SUBSET S : T # {} => /\ Picked(T) \in T /\ T \ {Picked(T)} \in SUBSET S
                                    /\ Cardinality(T \ {Picked(T)}) = Cardinality(T) - 1
  BY <1>3, FS_RemoveElement DEF Picked
<1>5. 0 \in Ok
  <2>1. \A T \in SUBSET S : Cardinality(T) = 0 => sum[T] = 0
    BY <1>2, <1>3
  <2>2. QED
    BY <2>1
<1>6. ASSUME NEW n \in Nat, n \in Ok  PROVE n + 1 \in Ok
  <2> SUFFICES ASSUME NEW T \in SUBSET S, Cardinality(T) = n + 1  PROVE sum[T] \in Int
    OBVIOUS
  <2>1. T # {}
    BY <1>3
  <2>2. Cardinality(T \ {Picked(T)}) = n
    BY <1>4, <2>1
  <2>3. sum[T \ {Picked(T)}] \in Int /\ f[Picked(T)] \in Int
    BY <1>4, <1>6, <2>1, <2>2 DEF Ints
  <2>4. QED
    BY <1>2, <2>1, <2>3
<1> HIDE DEF Ok
<1>7. \A n \in Nat : n \in Ok
  BY <1>5, <1>6, ByInduction
<1>8. \A T \in SUBSET S : sum[T] \in Int
  BY <1>3, <1>7 DEF Ok
<1>9. QED
  BY <1>2, <1>8 DEF sum

\* Any member may be taken out first.
LEMMA FoldStep ==
  ASSUME NEW S, IsFiniteSet(S), NEW f \in Ints(S), NEW T \in SUBSET S, NEW x \in T
  PROVE  Fold(f, S)[T] = f[x] + Fold(f, S)[T \ {x}]
<1> DEFINE sum == Fold(f, S)
           Ok == {n \in Nat : \A U \in SUBSET S : Cardinality(U) = n =>
                                \A y \in U : sum[U] = f[y] + sum[U \ {y}]}
<1>1. \A U \in SUBSET S : sum[U] \in Int
  BY FoldEquation
<1>2. \A U \in SUBSET S : U # {} => sum[U] = f[Picked(U)] + sum[U \ {Picked(U)}]
  BY FoldEquation
<1> HIDE DEF sum
<1>3. \A U \in SUBSET S : IsFiniteSet(U) /\ Cardinality(U) \in Nat /\ (Cardinality(U) = 0 <=> U = {})
  BY FS_Subset, FS_CardinalityType, FS_EmptySet
<1>4. \A U \in SUBSET S : \A y \in U : /\ Picked(U) \in U /\ U \ {y} \in SUBSET S
                                    /\ Cardinality(U \ {y}) = Cardinality(U) - 1
                                    /\ f[y] \in Int
  BY <1>3, FS_RemoveElement DEF Picked, Ints
<1>5. 0 \in Ok
  BY <1>3
<1>6. ASSUME NEW n \in Nat, n \in Ok  PROVE n + 1 \in Ok
  <2> SUFFICES ASSUME NEW U \in SUBSET S, Cardinality(U) = n + 1, NEW y \in U
               PROVE  sum[U] = f[y] + sum[U \ {y}]
    OBVIOUS
  <2> DEFINE p == Picked(U)
  <2>1. p \in U /\ sum[U] = f[p] + sum[U \ {p}]
    BY <1>2, <1>4
  <2> HIDE DEF p
  <2>2. CASE p = y
    BY <2>1, <2>2
  <2>3. CASE p # y
    <3>1. /\ U \ {p} \in SUBSET S /\ Cardinality(U \ {p}) = n
          /\ U \ {y} \in SUBSET S /\ Cardinality(U \ {y}) = n
      BY <1>4, <2>1
    <3>2. y \in U \ {p} /\ p \in U \ {y}
      BY <2>1, <2>3
    <3>3. \A V \in SUBSET S : Cardinality(V) = n => \A z \in V : sum[V] = f[z] + sum[V \ {z}]
      BY <1>6
    <3>4. sum[U \ {p}] = f[y] + sum[(U \ {p}) \ {y}]
      BY <3>1, <3>2, <3>3
    <3>5. sum[U \ {y}] = f[p] + sum[(U \ {y}) \ {p}]
      BY <3>1, <3>2, <3>3
    <3>6. (U \ {y}) \ {p} = (U \ {p}) \ {y} /\ (U \ {p}) \ {y} \in SUBSET S
      OBVIOUS
    <3>7. sum[(U \ {p}) \ {y}] \in Int /\ f[y] \in Int /\ f[p] \in Int
      BY <1>1, <1>4, <2>1, <3>6
    <3> DEFINE rest == sum[(U \ {p}) \ {y}]
               noP == sum[U \ {p}]
               noY == sum[U \ {y}]
    <3>8. noP = f[y] + rest /\ noY = f[p] + rest /\ sum[U] = f[p] + noP
      BY <2>1, <3>4, <3>5, <3>6
    <3>9. rest \in Int /\ f[y] \in Int /\ f[p] \in Int
      BY <3>7
    <3> HIDE DEF rest, noP, noY
    <3>10. sum[U] = f[y] + noY
      BY <3>8, <3>9
    <3>11. QED
      BY <3>10 DEF noY
  <2>4. QED
    BY <2>2, <2>3
<1> HIDE DEF Ok
<1>7. Cardinality(T) \in Ok
  BY <1>3, <1>5, <1>6, ByInduction
<1>8. QED
  BY <1>7 DEF Ok, sum

LEMMA FoldAdd ==
  ASSUME NEW S, IsFiniteSet(S), NEW f \in Ints(S), NEW T \in SUBSET S, NEW x \in S \ T
  PROVE  Fold(f, S)[T \cup {x}] = f[x] + Fold(f, S)[T]
<1>1. T \cup {x} \in SUBSET S /\ x \in T \cup {x} /\ (T \cup {x}) \ {x} = T
  OBVIOUS
<1>2. Fold(f, S)[T \cup {x}] = f[x] + Fold(f, S)[(T \cup {x}) \ {x}]
  BY <1>1, FoldStep
<1>3. QED
  BY <1>1, <1>2

\* Terms that are zero may be left out.
LEMMA FoldOfPart ==
  ASSUME NEW S, IsFiniteSet(S), NEW f \in Ints(S), NEW P \in SUBSET S, NEW g \in Ints(P),
         \A x \in P : g[x] = f[x], \A x \in S \ P : f[x] = 0
  PROVE  Fold(g, P)[P] = Fold(f, S)[S]
<1> DEFINE F == Fold(f, S)
           G == Fold(g, P)
           Ok == {U \in SUBSET S : F[U] = G[U \cap P]}
<1>1. IsFiniteSet(P)
  BY FS_Subset
<1>2. {} \in Ok
  <2>1. F[{}] = 0 /\ G[{}] = 0
    BY <1>1, FoldEquation
  <2>2. {} \cap P = {}
    OBVIOUS
  <2>3. QED
    BY <2>1, <2>2
<1>3. ASSUME NEW U \in SUBSET S, NEW x \in S \ U, U \in Ok  PROVE U \cup {x} \in Ok
  <2>1. F[U \cup {x}] = f[x] + F[U] /\ F[U] \in Int
    BY FoldAdd, FoldEquation
  <2>2. F[U] = G[U \cap P] /\ U \cap P \in SUBSET P
    BY <1>3
  <2>3. CASE x \in P
    <3>1. x \in P \ (U \cap P) /\ (U \cup {x}) \cap P = (U \cap P) \cup {x}
      BY <2>3
    <3>2. G[(U \cap P) \cup {x}] = g[x] + G[U \cap P]
      BY <1>1, <2>2, <3>1, FoldAdd
    <3>3. F[U \cup {x}] = G[(U \cup {x}) \cap P]
      BY <2>1, <2>2, <2>3, <3>1, <3>2
    <3>4. QED
      BY <3>3
  <2>4. CASE x \notin P
    <3>1. (U \cup {x}) \cap P = U \cap P /\ f[x] = 0
      BY <2>4
    <3>2. F[U \cup {x}] = F[U]
      BY <2>1, <3>1
    <3>3. G[(U \cup {x}) \cap P] = G[U \cap P]
      BY <3>1
    <3>4. QED
      BY <2>2, <3>2, <3>3
  <2>5. QED
    BY <2>3, <2>4
<1> HIDE DEF Ok, F, G
<1>4. S \in Ok
  BY <1>2, <1>3, BySubsets
<1>5. F[S] = G[S \cap P] /\ S \cap P = P
  BY <1>4 DEF Ok
<1>6. QED
  BY <1>5 DEF F, G

LEMMA FoldPlus ==
  ASSUME NEW S, IsFiniteSet(S), NEW f \in Ints(S), NEW g \in Ints(S), NEW h \in Ints(S),
         \A x \in S : h[x] = f[x] + g[x]
  PROVE  Fold(h, S)[S] = Fold(f, S)[S] + Fold(g, S)[S]
<1> DEFINE F == Fold(f, S)
           G == Fold(g, S)
           H == Fold(h, S)
           Ok == {U \in SUBSET S : H[U] = F[U] + G[U]}
<1>1. {} \in Ok
  <2>1. F[{}] = 0 /\ G[{}] = 0 /\ H[{}] = 0
    BY FoldEquation
  <2>2. QED
    BY <2>1
<1>2. ASSUME NEW U \in SUBSET S, NEW x \in S \ U, U \in Ok  PROVE U \cup {x} \in Ok
  <2>0. f[x] \in Int /\ g[x] \in Int
    BY DEF Ints
  <2>1. F[U \cup {x}] = f[x] + F[U] /\ F[U] \in Int
    BY FoldAdd, FoldEquation
  <2>2. G[U \cup {x}] = g[x] + G[U] /\ G[U] \in Int
    BY FoldAdd, FoldEquation
  <2>3. H[U \cup {x}] = h[x] + H[U] /\ h[x] = f[x] + g[x] /\ H[U] = F[U] + G[U]
    BY <1>2, FoldAdd
  <2> HIDE DEF F, G, H
  <2>4. H[U \cup {x}] = F[U \cup {x}] + G[U \cup {x}]
    BY <2>0, <2>1, <2>2, <2>3
  <2>5. QED
    BY <2>4
<1> HIDE DEF Ok
<1>3. S \in Ok
  BY <1>1, <1>2, BySubsets
<1>4. QED
  BY <1>3 DEF Ok

LEMMA FoldLeq ==
  ASSUME NEW S, IsFiniteSet(S), NEW f \in Ints(S), NEW g \in Ints(S),
         \A x \in S : f[x] <= g[x]
  PROVE  Fold(f, S)[S] <= Fold(g, S)[S]
<1> DEFINE F == Fold(f, S)
           G == Fold(g, S)
           Ok == {U \in SUBSET S : F[U] <= G[U]}
<1>1. {} \in Ok
  <2>1. F[{}] = 0 /\ G[{}] = 0
    BY FoldEquation
  <2>2. QED
    BY <2>1
<1>2. ASSUME NEW U \in SUBSET S, NEW x \in S \ U, U \in Ok  PROVE U \cup {x} \in Ok
  <2>0. f[x] \in Int /\ g[x] \in Int
    BY DEF Ints
  <2>1. F[U \cup {x}] = f[x] + F[U] /\ F[U] \in Int
    BY FoldAdd, FoldEquation
  <2>2. G[U \cup {x}] = g[x] + G[U] /\ G[U] \in Int
    BY FoldAdd, FoldEquation
  <2>3. f[x] <= g[x] /\ F[U] <= G[U]
    BY <1>2
  <2> HIDE DEF F, G
  <2>4. F[U \cup {x}] <= G[U \cup {x}]
    BY <2>0, <2>1, <2>2, <2>3
  <2>5. QED
    BY <2>4
<1> HIDE DEF Ok
<1>3. S \in Ok
  BY <1>1, <1>2, BySubsets
<1>4. QED
  BY <1>3 DEF Ok
-----------------------------------------------------------------------------
(***************************************************************************)
(* Functions of the integers that rise, or fall.                           *)
(***************************************************************************)
LEMMA Climb ==
  ASSUME NEW f \in [Int -> Int], NEW a \in Int, NEW b \in Int, a <= b,
         \A i \in a..(b - 1) : f[i] <= f[i + 1]
  PROVE  f[a] <= f[b]
<1> DEFINE Ok == {n \in Nat : a + n <= b => f[a] <= f[a + n]}
<1>1. 0 \in Ok
  OBVIOUS
<1>2. ASSUME NEW n \in Nat, n \in Ok  PROVE n + 1 \in Ok
  <2> SUFFICES ASSUME a + (n + 1) <= b  PROVE f[a] <= f[a + (n + 1)]
    OBVIOUS
  <2>1. f[a] <= f[a + n] /\ a + n \in a..(b - 1)
    BY <1>2
  <2>2. f[a + n] <= f[(a + n) + 1] /\ (a + n) + 1 = a + (n + 1)
    BY <2>1
  <2>3. QED
    BY <2>1, <2>2
<1> HIDE DEF Ok
<1>3. b - a \in Ok
  BY <1>1, <1>2, ByInduction
<1>4. a + (b - a) = b
  OBVIOUS
<1>5. QED
  BY <1>3, <1>4 DEF Ok

LEMMA Descend ==
  ASSUME NEW f \in [Int -> Int], NEW a \in Int, NEW b \in Int, a <= b,
         \A i \in a..(b - 1) : f[i] >= f[i + 1]
  PROVE  f[a] >= f[b]
<1> DEFINE g == [i \in Int |-> -f[i]]
<1>1. g \in [Int -> Int] /\ \A i \in Int : g[i] = -f[i] /\ f[i] \in Int
  OBVIOUS
<1> HIDE DEF g
<1>2. \A i \in a..(b - 1) : g[i] <= g[i + 1]
  BY <1>1
<1>3. g[a] <= g[b]
  BY <1>1, <1>2, Climb
<1>4. QED
  BY <1>1, <1>3

\* A function whose slope never falls, and changes at the members of D only, is a
\* valley: its least value at a member of D is its least value.
Convex(cost, slope, D) ==
  \A E \in Int : /\ cost[E + 1] = cost[E] + slope[E]
                 /\ slope[E] <= slope[E + 1]
                 /\ E + 1 \notin D => slope[E + 1] = slope[E]

LEMMA Valley ==
  ASSUME NEW D, D \subseteq Int, IsFiniteSet(D), NEW pin \in D,
         NEW cost \in [Int -> Int], NEW slope \in [Int -> Int],
         Convex(cost, slope, D), \A k \in D : cost[pin] <= cost[k]
  PROVE  \A E \in Min(D)..Max(D) :
           /\ cost[E] >= cost[pin]
           /\ E < pin => cost[E] >= cost[E + 1]
           /\ pin <= E /\ E # Max(D) => cost[E] <= cost[E + 1]
<1>1. /\ Max(D) \in D /\ \A x \in D : x <= Max(D)
      /\ Min(D) \in D /\ \A x \in D : Min(D) <= x
  BY Greatest
<1>b. Min(D) \in Int /\ Max(D) \in Int
  BY <1>1
<1>a. \A E \in Int : cost[E + 1] = cost[E] + slope[E] /\ cost[E] \in Int /\ slope[E] \in Int
  BY DEF Convex
<1>2. \A a, b \in Int : a <= b => slope[a] <= slope[b]
  <2> SUFFICES ASSUME NEW a \in Int, NEW b \in Int, a <= b  PROVE slope[a] <= slope[b]
    OBVIOUS
  <2>1. \A i \in a..(b - 1) : slope[i] <= slope[i + 1]
    BY DEF Convex
  <2>2. QED
    BY <2>1, Climb
<1>3. ASSUME NEW a \in Int, NEW b \in Int, a <= b, \A i \in (a + 1)..b : i \notin D
      PROVE  slope[a] = slope[b]
  <2>1. \A i \in a..(b - 1) : i + 1 \in (a + 1)..b
    OBVIOUS
  <2>2. \A i \in a..(b - 1) : slope[i] >= slope[i + 1]
    BY <1>3, <2>1 DEF Convex
  <2>3. slope[a] >= slope[b]
    BY <1>3, <2>2, Descend
  <2>4. slope[a] <= slope[b]
    BY <1>2, <1>3
  <2>5. slope[a] \in Int /\ slope[b] \in Int
    OBVIOUS
  <2>6. QED
    BY <2>3, <2>4, <2>5
<1>4. ASSUME NEW E \in Min(D)..Max(D), E < pin  PROVE slope[E] <= 0
  <2> SUFFICES ASSUME slope[E] > 0  PROVE FALSE
    OBVIOUS
  <2> DEFINE below == {x \in D : x <= E}
             k == Max(below)
  <2>1. below \in SUBSET D /\ below \subseteq Int /\ below # {}
    <3>1. Min(D) \in below
      BY <1>1, <1>b
    <3>2. QED
      BY <3>1
  <2>a. IsFiniteSet(below)
    BY <2>1, FS_Subset
  <2>2. k \in below /\ \A x \in below : x <= k
    BY <2>1, <2>a, Greatest
  <2> HIDE DEF k
  <2>3. k \in D /\ k \in Int /\ k <= E
    BY <2>2
  <2>4. \A i \in (k + 1)..E : i \notin D
    BY <2>2, <2>3
  <2>5. slope[k] = slope[E]
    BY <1>3, <2>3, <2>4
  <2>6. \A i \in Int : k <= i => slope[i] > 0
    BY <1>2, <2>3, <2>5
  <2>7. cost[k] < cost[k + 1]
    BY <1>a, <2>3, <2>6
  <2>8. \A i \in (k + 1)..(pin - 1) : cost[i] <= cost[i + 1]
    BY <1>a, <2>3, <2>6
  <2>9. k + 1 \in Int /\ pin \in Int /\ k + 1 <= pin
    BY <1>4, <2>3
  <2>10. cost[k + 1] <= cost[pin]
    BY <2>8, <2>9, Climb
  <2>11. QED
    BY <1>a, <2>3, <2>7, <2>9, <2>10
<1>5. ASSUME NEW E \in Min(D)..Max(D), pin <= E, E # Max(D)  PROVE slope[E] >= 0
  <2> SUFFICES ASSUME slope[E] < 0  PROVE FALSE
    OBVIOUS
  <2> DEFINE above == {x \in D : x > E}
             t == Min(above)
  <2>1. above \in SUBSET D /\ above \subseteq Int /\ above # {}
    <3>1. Max(D) \in above
      BY <1>1, <1>b, <1>5
    <3>2. QED
      BY <3>1
  <2>a. IsFiniteSet(above)
    BY <2>1, FS_Subset
  <2>2. t \in above /\ \A x \in above : t <= x
    BY <2>1, <2>a, Greatest
  <2> HIDE DEF t
  <2>3. t \in D /\ t \in Int /\ E < t /\ t - 1 \in Int /\ E <= t - 1
    BY <2>2
  <2>4. \A i \in (E + 1)..(t - 1) : i \notin D
    BY <2>2, <2>3
  <2>5. slope[t - 1] = slope[E]
    BY <1>3, <2>3, <2>4
  <2>6. \A i \in Int : i <= t - 1 => slope[i] < 0
    BY <1>2, <2>3, <2>5
  <2>7. cost[t] < cost[t - 1]
    <3>1. cost[(t - 1) + 1] = cost[t - 1] + slope[t - 1] /\ (t - 1) + 1 = t
      BY <1>a, <2>3
    <3>2. slope[t - 1] < 0 /\ slope[t - 1] \in Int /\ cost[t - 1] \in Int
      BY <1>a, <2>3, <2>6
    <3>3. QED
      BY <3>1, <3>2
  <2>8. \A i \in pin..((t - 1) - 1) : cost[i] >= cost[i + 1]
    BY <1>a, <2>3, <2>6
  <2>9. pin \in Int /\ pin <= t - 1
    BY <1>5, <2>3
  <2>10. cost[pin] >= cost[t - 1]
    BY <2>3, <2>8, <2>9, Descend
  <2>11. QED
    BY <1>a, <2>3, <2>7, <2>9, <2>10
<1>6. pin \in Int /\ Min(D) <= pin /\ pin <= Max(D) /\ Max(D) \in Int /\ Min(D) \in Int
  BY <1>1
<1>7. \A E \in Min(D)..Max(D) : E < pin => cost[E] >= cost[E + 1]
  BY <1>4, <1>6, <1>a
<1>8. \A E \in Min(D)..Max(D) : pin <= E /\ E # Max(D) => cost[E] <= cost[E + 1]
  BY <1>5, <1>6, <1>a
<1>9. ASSUME NEW E \in Min(D)..Max(D)  PROVE cost[E] >= cost[pin]
  <2>1. CASE pin <= E
    <3>1. \A i \in pin..(E - 1) : i \in Min(D)..Max(D) /\ pin <= i /\ i # Max(D)
      BY <1>6
    <3>2. \A i \in pin..(E - 1) : cost[i] <= cost[i + 1]
      BY <1>8, <3>1
    <3>3. E \in Int /\ pin \in Int /\ pin <= E
      BY <1>6, <2>1
    <3>4. cost[pin] <= cost[E]
      BY <3>2, <3>3, Climb
    <3>5. QED
      BY <1>a, <3>3, <3>4
  <2>2. CASE E < pin
    <3>1. \A i \in E..(pin - 1) : i \in Min(D)..Max(D) /\ i < pin
      BY <1>6
    <3>2. \A i \in E..(pin - 1) : cost[i] >= cost[i + 1]
      BY <1>7, <3>1
    <3>3. E \in Int /\ E <= pin /\ pin \in Int
      BY <1>6, <2>2
    <3>4. QED
      BY <3>2, <3>3, Descend
  <2>3. QED
    BY <1>6, <2>1, <2>2
<1>10. QED
  BY <1>7, <1>8, <1>9
-----------------------------------------------------------------------------
(***************************************************************************)
(* Max pain.                                                               *)
(***************************************************************************)
OfOptions(chain) ==
  /\ DOMAIN chain \subseteq Int /\ IsFiniteSet(DOMAIN chain) /\ DOMAIN chain # {}
  /\ \A k \in DOMAIN chain : chain[k].call \in Nat /\ chain[k].put \in Nat

LEMMA SumIsTotal ==
  ASSUME NEW f
  PROVE  PainLib!SumFunction(f) = Total(f) /\ GexLib!SumFunction(f) = Total(f)
<1>1. PainLib!SumFunction(f) = Total(f)
  BY DEF PainLib!SumFunction, PainLib!SumFunctionOnSet, PainLib!FoldFunctionOnSet,
         PainLib!MapThenFoldSet, Total, Fold, IsFold, Picked
<1>2. GexLib!SumFunction(f) = Total(f)
  BY DEF GexLib!SumFunction, GexLib!SumFunctionOnSet, GexLib!FoldFunctionOnSet,
         GexLib!MapThenFoldSet, Total, Fold, IsFold, Picked
<1>3. QED
  BY <1>1, <1>2

\* What a settlement at E pays to the holders at strike k, and how that changes by one.
CallPay(chain, E) ==
  [k \in DOMAIN chain |-> IF k < E THEN chain[k].call * (E - k) ELSE 0]
PutPay(chain, E) ==
  [k \in DOMAIN chain |-> IF k > E THEN chain[k].put * (k - E) ELSE 0]
Pay(chain, E) ==
  [k \in DOMAIN chain |-> IF k < E THEN chain[k].call * (E - k)
                          ELSE IF k > E THEN chain[k].put * (k - E) ELSE 0]
PaySlope(chain, E) ==
  [k \in DOMAIN chain |-> IF k <= E THEN chain[k].call ELSE -chain[k].put]

LEMMA PainIsTotal ==
  ASSUME NEW chain, OfOptions(chain), NEW E \in Int
  PROVE  PainLib!Pain(chain, E) = Fold(Pay(chain, E), DOMAIN chain)[DOMAIN chain]
<1> DEFINE D == DOMAIN chain
           calls == {k \in D : k < E}
           puts == {k \in D : k > E}
           c == [k \in calls |-> chain[k].call * (E - k)]
           p == [k \in puts |-> chain[k].put * (k - E)]
<1>1. /\ IsFiniteSet(D) /\ D \subseteq Int
      /\ \A k \in D : chain[k].call \in Int /\ chain[k].put \in Int
  BY DEF OfOptions
<1>2. \A k \in D : chain[k].call * (E - k) \in Int /\ chain[k].put * (k - E) \in Int
  BY <1>1
<1>3. /\ c \in Ints(calls) /\ p \in Ints(puts)
      /\ CallPay(chain, E) \in Ints(D) /\ PutPay(chain, E) \in Ints(D) /\ Pay(chain, E) \in Ints(D)
  BY <1>2 DEF Ints, CallPay, PutPay, Pay
<1>4. Fold(c, calls)[calls] = Fold(CallPay(chain, E), D)[D]
  <2>1. calls \in SUBSET D /\ \A k \in calls : c[k] = CallPay(chain, E)[k]
    BY DEF CallPay
  <2>2. \A k \in D \ calls : CallPay(chain, E)[k] = 0
    BY DEF CallPay
  <2> HIDE DEF c, calls
  <2>3. QED
    BY <1>1, <1>3, <2>1, <2>2, FoldOfPart
<1>5. Fold(p, puts)[puts] = Fold(PutPay(chain, E), D)[D]
  <2>1. puts \in SUBSET D /\ \A k \in puts : p[k] = PutPay(chain, E)[k]
    BY DEF PutPay
  <2>2. \A k \in D \ puts : PutPay(chain, E)[k] = 0
    BY DEF PutPay
  <2> HIDE DEF p, puts
  <2>3. QED
    BY <1>1, <1>3, <2>1, <2>2, FoldOfPart
<1>6. Fold(Pay(chain, E), D)[D] = Fold(CallPay(chain, E), D)[D] + Fold(PutPay(chain, E), D)[D]
  <2>1. \A k \in D : Pay(chain, E)[k] = CallPay(chain, E)[k] + PutPay(chain, E)[k]
    BY <1>1, <1>2 DEF Pay, CallPay, PutPay
  <2>2. QED
    BY <1>1, <1>3, <2>1, FoldPlus
<1>7. PainLib!CallPain(chain, E) = Fold(c, calls)[calls]
  <2>1. PainLib!CallPain(chain, E) = Total(c)
    BY SumIsTotal DEF PainLib!CallPain
  <2>2. DOMAIN c = calls
    OBVIOUS
  <2> HIDE DEF c, calls
  <2>3. QED
    BY <2>1, <2>2 DEF Total
<1>8. PainLib!PutPain(chain, E) = Fold(p, puts)[puts]
  <2>1. PainLib!PutPain(chain, E) = Total(p)
    BY SumIsTotal DEF PainLib!PutPain
  <2>2. DOMAIN p = puts
    OBVIOUS
  <2> HIDE DEF p, puts
  <2>3. QED
    BY <2>1, <2>2 DEF Total
<1> HIDE DEF c, p, calls, puts
<1>9. QED
  BY <1>4, <1>5, <1>6, <1>7, <1>8 DEF PainLib!Pain

LEMMA PainIsConvex ==
  ASSUME NEW chain, OfOptions(chain)
  PROVE  LET cost == [E \in Int |-> PainLib!Pain(chain, E)]
             slope == [E \in Int |-> Fold(PaySlope(chain, E), DOMAIN chain)[DOMAIN chain]]
         IN  /\ cost \in [Int -> Int] /\ slope \in [Int -> Int]
             /\ Convex(cost, slope, DOMAIN chain)
<1> DEFINE D == DOMAIN chain
           cost == [E \in Int |-> PainLib!Pain(chain, E)]
           slope == [E \in Int |-> Fold(PaySlope(chain, E), D)[D]]
<1>1. /\ IsFiniteSet(D) /\ D \subseteq Int
      /\ \A k \in D : /\ chain[k].call \in Int /\ chain[k].call >= 0
                      /\ chain[k].put \in Int /\ chain[k].put >= 0
  BY DEF OfOptions
<1>2. \A E \in Int : \A k \in D : chain[k].call * (E - k) \in Int /\ chain[k].put * (k - E) \in Int
  BY <1>1
<1>3. \A E \in Int : Pay(chain, E) \in Ints(D) /\ PaySlope(chain, E) \in Ints(D)
  BY <1>1, <1>2 DEF Ints, Pay, PaySlope
<1>4. \A E \in Int : /\ cost[E] = Fold(Pay(chain, E), D)[D] /\ cost[E] \in Int
                     /\ slope[E] = Fold(PaySlope(chain, E), D)[D] /\ slope[E] \in Int
  <2> SUFFICES ASSUME NEW E \in Int
               PROVE  /\ cost[E] = Fold(Pay(chain, E), D)[D] /\ cost[E] \in Int
                      /\ slope[E] = Fold(PaySlope(chain, E), D)[D] /\ slope[E] \in Int
    OBVIOUS
  <2>1. D \in SUBSET D
    OBVIOUS
  <2>2. Fold(Pay(chain, E), D)[D] \in Int
    BY <1>1, <1>3, <2>1, FoldEquation
  <2>3. Fold(PaySlope(chain, E), D)[D] \in Int
    BY <1>1, <1>3, <2>1, FoldEquation
  <2>4. QED
    BY <2>2, <2>3, PainIsTotal
<1>5. cost \in [Int -> Int] /\ slope \in [Int -> Int]
  BY <1>4
<1> HIDE DEF cost, slope
<1>6. ASSUME NEW E \in Int  PROVE cost[E + 1] = cost[E] + slope[E]
  <2>1. E + 1 \in Int
    OBVIOUS
  <2>2. \A n, m \in Int : n * ((E + 1) - m) = n * (E - m) + n /\ n * (m - (E + 1)) = n * (m - E) - n
    OBVIOUS
  <2>3. \A k \in D : Pay(chain, E + 1)[k] = Pay(chain, E)[k] + PaySlope(chain, E)[k]
    <3> SUFFICES ASSUME NEW k \in D
                 PROVE  Pay(chain, E + 1)[k] = Pay(chain, E)[k] + PaySlope(chain, E)[k]
      OBVIOUS
    <3>1. k \in Int /\ chain[k].call \in Int /\ chain[k].put \in Int
      BY <1>1
    <3>2. CASE k < E
      <4>1. /\ Pay(chain, E + 1)[k] = chain[k].call * ((E + 1) - k)
            /\ Pay(chain, E)[k] = chain[k].call * (E - k) /\ PaySlope(chain, E)[k] = chain[k].call
        BY <3>1, <3>2 DEF Pay, PaySlope
      <4>2. QED
        BY <2>2, <3>1, <4>1
    <3>3. CASE k = E
      BY <3>1, <3>3 DEF Pay, PaySlope
    <3>4. CASE k = E + 1
      BY <3>1, <3>4 DEF Pay, PaySlope
    <3>5. CASE k > E + 1
      BY <2>2, <3>1, <3>5 DEF Pay, PaySlope
    <3>6. QED
      BY <3>1, <3>2, <3>3, <3>4, <3>5
  <2>4. Fold(Pay(chain, E + 1), D)[D] = Fold(Pay(chain, E), D)[D] + Fold(PaySlope(chain, E), D)[D]
    BY <1>1, <1>3, <2>1, <2>3, FoldPlus
  <2>5. QED
    BY <1>4, <2>1, <2>4
<1>7. ASSUME NEW E \in Int  PROVE slope[E] <= slope[E + 1]
  <2>1. E + 1 \in Int /\ \A k \in D : PaySlope(chain, E)[k] <= PaySlope(chain, E + 1)[k]
    BY <1>1 DEF PaySlope
  <2>2. Fold(PaySlope(chain, E), D)[D] <= Fold(PaySlope(chain, E + 1), D)[D]
    BY <1>1, <1>3, <2>1, FoldLeq
  <2>3. QED
    BY <1>4, <2>1, <2>2
<1>8. ASSUME NEW E \in Int, E + 1 \notin D  PROVE slope[E + 1] = slope[E]
  <2>1. \A k \in D : k <= E <=> k <= E + 1
    BY <1>1, <1>8
  <2>2. PaySlope(chain, E + 1) = PaySlope(chain, E)
    BY <2>1 DEF PaySlope
  <2>3. QED
    BY <1>4, <2>2
<1>9. Convex(cost, slope, D)
  BY <1>6, <1>7, <1>8 DEF Convex
<1>10. QED
  BY <1>5, <1>9 DEF cost, slope

LEMMA PinIsLeast ==
  ASSUME NEW chain, OfOptions(chain)
  PROVE  LET pin == PainLib!MaxPainStrike(chain) IN
         /\ pin \in DOMAIN chain
         /\ \A k \in DOMAIN chain : PainLib!Pain(chain, pin) <= PainLib!Pain(chain, k)
<1> DEFINE D == DOMAIN chain
           costs == {PainLib!Pain(chain, k) : k \in D}
           best == {k \in D : \A j \in D : PainLib!Pain(chain, k) <= PainLib!Pain(chain, j)}
<1>1. IsFiniteSet(D) /\ D \subseteq Int /\ D # {}
  BY DEF OfOptions
<1>2. \A k \in D : PainLib!Pain(chain, k) \in Int
  BY <1>1, PainIsConvex
<1>3. costs \subseteq Int /\ costs # {}
  BY <1>1, <1>2
<1>4. IsFiniteSet(costs)
  <2> DEFINE cost == [k \in D |-> PainLib!Pain(chain, k)]
  <2>1. cost \in Surjection(D, costs)
    BY DEF Surjection
  <2>2. QED
    BY <1>1, <2>1, FS_Surjection
<1>5. Min(costs) \in costs /\ \A x \in costs : Min(costs) <= x
  BY <1>3, <1>4, Greatest
<1>6. PICK k \in D : PainLib!Pain(chain, k) = Min(costs)
  BY <1>5
<1>7. best # {} /\ best \in SUBSET D
  BY <1>5, <1>6
<1>8. IsFiniteSet(best) /\ best \subseteq Int
  BY <1>1, <1>7, FS_Subset
<1>9. PainLib!MaxPainStrike(chain) = PainLib!Min(best)
  BY DEF PainLib!MaxPainStrike
<1>10. PainLib!Min(best) = Min(best)
  BY DEF PainLib!Min, Min
<1> HIDE DEF best
<1>11. Min(best) \in best
  BY <1>7, <1>8, Greatest
<1>12. QED
  BY <1>9, <1>10, <1>11 DEF best

(***************************************************************************)
(* The pin of every sample is the foot of a valley (LabCharts!PainIsLeast):*)
(* maxPainStrike() looks at the strikes only.                              *)
(***************************************************************************)
THEOREM PinCostsLeast == ChartSpec => []PainIsLeast
<1>1. ASSUME NEW chain \in Samples
      PROVE  LET pin == PainLib!MaxPainStrike(chain)
                 cost == [E \in Min(DOMAIN chain)..Max(DOMAIN chain) |-> PainLib!Pain(chain, E)]
             IN  /\ \A E \in DOMAIN cost : cost[E] >= cost[pin]
                 /\ \A E \in DOMAIN cost \ {Max(DOMAIN cost)} :
                      IF E < pin THEN cost[E] >= cost[E + 1] ELSE cost[E] <= cost[E + 1]
  <2> DEFINE D == DOMAIN chain
             pin == PainLib!MaxPainStrike(chain)
             cost == [E \in Min(D)..Max(D) |-> PainLib!Pain(chain, E)]
             all == [E \in Int |-> PainLib!Pain(chain, E)]
             slope == [E \in Int |-> Fold(PaySlope(chain, E), D)[D]]
  <2>1. OfOptions(chain) /\ IsFiniteSet(D) /\ D \subseteq Int /\ D # {}
    BY SamplesAssumption DEF OfOptions
  <2>2. all \in [Int -> Int] /\ slope \in [Int -> Int] /\ Convex(all, slope, D)
    BY <2>1, PainIsConvex
  <2>3. pin \in D /\ \A k \in D : PainLib!Pain(chain, pin) <= PainLib!Pain(chain, k)
    BY <2>1, PinIsLeast
  <2>4. \A k \in D : all[pin] <= all[k]
    BY <2>1, <2>3
  <2> HIDE DEF slope, pin
  <2>5. \A E \in Min(D)..Max(D) :
           /\ all[E] >= all[pin]
           /\ E < pin => all[E] >= all[E + 1]
           /\ pin <= E /\ E # Max(D) => all[E] <= all[E + 1]
    <3> HIDE DEF all
    <3>1. QED
      BY <2>1, <2>2, <2>3, <2>4, Valley
  <2>6. /\ Min(D) \in Int /\ Max(D) \in Int /\ Min(D) <= pin /\ pin <= Max(D) /\ pin \in Int
    BY <2>1, <2>3, Greatest
  <2>7. \A E \in Min(D)..Max(D) : cost[E] = all[E] /\ (E # Max(D) => E + 1 \in Min(D)..Max(D))
    BY <2>6
  <2>8. DOMAIN cost = Min(D)..Max(D) /\ pin \in Min(D)..Max(D)
    BY <2>6
  <2>9. Max(DOMAIN cost) = Max(D)
    <3>1. Max(Min(D)..Max(D)) = Max(D)
      <4> DEFINE lo == Min(D)
                 hi == Max(D)
      <4>1. lo \in Int /\ hi \in Int /\ lo <= hi
        BY <2>6
      <4> HIDE DEF lo, hi
      <4>a. IsFiniteSet(lo..hi)
        BY <4>1, FS_Interval
      <4>2. lo..hi \subseteq Int /\ lo..hi # {} /\ hi \in lo..hi
        BY <4>1
      <4>3. Max(lo..hi) \in lo..hi /\ hi <= Max(lo..hi)
        BY <4>a, <4>2, Greatest
      <4>4. Max(lo..hi) = hi
        BY <4>1, <4>3
      <4>5. QED
        BY <4>4 DEF lo, hi
    <3>2. QED
      BY <2>8, <3>1
  <2> HIDE DEF cost, all
  <2>10. \A E \in DOMAIN cost : cost[E] >= cost[pin]
    BY <2>5, <2>7, <2>8
  <2>11. \A E \in DOMAIN cost \ {Max(DOMAIN cost)} :
           IF E < pin THEN cost[E] >= cost[E + 1] ELSE cost[E] <= cost[E + 1]
    BY <2>5, <2>6, <2>7, <2>8, <2>9
  <2>12. QED
    BY <2>10, <2>11 DEF cost, pin
<1>2. PainIsLeast
  BY <1>1 DEF PainIsLeast
<1>3. QED
  BY <1>2, PTL
-----------------------------------------------------------------------------
(***************************************************************************)
(* The flip.                                                               *)
(***************************************************************************)
LEMMA Signs ==
  ASSUME NEW x \in Int, NEW y \in Int
  PROVE  /\ x * y < 0 <=> (x < 0 /\ y > 0) \/ (x > 0 /\ y < 0)
         /\ x * y > 0 <=> (x < 0 /\ y < 0) \/ (x > 0 /\ y > 0)
<1>1. CASE x = 0
  BY <1>1
<1>2. CASE x > 0
  BY <1>2
<1>3. CASE x < 0
  BY <1>3
<1>4. QED
  BY <1>1, <1>2, <1>3

LEMMA Quotient ==
  ASSUME NEW d \in Nat, NEW n \in Nat \ {0}, NEW i \in 0..n
  PROVE  (d * i) \div n \in 0..d
<1> DEFINE x == d * i
           q == x \div n
<1>1. x \in Nat /\ x <= d * n
  BY SMT
<1>2. q \in Int /\ n * q <= x /\ x < n * q + n
  BY <1>1
<1> HIDE DEF x, q
<1>3. q >= 0
  <2> SUFFICES ASSUME q <= -1  PROVE FALSE
    BY <1>2
  <2>1. n * q <= -n
    BY <1>2
  <2>2. QED
    BY <1>1, <1>2, <2>1
<1>4. q <= d
  <2> SUFFICES ASSUME q >= d + 1  PROVE FALSE
    BY <1>2
  <2>1. n * q >= n * d + n
    BY <1>2
  <2>2. n * d = d * n
    OBVIOUS
  <2>3. QED
    BY <1>1, <1>2, <2>1, <2>2
<1>5. QED
  BY <1>2, <1>3, <1>4 DEF q, x

\* The prices between the lowest strike and the highest, at which the profile is an integer.
Prices(chain) == Min(DOMAIN chain)..Max(DOMAIN chain)

LEMMA Profile ==
  ASSUME NEW chain \in Samples
  PROVE  /\ DOMAIN chain \subseteq Nat /\ IsFiniteSet(DOMAIN chain)
         /\ Min(DOMAIN chain) \in Nat /\ Max(DOMAIN chain) \in Nat
         /\ Min(DOMAIN chain) <= Max(DOMAIN chain)
         /\ \A S \in Prices(chain) : GexLib!NetAt(chain, S) \in Int
         /\ \A i \in 0..Steps : GexLib!ScanPoint(chain, i) \in Prices(chain)
<1> DEFINE D == DOMAIN chain
<1>1. D \subseteq Nat /\ D \subseteq Int /\ IsFiniteSet(D) /\ D # {}
  BY SamplesAssumption
<1>2. /\ Max(D) \in D /\ \A x \in D : x <= Max(D)
      /\ Min(D) \in D /\ \A x \in D : Min(D) <= x
  BY <1>1, Greatest
<1>3. Min(D) \in Nat /\ Max(D) \in Nat /\ Min(D) <= Max(D)
  BY <1>1, <1>2
<1>4. ASSUME NEW S \in Prices(chain)  PROVE GexLib!NetAt(chain, S) \in Int
  <2> DEFINE rows == GexLib!StrikeGex(chain, S, FALSE)
             net == [k \in D |-> GexLib!Net(rows, k)]
  <2>1. \A k \in D :
          /\ chain[k].call \in Nat /\ chain[k].put \in Nat
          /\ Gamma("call", S, k) \in Nat /\ Gamma("put", S, k) \in Nat
    BY SamplesAssumption DEF Prices
  <2>2. \A k \in D : /\ Gamma("call", S, k) * chain[k].call \in Int
                    /\ Gamma("put", S, k) * chain[k].put \in Int
    BY <2>1
  <2>3. \A k \in D : GexLib!Net(rows, k) \in Int
    BY <2>2 DEF GexLib!Net, GexLib!StrikeGex
  <2>4. net \in Ints(D) /\ DOMAIN net = D
    BY <2>3 DEF Ints
  <2>5. GexLib!NetAt(chain, S) = Total(net)
    BY SumIsTotal DEF GexLib!NetAt
  <2> HIDE DEF net
  <2>6. D \in SUBSET D
    OBVIOUS
  <2>7. Fold(net, D)[D] \in Int
    BY <1>1, <2>4, <2>6, FoldEquation
  <2>8. QED
    BY <2>4, <2>5, <2>7 DEF Total
<1>5. ASSUME NEW i \in 0..Steps  PROVE GexLib!ScanPoint(chain, i) \in Prices(chain)
  <2> DEFINE lo == Min(D)
             hi == Max(D)
             q == ((hi - lo) * i) \div Steps
  <2>1. hi - lo \in Nat /\ Steps \in Nat \ {0}
    BY <1>3, SamplesAssumption
  <2>2. q \in 0..(hi - lo)
    BY <2>1, Quotient
  <2>3. GexLib!ScanPoint(chain, i) = lo + q
    BY DEF GexLib!ScanPoint, GexLib!Min, GexLib!Max, Min, Max
  <2> HIDE DEF q
  <2>4. QED
    BY <1>3, <2>2, <2>3 DEF Prices
<1>6. QED
  BY <1>1, <1>3, <1>4, <1>5

\* A bracket is closed on a zero, or has different signs at its ends.
Brackets(chain) ==
  {br \in [a : Prices(chain), b : Prices(chain)] :
     IF br.a = br.b THEN GexLib!NetAt(chain, br.a) = 0
     ELSE GexLib!NetAt(chain, br.a) * GexLib!NetAt(chain, br.b) < 0}

LEMMA HalvedIsBracket ==
  ASSUME NEW chain \in Samples, NEW br \in Brackets(chain)
  PROVE  GexLib!Halved(chain, br) \in Brackets(chain)
<1> DEFINE at(S) == GexLib!NetAt(chain, S)
           m == (br.a + br.b) \div 2
<1>1. /\ br = [a |-> br.a, b |-> br.b] /\ br.a \in Prices(chain) /\ br.b \in Prices(chain)
      /\ br.a = br.b => at(br.a) = 0
      /\ br.a # br.b => at(br.a) * at(br.b) < 0
  BY DEF Brackets
<1>2. m \in Prices(chain)
  <2>1. br.a \in Nat /\ br.b \in Nat
    BY <1>1, Profile DEF Prices
  <2>2. m \in Nat /\ (br.a <= m \/ br.b <= m) /\ (m <= br.a \/ m <= br.b)
    BY <2>1
  <2>3. QED
    BY <1>1, <2>1, <2>2, Profile DEF Prices
<1>3. at(br.a) \in Int /\ at(br.b) \in Int /\ at(m) \in Int
  BY <1>1, <1>2, Profile
<1>4. CASE br.a = br.b
  BY <1>4 DEF GexLib!Halved
<1>5. CASE br.a # br.b /\ at(m) = 0
  <2>1. GexLib!Halved(chain, br) = [a |-> m, b |-> m]
    <3>1. ~(at(m) * at(br.a) > 0)
      BY <1>3, <1>5
    <3>2. QED
      BY <1>5, <3>1 DEF GexLib!Halved
  <2> HIDE DEF m
  <2>2. QED
    BY <1>2, <1>5, <2>1 DEF Brackets
<1>6. CASE br.a # br.b /\ at(m) # 0 /\ at(m) * at(br.a) > 0
  <2>1. GexLib!Halved(chain, br) = [a |-> m, b |-> br.b]
    BY <1>1, <1>6 DEF GexLib!Halved
  <2> HIDE DEF m, at
  <2>2. at(m) * at(br.b) < 0
    BY <1>1, <1>3, <1>6, Signs
  <2>3. m # br.b
    BY <1>1, <1>3, <1>6, Signs
  <2>4. QED
    BY <1>1, <1>2, <2>1, <2>2, <2>3 DEF Brackets, at
<1>7. CASE br.a # br.b /\ at(m) # 0 /\ ~(at(m) * at(br.a) > 0)
  <2>1. GexLib!Halved(chain, br) = [a |-> br.a, b |-> m]
    BY <1>1, <1>7 DEF GexLib!Halved
  <2> HIDE DEF m, at
  <2>2. at(br.a) * at(m) < 0
    BY <1>1, <1>3, <1>7, Signs
  <2>3. m # br.a
    BY <1>1, <1>3, <1>7, Signs
  <2>4. QED
    BY <1>1, <1>2, <2>1, <2>2, <2>3 DEF Brackets, at
<1>8. QED
  BY <1>4, <1>5, <1>6, <1>7

LEMMA BisectedIsBracket ==
  ASSUME NEW chain \in Samples, NEW a0, NEW b0, [a |-> a0, b |-> b0] \in Brackets(chain)
  PROVE  GexLib!Bisected(chain, a0, b0) \in Brackets(chain)
<1> DEFINE Br == Brackets(chain)
           first0 == [a |-> a0, b |-> b0]
           Run(g, n) == g = [k \in 0..n |-> IF k = 0 THEN first0
                                             ELSE GexLib!Halved(chain, g[k - 1])]
           Ok == {n \in Nat : \E g \in [0..n -> Br] : Run(g, n)}
           run == CHOOSE g : Run(g, Halvings)
<1>1. first0 \in Br /\ \A br \in Br : GexLib!Halved(chain, br) \in Br
  BY HalvedIsBracket
<1>2. GexLib!Bisected(chain, a0, b0) = run[Halvings]
  BY DEF GexLib!Bisected
<1>3. Halvings \in Nat
  BY SamplesAssumption
<1> HIDE DEF Br, first0
<1>4. 0 \in Ok
  <2> DEFINE g == [k \in 0..0 |-> first0]
  <2>1. g \in [0..0 -> Br] /\ Run(g, 0)
    BY <1>1
  <2>2. QED
    BY <2>1
<1>5. ASSUME NEW n \in Nat, n \in Ok  PROVE n + 1 \in Ok
  <2>1. PICK g \in [0..n -> Br] : Run(g, n)
    BY <1>5
  <2> DEFINE more == [k \in 0..(n + 1) |-> IF k = 0 THEN first0
                                            ELSE GexLib!Halved(chain, g[k - 1])]
  <2>2. \A k \in 0..(n + 1) : k = 0 \/ k - 1 \in 0..n
    OBVIOUS
  <2>3. more \in [0..(n + 1) -> Br]
    BY <1>1, <2>2
  <2>4. \A k \in 0..n : more[k] = g[k]
    <3>1. \A k \in 0..n : g[k] = IF k = 0 THEN first0 ELSE GexLib!Halved(chain, g[k - 1])
      BY <2>1
    <3>2. QED
      BY <3>1
  <2>5. Run(more, n + 1)
    BY <2>2, <2>4
  <2> HIDE DEF more, Run
  <2>6. \E h \in [0..(n + 1) -> Br] : Run(h, n + 1)
    BY <2>3, <2>5
  <2>7. QED
    BY <2>6
<1>6. Halvings \in Ok
  <2> HIDE DEF Ok
  <2>1. QED
    BY <1>3, <1>4, <1>5, ByInduction
<1>7. Run(run, Halvings)
  <2>1. \E g : Run(g, Halvings)
    BY <1>6
  <2> HIDE DEF Run
  <2>2. QED
    BY <2>1
<1> HIDE DEF run, Ok
<1>8. \A k \in 0..Halvings : run[k] = IF k = 0 THEN first0 ELSE GexLib!Halved(chain, run[k - 1])
  BY <1>7
<1> DEFINE In == {n \in Nat : n <= Halvings => run[n] \in Br}
<1>9. 0 \in In
  BY <1>1, <1>3, <1>8
<1>10. ASSUME NEW n \in Nat, n \in In  PROVE n + 1 \in In
  <2> SUFFICES ASSUME n + 1 <= Halvings  PROVE run[n + 1] \in Br
    OBVIOUS
  <2>1. run[n] \in Br /\ n + 1 \in 0..Halvings /\ (n + 1) - 1 = n /\ n + 1 # 0
    BY <1>3, <1>10
  <2>2. run[n + 1] = GexLib!Halved(chain, run[n])
    BY <1>8, <2>1
  <2>3. QED
    BY <1>1, <2>1, <2>2
<1> HIDE DEF In
<1>11. Halvings \in In
  BY <1>3, <1>9, <1>10, ByInduction
<1>12. QED
  BY <1>2, <1>11 DEF In, Br

(***************************************************************************)
(* The flip of every sample is where its profile changes sign              *)
(* (LabCharts!FlipIsBracketed): the bisection keeps what the scan found,   *)
(* and a scan that finds nothing passes one sign only.                     *)
(***************************************************************************)
THEOREM FlipChangesSign == ChartSpec => []FlipIsBracketed
<1>1. ASSUME NEW chain \in Samples
      PROVE  LET at(S) == GexLib!NetAt(chain, S)
                 scan == [i \in 0..Steps |-> at(GexLib!ScanPoint(chain, i))]
             IN  \E z \in {GexLib!ZeroGamma(chain, FALSE)} :
                   IF z # NoValue
                   THEN IF z.a = z.b THEN at(z.a) = 0 ELSE at(z.a) * at(z.b) < 0
                   ELSE Cardinality(DOMAIN chain) > 1 =>
                          \A i \in 0..(Steps - 1) : scan[i] * scan[0] > 0
  <2> DEFINE D == DOMAIN chain
             p(i) == GexLib!ScanPoint(chain, i)
             at(S) == GexLib!NetAt(chain, S)
             scan == [i \in 0..Steps |-> at(p(i))]
             hits == {i \in 1..Steps : scan[i - 1] = 0 \/ scan[i - 1] * scan[i] < 0}
             from == p(Min(hits) - 1)
             z == GexLib!ZeroGamma(chain, FALSE)
  <2>1. Steps \in Nat \ {0} /\ Cardinality(D) \in Nat
    BY SamplesAssumption, FS_CardinalityType
  <2>2. \A i \in 0..Steps : p(i) \in Prices(chain) /\ scan[i] = at(p(i)) /\ scan[i] \in Int
    BY Profile
  <2>3. z = IF Cardinality(D) < 2 \/ hits = {} THEN NoValue
            ELSE IF scan[Min(hits) - 1] = 0 THEN [a |-> from, b |-> from]
            ELSE GexLib!Bisected(chain, from, p(Min(hits)))
    <3>0. GexLib!Cardinality(D) = Cardinality(D)
      BY DEF GexLib!Cardinality, Cardinality
    <3>1. GexLib!Min(hits) = Min(hits)
      BY DEF GexLib!Min, Min
    <3>2. z = IF Cardinality(D) < 2 \/ hits = {} THEN NoValue
              ELSE IF scan[GexLib!Min(hits) - 1] = 0
                   THEN [a |-> p(GexLib!Min(hits) - 1), b |-> p(GexLib!Min(hits) - 1)]
              ELSE GexLib!Bisected(chain, p(GexLib!Min(hits) - 1), p(GexLib!Min(hits)))
      BY <3>0 DEF GexLib!ZeroGamma
    <3> HIDE DEF hits, z, scan, p
    <3>3. QED
      BY <3>1, <3>2
  <2>4. NoValue \notin Brackets(chain)
    <3>1. Prices(chain) \subseteq Nat
      BY Profile DEF Prices
    <3>2. QED
      BY <3>1, SamplesAssumption DEF Brackets
  <2> HIDE DEF z, scan, p
  <2>5. CASE ~(Cardinality(D) < 2) /\ hits # {}
    <3> DEFINE h == Min(hits)
    <3>1. hits \subseteq Int /\ IsFiniteSet(hits)
      <4>1. hits \in SUBSET (1..Steps) /\ IsFiniteSet(1..Steps)
        BY <2>1, FS_Interval
      <4>2. IsFiniteSet(hits)
        BY <4>1, FS_Subset
      <4>3. QED
        BY <4>2
    <3>2. h \in hits
      BY <2>5, <3>1, Greatest
    <3> HIDE DEF h
    <3>3. /\ h \in 1..Steps /\ h - 1 \in 0..Steps /\ h \in 0..Steps
          /\ scan[h - 1] = 0 \/ scan[h - 1] * scan[h] < 0
      BY <2>1, <3>2
    <3>4. z \in Brackets(chain)
      <4>1. CASE scan[h - 1] = 0
        <5>1. z = [a |-> p(h - 1), b |-> p(h - 1)]
          BY <2>3, <2>5, <4>1 DEF h
        <5>2. QED
          BY <2>2, <3>3, <4>1, <5>1 DEF Brackets
      <4>2. CASE scan[h - 1] # 0
        <5>1. z = GexLib!Bisected(chain, p(h - 1), p(h))
          BY <2>3, <2>5, <4>2 DEF h
        <5>2. at(p(h - 1)) * at(p(h)) < 0
          BY <2>2, <3>3, <4>2
        <5>3. p(h - 1) # p(h)
          <6>1. at(p(h - 1)) \in Int /\ at(p(h)) \in Int
            BY <2>2, <3>3
          <6>2. at(p(h - 1)) # at(p(h))
            BY <5>2, <6>1, Signs
          <6>3. QED
            BY <6>2
        <5>4. [a |-> p(h - 1), b |-> p(h)] \in Brackets(chain)
          BY <2>2, <3>3, <5>2, <5>3 DEF Brackets
        <5>5. QED
          BY <5>1, <5>4, BisectedIsBracket
      <4>3. QED
        BY <4>1, <4>2
    <3>5. z # NoValue /\ IF z.a = z.b THEN at(z.a) = 0 ELSE at(z.a) * at(z.b) < 0
      BY <2>4, <3>4 DEF Brackets
    <3>6. QED
      BY <3>5 DEF z
  <2>6. CASE Cardinality(D) < 2 \/ hits = {}
    <3>1. z = NoValue
      BY <2>3, <2>6
    <3>2. CASE Cardinality(D) < 2
      BY <2>1, <3>1, <3>2 DEF z
    <3>3. CASE hits = {}
      <4>1. \A i \in 1..Steps : scan[i - 1] # 0 /\ ~(scan[i - 1] * scan[i] < 0)
        BY <3>3
      <4> DEFINE Ok == {n \in Nat : n <= Steps - 1 => scan[n] * scan[0] > 0}
      <4>2. 0 \in Ok
        <5>1. scan[0] # 0 /\ scan[0] \in Int
          BY <2>1, <2>2, <4>1
        <5>2. scan[0] * scan[0] > 0
          BY <5>1, Signs
        <5>3. QED
          BY <5>2
      <4>3. ASSUME NEW n \in Nat, n \in Ok  PROVE n + 1 \in Ok
        <5> SUFFICES ASSUME n + 1 <= Steps - 1  PROVE scan[n + 1] * scan[0] > 0
          OBVIOUS
        <5>1. /\ n + 1 \in 1..Steps /\ (n + 1) - 1 = n
              /\ n + 2 \in 1..Steps /\ (n + 2) - 1 = n + 1
          BY <2>1
        <5>2. scan[n + 1] # 0 /\ ~(scan[n] * scan[n + 1] < 0)
          BY <4>1, <5>1
        <5>3. scan[n] * scan[0] > 0
          BY <2>1, <4>3, <5>1
        <5>4. scan[n] \in Int /\ scan[n + 1] \in Int /\ scan[0] \in Int
          BY <2>1, <2>2, <5>1
        <5>5. QED
          BY <5>2, <5>3, <5>4, Signs
      <4> HIDE DEF Ok
      <4>4. \A i \in 0..(Steps - 1) : scan[i] * scan[0] > 0
        <5>1. \A n \in Nat : n \in Ok
          BY <4>2, <4>3, ByInduction
        <5>2. QED
          BY <2>1, <5>1 DEF Ok
      <4>5. QED
        BY <3>1, <4>4 DEF z, scan, p
    <3>4. QED
      BY <2>6, <3>2, <3>3
  <2>7. QED
    BY <2>5, <2>6
<1>2. FlipIsBracketed
  BY <1>1 DEF FlipIsBracketed
<1>3. QED
  BY <1>2, PTL
-----------------------------------------------------------------------------
(***************************************************************************)
(* An order R on a finite set: the number of elements before an element is *)
(* its place, and every place is taken.                                    *)
(***************************************************************************)
Before(S, R, s) == {t \in S : <<t, s>> \in R}

Ordered(S, R) ==
  /\ IsFiniteSet(S)
  /\ \A s \in S : <<s, s>> \notin R
  /\ \A s, t, u \in S : <<s, t>> \in R /\ <<t, u>> \in R => <<s, u>> \in R
  /\ \A s, t \in S : s # t => <<s, t>> \in R \/ <<t, s>> \in R

LEMMA PlacesGrow ==
  ASSUME NEW S, NEW R, Ordered(S, R), NEW s \in S, NEW t \in S, <<s, t>> \in R
  PROVE  Cardinality(Before(S, R, s)) < Cardinality(Before(S, R, t))
<1> DEFINE a == Before(S, R, s)
           b == Before(S, R, t)
<1>1. IsFiniteSet(S) /\ a \in SUBSET S /\ b \in SUBSET S
  BY DEF Ordered, Before
<1>2. a \subseteq b /\ s \in b /\ s \notin a
  BY DEF Ordered, Before
<1> HIDE DEF a, b
<1>3. IsFiniteSet(a) /\ IsFiniteSet(b)
  BY <1>1, FS_Subset
<1>4. Cardinality(a) <= Cardinality(b)
  BY <1>2, <1>3, FS_Subset
<1>5. Cardinality(a) # Cardinality(b)
  BY <1>2, <1>3, FS_Subset
<1>6. Cardinality(a) \in Nat /\ Cardinality(b) \in Nat
  BY <1>3, FS_CardinalityType
<1>7. QED
  BY <1>4, <1>5, <1>6 DEF a, b

LEMMA PlacesAreTaken ==
  ASSUME NEW S, NEW R, Ordered(S, R)
  PROVE  /\ Cardinality(S) \in Nat
         /\ \A s \in S : Cardinality(Before(S, R, s)) + 1 \in 1..Cardinality(S)
         /\ \A k \in 1..Cardinality(S) :
              \E s \in S : Cardinality(Before(S, R, s)) = k - 1
<1> DEFINE n == Cardinality(S)
           f == [s \in S |-> Cardinality(Before(S, R, s)) + 1]
<1>1. IsFiniteSet(S) /\ n \in Nat
  BY FS_CardinalityType DEF Ordered
<1>2. ASSUME NEW s \in S
      PROVE  Cardinality(Before(S, R, s)) \in Nat /\ Cardinality(Before(S, R, s)) < n
  <2> DEFINE b == Before(S, R, s)
  <2>1. b \in SUBSET S /\ s \notin b
    BY DEF Ordered, Before
  <2> HIDE DEF b
  <2>2. IsFiniteSet(b) /\ Cardinality(b) <= n
    BY <1>1, <2>1, FS_Subset
  <2>3. Cardinality(b) # n
    BY <1>1, <2>1, FS_Subset
  <2>4. Cardinality(b) \in Nat
    BY <2>2, FS_CardinalityType
  <2>5. QED
    BY <1>1, <2>2, <2>3, <2>4 DEF b
<1> HIDE DEF n
<1>3. f \in [S -> 1..n]
  BY <1>1, <1>2
<1>4. ASSUME NEW s \in S, NEW t \in S, f[s] = f[t]  PROVE s = t
  <2>1. Cardinality(Before(S, R, s)) = Cardinality(Before(S, R, t))
    BY <1>2, <1>4
  <2>2. ASSUME s # t  PROVE FALSE
    <3>1. CASE <<s, t>> \in R
      BY <1>2, <2>1, <3>1, PlacesGrow
    <3>2. CASE <<t, s>> \in R
      BY <1>2, <2>1, <3>2, PlacesGrow
    <3>3. QED
      BY <2>2, <3>1, <3>2 DEF Ordered
  <2>3. QED
    BY <2>2
<1>5. IsFiniteSet(1..n) /\ Cardinality(1..n) = n
  <2>1. IsFiniteSet(1..n) /\ Cardinality(1..n) = IF 1 > n THEN 0 ELSE n - 1 + 1
    BY <1>1, FS_Interval
  <2>2. QED
    BY <1>1, <2>1
<1> HIDE DEF f
<1>6. f \in Injection(S, 1..n)
  BY <1>3, <1>4 DEF Injection, IsInjective
<1>7. f \in Surjection(S, 1..n)
  BY <1>5, <1>6, FS_Injection DEF n
<1>8. \A k \in 1..n : \E s \in S : f[s] = k
  BY <1>7 DEF Surjection
<1>9. ASSUME NEW k \in 1..n  PROVE \E s \in S : Cardinality(Before(S, R, s)) = k - 1
  <2>1. PICK s \in S : f[s] = k
    BY <1>8
  <2>2. QED
    BY <1>2, <2>1 DEF f
<1>10. QED
  BY <1>1, <1>2, <1>9 DEF n

\* The enumeration of a set by the places of its elements.
LEMMA InOrder ==
  ASSUME NEW S, NEW R, Ordered(S, R), NEW e, DOMAIN e = 1..Cardinality(S),
         \A k \in 1..Cardinality(S) :
           (\E s \in S : Cardinality(Before(S, R, s)) = k - 1)
             => e[k] \in S /\ Cardinality(Before(S, R, e[k])) = k - 1
  PROVE  /\ Cardinality(S) \in Nat
         /\ \A k \in 1..Cardinality(S) : e[k] \in S
         /\ \A s \in S : \E k \in 1..Cardinality(S) : e[k] = s
         /\ \A j, k \in 1..Cardinality(S) : j < k => <<e[j], e[k]>> \in R
<1> DEFINE n == Cardinality(S)
           at(s) == Cardinality(Before(S, R, s))
<1>1. n \in Nat /\ (\A s \in S : at(s) + 1 \in 1..n)
  BY PlacesAreTaken
<1>2. \A k \in 1..n : e[k] \in S /\ at(e[k]) = k - 1
  BY PlacesAreTaken
<1>3. \A s \in S : at(s) \in Nat
  <2>1. \A s \in S : Before(S, R, s) \in SUBSET S
    BY DEF Before
  <2>2. QED
    BY <2>1, FS_Subset, FS_CardinalityType DEF Ordered
<1>4. ASSUME NEW s \in S, NEW t \in S, at(s) < at(t)  PROVE <<s, t>> \in R
  <2>1. s # t
    BY <1>3, <1>4
  <2>2. CASE <<t, s>> \in R
    <3>1. at(t) < at(s)
      BY <2>2, PlacesGrow
    <3>2. QED
      BY <1>3, <1>4, <3>1
  <2>3. QED
    BY <2>1, <2>2 DEF Ordered
<1>5. ASSUME NEW s \in S  PROVE \E k \in 1..n : e[k] = s
  <2> DEFINE k == at(s) + 1
  <2>1. k \in 1..n
    BY <1>1
  <2>2. e[k] \in S /\ at(e[k]) = at(s)
    BY <1>2, <1>3, <2>1
  <2>3. e[k] = s
    <3>1. ASSUME e[k] # s  PROVE FALSE
      <4>1. <<e[k], s>> \in R \/ <<s, e[k]>> \in R
        BY <2>2, <3>1 DEF Ordered
      <4>2. at(e[k]) < at(s) \/ at(s) < at(e[k])
        BY <2>2, <4>1, PlacesGrow
      <4>3. QED
        BY <1>3, <2>2, <4>2
    <3>2. QED
      BY <3>1
  <2>4. QED
    BY <2>1, <2>3
<1>6. ASSUME NEW j \in 1..n, NEW k \in 1..n, j < k  PROVE <<e[j], e[k]>> \in R
  <2>1. e[j] \in S /\ e[k] \in S /\ at(e[j]) < at(e[k])
    BY <1>1, <1>2, <1>6
  <2>2. QED
    BY <1>4, <2>1
<1>7. QED
  BY <1>1, <1>2, <1>5, <1>6
-----------------------------------------------------------------------------
(***************************************************************************)
(* The strikes of a chain, and the nearest of them.                        *)
(***************************************************************************)
StrikesIn(rows) == {rows[k].strike : k \in DOMAIN rows}

Ascending(strikes) ==
  strikes \in Seq(Nat) /\ \A j, k \in 1..Len(strikes) : j < k => strikes[j] < strikes[k]

LEMMA FiniteStrikes ==
  ASSUME NEW rows, IsFiniteSet(DOMAIN rows)
  PROVE  IsFiniteSet(StrikesIn(rows))
<1> DEFINE D == DOMAIN rows
           f == [k \in D |-> rows[k].strike]
<1>1. f \in Surjection(D, StrikesIn(rows))
  <2>1. f \in [D -> StrikesIn(rows)]
    BY DEF StrikesIn
  <2>2. \A s \in StrikesIn(rows) : \E k \in D : f[k] = s
    BY DEF StrikesIn
  <2> HIDE DEF f, D
  <2>3. QED
    BY <2>1, <2>2 DEF Surjection
<1> HIDE DEF f
<1>2. QED
  BY <1>1, FS_Surjection

LEMMA StrikesInOrder ==
  ASSUME NEW rows, IsFiniteSet(DOMAIN rows), \A k \in DOMAIN rows : rows[k].strike \in Nat
  PROVE  LET strikes == Market!Tables!Strikes(rows) IN
         /\ Ascending(strikes)
         /\ \A k \in 1..Len(strikes) : strikes[k] \in StrikesIn(rows)
         /\ \A s \in StrikesIn(rows) : \E k \in 1..Len(strikes) : strikes[k] = s
<1> DEFINE S == StrikesIn(rows)
           R == {p \in S \X S : p[1] < p[2]}
           e == Market!Tables!Strikes(rows)
           n == Cardinality(S)
<1>1. S \subseteq Nat
  BY DEF StrikesIn
<1>2. IsFiniteSet(S)
  BY FiniteStrikes
<1>3. e = [k \in 1..n |-> CHOOSE s \in S : Cardinality({t \in S : t < s}) = k - 1]
  <2>1. \A T : Market!Tables!Cardinality(T) = Cardinality(T)
    BY DEF Market!Tables!Cardinality, Cardinality
  <2>2. e = [k \in 1..Market!Tables!Cardinality(S) |->
               CHOOSE s \in S : Market!Tables!Cardinality({t \in S : t < s}) = k - 1]
    BY Zenon DEF Market!Tables!Strikes, StrikesIn
  <2>3. QED
    BY <2>1, <2>2
<1> HIDE DEF S, e
<1>4. \A s, t \in S : <<s, t>> \in R <=> s < t
  OBVIOUS
<1> HIDE DEF R
<1>5. Ordered(S, R)
  <2>1. /\ \A s \in S : ~(s < s)
        /\ \A s, t, u \in S : s < t /\ t < u => s < u
        /\ \A s, t \in S : s # t => s < t \/ t < s
    BY <1>1
  <2>2. QED
    BY <1>2, <1>4, <2>1 DEF Ordered
<1>6. \A s \in S : Before(S, R, s) = {t \in S : t < s}
  BY <1>4 DEF Before
<1>7. DOMAIN e = 1..n
  BY <1>3
<1>8. ASSUME NEW k \in 1..n, \E s \in S : Cardinality(Before(S, R, s)) = k - 1
      PROVE  e[k] \in S /\ Cardinality(Before(S, R, e[k])) = k - 1
  <2>1. PICK s \in S : Cardinality({t \in S : t < s}) = k - 1
    BY <1>6, <1>8
  <2>2. e[k] \in S /\ Cardinality({t \in S : t < e[k]}) = k - 1
    BY <1>3, <2>1
  <2>3. QED
    BY <1>6, <2>2
<1> HIDE DEF n
<1>9. /\ n \in Nat
      /\ \A k \in 1..n : e[k] \in S
      /\ \A s \in S : \E k \in 1..n : e[k] = s
      /\ \A j, k \in 1..n : j < k => <<e[j], e[k]>> \in R
  BY <1>5, <1>7, <1>8, InOrder DEF n
<1>10. e \in Seq(Nat) /\ Len(e) = n
  <2>1. e = [k \in 1..n |-> e[k]]
    <3> DEFINE place(k) == CHOOSE s \in S : Cardinality({t \in S : t < s}) = k - 1
    <3>1. e = [k \in 1..n |-> place(k)]
      BY <1>3
    <3> HIDE DEF place
    <3>2. QED
      BY <3>1
  <2>2. e \in [1..n -> Nat]
    BY <1>1, <1>9, <2>1
  <2>3. e \in Seq(Nat)
    BY <1>9, <2>2, SeqDef
  <2>4. QED
    BY <1>7, <1>9, <2>3, LenProperties
<1>11. QED
  BY <1>4, <1>9, <1>10 DEF Ascending, e, S

LEMMA NearestIsNearest ==
  ASSUME NEW strikes \in Seq(Nat), strikes # << >>, NEW spot \in Nat
  PROVE  \E k \in 1..Len(strikes) :
           /\ strikes[k] = Market!Tables!Nearest(strikes, spot)
           /\ \A j \in 1..Len(strikes) :
                Distance(strikes[k], spot) <= Distance(strikes[j], spot)
<1> DEFINE D == 1..Len(strikes)
           far(k) == Market!Tables!Abs(strikes[k] - spot)
           Fars == {far(k) : k \in D}
<1>1. Len(strikes) \in Nat \ {0} /\ DOMAIN strikes = D
  BY EmptySeq
<1>2. \A k \in D : strikes[k] \in Nat
  OBVIOUS
<1>3. \A k \in D : far(k) \in Nat /\ far(k) = Distance(strikes[k], spot)
  BY <1>2 DEF Market!Tables!Abs, Distance
<1>4. Fars \subseteq Nat /\ Fars # {}
  BY <1>1, <1>3
<1>5. PICK m \in Fars : \A f \in Fars : m <= f
  <2> HIDE DEF Fars
  <2>1. QED
    BY <1>4, LeastNatural
<1> DEFINE At == {k \in D : far(k) = m}
<1>6. At \subseteq Nat /\ At # {}
  BY <1>1, <1>5
<1>7. PICK a \in At : \A k \in At : a <= k
  <2> HIDE DEF At
  <2>1. QED
    BY <1>6, LeastNatural
<1>8. ASSUME NEW j \in D  PROVE far(a) < far(j) \/ (far(a) = far(j) /\ a <= j)
  <2>1. a \in D /\ far(a) = m /\ far(j) \in Fars
    BY <1>7
  <2>2. m <= far(j) /\ m \in Nat /\ far(j) \in Nat
    BY <1>3, <1>4, <1>5, <2>1
  <2>3. CASE far(j) = m
    <3>1. j \in At
      BY <2>3
    <3>2. QED
      BY <1>7, <2>1, <2>3, <3>1
  <2>4. CASE far(j) # m
    BY <2>1, <2>2, <2>4
  <2>5. QED
    BY <2>3, <2>4
<1> DEFINE c == CHOOSE k \in DOMAIN strikes : \A j \in DOMAIN strikes :
                  far(k) < far(j) \/ (far(k) = far(j) /\ k <= j)
<1>9. c \in D /\ \A j \in D : far(c) < far(j) \/ (far(c) = far(j) /\ c <= j)
  <2>1. a \in D
    BY <1>7
  <2> HIDE DEF far
  <2>2. QED
    BY <1>1, <1>8, <2>1
<1>10. Market!Tables!Nearest(strikes, spot) = strikes[c]
  BY DEF Market!Tables!Nearest
<1> HIDE DEF c
<1>11. \A j \in D : far(c) <= far(j)
  <2> SUFFICES ASSUME NEW j \in D  PROVE far(c) <= far(j)
    OBVIOUS
  <2> HIDE DEF far
  <2>1. far(c) \in Nat /\ far(j) \in Nat
    BY <1>3, <1>9
  <2>2. far(c) < far(j) \/ far(c) = far(j)
    BY <1>9
  <2>3. QED
    BY <2>1, <2>2
<1>12. QED
  BY <1>3, <1>9, <1>10, <1>11
-----------------------------------------------------------------------------
(***************************************************************************)
(* The Option Chain page: the strikes in view are a part of those of the   *)
(* chain without a gap, around the one at the money.                       *)
(***************************************************************************)
PricedRows(rows) == IsFiniteSet(DOMAIN rows) /\ \A k \in DOMAIN rows : rows[k].strike \in Nat

Window(strikes, visible, atm, count, lo, hi) ==
  /\ lo \in 1..(Len(strikes) + 1) /\ hi \in 0..Len(strikes) /\ lo <= hi + 1
  /\ visible = SubSeq(strikes, lo, hi)
  /\ \A k \in 1..Len(strikes) : strikes[k] = atm =>
       /\ lo <= k /\ k <= hi
       /\ count # All => k - lo <= count /\ hi - k <= count

LEMMA VisibleIsAWindow ==
  ASSUME NEW rows, PricedRows(rows), NEW m, NEW snap, NEW count, count = All \/ count \in Nat
  PROVE  \E lo, hi \in Int :
           Window(Market!Tables!Strikes(rows), Market!Tables!Visible(rows, m, snap, count),
                  Market!Tables!AtmStrike(rows, m, snap), count, lo, hi)
<1> DEFINE strikes == Market!Tables!Strikes(rows)
           n == Len(strikes)
           atm == Market!Tables!AtmStrike(rows, m, snap)
           at == {k \in DOMAIN strikes : strikes[k] = atm}
           idx == IF at = {} THEN 0 ELSE CHOOSE k \in at : TRUE
           lo == IF count = All \/ idx - count < 1 THEN 1 ELSE idx - count
           hi == IF count = All \/ idx + count > n THEN n ELSE idx + count
<1>1. Ascending(strikes)
  BY StrikesInOrder DEF PricedRows
<1>2. Market!Tables!Visible(rows, m, snap, count) = SubSeq(strikes, lo, hi)
  BY Zenon DEF Market!Tables!Visible
<1> HIDE DEF strikes, atm
<1>3. n \in Nat /\ DOMAIN strikes = 1..n
  BY <1>1 DEF Ascending
<1>4. at = {} \/ idx \in at
  OBVIOUS
<1>5. ASSUME NEW k \in 1..n, strikes[k] = atm  PROVE idx = k
  <2>1. k \in at
    BY <1>3, <1>5
  <2>2. idx \in 1..n /\ strikes[idx] = strikes[k]
    BY <1>3, <1>4, <1>5, <2>1
  <2> HIDE DEF idx
  <2>3. strikes[k] \in Nat /\ ~(idx < k) /\ ~(k < idx)
    BY <1>1, <2>2 DEF Ascending
  <2>4. QED
    BY <1>3, <2>2, <2>3
<1>6. idx \in 0..n
  BY <1>3, <1>4
<1> HIDE DEF idx, n
<1>7. lo \in 1..(n + 1) /\ hi \in 0..n /\ lo <= hi + 1
  BY <1>3, <1>6
<1>8. ASSUME NEW k \in 1..n, strikes[k] = atm
      PROVE  /\ lo <= k /\ k <= hi
             /\ count # All => k - lo <= count /\ hi - k <= count
  BY <1>3, <1>5, <1>8
<1> HIDE DEF lo, hi
<1>9. QED
  <2>1. lo \in Int /\ hi \in Int
    BY <1>3, <1>7
  <2>2. Window(strikes, Market!Tables!Visible(rows, m, snap, count), atm, count, lo, hi)
    BY <1>2, <1>7, <1>8 DEF Window, n
  <2>3. QED
    BY <2>1, <2>2 DEF strikes, atm

LEMMA NearestInView ==
  ASSUME NEW rows, PricedRows(rows), DOMAIN rows # {}, NEW m, NEW snap,
         NEW count, count = All \/ count \in Nat,
         Market!Tables!Spot(m, snap) \in Nat \cup {None}
  PROVE  LET spot == Market!Tables!Spot(m, snap)
             table == Market!Tables!Table(rows, m, snap, count)
             shown == {table[k].strike : k \in DOMAIN table}
             atm == {k \in DOMAIN table : table[k].isAtm}
         IN  /\ spot # None =>
                  \E k \in atm : \A s \in StrikesIn(rows) :
                    Distance(table[k].strike, spot) <= Distance(s, spot)
             /\ count # All => \A k \in atm : k - 1 <= count /\ Len(table) - k <= count
             /\ \A s \in StrikesIn(rows) \ shown :
                  (\A t \in shown : s < t) \/ (\A t \in shown : s > t)
<1> DEFINE spot == Market!Tables!Spot(m, snap)
           strikes == Market!Tables!Strikes(rows)
           n == Len(strikes)
           money == Market!Tables!AtmStrike(rows, m, snap)
           visible == Market!Tables!Visible(rows, m, snap, count)
           table == Market!Tables!Table(rows, m, snap, count)
           shown == {table[k].strike : k \in DOMAIN table}
           atm == {k \in DOMAIN table : table[k].isAtm}
<1>1. /\ Ascending(strikes)
      /\ \A k \in 1..n : strikes[k] \in StrikesIn(rows)
      /\ \A s \in StrikesIn(rows) : \E k \in 1..n : strikes[k] = s
  BY StrikesInOrder DEF PricedRows
<1>2. PICK lo \in Int, hi \in Int : Window(strikes, visible, money, count, lo, hi)
  BY VisibleIsAWindow
<1>3. spot # None => money = Market!Tables!Nearest(strikes, spot) \/ strikes = << >>
  BY Zenon DEF Market!Tables!AtmStrike
<1>4. /\ DOMAIN table = DOMAIN visible
      /\ \A k \in DOMAIN visible : /\ table[k].strike = visible[k]
                                   /\ table[k].isAtm <=> visible[k] = money
  <2> HIDE DEF visible, money
  <2>1. QED
    BY DEF Market!Tables!Table, visible, money
<1> HIDE DEF spot, strikes, money, visible, table
<1> USE DEF Window
<1> DEFINE w == hi - lo + 1
<1>5. /\ n \in Nat /\ lo \in 1..(n + 1) /\ hi \in 0..n /\ w \in Nat /\ w = hi - lo + 1
      /\ DOMAIN visible = 1..w
      /\ \A k \in 1..w : lo + k - 1 \in 1..n /\ visible[k] = strikes[lo + k - 1]
  <2>1. strikes \in Seq(Nat) /\ n \in Nat
    BY <1>1 DEF Ascending
  <2>2. /\ Len(SubSeq(strikes, lo, hi)) = w
        /\ DOMAIN SubSeq(strikes, lo, hi) = 1..w
        /\ \A k \in 1..w : SubSeq(strikes, lo, hi)[k] = strikes[lo + k - 1]
    BY <1>2, <2>1
  <2>3. lo \in Int /\ hi \in Int /\ lo >= 1 /\ hi <= n /\ w \in Nat
    BY <1>2, <2>1
  <2>4. \A k \in 1..w : lo + k - 1 \in 1..n
    <3> HIDE DEF n
    <3>1. QED
      BY <2>1, <2>3
  <2>5. QED
    BY <1>2, <2>1, <2>2, <2>3, <2>4
<1> HIDE DEF n, w
<1>6. \A j \in 1..n : lo <= j /\ j <= hi => j - lo + 1 \in 1..w /\ visible[j - lo + 1] = strikes[j]
  <2> SUFFICES ASSUME NEW j \in 1..n, lo <= j, j <= hi
               PROVE  j - lo + 1 \in 1..w /\ visible[j - lo + 1] = strikes[j]
    OBVIOUS
  <2>1. j - lo + 1 \in 1..w /\ lo + (j - lo + 1) - 1 = j
    BY <1>5
  <2>2. QED
    BY <1>5, <2>1
<1>7. spot # None =>
        \E k \in atm : \A s \in StrikesIn(rows) :
          Distance(table[k].strike, spot) <= Distance(s, spot)
  <2> SUFFICES ASSUME spot # None
               PROVE  \E k \in atm : \A s \in StrikesIn(rows) :
                        Distance(table[k].strike, spot) <= Distance(s, spot)
    OBVIOUS
  <2>1. strikes \in Seq(Nat) /\ strikes # << >> /\ spot \in Nat
    <3>1. StrikesIn(rows) # {}
      BY DEF StrikesIn
    <3>2. strikes \in Seq(Nat) /\ n # 0
      BY <1>1, <1>5, <3>1 DEF Ascending
    <3>3. QED
      BY <3>2 DEF spot, n
  <2>2. PICK j \in 1..n :
          /\ strikes[j] = Market!Tables!Nearest(strikes, spot)
          /\ \A i \in 1..n : Distance(strikes[j], spot) <= Distance(strikes[i], spot)
    BY <2>1, NearestIsNearest DEF n
  <2>3. strikes[j] = money
    BY <1>3, <2>1, <2>2
  <2>4. lo <= j /\ j <= hi
    BY <1>2, <2>3 DEF n
  <2>5. j - lo + 1 \in 1..w /\ visible[j - lo + 1] = strikes[j]
    BY <1>6, <2>4
  <2>6. j - lo + 1 \in atm /\ table[j - lo + 1].strike = strikes[j]
    BY <1>4, <1>5, <2>3, <2>5
  <2>7. \A s \in StrikesIn(rows) : Distance(strikes[j], spot) <= Distance(s, spot)
    BY <1>1, <2>2 DEF n
  <2>8. QED
    BY <2>6, <2>7
<1>8. count # All => \A k \in atm : k - 1 <= count /\ Len(table) - k <= count
  <2> SUFFICES ASSUME count # All, NEW k \in atm
               PROVE  k - 1 <= count /\ Len(table) - k <= count
    OBVIOUS
  <2>1. k \in 1..w /\ visible[k] = money
    BY <1>4, <1>5
  <2>2. lo + k - 1 \in 1..n /\ strikes[lo + k - 1] = money
    BY <1>5, <2>1
  <2>3. lo + k - 1 - lo <= count /\ hi - (lo + k - 1) <= count
    <3> DEFINE j == lo + k - 1
    <3>1. j \in 1..n /\ strikes[j] = money
      BY <2>2
    <3> HIDE DEF j
    <3>2. j - lo <= count /\ hi - j <= count
      BY <1>2, <3>1 DEF n
    <3>3. QED
      BY <1>5, <2>1, <3>2 DEF j
  <2>4. Len(table) = w
    <3> DEFINE X == {table[i] : i \in 1..w}
    <3>0. table = [i \in DOMAIN table |-> table[i]]
      BY DEF table, Market!Tables!Table
    <3>1. table \in [1..w -> X]
      BY <1>4, <1>5, <3>0
    <3> HIDE DEF X
    <3>2. table \in Seq(X)
      BY <1>5, <3>1, SeqDef
    <3>3. DOMAIN table = 1..w
      BY <1>4, <1>5
    <3>4. Len(table) \in Nat /\ DOMAIN table = 1..Len(table)
      BY <3>2, LenProperties
    <3> HIDE DEF X
    <3>5. QED
      BY <1>5, <3>3, <3>4
  <2>5. count \in Nat
    OBVIOUS
  <2>6. QED
    BY <1>5, <2>1, <2>3, <2>4, <2>5
<1>9. ASSUME NEW s \in StrikesIn(rows) \ shown
      PROVE  (\A t \in shown : s < t) \/ (\A t \in shown : s > t)
  <2>1. PICK j \in 1..n : strikes[j] = s
    BY <1>1 DEF n
  <2>2. ~(lo <= j /\ j <= hi)
    <3>1. ASSUME lo <= j, j <= hi  PROVE FALSE
      <4>1. j - lo + 1 \in DOMAIN table /\ table[j - lo + 1].strike = s
        BY <1>4, <1>5, <1>6, <2>1, <3>1
      <4>2. s \in shown
        BY <4>1
      <4>3. QED
        BY <4>2
    <3>2. QED
      BY <3>1
  <2>3. ASSUME NEW t \in shown
        PROVE  \E k \in 1..n : strikes[k] = t /\ lo <= k /\ k <= hi
    <3>1. PICK k \in 1..w : t = visible[k]
      BY <1>4, <1>5
    <3>2. lo + k - 1 \in 1..n /\ strikes[lo + k - 1] = t /\ lo <= lo + k - 1 /\ lo + k - 1 <= hi
      BY <1>5, <3>1
    <3>3. QED
      BY <3>2
  <2>4. CASE j < lo
    <3> SUFFICES ASSUME NEW t \in shown  PROVE s < t
      OBVIOUS
    <3>1. PICK k \in 1..n : strikes[k] = t /\ lo <= k /\ k <= hi
      BY <2>3
    <3>2. j < k
      BY <1>5, <2>4, <3>1
    <3>3. QED
      BY <1>1, <2>1, <3>1, <3>2 DEF Ascending, n
  <2>5. CASE j > hi
    <3> SUFFICES ASSUME NEW t \in shown  PROVE s > t
      OBVIOUS
    <3>1. PICK k \in 1..n : strikes[k] = t /\ lo <= k /\ k <= hi
      BY <2>3
    <3>2. k < j
      BY <1>5, <2>5, <3>1
    <3>3. strikes[k] < strikes[j] /\ strikes[k] \in Nat /\ strikes[j] \in Nat
      BY <1>1, <3>2 DEF Ascending, n
    <3>4. QED
      BY <2>1, <3>1, <3>3
  <2>6. QED
    BY <1>5, <2>2, <2>4, <2>5
<1>10. QED
  BY <1>7, <1>8, <1>9 DEF spot, table
-----------------------------------------------------------------------------
(***************************************************************************)
(* The Dashboard: the legs of the nearest strikes.                         *)
(***************************************************************************)
LEMMA NearestLegs ==
  ASSUME NEW rows, PricedRows(rows), DOMAIN rows \subseteq Nat, NEW atm \in Nat
  PROVE  LET legs == Market!Tables!AtmChain(rows, atm)
             shown == {legs[k].strike : k \in DOMAIN legs}
         IN  \A s \in StrikesIn(rows) \ shown, t \in shown :
               Distance(t, atm) <= Distance(s, atm)
<1> DEFINE D == DOMAIN rows
           A == StrikesIn(rows)
           legs == Market!Tables!AtmChain(rows, atm)
           shown == {legs[k].strike : k \in DOMAIN legs}
           card(T) == Market!Tables!Cardinality(T)
           dist(s) == Market!Tables!Abs(s - atm)
           earlier(t, s) == \E k \in D : /\ rows[k].strike = t
                                         /\ \A j \in D : rows[j].strike = s => k < j
           closer(s) == {t \in A : dist(t) < dist(s) \/ (dist(t) = dist(s) /\ earlier(t, s))}
           near == {k \in D : card(closer(rows[k].strike)) < 5}
           side == [k \in D |-> IF rows[k].type = "PE" THEN 0 ELSE 1]
           ahead(j, k) == \/ rows[j].strike < rows[k].strike
                          \/ rows[j].strike = rows[k].strike /\ side[j] < side[k]
                          \/ rows[j].strike = rows[k].strike /\ side[j] = side[k] /\ j < k
           R == {p \in near \X near : ahead(p[1], p[2])}
           order == [k \in 1..card(near) |->
                       CHOOSE s \in near : card({t \in near : ahead(t, s)}) = k - 1]
<1>1. IsFiniteSet(D) /\ D \subseteq Nat /\ A \subseteq Nat /\ IsFiniteSet(A)
      /\ \A k \in D : rows[k].strike \in A
  BY FiniteStrikes DEF PricedRows, StrikesIn
<1>2. \A s \in A : dist(s) \in Nat /\ dist(s) = Distance(s, atm)
  BY <1>1 DEF Market!Tables!Abs, Distance
<1>0. \A T : card(T) = Cardinality(T)
  BY DEF Market!Tables!Cardinality, Cardinality
<1>4. CASE legs = rows
  <2>1. shown = A
    BY <1>4 DEF StrikesIn
  <2>2. QED
    BY <2>1
<1>5. CASE legs = [k \in DOMAIN order |-> rows[order[k]]]
  <2> HIDE DEF A, D, card, dist, earlier, closer, side, legs
  <2>1. near \subseteq D /\ IsFiniteSet(near)
    BY <1>1, FS_Subset
  <2> HIDE DEF near
  <2>2. \A j, k \in near : <<j, k>> \in R <=> ahead(j, k)
    OBVIOUS
  <2>3. \A k \in near : k \in Nat /\ rows[k].strike \in Nat /\ side[k] \in 0..1
    <3> SUFFICES ASSUME NEW k \in near
                 PROVE  k \in Nat /\ rows[k].strike \in Nat /\ side[k] \in 0..1
      OBVIOUS
    <3>1. k \in D /\ rows[k].strike \in A
      BY <1>1, <2>1
    <3>2. side[k] \in 0..1
      BY <3>1 DEF side
    <3>3. QED
      BY <1>1, <3>1, <3>2
  <2>4. /\ \A i \in near : ~ahead(i, i)
        /\ \A i, j \in near : i # j => ahead(i, j) \/ ahead(j, i)
    BY <2>3
  <2>5. \A i, j, k \in near : ahead(i, j) /\ ahead(j, k) => ahead(i, k)
    BY <2>3
  <2> HIDE DEF ahead, R
  <2>6. Ordered(near, R)
    BY <2>1, <2>2, <2>4, <2>5 DEF Ordered
  <2>7. \A s \in near : Before(near, R, s) = {t \in near : ahead(t, s)}
    <3>1. \A s \in near : {t \in near : <<t, s>> \in R} = {t \in near : ahead(t, s)}
      BY <2>2
    <3>2. QED
      BY <3>1 DEF Before
  <2> DEFINE n == Cardinality(near)
  <2>8. ASSUME NEW k \in 1..n, \E s \in near : Cardinality(Before(near, R, s)) = k - 1
        PROVE  order[k] \in near /\ Cardinality(Before(near, R, order[k])) = k - 1
    <3>1. PICK s \in near : card({t \in near : ahead(t, s)}) = k - 1
      BY <1>0, <2>7, <2>8
    <3>2. order[k] \in near /\ card({t \in near : ahead(t, order[k])}) = k - 1
      BY <1>0, <3>1
    <3>3. QED
      BY <1>0, <2>7, <3>2
  <2>9. DOMAIN order = 1..n
    BY <1>0
  <2> HIDE DEF order
  <2>10. /\ \A k \in 1..n : order[k] \in near
         /\ \A s \in near : \E k \in 1..n : order[k] = s
    <3>1. \A k \in 1..Cardinality(near) :
            (\E s \in near : Cardinality(Before(near, R, s)) = k - 1)
              => order[k] \in near /\ Cardinality(Before(near, R, order[k])) = k - 1
      BY <2>8
    <3>2. DOMAIN order = 1..Cardinality(near)
      BY <2>9
    <3>3. /\ Cardinality(near) \in Nat
          /\ \A k \in 1..Cardinality(near) : order[k] \in near
          /\ \A s \in near : \E k \in 1..Cardinality(near) : order[k] = s
          /\ \A j, k \in 1..Cardinality(near) : j < k => <<order[j], order[k]>> \in R
      BY <2>6, <3>1, <3>2, InOrder, Zenon
    <3>4. QED
      BY <3>3
  <2> HIDE DEF n
  <2>11. ASSUME NEW s \in A \ shown, NEW t \in shown  PROVE dist(t) <= dist(s)
    <3>1. PICK k \in 1..n : t = legs[k].strike
      BY <1>5, <2>9
    <3>2. order[k] \in near /\ t = rows[order[k]].strike
      BY <1>5, <2>9, <2>10, <3>1
    <3>3. t \in A /\ Cardinality(closer(t)) < 5
      BY <1>0, <1>1, <2>1, <3>2 DEF near
    <3>4. PICK j \in D : rows[j].strike = s
      BY DEF A, D, StrikesIn
    <3>5. j \notin near
      <4>1. ASSUME j \in near  PROVE FALSE
        <5>1. PICK i \in 1..n : order[i] = j
          BY <2>10, <4>1
        <5>2. i \in DOMAIN legs /\ legs[i].strike = s
          BY <1>5, <2>9, <3>4, <5>1
        <5>3. s \in shown
          BY <5>2
        <5>4. QED
          BY <5>3
      <4>2. QED
        BY <4>1
    <3>6. ~(Cardinality(closer(s)) < 5)
      BY <1>0, <3>4, <3>5 DEF near
    <3>7. ASSUME ~(dist(t) <= dist(s))  PROVE FALSE
      <4>1. dist(s) < dist(t) /\ dist(s) \in Nat /\ dist(t) \in Nat
        BY <1>2, <3>3, <3>7
      <4>2. closer(s) \subseteq closer(t) /\ closer(t) \subseteq A
        BY <1>2, <4>1 DEF closer
      <4>3. IsFiniteSet(closer(t))
        BY <1>1, <4>2, FS_Subset
      <4>4. IsFiniteSet(closer(s)) /\ Cardinality(closer(s)) <= Cardinality(closer(t))
        BY <4>2, <4>3, FS_Subset
      <4>5. Cardinality(closer(s)) \in Nat /\ Cardinality(closer(t)) \in Nat
        BY <4>3, <4>4, FS_CardinalityType
      <4>6. QED
        BY <3>3, <3>6, <4>4, <4>5
    <3>8. QED
      BY <3>7
  <2>12. \A t \in shown : t \in A
    BY <1>1, <1>5, <2>1, <2>9, <2>10
  <2>13. QED
    BY <1>2, <2>11, <2>12 DEF A, legs
<1>6. legs = rows \/ legs = [k \in DOMAIN order |-> rows[order[k]]]
  <2> DEFINE place(k) == CHOOSE s \in near : card({t \in near : ahead(t, s)}) = k - 1
  <2>1. legs = rows \/ legs = [k \in 1..card(near) |-> rows[place(k)]]
    BY Zenon DEF Market!Tables!AtmChain, StrikesIn
  <2>2. order = [k \in 1..card(near) |-> place(k)]
    OBVIOUS
  <2> HIDE DEF place, order, legs
  <2>3. QED
    BY <2>1, <2>2
<1>7. QED
  BY <1>4, <1>5, <1>6
-----------------------------------------------------------------------------
(***************************************************************************)
(* What a page has of a feed: what the server sends, or nothing.           *)
(***************************************************************************)
Sendings(f) == {<< >>} \cup {Wire(f, i) : i \in Instruments}

LEMMA ContentsAreSent ==
  ASSUME PagesInv, NEW f \in DOMAIN hook \cap Read
  PROVE  \E w \in Sendings(f) : Contents[f] = Api!Received(f, w)
<1>1. Contents[f] = IF hook[f].data = NoData THEN NothingOf[f]
                    ELSE PayloadOf[f][IF f \in Market!Global THEN inst ELSE hook[f].data.inst]
  BY DEF Contents
<1>2. CASE hook[f].data = NoData
  <2>1. Contents[f] = Api!Received(f, << >>)
    BY <1>1, <1>2 DEF NothingOf, Api!Nothing
  <2>2. QED
    BY <2>1 DEF Sendings
<1>3. CASE hook[f].data # NoData
  <2> DEFINE i == IF f \in Market!Global THEN inst ELSE hook[f].data.inst
  <2>1. inst \in Instruments /\ HookOK(f)
    BY DEF PagesInv, Typed
  <2>2. hook[f].data \in PayloadFor(f)
    BY <1>3, <2>1 DEF HookOK, Fetch!Hooks
  <2>3. i \in Instruments
    BY <2>1, <2>2 DEF PayloadFor, OwnPayload
  <2>4. Contents[f] = PayloadOf[f][i]
    BY <1>1, <1>3
  <2> HIDE DEF i
  <2>5. Contents[f] = Api!Received(f, Wire(f, i))
    BY <2>3, <2>4 DEF PayloadOf
  <2>6. QED
    BY <2>3, <2>5 DEF Sendings
<1>4. QED
  BY <1>2, <1>3

LEMMA NothingSent == \A field : Api!Sent(<< >>, field) = None
BY DEF Api!Sent

\* The prices of the metrics and of the snapshot, and the strike at the money of a card.
LEMMA PricesSent ==
  /\ \A w \in Sendings("snapshot") : Api!Received("snapshot", w).spot \in Nat \cup {None}
  /\ \A w \in Sendings("optionsMetrics") :
       /\ Api!Received("optionsMetrics", w).spot \in Nat \cup {None}
       /\ Api!Received("optionsMetrics", w).atm \in Nat \cup {None}
  /\ \A w \in Sendings("dashboard") : Api!Received("dashboard", w).atm \in Nat \cup {None}
<1>1. ASSUME NEW f, NEW field,
             <<f, field>> \in {<<"snapshot", "last_price">>, <<"optionsMetrics", "spot">>,
                               <<"optionsMetrics", "atm_strike">>, <<"dashboard", "atm_strike">>},
             NEW w \in Sendings(f)
      PROVE  Api!Sent(w, field) \in Nat \cup {None}
  <2>1. CASE w = << >>
    BY <2>1, NothingSent
  <2>2. ASSUME NEW i \in Instruments, w = Wire(f, i)  PROVE Api!Sent(w, field) \in Nat \cup {None}
    <3> DEFINE p == <<f, field>>
    <3>1. p[1] = f /\ p[2] = field
      OBVIOUS
    <3>2. Api!Sent(Wire(p[1], i), p[2]) \in Nat \cup {None}
      <4> HIDE DEF p
      <4>1. QED
        BY <1>1, ServerAssumption DEF p
    <3>3. QED
      BY <2>2, <3>1, <3>2
  <2>3. QED
    BY <2>1, <2>2 DEF Sendings
<1>2. \A w : Api!Received("snapshot", w).spot = Api!Sent(w, "last_price")
  BY DEF Api!Received, Api!Snapshot
<1>3. \A w : /\ Api!Received("optionsMetrics", w).spot = Api!Sent(w, "spot")
             /\ Api!Received("optionsMetrics", w).atm = Api!Sent(w, "atm_strike")
  BY DEF Api!Received, Api!OptionsMetrics
<1>4. \A w : Api!Received("dashboard", w).atm = Api!Sent(w, "atm_strike")
  BY DEF Api!Received, Api!Card
<1>5. QED
  BY <1>1, <1>2, <1>3, <1>4

LEMMA RowsSent ==
  ASSUME NEW w \in Sendings("chain")
  PROVE  LET rows == Api!Received("chain", w).rows IN
         /\ PricedRows(rows) /\ DOMAIN rows \subseteq Nat
         /\ rows # << >> => DOMAIN rows # {}
<1> DEFINE raw == Api!ChainArray(w)
           row(k) == Api!ChainRow(raw[k])
           rows == [k \in DOMAIN raw |-> row(k)]
<1>1. Api!Received("chain", w).rows = rows
  BY DEF Api!Received, Api!Chain
<1>2. /\ IsFiniteSet(DOMAIN raw) /\ DOMAIN raw = 1..Cardinality(DOMAIN raw)
      /\ \A k \in DOMAIN raw : Api!Sent(raw[k], "strike") \in Nat \cup {None}
  <2>1. CASE w = << >>
    <3>1. raw = << >>
      BY <2>1, NothingSent DEF Api!ChainArray
    <3> HIDE DEF raw
    <3>2. DOMAIN raw = {}
      BY <3>1
    <3>3. IsFiniteSet(DOMAIN raw) /\ Cardinality(DOMAIN raw) = 0
      BY <3>2, FS_EmptySet
    <3>4. QED
      BY <3>2, <3>3
  <2>2. CASE \E i \in Instruments : w = Wire("chain", i)
    <3>1. PICK i \in Instruments : w = Wire("chain", i)
      BY <2>2
    <3>2. QED
      BY <3>1, ServerAssumption, Zenon
  <2>3. QED
    BY <2>1, <2>2 DEF Sendings
<1> HIDE DEF raw
<1>3. \A k \in DOMAIN raw : row(k).strike \in Nat
  BY <1>2 DEF Api!ChainRow
<1> HIDE DEF row
<1>4. Cardinality(DOMAIN raw) \in Nat
  BY <1>2, FS_CardinalityType
<1>5. DOMAIN rows = DOMAIN raw /\ DOMAIN raw \subseteq Nat
  BY <1>2, <1>4
<1>6. PricedRows(rows)
  BY <1>2, <1>3, <1>5 DEF PricedRows
<1>7. rows # << >> => DOMAIN rows # {}
  OBVIOUS
<1>8. QED
  BY <1>1, <1>5, <1>6, <1>7

-----------------------------------------------------------------------------
\* The strikes around the money are in view, for any chain, spot and count of rows, though
\* the feeds of the page may have answered for two instruments.
THEOREM MoneyStaysInView == Spec => []AtmInView
<1>1. ASSUME PagesInv  PROVE AtmInView
  <2> DEFINE c == Contents
             rows == c["chain"].rows
             all == {c["chain"].rows[k].strike : k \in DOMAIN c["chain"].rows}
  <2>1. all = StrikesIn(rows)
    BY DEF StrikesIn
  <2>2. DOMAIN hook = ToSet(FeedsOf(page))
    BY <1>1 DEF PagesInv, Typed
  <2>3. ASSUME page = "option-chain", "table" \in View
        PROVE  LET spot == Market!Tables!Spot(c["optionsMetrics"], c["snapshot"])
                   table == Market!ChainTable(ui, c)
                   strikes == {table[k].strike : k \in DOMAIN table}
                   atm == {k \in DOMAIN table : table[k].isAtm}
               IN  /\ spot # None =>
                        \E k \in atm : \A s \in all : Distance(table[k].strike, spot) <= Distance(s, spot)
                   /\ ui.count # All =>
                        \A k \in atm : k - 1 <= ui.count /\ Len(table) - k <= ui.count
                   /\ \A s \in all \ strikes :
                        (\A t \in strikes : s < t) \/ (\A t \in strikes : s > t)
    <3> DEFINE m == c["optionsMetrics"]
               snap == c["snapshot"]
    <3>1. {"snapshot", "optionsMetrics", "chain"} \subseteq DOMAIN hook \cap Read
      <4>1. FeedsOf(page) = <<"snapshot", "optionsMetrics", "chain", "futures">>
        BY <2>3 DEF FeedsOf, LabTools, OiTools, Market!MarketNames, Market!Feeds
      <4>2. QED
        BY <2>2, <4>1 DEF ToSet, Read
    <3>2. PICK v \in Sendings("optionsMetrics") : m = Api!Received("optionsMetrics", v)
      BY <1>1, <3>1, ContentsAreSent
    <3>3. PICK s \in Sendings("snapshot") : snap = Api!Received("snapshot", s)
      BY <1>1, <3>1, ContentsAreSent
    <3>4. PICK w \in Sendings("chain") : c["chain"] = Api!Received("chain", w)
      BY <1>1, <3>1, ContentsAreSent
    <3>5. ui.count = All \/ ui.count \in Nat
      <4>1. ui \in Market!States("option-chain")
        BY <1>1, <2>3 DEF PagesInv, UiInv, UiOK
      <4>2. QED
        BY <4>1, ComponentAssumption DEF Market!States
    <3>6. rows # << >>
      <4>1. "table" \in Market!View(page, ui, hook, c)
        BY <2>3 DEF View
      <4> HIDE DEF c
      <4>2. "table" \in Market!OptionChainView(ui, hook, c)
        BY <2>3, <4>1 DEF Market!View, Market!Banner
      <4>3. QED
        BY <4>2 DEF Market!OptionChainView
    <3> HIDE DEF c
    <3>7. PricedRows(rows) /\ DOMAIN rows # {}
      BY <3>4, <3>6, RowsSent
    <3>8. Market!Tables!Spot(m, snap) \in Nat \cup {None}
      BY <3>2, <3>3, PricesSent DEF Market!Tables!Spot
    <3>9. Market!ChainTable(ui, c) = Market!Tables!Table(rows, m, snap, ui.count)
      BY DEF Market!ChainTable
    <3> HIDE DEF rows, m, snap, all
    <3>10. QED
      BY <2>1, <3>5, <3>7, <3>8, <3>9, NearestInView DEF m, snap
  <2>4. ASSUME page = "dashboard", Market!DashboardAtm(c) # None
        PROVE  LET atm == Market!DashboardAtm(c)
                   legs == Market!DashboardRows(c)
                   strikes == {legs[k].strike : k \in DOMAIN legs}
               IN  \A s \in all \ strikes, t \in strikes : Distance(t, atm) <= Distance(s, atm)
    <3>1. {"dashboard", "optionsMetrics", "chain"} \subseteq DOMAIN hook \cap Read
      <4>1. FeedsOf(page) = <<"dashboard", "optionsMetrics", "chain">>
        BY <2>4 DEF FeedsOf, LabTools, OiTools, Market!MarketNames, Market!Feeds
      <4>2. QED
        BY <2>2, <4>1 DEF ToSet, Read
    <3>2. PICK v \in Sendings("optionsMetrics") :
            c["optionsMetrics"] = Api!Received("optionsMetrics", v)
      BY <1>1, <3>1, ContentsAreSent
    <3>3. PICK d \in Sendings("dashboard") : c["dashboard"] = Api!Received("dashboard", d)
      BY <1>1, <3>1, ContentsAreSent
    <3>4. PICK w \in Sendings("chain") : c["chain"] = Api!Received("chain", w)
      BY <1>1, <3>1, ContentsAreSent
    <3> HIDE DEF c
    <3>5. Market!DashboardAtm(c) \in Nat
      BY <2>4, <3>2, <3>3, PricesSent DEF Market!DashboardAtm
    <3>6. PricedRows(rows) /\ DOMAIN rows \subseteq Nat
      BY <3>4, RowsSent
    <3>7. Market!DashboardRows(c) = Market!Tables!AtmChain(rows, Market!DashboardAtm(c))
      BY DEF Market!DashboardRows
    <3> HIDE DEF rows, all
    <3>8. QED
      BY <2>1, <3>5, <3>6, <3>7, NearestLegs
  <2>5. QED
    BY <2>3, <2>4, Zenon DEF AtmInView
<1>2. QED
  BY <1>1, Inductive, PTL
=============================================================================
