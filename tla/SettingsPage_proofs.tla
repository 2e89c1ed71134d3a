------------------------ MODULE SettingsPage_proofs --------------------------
(***************************************************************************)
(* Proofs about SettingsPage, for any themes, names and bounds: when       *)
(* nothing is under way, browser and server agree.                         *)
(***************************************************************************)
EXTENDS SettingsPage, TLAPS, SequenceTheorems

(***************************************************************************)
(* Types.                                                                  *)
(***************************************************************************)
AllValues == {"on", "off", "classic", "inverted"} \cup Themes

PutMsg == [field : Prefs, value : AllValues, undo : AllValues, stage : Stages, heard : BOOLEAN]

SaveMsg == [field : ProfileFields, value : Names, stage : Stages, answer : Users,
            open : BOOLEAN, heard : BOOLEAN]

Typed ==
  /\ shown \in [Prefs -> AllValues] /\ row \in [Prefs -> AllValues] /\ light \in AllValues
  /\ puts \in Seq(PutMsg)
  /\ user \in Users /\ userRow \in Users /\ saves \in Seq(SaveMsg)
  /\ editor \in [field : ProfileFields \cup {NoField}, saving : BOOLEAN]

\* What is left of a sequence when one element is removed.
LEMMA Removed ==
  ASSUME NEW S, NEW s \in Seq(S), NEW k \in 1..Len(s)
  PROVE  /\ RemoveAt(s, k) \in Seq(S) /\ Len(RemoveAt(s, k)) = Len(s) - 1
         /\ \A i \in 1..(Len(s) - 1) : RemoveAt(s, k)[i] = IF i < k THEN s[i] ELSE s[i + 1]
<1> DEFINE a == SubSeq(s, 1, k - 1)
           b == SubSeq(s, k + 1, Len(s))
<1>1. Len(s) \in Nat /\ k \in Int
  OBVIOUS
<1>2. a \in Seq(S) /\ Len(a) = k - 1 /\ \A i \in 1..(k - 1) : a[i] = s[i]
  OBVIOUS
<1>3. b \in Seq(S) /\ Len(b) = Len(s) - k /\ \A i \in 1..(Len(s) - k) : b[i] = s[k + i]
  OBVIOUS
<1> HIDE DEF a, b
<1>4. RemoveAt(s, k) = a \o b
  BY DEF RemoveAt, a, b
<1>5. /\ a \o b \in Seq(S) /\ Len(a \o b) = Len(s) - 1
      /\ \A i \in 1..(Len(s) - 1) : (a \o b)[i] = IF i < k THEN a[i] ELSE b[i - (k - 1)]
  <2>1. /\ a \o b \in Seq(S) /\ Len(a \o b) = Len(a) + Len(b)
        /\ \A i \in 1..(Len(a) + Len(b)) : (a \o b)[i] = IF i <= Len(a) THEN a[i] ELSE b[i - Len(a)]
    BY <1>2, <1>3, ConcatProperties
  <2>2. Len(a) + Len(b) = Len(s) - 1
    BY <1>1, <1>2, <1>3
  <2>3. \A i \in 1..(Len(s) - 1) : i <= Len(a) <=> i < k
    BY <1>1, <1>2
  <2>4. QED
    BY <1>2, <2>1, <2>2, <2>3
<1>6. ASSUME NEW i \in 1..(Len(s) - 1)
      PROVE  (a \o b)[i] = IF i < k THEN s[i] ELSE s[i + 1]
  <2>1. CASE i < k
    <3>1. i \in 1..(k - 1)
      BY <1>1, <2>1
    <3>2. QED
      BY <1>2, <1>5, <2>1, <3>1
  <2>2. CASE i >= k
    <3>1. i - (k - 1) \in 1..(Len(s) - k) /\ k + (i - (k - 1)) = i + 1
      BY <1>1, <2>2
    <3>2. QED
      BY <1>1, <1>3, <1>5, <2>2, <3>1
  <2>3. QED
    <3>1. i < k \/ i >= k
      BY <1>1
    <3>2. QED
      BY <2>1, <2>2, <3>1
<1>7. QED
  BY <1>4, <1>5, <1>6

\* A sequence of which every element is replaced by one of the same kind.
LEMMA MappedSeq ==
  ASSUME NEW S, NEW s \in Seq(S), NEW t, DOMAIN t = DOMAIN s, t = [k \in DOMAIN s |-> t[k]],
         \A k \in DOMAIN s : t[k] \in S
  PROVE  t \in Seq(S) /\ Len(t) = Len(s)
<1>1. Len(s) \in Nat /\ DOMAIN s = 1..Len(s)
  OBVIOUS
<1>2. t \in [1..Len(s) -> S]
  BY <1>1
<1>3. QED
  BY <1>1, <1>2

\* A change whose page has gone, and a save whose editor is closed.
LEMMA Unheard ==
  ASSUME NEW m \in PutMsg
  PROVE  /\ [m EXCEPT !.heard = FALSE] \in PutMsg
         /\ [m EXCEPT !.heard = FALSE].field = m.field
BY DEF PutMsg

LEMMA Shut ==
  ASSUME NEW m \in SaveMsg
  PROVE  LET n == [m EXCEPT !.open = FALSE]
         IN  n \in SaveMsg /\ n.heard = m.heard /\ n.stage = m.stage /\ n.answer = m.answer
<1> DEFINE n == [m EXCEPT !.open = FALSE]
<1>1. n \in SaveMsg
  BY DEF SaveMsg
<1>2. n.heard = m.heard /\ n.stage = m.stage /\ n.answer = m.answer
  BY DEF SaveMsg
<1>3. QED
  BY <1>1, <1>2

LEMMA ShutUnheard ==
  ASSUME NEW m \in SaveMsg
  PROVE  [m EXCEPT !.open = FALSE, !.heard = FALSE] \in SaveMsg
BY DEF SaveMsg

\* What an edit may set a preference to.
LEMMA ValuesOf ==
  ASSUME NEW f \in Prefs
  PROVE  Values(f) \subseteq AllValues
BY DEF Values, AllValues, Prefs

\* Applying a value keeps the types.
LEMMA PutTypes ==
  ASSUME Typed, NEW f \in Prefs, NEW v \in AllValues, Put(f, v)
  PROVE  /\ shown' \in [Prefs -> AllValues] /\ light' \in AllValues
         /\ shown'[f] = v /\ \A g \in Prefs \ {f} : shown'[g] = shown[g]
BY DEF Typed, Put

(***************************************************************************)
(* The preferences.  The edits of a field that are neither refused nor     *)
(* done, nor undone yet, are a chain from what the server has to what is   *)
(* shown: each would be undone to the value of the one before it.          *)
(***************************************************************************)
Chained(O, p, s, r) ==
  /\ O = {} => s = r
  /\ \A k \in O : (\A j \in O : k <= j) => p[k].undo = r
  /\ \A k \in O : (\A j \in O : j <= k) => p[k].value = s
  /\ \A j, k \in O : j < k /\ (\A i \in O : i <= j \/ k <= i) => p[k].undo = p[j].value

\* What is to be undone and what is set, of one request and of another.
Alike(m, n) == m.undo = n.undo /\ m.value = n.value

\* A link more, at the end that is shown.
LEMMA ChainGrows ==
  ASSUME NEW O \in SUBSET Nat, NEW p, NEW q, NEW s, NEW r, Chained(O, p, s, r),
         NEW n \in Nat, \A k \in O : k < n /\ Alike(q[k], p[k]), q[n].undo = s
  PROVE  Chained(O \cup {n}, q, q[n].value, r)
<1> DEFINE P == O \cup {n}
<1>1. \A k \in P : k \in Nat /\ k <= n
  OBVIOUS
<1>2. ASSUME NEW k \in P, \A j \in P : k <= j  PROVE q[k].undo = r
  <2>1. CASE k = n
    <3>1. O = {}
      BY <1>2, <2>1
    <3>2. QED
      BY <2>1, <3>1 DEF Chained
  <2>2. CASE k # n
    BY <1>2, <2>2 DEF Chained, Alike
  <2>3. QED
    BY <2>1, <2>2
<1>3. ASSUME NEW k \in P, \A j \in P : j <= k  PROVE q[k].value = q[n].value
  BY <1>1, <1>3
<1>4. ASSUME NEW j \in P, NEW k \in P, j < k, \A i \in P : i <= j \/ k <= i
      PROVE  q[k].undo = q[j].value
  <2>0. j \in O /\ j # n
    BY <1>1, <1>4
  <2>1. CASE k = n
    <3>1. \A i \in O : i <= j
      BY <1>1, <1>4, <2>1
    <3>2. QED
      BY <2>0, <2>1, <3>1 DEF Chained, Alike
  <2>2. CASE k # n
    BY <1>4, <2>0, <2>2 DEF Chained, Alike
  <2>3. QED
    BY <2>1, <2>2
<1>5. QED
  BY <1>2, <1>3, <1>4 DEF Chained

\* The first link is taken: the server has what it sets.
LEMMA ChainTaken ==
  ASSUME NEW O \in SUBSET Nat, NEW p, NEW s, NEW r, Chained(O, p, s, r),
         NEW k \in O, \A j \in O : k <= j
  PROVE  Chained(O \ {k}, p, s, p[k].value)
<1> DEFINE P == O \ {k}
<1>1. P = {} => s = p[k].value
  <2> SUFFICES ASSUME P = {} PROVE p[k].value = s
    OBVIOUS
  <2>1. \A j \in O : j <= k
    OBVIOUS
  <2>2. QED
    BY <2>1 DEF Chained
<1>2. ASSUME NEW i \in P, \A j \in P : i <= j  PROVE p[i].undo = p[k].value
  <2>1. k < i /\ \A j \in O : j <= k \/ i <= j
    BY <1>2
  <2>2. QED
    BY <2>1 DEF Chained
<1>3. ASSUME NEW i \in P, \A j \in P : j <= i  PROVE p[i].value = s
  BY <1>3 DEF Chained
<1>4. ASSUME NEW j \in P, NEW i \in P, j < i, \A h \in P : h <= j \/ i <= h
      PROVE  p[i].undo = p[j].value
  <2>1. \A h \in O : h <= j \/ i <= h
    BY <1>4
  <2>2. QED
    BY <1>4, <2>1 DEF Chained
<1>5. QED
  BY <1>1, <1>2, <1>3, <1>4 DEF Chained

\* The last link is undone: what it replaced is shown.
LEMMA ChainUndone ==
  ASSUME NEW O \in SUBSET Nat, NEW p, NEW s, NEW r, Chained(O, p, s, r),
         NEW k \in O, \A j \in O : j <= k
  PROVE  Chained(O \ {k}, p, p[k].undo, r)
<1> DEFINE P == O \ {k}
<1>1. P = {} => p[k].undo = r
  <2> SUFFICES ASSUME P = {} PROVE p[k].undo = r
    OBVIOUS
  <2>1. \A j \in O : k <= j
    OBVIOUS
  <2>2. QED
    BY <2>1 DEF Chained
<1>2. ASSUME NEW i \in P, \A j \in P : i <= j  PROVE p[i].undo = r
  BY <1>2 DEF Chained
<1>3. ASSUME NEW i \in P, \A j \in P : j <= i  PROVE p[i].value = p[k].undo
  <2>1. i < k /\ \A j \in O : j <= i \/ k <= j
    BY <1>3
  <2>2. QED
    BY <2>1 DEF Chained
<1>4. ASSUME NEW j \in P, NEW i \in P, j < i, \A h \in P : h <= j \/ i <= h
      PROVE  p[i].undo = p[j].value
  <2>1. \A h \in O : h <= j \/ i <= h
    BY <1>4
  <2>2. QED
    BY <1>4, <2>1 DEF Chained
<1>5. QED
  BY <1>1, <1>2, <1>3, <1>4 DEF Chained

\* The place of a request before one was removed at k.
Was(k, i) == IF i < k THEN i ELSE i + 1

\* Every other place has one that it moved to.
LEMMA WasAll ==
  ASSUME NEW n \in Nat, NEW k \in 1..n, NEW j \in 1..n, j # k
  PROVE  \E i \in 1..(n - 1) : Was(k, i) = j
<1>1. CASE j < k
  <2>1. j \in 1..(n - 1) /\ Was(k, j) = j
    BY <1>1 DEF Was
  <2>2. QED
    BY <2>1
<1>2. CASE j > k
  <2>1. j - 1 \in 1..(n - 1) /\ Was(k, j - 1) = j
    BY <1>2 DEF Was
  <2>2. QED
    BY <2>1
<1>3. QED
  BY <1>1, <1>2

\* A chain is the same at other places in the same order.
LEMMA ChainMoved ==
  ASSUME NEW O \in SUBSET Nat, NEW p, NEW s, NEW r, Chained(O, p, s, r),
         NEW P \in SUBSET Nat, NEW q, NEW c \in Nat,
         \A i \in P : Was(c, i) \in O /\ Alike(q[i], p[Was(c, i)]),
         \A j \in O : \E i \in P : Was(c, i) = j
  PROVE  Chained(P, q, s, r)
<1>1. \A i, j \in P : i <= j <=> Was(c, i) <= Was(c, j)
  BY DEF Was
<1>2. P = {} => s = r
  BY DEF Chained
<1>3. ASSUME NEW i \in P, \A j \in P : i <= j  PROVE q[i].undo = r
  <2>1. \A j \in O : Was(c, i) <= j
    BY <1>1, <1>3
  <2>2. QED
    BY <2>1 DEF Chained, Alike
<1>4. ASSUME NEW i \in P, \A j \in P : j <= i  PROVE q[i].value = s
  <2>1. \A j \in O : j <= Was(c, i)
    BY <1>1, <1>4
  <2>2. QED
    BY <2>1 DEF Chained, Alike
<1>5. ASSUME NEW j \in P, NEW i \in P, j < i, \A h \in P : h <= j \/ i <= h
      PROVE  q[i].undo = q[j].value
  <2>1. \A h \in O : h <= Was(c, j) \/ Was(c, i) <= h
    BY <1>1, <1>5
  <2>2. Was(c, j) < Was(c, i)
    BY <1>5 DEF Was
  <2>3. Was(c, i) \in O /\ Was(c, j) \in O
    OBVIOUS
  <2>4. p[Was(c, i)].undo = p[Was(c, j)].value
    BY <2>1, <2>2, <2>3 DEF Chained
  <2>5. QED
    BY <2>4 DEF Alike
<1>6. QED
  BY <1>2, <1>3, <1>4, <1>5 DEF Chained

\* The requests about a field of which the server, or its refusal, is still to come.
Open(f) == About(f) \ In("done", f)

\* Those that are done came first, and only the last may have been refused.
PrefInv(f) ==
  /\ \A k \in About(f) : puts[k].heard
  /\ \A j, k \in About(f) : j < k =>
       /\ puts[j].stage # "failed"
       /\ puts[k].stage = "done" => puts[j].stage = "done"
  /\ Chained(Open(f), puts, shown[f], row[f])

PrefsInv == \A f \in Prefs \ unsure : PrefInv(f)

\* A preference nothing happens to keeps its invariant, whatever becomes of others.
LEMMA PrefUntouched ==
  ASSUME NEW f \in Prefs, PrefInv(f), DOMAIN puts \subseteq Nat,
         shown'[f] = shown[f], row'[f] = row[f],
         About(f)' = About(f), \A k \in About(f) : puts'[k] = puts[k]
  PROVE  PrefInv(f)'
<1>1. Open(f)' = Open(f) /\ Open(f) \subseteq About(f)
  BY DEF Open, In
<1>2. Chained(Open(f)', puts', shown'[f], row'[f])
  BY <1>1 DEF PrefInv, Chained
<1>3. QED
  BY <1>2 DEF PrefInv

\* An edit keeps the preferences in order: it is one link more.
LEMMA EditSteps ==
  ASSUME Typed, PrefsInv, NEW g \in Prefs, NEW v \in Values(g), Edit(g, v)
  PROVE  Typed' /\ PrefsInv'
<1> DEFINE m == [field |-> g, value |-> v, undo |-> shown[g], stage |-> "sent", heard |-> TRUE]
           n == Len(puts) + 1
<1>1. /\ puts' = Append(puts, m) /\ UNCHANGED <<row, user, userRow, editor, saves>> /\ Put(g, v)
      /\ unsure' = IF In("failed", g) # {} THEN unsure \cup {g} ELSE unsure
  BY DEF Edit, profileVars, Doubt
<1>2. v \in AllValues /\ m \in PutMsg
  BY ValuesOf DEF Typed, PutMsg, Stages
<1>3. /\ shown' \in [Prefs -> AllValues] /\ light' \in AllValues
      /\ shown'[g] = v /\ \A h \in Prefs \ {g} : shown'[h] = shown[h]
  BY <1>1, <1>2, PutTypes
<1>4. /\ m.field = g /\ m.value = v /\ m.undo = shown[g] /\ m.stage = "sent" /\ m.heard = TRUE
  OBVIOUS
<1> HIDE DEF m
<1>5. /\ puts' \in Seq(PutMsg) /\ Len(puts) \in Nat /\ Len(puts') = Len(puts) + 1
      /\ puts'[Len(puts) + 1] = m /\ \A k \in 1..Len(puts) : puts'[k] = puts[k]
      /\ DOMAIN puts = 1..Len(puts) /\ DOMAIN puts' = 1..(Len(puts) + 1)
  BY <1>1, <1>2 DEF Typed
<1>6. Typed'
  BY <1>1, <1>3, <1>5 DEF Typed
<1>7. /\ n \in Nat /\ puts'[n] = m /\ DOMAIN puts' = DOMAIN puts \cup {n} /\ n \notin DOMAIN puts
      /\ \A k \in DOMAIN puts : k \in Nat /\ k < n /\ puts'[k] = puts[k]
  BY <1>5
<1> HIDE DEF n
<1>8. ASSUME NEW f \in Prefs, f \notin unsure' PROVE PrefInv(f)'
  <2>1. f \notin unsure /\ PrefInv(f)
    BY <1>1, <1>8 DEF PrefsInv
  <2>2. CASE f = g
    <3>1. \A k \in About(f) : puts[k].stage # "failed" /\ puts[k].heard
      BY <1>1, <1>8, <2>1, <2>2 DEF In, PrefInv
    <3>2. About(f)' = About(f) \cup {n} /\ About(f) \subseteq DOMAIN puts
      BY <1>4, <1>7, <2>2 DEF About
    <3>3. Open(f)' = Open(f) \cup {n} /\ Open(f) \subseteq DOMAIN puts
      BY <1>4, <1>7, <3>2 DEF Open, In
    <3>4. Chained(Open(f)', puts', shown'[f], row'[f])
      <4>1. Open(f) \in SUBSET Nat /\ \A k \in Open(f) : k < n /\ Alike(puts'[k], puts[k])
        BY <1>7, <3>3 DEF Alike
      <4>2. puts'[n].undo = shown[f] /\ puts'[n].value = shown'[f]
        BY <1>3, <1>4, <1>7, <2>2
      <4>3. Chained(Open(f), puts, shown[f], row[f])
        BY <2>1 DEF PrefInv
      <4>4. Chained(Open(f) \cup {n}, puts', puts'[n].value, row[f])
        BY <1>7, <4>1, <4>2, <4>3, ChainGrows
      <4>5. QED
        BY <1>1, <3>3, <4>2, <4>4
    <3>5. \A k \in About(f)' : puts'[k].heard
      BY <1>4, <1>7, <3>1, <3>2
    <3>6. ASSUME NEW j \in About(f)', NEW k \in About(f)', j < k
          PROVE  puts'[j].stage # "failed" /\ (puts'[k].stage = "done" => puts'[j].stage = "done")
      <4>1. j \in About(f) /\ puts'[j] = puts[j]
        BY <1>7, <3>2, <3>6
      <4>2. k = n \/ (k \in About(f) /\ puts'[k] = puts[k])
        BY <1>7, <3>2
      <4>3. QED
        BY <1>4, <1>7, <2>1, <3>1, <3>6, <4>1, <4>2 DEF PrefInv
    <3>7. QED
      BY <3>4, <3>5, <3>6 DEF PrefInv
  <2>3. CASE f # g
    <3>1. About(f)' = About(f) /\ \A k \in About(f) : puts'[k] = puts[k]
      BY <1>4, <1>7, <2>3 DEF About
    <3>2. QED
      BY <1>1, <1>3, <1>7, <2>1, <2>3, <3>1, PrefUntouched
  <2>4. QED
    BY <2>2, <2>3
<1>9. QED
  BY <1>6, <1>8 DEF PrefsInv

\* The toggle of the navbar gives up the theme.
LEMMA ToggleSteps ==
  ASSUME Typed, PrefsInv, ToggleDark
  PROVE  Typed' /\ PrefsInv'
<1>1. /\ UNCHANGED <<row, puts, user, userRow, editor, saves>> /\ unsure' = unsure \cup {"theme"}
      /\ \E v \in {light, "dark"} : Put("theme", v)
  BY DEF ToggleDark, profileVars
<1>2. "theme" \in Prefs /\ {light, "dark"} \subseteq AllValues
  BY SettingsAssumption DEF Prefs, Typed, AllValues
<1>3. /\ shown' \in [Prefs -> AllValues] /\ light' \in AllValues
      /\ \A h \in Prefs \ {"theme"} : shown'[h] = shown[h]
  BY <1>1, <1>2, PutTypes
<1>4. Typed'
  BY <1>1, <1>3 DEF Typed
<1>5. DOMAIN puts \subseteq Nat /\ \A f \in Prefs : About(f)' = About(f)
  BY <1>1 DEF Typed, About
<1>6. PrefsInv'
  BY <1>1, <1>3, <1>5, PrefUntouched DEF PrefsInv
<1>7. QED
  BY <1>4, <1>6

\* A change that is only taken further: nothing is shown or hidden by it.
LEMMA PutMovesOn ==
  ASSUME Typed, PrefsInv, NEW k \in DOMAIN puts, NEW st \in Stages,
         puts' = [puts EXCEPT ![k].stage = st], UNCHANGED <<shown, light, profileVars>>,
         row' \in [Prefs -> AllValues], \A g \in Prefs \ {puts[k].field} : row'[g] = row[g],
         unsure \subseteq unsure',
         \/ puts[k].field \in unsure'
         \/ /\ puts[k].stage = "sent" /\ st = "done" /\ row'[puts[k].field] = puts[k].value
            /\ \A j \in In("sent", puts[k].field) : ~(j < k)
         \/ /\ puts[k].stage = "sent" /\ st = "failed" /\ row' = row
            /\ \A j \in About(puts[k].field) : ~(k < j)
  PROVE  Typed' /\ PrefsInv'
<1> DEFINE m == puts[k]
           n == [m EXCEPT !.stage = st]
<1>1. puts \in Seq(PutMsg) /\ m \in PutMsg /\ DOMAIN puts = 1..Len(puts) /\ DOMAIN puts \subseteq Nat
  BY DEF Typed
<1>2. /\ n \in PutMsg /\ n.stage = st
      /\ n.field = m.field /\ n.value = m.value /\ n.undo = m.undo /\ n.heard = m.heard
  BY <1>1 DEF PutMsg
<1> HIDE DEF m, n
<1>3. /\ puts' \in Seq(PutMsg) /\ DOMAIN puts' = DOMAIN puts /\ puts'[k] = n
      /\ \A j \in DOMAIN puts \ {k} : puts'[j] = puts[j]
  BY <1>1, <1>2 DEF m, n
<1>4. Typed'
  BY <1>3 DEF Typed, profileVars
<1>5. /\ \A j \in DOMAIN puts : puts'[j].field = puts[j].field /\ puts'[j].heard = puts[j].heard
      /\ \A j \in DOMAIN puts : Alike(puts'[j], puts[j])
  BY <1>2, <1>3 DEF m, Alike
<1>6. \A f \in Prefs : About(f)' = About(f) /\ About(f) \subseteq DOMAIN puts
  BY <1>3, <1>5 DEF About
<1>7. ASSUME NEW f \in Prefs, f \notin unsure' PROVE PrefInv(f)'
  <2>1. PrefInv(f)
    BY <1>7 DEF PrefsInv
  <2>2. CASE f # m.field
    <3>1. row'[f] = row[f] /\ \A j \in About(f) : puts'[j] = puts[j]
      BY <1>3, <1>7, <2>2 DEF m, About
    <3>2. QED
      BY <1>1, <1>6, <2>1, <3>1, PrefUntouched
  <2>3. CASE f = m.field
    <3> DEFINE O == Open(f)
    <3>1. \/ /\ m.stage = "sent" /\ st = "done" /\ row'[f] = m.value
             /\ \A j \in In("sent", f) : ~(j < k)
          \/ /\ m.stage = "sent" /\ st = "failed" /\ row' = row
             /\ \A j \in About(f) : ~(k < j)
      BY <1>7, <2>3 DEF m
    <3>2. k \in About(f) /\ k \in O /\ O \in SUBSET Nat /\ O \subseteq About(f)
      BY <1>1, <1>6, <2>3, <3>1 DEF About, Open, In, m
    <3>3. /\ \A i, j \in About(f) : i < j =>
               puts[i].stage # "failed" /\ (puts[j].stage = "done" => puts[i].stage = "done")
          /\ \A j \in About(f) : puts[j].heard /\ puts[j].stage \in Stages
          /\ Chained(O, puts, shown[f], row[f])
      <4>1. \A j \in DOMAIN puts : puts[j].stage \in Stages
        <5> SUFFICES ASSUME NEW j \in DOMAIN puts PROVE puts[j].stage \in Stages
          OBVIOUS
        <5>1. puts[j] \in PutMsg
          BY <1>1
        <5>2. QED
          BY <5>1 DEF PutMsg
      <4>2. QED
        BY <1>6, <2>1, <4>1 DEF PrefInv
    <3>4. \A j \in About(f) : puts'[j].heard
      BY <1>5, <1>6, <3>3
    <3>5. \A j \in About(f) : puts'[j].stage = IF j = k THEN st ELSE puts[j].stage
      BY <1>2, <1>3, <1>6
    <3>6. CASE st = "done"
      <4>1. /\ row'[f] = m.value /\ \A j \in About(f) : puts[j].stage = "sent" => ~(j < k)
        BY <3>1, <3>6 DEF In
      <4>2. \A j \in O : k <= j
        <5> SUFFICES ASSUME NEW j \in O, j < k  PROVE FALSE
          BY <3>2
        <5>1. j \in About(f) /\ puts[j].stage # "failed" /\ puts[j].stage # "done"
          BY <3>2, <3>3 DEF Open, In
        <5>2. QED
          BY <3>3, <4>1, <5>1 DEF Stages
      <4>3. Open(f)' = O \ {k}
        BY <1>6, <3>5, <3>6 DEF Open, In
      <4>4. Chained(O \ {k}, puts, shown[f], puts[k].value)
        BY <3>2, <3>3, <4>2, ChainTaken
      <4>5. Chained(O \ {k}, puts', shown[f], puts[k].value)
        BY <1>5, <1>6, <3>2, <4>4 DEF Chained, Alike
      <4>6. Chained(Open(f)', puts', shown'[f], row'[f])
        BY <4>1, <4>3, <4>5 DEF m
      <4>7. \A i, j \in About(f) : i < j =>
               puts'[i].stage # "failed" /\ (puts'[j].stage = "done" => puts'[i].stage = "done")
        <5> SUFFICES ASSUME NEW i \in About(f), NEW j \in About(f), i < j
                     PROVE  /\ puts'[i].stage # "failed"
                            /\ puts'[j].stage = "done" => puts'[i].stage = "done"
          OBVIOUS
        <5>1. puts'[i].stage # "failed"
          BY <3>3, <3>5, <3>6
        <5>2. ASSUME puts'[j].stage = "done"  PROVE puts'[i].stage = "done"
          <6>1. CASE j = k
            <7>1. puts[i].stage # "failed" /\ puts[i].stage # "sent"
              BY <3>3, <4>1, <6>1
            <7>2. puts[i].stage = "done"
              BY <3>3, <7>1 DEF Stages
            <7>3. QED
              BY <3>5, <3>6, <7>2
          <6>2. CASE j # k
            BY <3>3, <3>5, <3>6, <5>2, <6>2
          <6>3. QED
            BY <6>1, <6>2
        <5>3. QED
          BY <5>1, <5>2
      <4>8. QED
        BY <1>6, <3>4, <4>6, <4>7 DEF PrefInv
    <3>7. CASE st = "failed"
      <4>1. row' = row /\ \A j \in About(f) : ~(k < j)
        BY <3>1, <3>7
      <4>2. Open(f)' = O
        BY <1>6, <3>2, <3>5, <3>7 DEF Open, In
      <4>3. Chained(O, puts', shown[f], row[f])
        BY <1>5, <1>6, <3>2, <3>3 DEF Chained, Alike
      <4>4. Chained(Open(f)', puts', shown'[f], row'[f])
        BY <4>1, <4>2, <4>3
      <4>5. \A i, j \in About(f) : i < j =>
               puts'[i].stage # "failed" /\ (puts'[j].stage = "done" => puts'[i].stage = "done")
        <5> SUFFICES ASSUME NEW i \in About(f), NEW j \in About(f), i < j
                     PROVE  /\ puts'[i].stage # "failed"
                            /\ puts'[j].stage = "done" => puts'[i].stage = "done"
          OBVIOUS
        <5>1. i # k /\ puts'[i].stage = puts[i].stage
          BY <3>5, <4>1
        <5>2. QED
          BY <3>3, <3>5, <3>7, <5>1
      <4>6. QED
        BY <1>6, <3>4, <4>4, <4>5 DEF PrefInv
    <3>8. QED
      BY <3>1, <3>6, <3>7
  <2>4. QED
    BY <2>2, <2>3
<1>8. QED
  BY <1>4, <1>7 DEF PrefsInv

\* An answer, which undoes a change that was refused.
LEMMA AnswerSteps ==
  ASSUME Typed, PrefsInv, NEW k, PutAnswered(k)
  PROVE  Typed' /\ PrefsInv'
<1> DEFINE m == puts[k]
           f0 == puts[k].field
<1>1. k \in DOMAIN puts /\ puts \in Seq(PutMsg) /\ m \in PutMsg /\ DOMAIN puts = 1..Len(puts)
      /\ Len(puts) \in Nat
  BY DEF PutAnswered, Typed
<1>2. m.field = f0 /\ f0 \in Prefs /\ m.undo \in AllValues /\ m.stage \in {"done", "failed"}
      /\ m.heard \in BOOLEAN
  BY <1>1 DEF PutAnswered, PutMsg, Stages
<1>3. /\ puts' = RemoveAt(puts, k) /\ UNCHANGED <<row, user, userRow, editor, saves, unsure>>
      /\ IF m.stage = "failed" /\ m.heard THEN Put(f0, m.undo) ELSE UNCHANGED <<shown, light>>
  BY DEF PutAnswered, profileVars
<1>4. /\ puts' \in Seq(PutMsg) /\ DOMAIN puts' = 1..(Len(puts) - 1)
      /\ \A i \in DOMAIN puts' : puts'[i] = IF i < k THEN puts[i] ELSE puts[i + 1]
  <2>1. k \in 1..Len(puts)
    BY <1>1
  <2>2. /\ puts' \in Seq(PutMsg) /\ Len(puts') = Len(puts) - 1
        /\ \A i \in 1..(Len(puts) - 1) : puts'[i] = IF i < k THEN puts[i] ELSE puts[i + 1]
    BY <1>1, <1>3, <2>1, Removed
  <2>3. DOMAIN puts' = 1..(Len(puts) - 1)
    BY <2>2
  <2>4. QED
    BY <2>2, <2>3
<1>5. /\ shown' \in [Prefs -> AllValues] /\ light' \in AllValues
      /\ \A h \in Prefs \ {f0} : shown'[h] = shown[h]
      /\ m.stage = "failed" /\ m.heard => shown'[f0] = m.undo
      /\ m.stage # "failed" => shown' = shown
  <2>1. CASE m.stage = "failed" /\ m.heard
    BY <1>2, <1>3, <2>1, PutTypes
  <2>2. CASE ~(m.stage = "failed" /\ m.heard)
    BY <1>3, <2>2 DEF Typed
  <2>3. QED
    BY <2>1, <2>2
<1> HIDE DEF m, f0
<1>6. Typed'
  BY <1>3, <1>4, <1>5 DEF Typed
<1>7. ASSUME NEW f \in Prefs, f \notin unsure PROVE PrefInv(f)'
  <2>1. k \in Nat /\ \A i \in DOMAIN puts' : i \in Nat /\ Was(k, i) \in DOMAIN puts \ {k}
                                             /\ puts'[i] = puts[Was(k, i)]
    BY <1>1, <1>4 DEF Was
  <2>2. \A j \in DOMAIN puts \ {k} : \E i \in DOMAIN puts' : Was(k, i) = j
    <3> SUFFICES ASSUME NEW j \in DOMAIN puts, j # k PROVE \E i \in DOMAIN puts' : Was(k, i) = j
      OBVIOUS
    <3>1. k \in 1..Len(puts) /\ j \in 1..Len(puts)
      BY <1>1
    <3>2. \E i \in 1..(Len(puts) - 1) : Was(k, i) = j
      BY <1>1, <3>1, WasAll
    <3>3. QED
      BY <1>4, <3>2
  <2>3. PrefInv(f)
    BY <1>7 DEF PrefsInv
  <2> DEFINE O == Open(f)
  <2>4. /\ \A i \in About(f)' : i \in DOMAIN puts' /\ Was(k, i) \in About(f) /\ Was(k, i) # k
        /\ \A i \in Open(f)' : i \in DOMAIN puts' /\ Was(k, i) \in O \ {k}
        /\ \A j \in O \ {k} : \E i \in Open(f)' : Was(k, i) = j
    BY <2>1, <2>2 DEF About, Open, In
  <2>5. O \in SUBSET Nat /\ Open(f)' \in SUBSET Nat /\ O \subseteq About(f)
    <3>1. O \subseteq DOMAIN puts /\ O \subseteq About(f)
      BY DEF About, Open
    <3>2. QED
      BY <1>1, <2>1, <2>4, <3>1
  <2>6. Chained(O \ {k}, puts, shown'[f], row'[f])
    <3>1. Chained(O, puts, shown[f], row[f]) /\ row' = row
      BY <1>3, <2>3 DEF PrefInv
    <3>2. CASE k \notin O
      <4>1. O \ {k} = O
        BY <3>2
      <4>2. f # f0 \/ m.stage = "done"
        BY <1>1, <3>2 DEF About, Open, In, m, f0
      <4>3. shown'[f] = shown[f]
        BY <1>5, <4>2
      <4>4. QED
        BY <3>1, <4>1, <4>3
    <3>3. CASE k \in O
      <4>1. f = f0 /\ m.stage = "failed" /\ m.heard
        BY <1>1, <1>2, <2>3, <3>3 DEF About, Open, In, m, f0, PrefInv
      <4>2. shown'[f] = puts[k].undo
        BY <1>5, <4>1 DEF m
      <4>3. \A j \in O : j <= k
        <5> SUFFICES ASSUME NEW j \in O, k < j PROVE FALSE
          BY <2>1, <2>5
        <5>1. j \in About(f) /\ k \in About(f)
          BY <2>5, <3>3
        <5>2. QED
          BY <2>3, <4>1, <5>1 DEF PrefInv, m
      <4>4. QED
        BY <2>5, <3>1, <3>3, <4>2, <4>3, ChainUndone
    <3>4. QED
      BY <3>2, <3>3
  <2>7. Chained(Open(f)', puts', shown'[f], row'[f])
    <3> DEFINE P == Open(f)'
    <3>1. \A i \in P : Was(k, i) \in O \ {k} /\ Alike(puts'[i], puts[Was(k, i)])
      BY <2>1, <2>4 DEF Alike
    <3>2. P \in SUBSET Nat /\ O \ {k} \in SUBSET Nat /\ \A j \in O \ {k} : \E i \in P : Was(k, i) = j
      BY <2>4, <2>5
    <3> HIDE DEF P, O
    <3>3. Chained(P, puts', shown'[f], row'[f])
      BY <2>1, <2>6, <3>1, <3>2, ChainMoved
    <3>4. QED
      BY <3>3 DEF P
  <2>8. \A i \in About(f)' : puts'[i].heard
    BY <2>1, <2>3, <2>4 DEF PrefInv
  <2>9. ASSUME NEW i \in About(f)', NEW j \in About(f)', i < j
        PROVE  puts'[i].stage # "failed" /\ (puts'[j].stage = "done" => puts'[i].stage = "done")
    <3>1. Was(k, i) < Was(k, j)
      BY <2>1, <2>4, <2>9 DEF Was
    <3>2. QED
      BY <2>1, <2>3, <2>4, <3>1 DEF PrefInv
  <2>10. QED
    BY <2>7, <2>8, <2>9 DEF PrefInv
<1>8. QED
  BY <1>3, <1>6, <1>7 DEF PrefsInv

\* Steps that leave the preferences alone.
LEMMA PrefsUntouched ==
  ASSUME Typed, PrefsInv, UNCHANGED prefVars, unsure \subseteq unsure'
  PROVE  PrefsInv'
<1>1. shown' = shown /\ row' = row /\ puts' = puts
  BY DEF prefVars
<1>2. DOMAIN puts \subseteq Nat /\ \A f \in Prefs : About(f)' = About(f)
  BY <1>1 DEF Typed, About
<1>3. QED
  BY <1>1, <1>2, PrefUntouched DEF PrefsInv

(***************************************************************************)
(* The profile.                                                            *)
(***************************************************************************)

\* The saves whose answer is on its way.
Done == {k \in DOMAIN saves : saves[k].stage = "done"}

\* One of them at most, with the server's profile; without, the page has that already.
ProfileInv ==
  /\ \A k \in DOMAIN saves : saves[k].heard
  /\ \A k \in Done : saves[k].answer = userRow
  /\ \A j, k \in Done : j = k
  /\ Done = {} => user = userRow

ProfileOK == "profile" \in unsure \/ ProfileInv

\* Steps that leave the profile alone.
LEMMA ProfileUntouched ==
  ASSUME ProfileOK, UNCHANGED <<user, userRow, saves>>, "profile" \in unsure => "profile" \in unsure'
  PROVE  ProfileOK'
BY DEF ProfileOK, ProfileInv, Done

\* The editor and its saves keep the profile in order.
LEMMA EditorSteps ==
  ASSUME Typed, ProfileOK,
         \/ \E f \in ProfileFields : OpenEditor(f)
         \/ CloseEditor
         \/ \E n \in Names : Save(n)
  PROVE  Typed' /\ ProfileOK'
<1>0. saves \in Seq(SaveMsg) /\ Len(saves) \in Nat /\ DOMAIN saves = 1..Len(saves)
  BY DEF Typed
<1>1. CASE \E f \in ProfileFields : OpenEditor(f)
  <2>1. UNCHANGED <<prefVars, user, userRow, saves, unsure>>
        /\ editor' \in [field : ProfileFields \cup {NoField}, saving : BOOLEAN]
    BY <1>1 DEF OpenEditor
  <2>2. QED
    BY <2>1, ProfileUntouched DEF Typed, prefVars
<1>2. CASE CloseEditor
  <2>1. /\ UNCHANGED <<prefVars, user, userRow, unsure>>
        /\ editor' \in [field : ProfileFields \cup {NoField}, saving : BOOLEAN]
        /\ saves' = [k \in DOMAIN saves |-> [saves[k] EXCEPT !.open = FALSE]]
    BY <1>2 DEF CloseEditor
  <2>2. \A k \in DOMAIN saves : /\ saves'[k] \in SaveMsg
                                /\ saves'[k].heard = saves[k].heard
                                /\ saves'[k].stage = saves[k].stage
                                /\ saves'[k].answer = saves[k].answer
    <3> SUFFICES ASSUME NEW k \in DOMAIN saves
                 PROVE  /\ saves'[k] \in SaveMsg
                        /\ saves'[k].heard = saves[k].heard
                        /\ saves'[k].stage = saves[k].stage
                        /\ saves'[k].answer = saves[k].answer
      OBVIOUS
    <3>1. saves[k] \in SaveMsg /\ saves'[k] = [saves[k] EXCEPT !.open = FALSE]
      BY <1>0, <2>1
    <3>2. QED
      BY <3>1, Shut
  <2>3. DOMAIN saves' = DOMAIN saves /\ saves' = [k \in DOMAIN saves |-> saves'[k]]
    BY <2>1
  <2>4. saves' \in Seq(SaveMsg) /\ Len(saves') = Len(saves)
    BY <1>0, <2>2, <2>3, MappedSeq
  <2>5. Done' = Done
    BY <2>2, <2>3 DEF Done
  <2>6. ProfileOK'
    <3>1. \A k \in Done : saves'[k].answer = saves[k].answer
      BY <2>2 DEF Done
    <3>2. ProfileInv => ProfileInv'
      BY <2>1, <2>2, <2>3, <2>5, <3>1 DEF ProfileInv
    <3>3. QED
      BY <2>1, <3>2 DEF ProfileOK
  <2>7. QED
    BY <2>1, <2>4, <2>6 DEF Typed, prefVars
<1>3. ASSUME NEW n \in Names, Save(n) PROVE Typed' /\ ProfileOK'
  <2> DEFINE m == [field |-> editor.field, value |-> n, stage |-> "sent",
                   answer |-> user, open |-> TRUE, heard |-> TRUE]
  <2>1. /\ UNCHANGED <<prefVars, user, userRow>> /\ saves' = Append(saves, m)
        /\ editor' = [editor EXCEPT !.saving = TRUE]
        /\ unsure' = unsure
    BY <1>3 DEF Save
  <2>2. m \in SaveMsg
    BY <1>3 DEF Save, Typed, SaveMsg, Stages
  <2>3. m.heard = TRUE /\ m.stage = "sent"
    OBVIOUS
  <2> HIDE DEF m
  <2>4. editor' \in [field : ProfileFields \cup {NoField}, saving : BOOLEAN]
    BY <2>1 DEF Typed
  <2>5. /\ saves' \in Seq(SaveMsg) /\ DOMAIN saves' = DOMAIN saves \cup {Len(saves) + 1}
        /\ Len(saves) + 1 \notin DOMAIN saves /\ saves'[Len(saves) + 1] = m
        /\ \A k \in DOMAIN saves : saves'[k] = saves[k]
    BY <1>0, <2>1, <2>2
  <2>6. ProfileOK'
    <3>1. Done' = Done /\ \A k \in Done : saves'[k] = saves[k]
      BY <2>3, <2>5 DEF Done
    <3>2. ProfileInv => ProfileInv'
      BY <2>1, <2>3, <2>5, <3>1 DEF ProfileInv
    <3>3. QED
      BY <2>1, <3>2 DEF ProfileOK
  <2>7. QED
    BY <2>1, <2>4, <2>5, <2>6 DEF Typed, prefVars
<1>4. QED
  BY <1>1, <1>2, <1>3

\* The server's part in a save, and the loss of its answer.
LEMMA SaveMovesOn ==
  ASSUME Typed, ProfileOK, NEW k, UpdateProfile(k) \/ LoseSaved(k)
  PROVE  Typed' /\ ProfileOK'
<1> DEFINE m == saves[k]
<1>1. saves \in Seq(SaveMsg) /\ k \in DOMAIN saves /\ DOMAIN saves = 1..Len(saves) /\ Len(saves) \in Nat
      /\ m \in SaveMsg /\ user \in Users /\ userRow \in Users
  <2>1. k \in DOMAIN saves
    BY DEF UpdateProfile, LoseSaved
  <2>2. QED
    BY <2>1 DEF Typed
<1>2. UNCHANGED <<prefVars, user, editor>>
  BY DEF UpdateProfile, LoseSaved
<1>3. PICK x \in SaveMsg :
        /\ saves' = [saves EXCEPT ![k] = x] /\ x.heard = m.heard /\ userRow' \in Users
        /\ \/ /\ m.stage = "sent" /\ x.stage = "done" /\ x.answer = userRow'
              /\ unsure' = IF Done # {} THEN unsure \cup {"profile"} ELSE unsure
           \/ m.stage = "sent" /\ x.stage = "failed" /\ userRow' = userRow /\ unsure' = unsure
           \/ unsure' = unsure \cup {"profile"}
  <2>1. CASE UpdateProfile(k) /\ userRow' = [userRow EXCEPT ![m.field] = m.value]
             /\ saves' = [saves EXCEPT ![k].stage = "done", ![k].answer = userRow']
    <3> DEFINE x == [m EXCEPT !.stage = "done", !.answer = userRow']
    <3>1. userRow' \in Users
      BY <1>1, <2>1 DEF Users, SaveMsg
    <3>2. /\ x \in SaveMsg /\ x.heard = m.heard /\ x.stage = "done" /\ x.answer = userRow'
      BY <1>1, <3>1 DEF SaveMsg, Stages
    <3>3. saves' = [saves EXCEPT ![k] = x] /\ m.stage = "sent"
      BY <2>1 DEF UpdateProfile
    <3>4. "sent" # "done" /\ saves'[k].stage = "done"
      BY <1>1, <3>2, <3>3
    <3>5. unsure' = IF Done # {} THEN unsure \cup {"profile"} ELSE unsure
      <4>1. saves' # [saves EXCEPT ![k].stage = "failed"]
        BY <1>1, <3>4 DEF SaveMsg
      <4>2. QED
        BY <2>1, <4>1 DEF UpdateProfile, Doubt, Done
    <3>6. QED
      BY <3>1, <3>2, <3>3, <3>5
  <2>2. CASE (UpdateProfile(k) \/ LoseSaved(k)) /\ userRow' = userRow
             /\ saves' = [saves EXCEPT ![k].stage = "failed"]
    <3> DEFINE x == [m EXCEPT !.stage = "failed"]
    <3>1. x \in SaveMsg /\ x.heard = m.heard /\ x.stage = "failed"
      BY <1>1 DEF SaveMsg, Stages
    <3>2. saves' = [saves EXCEPT ![k] = x]
      BY <2>2
    <3>3. (m.stage = "sent" /\ unsure' = unsure) \/ unsure' = unsure \cup {"profile"}
      <4>1. saves'[k].stage # "done"
        BY <1>1, <3>1, <3>2
      <4>2. saves' # [saves EXCEPT ![k].stage = "done", ![k].answer = userRow']
        BY <1>1, <4>1 DEF SaveMsg
      <4>3. QED
        BY <2>2, <4>2 DEF UpdateProfile, LoseSaved
    <3>4. QED
      BY <1>1, <2>2, <3>1, <3>2, <3>3
  <2>3. QED
    BY <2>1, <2>2 DEF UpdateProfile, LoseSaved
<1> HIDE DEF m
<1>4. /\ saves' \in Seq(SaveMsg) /\ Len(saves') = Len(saves) /\ DOMAIN saves' = DOMAIN saves
      /\ saves'[k] = x
  BY <1>1, <1>3
<1>5. Typed'
  BY <1>2, <1>3, <1>4 DEF Typed, prefVars
<1>6. ProfileOK'
  <2>1. CASE "profile" \in unsure'
    BY <2>1 DEF ProfileOK
  <2>2. CASE "profile" \notin unsure'
    <3>1. ProfileInv
      BY <1>3, <2>2 DEF ProfileOK
    <3>2. \A j \in DOMAIN saves : saves'[j] = IF j = k THEN x ELSE saves[j]
      BY <1>1, <1>3
    <3>3. m.stage = "sent" /\ k \notin Done
      BY <1>3, <2>2 DEF Done, m
    <3>4. \A j \in DOMAIN saves' : saves'[j].heard
      BY <1>1, <1>3, <1>4, <3>1, <3>2 DEF ProfileInv, m
    <3>5. CASE x.stage = "done" /\ x.answer = userRow' /\ Done = {}
      <4>1. Done' = {k}
        BY <1>1, <1>4, <3>2, <3>5 DEF Done
      <4>2. QED
        BY <1>4, <3>4, <3>5, <4>1 DEF ProfileOK, ProfileInv
    <3>6. CASE x.stage = "failed" /\ userRow' = userRow
      <4>1. Done' = Done /\ \A j \in Done : saves'[j] = saves[j]
        BY <1>4, <3>2, <3>3, <3>6 DEF Done
      <4>2. QED
        BY <1>2, <3>1, <3>4, <3>6, <4>1 DEF ProfileOK, ProfileInv
    <3>7. QED
      BY <1>3, <2>2, <3>5, <3>6
  <2>3. QED
    BY <2>1, <2>2
<1>7. QED
  BY <1>5, <1>6

\* An answer to a save.
LEMMA SavedSteps ==
  ASSUME Typed, ProfileOK, NEW k, SaveAnswered(k)
  PROVE  Typed' /\ ProfileOK'
<1> DEFINE m == saves[k]
           shut == [j \in DOMAIN saves |-> [saves[j] EXCEPT !.open = FALSE]]
<1>1. saves \in Seq(SaveMsg) /\ k \in DOMAIN saves /\ DOMAIN saves = 1..Len(saves) /\ Len(saves) \in Nat
      /\ m \in SaveMsg /\ user \in Users /\ k \in 1..Len(saves)
  BY DEF Typed, SaveAnswered
<1>2. UNCHANGED <<prefVars, userRow, unsure>> /\ m.stage # "sent"
  BY DEF SaveAnswered
<1>3. shut \in Seq(SaveMsg) /\ Len(shut) = Len(saves)
  <2>1. ASSUME NEW j \in DOMAIN saves PROVE shut[j] \in SaveMsg
    <3>1. saves[j] \in SaveMsg /\ shut[j] = [saves[j] EXCEPT !.open = FALSE]
      BY <1>1
    <3>2. QED
      BY <3>1, Shut
  <2>2. DOMAIN shut = DOMAIN saves /\ shut = [j \in DOMAIN saves |-> shut[j]]
    OBVIOUS
  <2> HIDE DEF shut
  <2>3. QED
    BY <1>1, <2>1, <2>2, MappedSeq
<1>4. \/ m.heard /\ m.stage = "done" /\ user' = m.answer
      \/ (~m.heard \/ m.stage # "done") /\ user' = user
  BY DEF SaveAnswered
<1>5. saves' = RemoveAt(saves, k) \/ saves' = RemoveAt(shut, k)
  BY DEF SaveAnswered
<1>6. editor' \in [field : ProfileFields \cup {NoField}, saving : BOOLEAN]
  <2>1. editor \in [field : ProfileFields \cup {NoField}, saving : BOOLEAN]
    BY DEF Typed
  <2>2. /\ [editor EXCEPT !.saving = FALSE] \in [field : ProfileFields \cup {NoField}, saving : BOOLEAN]
        /\ [field |-> NoField, saving |-> FALSE] \in [field : ProfileFields \cup {NoField}, saving : BOOLEAN]
    BY <2>1
  <2>3. editor' \in {editor, [editor EXCEPT !.saving = FALSE], [field |-> NoField, saving |-> FALSE]}
    BY DEF SaveAnswered
  <2>4. QED
    BY <2>1, <2>2, <2>3
<1> HIDE DEF m, shut
<1>7. PICK t \in {saves, shut} : saves' = RemoveAt(t, k)
  BY <1>5
<1>8. /\ t \in Seq(SaveMsg) /\ Len(t) = Len(saves)
      /\ \A j \in DOMAIN saves : /\ t[j].heard = saves[j].heard /\ t[j].stage = saves[j].stage
                                /\ t[j].answer = saves[j].answer
  <2>1. CASE t = saves
    BY <1>1, <2>1
  <2>2. CASE t = shut
    <3> SUFFICES ASSUME NEW j \in DOMAIN saves
                 PROVE  /\ shut[j].heard = saves[j].heard /\ shut[j].stage = saves[j].stage
                        /\ shut[j].answer = saves[j].answer
      BY <1>3, <2>2
    <3>1. saves[j] \in SaveMsg /\ shut[j] = [saves[j] EXCEPT !.open = FALSE]
      BY <1>1 DEF shut
    <3>2. QED
      BY <3>1, Shut
  <2>3. QED
    BY <2>1, <2>2
<1>9. /\ saves' \in Seq(SaveMsg) /\ DOMAIN saves' = 1..(Len(saves) - 1)
      /\ \A i \in 1..(Len(saves) - 1) : saves'[i] = t[Was(k, i)]
  <2>1. /\ saves' \in Seq(SaveMsg) /\ Len(saves') = Len(saves) - 1
        /\ \A i \in 1..(Len(saves) - 1) : saves'[i] = IF i < k THEN t[i] ELSE t[i + 1]
    <3>1. k \in 1..Len(t)
      BY <1>1, <1>8
    <3>2. QED
      BY <1>7, <1>8, <3>1, Removed
  <2>2. DOMAIN saves' = 1..(Len(saves) - 1)
    BY <2>1
  <2>3. QED
    BY <2>1, <2>2 DEF Was
<1>10. user' \in Users
  BY <1>1, <1>4 DEF SaveMsg
<1>11. ASSUME ProfileInv PROVE ProfileInv'
  <2>1. \A i \in DOMAIN saves' :
          /\ Was(k, i) \in DOMAIN saves /\ Was(k, i) # k
          /\ saves'[i].heard = saves[Was(k, i)].heard /\ saves'[i].stage = saves[Was(k, i)].stage
          /\ saves'[i].answer = saves[Was(k, i)].answer
    <3> SUFFICES ASSUME NEW i \in 1..(Len(saves) - 1)
                 PROVE  /\ Was(k, i) \in DOMAIN saves /\ Was(k, i) # k
                        /\ saves'[i].heard = saves[Was(k, i)].heard
                        /\ saves'[i].stage = saves[Was(k, i)].stage
                        /\ saves'[i].answer = saves[Was(k, i)].answer
      BY <1>9
    <3>1. Was(k, i) \in DOMAIN saves /\ Was(k, i) # k
      BY <1>1 DEF Was
    <3>2. QED
      BY <1>8, <1>9, <3>1
  <2>2. \A j \in DOMAIN saves \ {k} : \E i \in DOMAIN saves' : Was(k, i) = j
    <3> SUFFICES ASSUME NEW j \in DOMAIN saves, j # k PROVE \E i \in DOMAIN saves' : Was(k, i) = j
      OBVIOUS
    <3>1. j \in 1..Len(saves)
      BY <1>1
    <3>2. \E i \in 1..(Len(saves) - 1) : Was(k, i) = j
      BY <1>1, <3>1, WasAll
    <3>3. QED
      BY <1>9, <3>2
  <2>3. \A i, j \in DOMAIN saves' : Was(k, i) = Was(k, j) => i = j
    BY <1>1, <1>9 DEF Was
  <2>4. /\ \A i \in Done' : Was(k, i) \in Done \ {k} /\ i \in DOMAIN saves'
        /\ \A j \in Done \ {k} : \E i \in Done' : Was(k, i) = j
    BY <2>1, <2>2 DEF Done
  <2>5. \A i \in DOMAIN saves' : saves'[i].heard
    BY <1>11, <2>1 DEF ProfileInv
  <2>6. m.heard /\ (k \in Done <=> m.stage = "done")
    BY <1>1, <1>11 DEF ProfileInv, Done, m
  <2>7. Done' = {} => user' = userRow'
    <3> SUFFICES ASSUME Done' = {} PROVE user' = userRow
      BY <1>2
    <3>1. CASE m.stage = "done"
      BY <1>4, <1>11, <2>6, <3>1 DEF ProfileInv, m
    <3>2. CASE m.stage # "done"
      <4>1. Done = {}
        BY <2>4, <2>6, <3>2
      <4>2. QED
        BY <1>4, <1>11, <3>2, <4>1 DEF ProfileInv
    <3>3. QED
      BY <3>1, <3>2
  <2>8. \A i \in Done' : saves'[i].answer = userRow'
    BY <1>2, <1>11, <2>1, <2>4 DEF ProfileInv
  <2>9. \A i, j \in Done' : i = j
    BY <1>11, <2>3, <2>4 DEF ProfileInv
  <2>10. QED
    BY <2>5, <2>7, <2>8, <2>9 DEF ProfileInv
<1>12. QED
  BY <1>2, <1>6, <1>9, <1>10, <1>11 DEF Typed, ProfileOK, prefVars

\* A reload hears of nothing that was under way, and gives that up.
LEMMA ReloadSteps ==
  ASSUME Typed, PrefsInv, ProfileOK, NEW ok \in BOOLEAN, Reload(ok)
  PROVE  Typed' /\ PrefsInv' /\ ProfileOK'
<1>1. puts \in Seq(PutMsg) /\ DOMAIN puts = 1..Len(puts) /\ Len(puts) \in Nat
      /\ saves \in Seq(SaveMsg) /\ DOMAIN saves = 1..Len(saves) /\ Len(saves) \in Nat
  BY DEF Typed
<1>2. /\ puts' = [k \in DOMAIN puts |-> [puts[k] EXCEPT !.heard = FALSE]]
      /\ saves' = [k \in DOMAIN saves |-> [saves[k] EXCEPT !.open = FALSE, !.heard = FALSE]]
      /\ user' = userRow /\ UNCHANGED <<row, userRow>>
      /\ shown' = IF ok THEN row ELSE shown
      /\ unsure' = (IF ok THEN {} ELSE unsure \ {"profile"})
                     \cup {puts[k].field : k \in DOMAIN puts}
                     \cup (IF saves = << >> THEN {} ELSE {"profile"})
  BY DEF Reload
<1>3. /\ DOMAIN puts' = DOMAIN puts /\ puts' = [k \in DOMAIN puts |-> puts'[k]]
      /\ DOMAIN saves' = DOMAIN saves /\ saves' = [k \in DOMAIN saves |-> saves'[k]]
  BY <1>2
<1>4. ASSUME NEW k \in DOMAIN puts PROVE puts'[k] \in PutMsg /\ puts'[k].field = puts[k].field
  <2>1. puts[k] \in PutMsg
    BY <1>1
  <2>2. puts'[k] = [puts[k] EXCEPT !.heard = FALSE]
    BY <1>2, Zenon
  <2>3. QED
    BY <2>1, <2>2, Unheard
<1>5. ASSUME NEW k \in DOMAIN saves PROVE saves'[k] \in SaveMsg
  <2>1. saves[k] \in SaveMsg
    BY <1>1
  <2>2. saves'[k] = [saves[k] EXCEPT !.open = FALSE, !.heard = FALSE]
    BY <1>2, Zenon
  <2>3. QED
    BY <2>1, <2>2, ShutUnheard
<1>6. /\ puts' \in Seq(PutMsg) /\ saves' \in Seq(SaveMsg) /\ Len(saves') = Len(saves)
  BY <1>1, <1>3, <1>4, <1>5, MappedSeq
<1>7. light' \in AllValues
  <2>1. "theme" \in Prefs
    BY DEF Prefs
  <2>2. light' \in {light, row["theme"]}
    BY DEF Reload
  <2>3. QED
    BY <2>1, <2>2 DEF Typed
<1>8. editor' \in [field : ProfileFields \cup {NoField}, saving : BOOLEAN]
  BY DEF Reload
<1>9. Typed'
  BY <1>2, <1>6, <1>7, <1>8 DEF Typed
<1>10. ASSUME NEW f \in Prefs, f \notin unsure' PROVE PrefInv(f)'
  <2>1. \A k \in DOMAIN puts : puts[k].field # f
    BY <1>2, <1>10
  <2>2. \A k \in DOMAIN puts' : puts'[k].field # f
    BY <1>3, <1>4, <2>1
  <2>3. shown'[f] = row'[f]
    <3>1. CASE ok
      BY <1>2, <3>1
    <3>2. CASE ~ok
      <4>1. f \notin unsure
        BY <1>2, <1>10, <3>2 DEF Prefs
      <4>2. shown[f] = row[f]
        <5>1. PrefInv(f) /\ Open(f) = {}
          BY <2>1, <4>1 DEF PrefsInv, Open, About
        <5>2. QED
          BY <5>1 DEF PrefInv, Chained
      <4>3. QED
        BY <1>2, <3>2, <4>2
    <3>3. QED
      BY <3>1, <3>2
  <2>4. About(f)' = {} /\ Open(f)' = {}
    BY <2>2 DEF About, Open
  <2>5. Chained(Open(f)', puts', shown'[f], row'[f])
    BY <2>3, <2>4 DEF Chained
  <2>6. QED
    BY <2>4, <2>5 DEF PrefInv
<1>11. ProfileOK'
  <2>1. CASE saves = << >>
    BY <1>1, <1>2, <1>6, <2>1 DEF ProfileOK, ProfileInv, Done
  <2>2. CASE saves # << >>
    BY <1>2, <2>2 DEF ProfileOK
  <2>3. QED
    BY <2>1, <2>2
<1>12. QED
  BY <1>9, <1>10, <1>11 DEF PrefsInv

(***************************************************************************)
(* The theorem.                                                            *)
(***************************************************************************)
IInv == Typed /\ PrefsInv /\ ProfileOK

\* The page starts with what the server has.
LEMMA InitIInv ==
  ASSUME Init
  PROVE  IInv
<1>1. row \in [Prefs -> AllValues] /\ shown = row
  <2>1. [tooltip |-> "on", scheme |-> "classic", theme |-> "dark"] \in [Prefs -> AllValues]
    BY SettingsAssumption DEF Prefs, AllValues
  <2>2. QED
    BY <2>1 DEF Init
<1>2. puts = << >> /\ saves = << >> /\ user = userRow /\ unsure = {} /\ light = "classic"
      /\ editor = [field |-> NoField, saving |-> FALSE]
  BY DEF Init
<1>3. userRow \in Users
  BY SettingsAssumption DEF Init, Users
<1>4. Typed
  BY <1>1, <1>2, <1>3 DEF Typed, AllValues
<1>5. PrefsInv /\ ProfileOK
  <2>1. \A f \in Prefs : About(f) = {} /\ Open(f) = {}
    BY <1>2 DEF About, Open
  <2>2. QED
    BY <1>1, <1>2, <2>1 DEF PrefsInv, PrefInv, Chained, ProfileOK, ProfileInv, Done
<1>6. QED
  BY <1>4, <1>5 DEF IInv

\* Every step keeps the invariant.
LEMMA NextIInv ==
  ASSUME IInv, [Next]_vars
  PROVE  IInv'
<1> USE DEF IInv
<1>1. CASE \E f \in Prefs : \E v \in Values(f) : Edit(f, v)
  BY <1>1, EditSteps, ProfileUntouched DEF Edit, profileVars, Doubt, Prefs
<1>2. CASE ToggleDark
  BY <1>2, ToggleSteps, ProfileUntouched DEF ToggleDark, profileVars
<1>3. ASSUME NEW k, Upsert(k) \/ LoseAnswer(k) PROVE IInv'
  <2> DEFINE f == puts[k].field
  <2>0. k \in DOMAIN puts /\ puts[k] \in PutMsg /\ row \in [Prefs -> AllValues]
        /\ "done" \in Stages /\ "failed" \in Stages
    <3>1. k \in DOMAIN puts
      BY <1>3 DEF Upsert, LoseAnswer
    <3>2. QED
      BY <3>1 DEF Typed, Stages
  <2>1. UNCHANGED <<shown, light, profileVars>> /\ unsure \subseteq unsure'
    BY <1>3 DEF Upsert, LoseAnswer, Doubt
  <2>2. ProfileOK'
    BY <2>1, ProfileUntouched DEF profileVars
  <2>3. CASE /\ puts[k].stage = "sent"
             /\ row' = [row EXCEPT ![f] = puts[k].value] /\ puts' = [puts EXCEPT ![k].stage = "done"]
             /\ Doubt(f, \E j \in In("sent", f) : j < k)
    <3>1. /\ row' \in [Prefs -> AllValues] /\ row'[puts[k].field] = puts[k].value
          /\ \A g \in Prefs \ {puts[k].field} : row'[g] = row[g]
      BY <2>0, <2>3 DEF PutMsg
    <3>2. f \in unsure' \/ \A j \in In("sent", f) : ~(j < k)
      BY <2>3 DEF Doubt
    <3>3. QED
      BY <2>0, <2>1, <2>2, <2>3, <3>1, <3>2, PutMovesOn
  <2>4. CASE /\ puts[k].stage = "sent"
             /\ row' = row /\ puts' = [puts EXCEPT ![k].stage = "failed"]
             /\ Doubt(f, \E j \in About(f) : k < j)
    <3>1. f \in unsure' \/ \A j \in About(f) : ~(k < j)
      BY <2>4 DEF Doubt
    <3>2. QED
      BY <2>0, <2>1, <2>2, <2>4, <3>1, PutMovesOn
  <2>5. CASE LoseAnswer(k)
    <3>1. f \in unsure' /\ row' = row /\ puts' = [puts EXCEPT ![k].stage = "failed"]
      BY <2>5 DEF LoseAnswer
    <3>2. QED
      BY <2>0, <2>1, <2>2, <3>1, PutMovesOn
  <2>6. QED
    BY <1>3, <2>3, <2>4, <2>5 DEF Upsert
<1>4. ASSUME NEW k, PutAnswered(k) PROVE IInv'
  BY <1>4, AnswerSteps, ProfileUntouched DEF PutAnswered, profileVars
<1>5. CASE (\E f \in ProfileFields : OpenEditor(f)) \/ CloseEditor \/ \E n \in Names : Save(n)
  <2>1. UNCHANGED prefVars /\ unsure \subseteq unsure'
    BY <1>5 DEF OpenEditor, CloseEditor, Save
  <2>2. QED
    BY <1>5, <2>1, EditorSteps, PrefsUntouched
<1>6. ASSUME NEW k, UpdateProfile(k) \/ LoseSaved(k) PROVE IInv'
  <2>1. UNCHANGED prefVars /\ unsure \subseteq unsure'
    BY <1>6 DEF UpdateProfile, LoseSaved, Doubt
  <2>2. QED
    BY <1>6, <2>1, SaveMovesOn, PrefsUntouched
<1>7. ASSUME NEW k, SaveAnswered(k) PROVE IInv'
  <2>1. UNCHANGED prefVars /\ unsure \subseteq unsure'
    BY <1>7 DEF SaveAnswered
  <2>2. QED
    BY <1>7, <2>1, SavedSteps, PrefsUntouched
<1>8. CASE \E ok \in BOOLEAN : Reload(ok)
  BY <1>8, ReloadSteps
<1>9. CASE UNCHANGED <<prefVars, profileVars, unsure>>
  <2>1. UNCHANGED <<shown, light, row, puts, user, userRow, editor, saves>>
    BY <1>9 DEF prefVars, profileVars
  <2>2. Typed'
    BY <2>1 DEF Typed
  <2>3. PrefsInv' /\ ProfileOK'
    BY <1>9, <2>1, PrefsUntouched, ProfileUntouched
  <2>4. QED
    BY <2>2, <2>3
<1>10. CASE (\E t \in Tabs : OpenTab(t)) \/ UNCHANGED vars
  BY <1>9, <1>10 DEF OpenTab, vars
<1>11. QED
  BY <1>1, <1>2, <1>3, <1>4, <1>5, <1>6, <1>7, <1>8, <1>9, <1>10 DEF Next

\* When nothing of a preference, or of the profile, is under way, the page shows what
\* the server has (GlobalSettingsPanel, ThemeGrid and ProfileCard over usePreferences
\* and useTheme), after any number of edits at once: the last refused is undone to what
\* the server has or is going to have.  Left out is what `unsure' names: a field of which
\* an edit was overtaken, or refused or undone under another, what was toggled in the
\* navbar only, and what had its answer lost.
THEOREM QuietPageAgrees == Spec => []QuietAgreement
<1>1. Init => IInv
  BY InitIInv
<1>2. IInv /\ [Next]_vars => IInv'
  BY NextIInv
<1>3. ASSUME IInv PROVE QuietAgreement
  <2>1. ASSUME NEW f \in Prefs \ unsure, About(f) = {}  PROVE shown[f] = row[f]
    BY <1>3, <2>1 DEF IInv, PrefsInv, PrefInv, Open, Chained
  <2>2. "profile" \in unsure \/ saves # << >> \/ user = userRow
    BY <1>3 DEF IInv, ProfileOK, ProfileInv, Done
  <2>3. QED
    BY <2>1, <2>2 DEF QuietAgreement
<1>4. QED
  BY <1>1, <1>2, <1>3, PTL DEF Spec
=============================================================================
