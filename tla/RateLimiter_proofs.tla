------------------------- MODULE RateLimiter_proofs --------------------------
(***************************************************************************)
(* Proofs about RateLimiter, for any limit, window and number of keys and  *)
(* an unbounded clock.                                                     *)
(***************************************************************************)
EXTENDS RateLimiter, TLAPS, WellFoundedInduction, SequenceTheorems

\* A non-empty set of naturals has a least element.
LEMMA LeastNatural ==
  ASSUME NEW T \in SUBSET Nat, T # {}
  PROVE  \E m \in T : \A n \in T : m <= n
<1>1. \E m \in T : \A n \in T : ~(<<n, m>> \in OpToRel(<, Nat))
  BY WFMin, NatLessThanWellFounded, Zenon
<1>2. \A m, n \in T : n < m => <<n, m>> \in OpToRel(<, Nat)
  BY DEF OpToRel
<1>3. \E m \in T : \A n \in T : ~(n < m)
  BY <1>1, <1>2, Zenon
<1>4. QED
  BY <1>3

\* Popped, the length of the prefix the while loop drops, is well defined.
LEMMA PoppedFacts ==
  ASSUME NEW s \in Seq(Nat), NEW start \in Int
  PROVE  /\ Popped(s, start) \in 0..Len(s)
         /\ \A i \in 1..Popped(s, start) : s[i] < start
         /\ Popped(s, start) < Len(s) => s[Popped(s, start) + 1] >= start
<1> DEFINE P(n) == /\ \A i \in 1..n : s[i] < start
                   /\ n < Len(s) => s[n + 1] >= start
<1>1. \E n \in 0..Len(s) : P(n)
  <2>1. CASE \A i \in 1..Len(s) : s[i] < start
    BY <2>1
  <2>2. CASE \E i \in 1..Len(s) : ~(s[i] < start)
    <3> DEFINE Bad == {i \in 1..Len(s) : ~(s[i] < start)}
    <3>1. PICK m \in Bad : \A i \in Bad : m <= i
      <4>1. Bad \in SUBSET Nat /\ Bad # {}
        BY <2>2
      <4>2. QED
        BY <4>1, LeastNatural
    <3>2. m - 1 \in 0..Len(s) /\ P(m - 1)
      BY <3>1
    <3>3. QED
      BY <3>2
  <2>3. QED
    BY <2>1, <2>2
<1>2. QED
  BY <1>1 DEF Popped

\* What is left of a deque after popping: its tail, shifted by Popped.
LEMMA KeptFacts ==
  ASSUME NEW s \in Seq(Nat), NEW start \in Int
  PROVE  /\ Kept(s, start) \in Seq(Nat)
         /\ Len(Kept(s, start)) = Len(s) - Popped(s, start)
         /\ \A j \in 1..Len(Kept(s, start)) : Kept(s, start)[j] = s[Popped(s, start) + j]
<1>1. Popped(s, start) \in 0..Len(s)
  BY PoppedFacts
<1>2. \A i \in (Popped(s, start) + 1)..Len(s) : s[i] \in Nat
  BY <1>1
<1>3. QED
  BY <1>1, <1>2, SubSeqProperties DEF Kept

\* After Retry-After seconds the oldest entry is out of the window.
LEMMA RetryAfterFacts ==
  ASSUME NEW s \in Seq(Nat), now \in Nat, Len(s) > 0, s[1] >= now - Window, s[1] <= now
  PROVE  /\ RetryAfter(s) \in Nat
         /\ s[1] < (now + RetryAfter(s) * Second) - Window
         /\ now + RetryAfter(s) * Second \in Nat \ {0}
<1> DEFINE x == Window - (now - s[1])
<1>1. s[1] \in Nat /\ x \in Nat /\ Second \in Nat \ {0} /\ Window \in Nat
  BY LimiterAssumption
<1> HIDE DEF x
<1> DEFINE q == x \div Second
<1>2. q \in Nat
  BY <1>1
<1> HIDE DEF q
<1>3. x < Second * q + Second /\ Second * q \in Nat
  BY <1>1, <1>2 DEF q
<1>4. RetryAfter(s) = q + 1 /\ (q + 1) * Second = Second * q + Second
  BY <1>1, <1>2 DEF RetryAfter, x, q
<1>5. x = Window - now + s[1]
  BY <1>1 DEF x
<1>6. QED
  BY <1>1, <1>2, <1>3, <1>4, <1>5

\* The initial state satisfies the inductive invariant.
LEMMA InitIInv == Init => IInv
<1> SUFFICES ASSUME Init PROVE IInv
  OBVIOUS
<1>1. TypeOK
  BY DEF Init, TypeOK
<1>2. DequeInv
  BY LimiterAssumption DEF Init, DequeInv, Gone
<1>3. AtMostPerWindow
  BY LimiterAssumption DEF Init, AtMostPerWindow
<1>4. PromiseInv
  BY DEF Init, PromiseInv
<1>5. QED
  BY <1>1, <1>2, <1>3, <1>4 DEF IInv

\* What a check sees of the deque, in terms of the admissions.
LEMMA WindowFacts ==
  ASSUME IInv, NEW k \in Keys
  PROVE  LET w == InWindow(k)
             gone == Len(admitted[k]) - Len(w)
         IN /\ w \in Seq(Nat) /\ gone \in Nat
            /\ Len(w) <= Len(hits[k]) /\ Len(w) <= MaxRequests
            /\ \A j \in 1..Len(w) : w[j] = admitted[k][gone + j]
            /\ \A j \in 1..Len(w) : w[j] <= now
            /\ \A i \in 1..gone : admitted[k][i] < now - Window
            /\ Len(w) > 0 => w[1] >= now - Window
            /\ Len(w) = Len(hits[k]) => w = hits[k]
<1> DEFINE s == hits[k]
           start == now - Window
           p == Popped(s, start)
           w == Kept(s, start)
           g == Gone(k)
           adm == admitted[k]
<1>1. /\ s \in Seq(Nat) /\ start \in Int /\ adm \in Seq(Nat)
      /\ g = Len(adm) - Len(s) /\ g \in Nat
      /\ Len(s) <= MaxRequests /\ MaxRequests \in Nat
      /\ \A j \in 1..Len(s) : s[j] = adm[g + j]
      /\ \A j \in 1..Len(s) : s[j] <= now
      /\ \A i \in 1..g : adm[i] < start
  BY LimiterAssumption DEF IInv, TypeOK, DequeInv, Gone
<1> HIDE DEF s, start, g, adm
<1>2. /\ p \in 0..Len(s)
      /\ \A i \in 1..p : s[i] < start
      /\ p < Len(s) => s[p + 1] >= start
  BY <1>1, PoppedFacts
<1>3. /\ w \in Seq(Nat) /\ Len(w) = Len(s) - p
      /\ \A j \in 1..Len(w) : w[j] = s[p + j]
  BY <1>1, KeptFacts
<1> HIDE DEF p, w
<1>4. p \in Nat /\ p <= Len(s) /\ Len(s) \in Nat /\ Len(w) \in Nat /\ Len(adm) \in Nat
  BY <1>1, <1>2, <1>3
<1>5. ASSUME NEW j \in 1..Len(w) PROVE w[j] = adm[g + p + j]
  <2>1. p + j \in 1..Len(s) /\ g + (p + j) = g + p + j
    BY <1>1, <1>3, <1>4
  <2>2. w[j] = s[p + j]
    BY <1>3
  <2>3. s[p + j] = adm[g + (p + j)]
    BY <1>1, <2>1
  <2>4. QED
    BY <2>1, <2>2, <2>3
<1>6. ASSUME NEW i \in 1..(g + p) PROVE adm[i] < start
  <2>1. CASE i <= g
    BY <1>1, <2>1
  <2>2. CASE i > g
    <3> DEFINE d == i - g
    <3>1. d \in 1..p /\ d \in 1..Len(s) /\ g + d = i
      BY <1>1, <1>4, <2>2
    <3> HIDE DEF d
    <3>2. s[d] = adm[g + d] /\ s[d] < start
      BY <1>1, <1>2, <3>1
    <3>3. QED
      BY <3>1, <3>2
  <2>3. QED
    BY <1>1, <1>4, <2>1, <2>2
<1>7. Len(adm) - Len(w) = g + p /\ g + p \in Nat /\ Len(w) <= Len(s) /\ Len(w) <= MaxRequests
  BY <1>1, <1>3, <1>4
<1>8. Len(w) > 0 => w[1] >= start
  <2> SUFFICES ASSUME Len(w) > 0 PROVE w[1] >= start
    OBVIOUS
  <2>1. 1 \in 1..Len(w) /\ p < Len(s)
    BY <1>3, <1>4
  <2>2. QED
    BY <1>2, <1>3, <2>1
<1>9. Len(w) = Len(s) => w = s
  <2> SUFFICES ASSUME Len(w) = Len(s) PROVE w = s
    OBVIOUS
  <2>1. p = 0
    BY <1>3, <1>4
  <2>2. \A j \in 1..Len(w) : w[j] = s[j]
    BY <1>3, <2>1
  <2>3. QED
    BY <1>1, <1>3, <2>2, SeqEqual
<1>10. \A j \in 1..Len(w) : w[j] <= now
  <2> SUFFICES ASSUME NEW j \in 1..Len(w) PROVE w[j] <= now
    OBVIOUS
  <2>1. p + j \in 1..Len(s)
    BY <1>3, <1>4
  <2>2. QED
    BY <1>1, <1>3, <2>1
<1>11. InWindow(k) = w
  BY DEF InWindow, w, s, start
<1>12. QED
  BY <1>1, <1>3, <1>5, <1>6, <1>7, <1>8, <1>9, <1>10, <1>11 DEF s, start, adm

\* Appending keeps the old entries and adds the new one at the end.
LEMMA AppendFacts ==
  ASSUME NEW s \in Seq(Nat), NEW e \in Nat
  PROVE  /\ Append(s, e) \in Seq(Nat) /\ Len(Append(s, e)) = Len(s) + 1
         /\ \A i \in 1..Len(s) : Append(s, e)[i] = s[i]
         /\ Append(s, e)[Len(s) + 1] = e
  OBVIOUS

\* If w is the end of adm then what is appended to both keeps it so.
LEMMA AppendToBoth ==
  ASSUME NEW adm \in Seq(Nat), NEW w \in Seq(Nat), NEW e \in Nat, NEW g \in Nat,
         g = Len(adm) - Len(w),
         \A j \in 1..Len(w) : w[j] = adm[g + j]
  PROVE  \A j \in 1..Len(Append(w, e)) : Append(w, e)[j] = Append(adm, e)[g + j]
<1> DEFINE a == Append(adm, e)
           h == Append(w, e)
<1>1. /\ Len(h) = Len(w) + 1 /\ h[Len(w) + 1] = e
      /\ \A i \in 1..Len(w) : h[i] = w[i]
      /\ \A i \in 1..Len(adm) : a[i] = adm[i]
      /\ a[Len(adm) + 1] = e
  BY AppendFacts
<1>2. Len(w) \in Nat /\ Len(adm) \in Nat
  OBVIOUS
<1> HIDE DEF a, h
<1>3. ASSUME NEW j \in 1..Len(h) PROVE h[j] = a[g + j]
  <2>1. CASE j = Len(w) + 1
    <3>1. g + j = Len(adm) + 1
      BY <1>2, <2>1
    <3>2. QED
      BY <1>1, <2>1, <3>1
  <2>2. CASE j \in 1..Len(w)
    <3>1. g + j \in 1..Len(adm)
      BY <1>2, <2>2
    <3>2. QED
      BY <1>1, <2>2, <3>1
  <2>3. j \in 1..(Len(w) + 1)
    BY <1>1
  <2>4. QED
    BY <1>2, <2>1, <2>2, <2>3
<1>4. QED
  BY <1>3 DEF a, h

\* Admitting a request.
LEMMA AdmitStep ==
  ASSUME IInv, NEW k \in Keys, Admit(k)
  PROVE  IInv'
<1> DEFINE w == InWindow(k)
           adm == admitted[k]
           g == Len(adm) - Len(w)
<1>1. /\ w \in Seq(Nat) /\ g \in Nat
      /\ \A j \in 1..Len(w) : w[j] = adm[g + j]
      /\ \A j \in 1..Len(w) : w[j] <= now
      /\ \A i \in 1..g : adm[i] < now - Window
  BY WindowFacts
<1>2. /\ Len(w) < MaxRequests /\ now' = now
      /\ hits' = [hits EXCEPT ![k] = Append(w, now)]
      /\ admitted' = [admitted EXCEPT ![k] = Append(adm, now)]
      /\ promise' = [promise EXCEPT ![k] = 0]
  BY DEF Admit
<1>3. /\ TypeOK /\ now \in Nat /\ adm \in Seq(Nat) /\ MaxRequests \in Nat \ {0}
      /\ Window \in Nat \ {0} /\ Len(adm) \in Nat /\ Len(w) \in Nat
  BY <1>1, LimiterAssumption DEF IInv, TypeOK
<1> HIDE DEF w
<1>4. hits'[k] = Append(w, now) /\ admitted'[k] = Append(adm, now) /\ promise'[k] = 0
  BY <1>2, <1>3 DEF TypeOK
<1>5. ASSUME NEW j \in Keys, j # k
      PROVE  hits'[j] = hits[j] /\ admitted'[j] = admitted[j] /\ promise'[j] = promise[j]
  BY <1>2, <1>3, <1>5 DEF TypeOK
<1>6. TypeOK'
  BY <1>1, <1>2, <1>3 DEF TypeOK
<1>7. DequeInv'
  <2> SUFFICES ASSUME NEW j \in Keys
               PROVE  /\ Gone(j)' \in Nat /\ Len(hits'[j]) <= MaxRequests
                      /\ \A i \in 1..Len(hits'[j]) : hits'[j][i] = admitted'[j][Gone(j)' + i]
                      /\ \A i \in 1..Len(hits'[j]) : hits'[j][i] <= now'
                      /\ \A i \in 1..Gone(j)' : admitted'[j][i] < now' - Window
    BY DEF DequeInv
  <2>1. CASE j # k
    <3>1. Gone(j)' = Gone(j)
      BY <1>5, <2>1 DEF Gone
    <3>2. QED
      BY <1>2, <1>5, <2>1, <3>1 DEF DequeInv, IInv
  <2>2. CASE j = k
    <3> HIDE DEF adm
    <3> DEFINE a == Append(adm, now)
               h == Append(w, now)
    <3>1. /\ Len(h) = Len(w) + 1 /\ Len(a) = Len(adm) + 1
          /\ \A i \in 1..Len(w) : h[i] = w[i]
          /\ h[Len(w) + 1] = now
          /\ \A i \in 1..Len(adm) : a[i] = adm[i]
      BY <1>1, <1>3, AppendFacts
    <3>2. \A i \in 1..Len(h) : h[i] = a[g + i]
      BY <1>1, <1>3, AppendToBoth
    <3> HIDE DEF a, h
    <3>3. hits'[j] = h /\ admitted'[j] = a
      BY <1>4, <2>2 DEF a, h
    <3>4. Gone(j)' = g
      <4>1. Gone(j)' = Len(a) - Len(h)
        BY <3>3 DEF Gone
      <4>2. QED
        BY <1>3, <3>1, <4>1
    <3>5. \A i \in 1..g : a[i] < now - Window
      <4> SUFFICES ASSUME NEW i \in 1..g PROVE a[i] < now - Window
        OBVIOUS
      <4>1. i \in 1..Len(adm)
        BY <1>1, <1>3
      <4>2. QED
        BY <1>1, <3>1, <4>1
    <3>6. \A i \in 1..Len(h) : h[i] <= now
      <4> SUFFICES ASSUME NEW i \in 1..Len(h) PROVE h[i] <= now
        OBVIOUS
      <4>1. CASE i \in 1..Len(w)
        BY <1>1, <3>1, <4>1
      <4>2. CASE i = Len(w) + 1
        BY <1>3, <3>1, <4>2
      <4>3. i \in 1..(Len(w) + 1)
        BY <3>1
      <4>4. QED
        BY <1>3, <4>1, <4>2, <4>3
    <3>7. Len(h) <= MaxRequests
      BY <1>2, <1>3, <3>1
    <3> HIDE DEF g
    <3>8. QED
      BY <1>1, <1>2, <3>2, <3>3, <3>4, <3>5, <3>6, <3>7
  <2>3. QED
    BY <2>1, <2>2
<1>8. AtMostPerWindow'
  <2> SUFFICES ASSUME NEW j \in Keys, NEW i \in 1..(Len(admitted'[j]) - MaxRequests)
               PROVE  admitted'[j][i + MaxRequests] - admitted'[j][i] > Window
    BY DEF AtMostPerWindow
  <2>1. CASE j # k
    BY <1>5, <2>1 DEF AtMostPerWindow, IInv
  <2>2. CASE j = k
    <3>1. \A n \in 1..(Len(adm) - MaxRequests) : adm[n + MaxRequests] - adm[n] > Window
      BY DEF AtMostPerWindow, IInv
    <3> HIDE DEF adm
    <3> DEFINE a == Append(adm, now)
    <3>2. /\ Len(a) = Len(adm) + 1
          /\ \A n \in 1..Len(adm) : a[n] = adm[n]
          /\ a[Len(adm) + 1] = now
      BY <1>1, <1>3, AppendFacts
    <3> HIDE DEF a
    <3>3. admitted'[j] = a
      BY <1>4, <2>2 DEF a
    <3>4. i \in 1..(Len(adm) + 1 - MaxRequests)
      <4>1. Len(admitted'[j]) = Len(adm) + 1
        BY <3>2, <3>3
      <4>2. QED
        BY <1>3, <4>1
    <3>5. CASE i + MaxRequests <= Len(adm)
      <4>1. /\ i \in 1..Len(adm) /\ i + MaxRequests \in 1..Len(adm)
            /\ i \in 1..(Len(adm) - MaxRequests)
        BY <1>3, <3>4, <3>5
      <4>2. QED
        BY <3>1, <3>2, <3>3, <4>1
    <3>6. CASE i + MaxRequests > Len(adm)
      <4>1. /\ i \in 1..g /\ i \in 1..Len(adm) /\ i + MaxRequests = Len(adm) + 1
        <5>1. i \in Nat /\ i >= 1 /\ i <= Len(adm) + 1 - MaxRequests
          BY <1>3, <3>4
        <5>2. i + MaxRequests = Len(adm) + 1
          BY <1>3, <3>6, <5>1
        <5>3. Len(w) < MaxRequests
          BY <1>2
        <5>4. i <= Len(adm) - Len(w)
          BY <1>3, <5>1, <5>2, <5>3
        <5>5. QED
          BY <1>3, <5>1, <5>2, <5>4
      <4>2. a[i] = adm[i] /\ a[i + MaxRequests] = now
        BY <3>2, <4>1
      <4>3. adm[i] \in Nat /\ adm[i] < now - Window
        BY <1>1, <1>3, <4>1
      <4>4. QED
        BY <1>3, <3>3, <4>2, <4>3
    <3>7. QED
      BY <1>3, <3>4, <3>5, <3>6
  <2>3. QED
    BY <2>1, <2>2
<1>9. PromiseInv'
  BY <1>4, <1>5 DEF PromiseInv, IInv
<1>10. QED
  BY <1>6, <1>7, <1>8, <1>9 DEF IInv

\* What a refusal sees: a full deque, nothing of which has expired.
LEMMA RefuseFacts ==
  ASSUME IInv, NEW k \in Keys, Refuse(k)
  PROVE  /\ InWindow(k) = hits[k] /\ Len(hits[k]) = MaxRequests /\ hits' = hits
         /\ hits[k][1] \in Nat /\ hits[k][1] >= now - Window /\ hits[k][1] <= now
<1> DEFINE w == InWindow(k)
<1>1. /\ w \in Seq(Nat) /\ Len(w) <= Len(hits[k]) /\ Len(w) <= MaxRequests
      /\ Len(w) > 0 => w[1] >= now - Window
      /\ \A j \in 1..Len(w) : w[j] <= now
      /\ Len(w) = Len(hits[k]) => w = hits[k]
  BY WindowFacts
<1>2. Len(w) >= MaxRequests /\ hits' = [hits EXCEPT ![k] = w]
  BY DEF Refuse
<1> HIDE DEF w
<1>3. /\ TypeOK /\ MaxRequests \in Nat \ {0} /\ Len(w) \in Nat
      /\ Len(hits[k]) <= MaxRequests /\ Len(hits[k]) \in Nat
  BY <1>1, LimiterAssumption DEF IInv, TypeOK, DequeInv
<1>4. Len(w) = MaxRequests /\ Len(w) = Len(hits[k])
  BY <1>1, <1>2, <1>3
<1>5. w = hits[k] /\ hits' = hits
  BY <1>1, <1>2, <1>3, <1>4 DEF TypeOK
<1>6. 1 \in 1..Len(w)
  BY <1>3, <1>4
<1>7. QED
  BY <1>1, <1>3, <1>4, <1>5, <1>6 DEF w

\* Refusing a request.
LEMMA RefuseStep ==
  ASSUME IInv, NEW k \in Keys, Refuse(k)
  PROVE  IInv'
<1> DEFINE s == InWindow(k)
<1>1. /\ s = hits[k] /\ Len(hits[k]) = MaxRequests /\ hits' = hits
      /\ hits[k][1] \in Nat /\ hits[k][1] >= now - Window /\ hits[k][1] <= now
  BY RefuseFacts
<1>2. /\ now' = now /\ admitted' = admitted
      /\ promise' = [promise EXCEPT ![k] = now + RetryAfter(s) * Second]
  BY DEF Refuse
<1> HIDE DEF s
<1>3. /\ TypeOK /\ now \in Nat /\ s \in Seq(Nat) /\ Len(s) > 0
      /\ s[1] >= now - Window /\ s[1] <= now
  BY <1>1, LimiterAssumption DEF IInv, TypeOK
<1>4. /\ s[1] < (now + RetryAfter(s) * Second) - Window
      /\ now + RetryAfter(s) * Second \in Nat \ {0}
  BY <1>3, RetryAfterFacts
<1>5. PICK r \in Nat \ {0} : promise' = [promise EXCEPT ![k] = r] /\ s[1] < r - Window
  BY <1>2, <1>4, Zenon
<1>6. TypeOK'
  BY <1>1, <1>2, <1>3, <1>5 DEF TypeOK
<1>7. DequeInv' /\ AtMostPerWindow'
  BY <1>1, <1>2 DEF IInv, DequeInv, AtMostPerWindow, Gone
<1>8. PromiseInv'
  BY <1>1, <1>3, <1>5 DEF IInv, PromiseInv, TypeOK
<1>9. QED
  BY <1>6, <1>7, <1>8 DEF IInv

\* Every step keeps the invariant.
LEMMA NextIInv == IInv /\ [Next]_vars => IInv'
<1> SUFFICES ASSUME IInv, [Next]_vars PROVE IInv'
  OBVIOUS
<1>1. ASSUME NEW k \in Keys, Admit(k) PROVE IInv'
  BY <1>1, AdmitStep
<1>2. ASSUME NEW k \in Keys, Refuse(k) PROVE IInv'
  BY <1>2, RefuseStep
<1>3. CASE Tick
  <2>1. /\ now \in Nat /\ now' = now + 1 /\ hits' = hits /\ admitted' = admitted
        /\ promise' = promise
    BY <1>3 DEF Tick, IInv, TypeOK
  <2>2. TypeOK' /\ AtMostPerWindow' /\ PromiseInv'
    BY <2>1 DEF IInv, TypeOK, AtMostPerWindow, PromiseInv
  <2>3. DequeInv'
    <3> SUFFICES ASSUME NEW j \in Keys
                 PROVE  /\ Gone(j)' \in Nat /\ Len(hits'[j]) <= MaxRequests
                        /\ \A i \in 1..Len(hits'[j]) : hits'[j][i] = admitted'[j][Gone(j)' + i]
                        /\ \A i \in 1..Len(hits'[j]) : hits'[j][i] <= now'
                        /\ \A i \in 1..Gone(j)' : admitted'[j][i] < now' - Window
      BY DEF DequeInv
    <3>1. Gone(j)' = Gone(j) /\ hits'[j] = hits[j] /\ admitted'[j] = admitted[j]
      BY <2>1 DEF Gone
    <3>2. /\ Gone(j) \in Nat /\ Len(hits[j]) <= MaxRequests
          /\ \A i \in 1..Len(hits[j]) : hits[j][i] = admitted[j][Gone(j) + i]
          /\ \A i \in 1..Len(hits[j]) : hits[j][i] <= now
          /\ \A i \in 1..Gone(j) : admitted[j][i] < now - Window
      BY DEF IInv, DequeInv
    <3>3. /\ hits[j] \in Seq(Nat) /\ admitted[j] \in Seq(Nat) /\ Window \in Nat
          /\ \A i \in 1..Len(hits[j]) : hits[j][i] \in Nat
          /\ \A i \in 1..Gone(j) : admitted[j][i] \in Nat
      BY <3>2, LimiterAssumption DEF IInv, TypeOK, Gone
    <3>4. ASSUME NEW i \in 1..Len(hits[j]) PROVE hits[j][i] <= now'
      <4>1. hits[j][i] <= now /\ hits[j][i] \in Nat
        BY <3>2, <3>3
      <4>2. QED
        BY <2>1, <4>1
    <3>5. ASSUME NEW i \in 1..Gone(j) PROVE admitted[j][i] < now' - Window
      <4>1. admitted[j][i] < now - Window /\ admitted[j][i] \in Nat
        BY <3>2, <3>3
      <4>2. QED
        BY <2>1, <3>3, <4>1
    <3>6. QED
      BY <3>1, <3>2, <3>4, <3>5, Zenon
  <2>4. QED
    BY <2>2, <2>3 DEF IInv
<1>4. CASE UNCHANGED vars
  BY <1>4 DEF vars, IInv, TypeOK, DequeInv, AtMostPerWindow, PromiseInv, Gone
<1>5. QED
  BY <1>1, <1>2, <1>3, <1>4 DEF Next

\* The inductive invariant holds in every reachable state.
THEOREM Invariance == Spec => []IInv
<1>1. QED
  BY InitIInv, NextIInv, PTL DEF Spec

\* The limiter's promise: no window of window_seconds ever contains more than
\* max_requests admitted requests of a key, for any limit, window and clock.
THEOREM LimitHolds == Spec => []AtMostPerWindow
<1>1. IInv => AtMostPerWindow
  BY DEF IInv
<1>2. QED
  BY Invariance, <1>1, PTL

\* A client that has waited for Retry-After seconds is not refused again.
THEOREM RetryAfterIsEnough == Spec => RetryIsEnough
<1>1. IInv /\ [Next]_vars =>
        [\A k \in Keys : Refuse(k) => promise[k] = 0 \/ now < promise[k]]_vars
  <2> SUFFICES ASSUME IInv, NEW k \in Keys, Refuse(k), promise[k] # 0
               PROVE  now < promise[k]
    OBVIOUS
  <2>1. hits[k][1] \in Nat /\ hits[k][1] >= now - Window
    BY RefuseFacts
  <2>2. hits[k][1] < promise[k] - Window
    BY DEF IInv, PromiseInv
  <2>3. now \in Nat /\ promise[k] \in Nat /\ Window \in Nat
    BY LimiterAssumption DEF IInv, TypeOK
  <2>4. QED
    BY <2>1, <2>2, <2>3
<1>2. QED
  BY Invariance, <1>1, PTL DEF Spec, RetryIsEnough

\* A refusal is always for max_requests admissions in the last window.
THEOREM RefusalHasCause == Spec => RefusedForCause
<1>1. IInv /\ [Next]_vars =>
        [\A k \in Keys : Refuse(k) =>
           LET n == Len(admitted[k]) IN
           n >= MaxRequests /\ admitted[k][n - MaxRequests + 1] >= now - Window]_vars
  <2> SUFFICES ASSUME IInv, NEW k \in Keys, Refuse(k)
               PROVE  /\ Len(admitted[k]) >= MaxRequests
                      /\ admitted[k][Len(admitted[k]) - MaxRequests + 1] >= now - Window
    OBVIOUS
  <2>1. Len(hits[k]) = MaxRequests /\ hits[k][1] >= now - Window
    BY RefuseFacts
  <2>2. /\ Gone(k) \in Nat /\ \A j \in 1..Len(hits[k]) : hits[k][j] = admitted[k][Gone(k) + j]
    BY DEF IInv, DequeInv
  <2>3. /\ MaxRequests \in Nat \ {0} /\ Len(admitted[k]) \in Nat
        /\ Gone(k) = Len(admitted[k]) - MaxRequests
    BY <2>1, LimiterAssumption DEF IInv, TypeOK, Gone
  <2>4. hits[k][1] = admitted[k][Gone(k) + 1]
    BY <2>1, <2>2, <2>3
  <2>5. QED
    BY <2>1, <2>2, <2>4, <2>3
<1>2. QED
  BY Invariance, <1>1, PTL DEF Spec, RefusedForCause
==============================================================================
