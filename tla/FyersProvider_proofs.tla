----------------------- MODULE FyersProvider_proofs -------------------------
(***************************************************************************)
(* Proofs about FyersProvider, for any set of threads and instruments, any *)
(* TTLs and an unbounded clock (MaxTime is any number).                    *)
(*                                                                         *)
(* IInv is inductive: Init implies it and every action preserves it.  From *)
(* it follow the properties of the runs, and that the guarded refresh      *)
(* implements the abstract Throttle.                                       *)
(***************************************************************************)
EXTENDS FyersProvider, TLAPS

\* A value that an action caches or remembers has the type of the stores.
LEMMA ValueTypes ==
  /\ Absent \in Value /\ Mock \in Value /\ Absent # Mock
  /\ \A at \in Nat, legs \in SUBSET Legs :
       Live(at, legs) \in Value /\ Live(at, legs) \notin {Absent, Mock}
  /\ \A v \in Value : Stale(v) \in Value /\ Stale(v) \notin {Absent, Mock}
  /\ \A c \in Value, k \in Legs :
       FromChain(c, k) \in Value /\ FromChain(c, k) # Mock
BY DEF Value, Absent, Mock, Live, Stale, FromChain, Legs, Sources

\* The initial state satisfies the inductive invariant.
LEMMA InitIInv == Init => IInv
<1> SUFFICES ASSUME Init PROVE IInv
  OBVIOUS
<1>1. TypeOK
  <2>1. NoBatch \in [quoted : [Legs -> SUBSET Instruments],
                     todo : SUBSET Instruments, at : Nat]
    BY DEF NoBatch
  <2>2. QED
    BY <2>1, ProviderAssumption, ValueTypes DEF Init, TypeOK, Locations
<1>2. \A t \in Threads : ~InRefresh(t)
  BY DEF Init, InRefresh, NoBatch
<1>3. LockInv
  BY <1>2 DEF LockInv, Init
<1>4. TimeInv
  BY <1>2, ProviderAssumption DEF TimeInv, Init, Absent, Keys, Kinds
<1>5. FillInv
  BY ProviderAssumption DEF FillInv, Init
<1>6. MockOnlyBeforeLive
  BY ValueTypes DEF MockOnlyBeforeLive, Init, Keys, Kinds, Legs
<1>7. QED
  BY <1>1, <1>3, <1>4, <1>5, <1>6 DEF IInv

\* A turn of the refresh loop keeps the stores and the batch in their types.
LEMMA FillTypes ==
  ASSUME TypeOK, NEW t \in Threads, NEW i \in Instruments, NEW c \in Value, Fill(t, i, c)
  PROVE  /\ lastGood' \in [Keys -> Value] /\ cache' \in [Keys -> Value]
         /\ cachedAt' \in [Keys -> Nat]
         /\ batch' \in [Threads -> [quoted : [Legs -> SUBSET Instruments],
                                   todo : SUBSET Instruments, at : Nat]]
<1> DEFINE quoted(k) == k[2] = i /\ k[1] \in Legs /\ i \in batch[t].quoted[k[1]]
           new(k) == IF quoted(k) THEN Live(batch[t].at, {}) ELSE Degraded(k[1], i, c)
<1>1. \A k \in Keys : quoted(k) => new(k) \in Value
  BY ValueTypes DEF TypeOK, Legs
<1>2. \A k \in Keys : k[2] = i /\ k[1] \in Legs => new(k) \in Value
  <2> SUFFICES ASSUME NEW k \in Keys, k[2] = i, k[1] \in Legs, ~quoted(k)
               PROVE  Degraded(k[1], i, c) \in Value
    BY <1>1
  <2>1. <<k[1], i>> \in Keys
    BY DEF Keys, Kinds
  <2>2. lastGood[<<k[1], i>>] \in Value
    BY <2>1 DEF TypeOK
  <2>3. QED
    BY <2>2, ValueTypes DEF Degraded
<1>3. lastGood' \in [Keys -> Value] /\ cache' \in [Keys -> Value]
  BY <1>1, <1>2 DEF Fill, TypeOK
<1>4. cachedAt' \in [Keys -> Nat]
  BY DEF Fill, TypeOK
<1>5. batch' \in [Threads -> [quoted : [Legs -> SUBSET Instruments],
                              todo : SUBSET Instruments, at : Nat]]
  BY DEF Fill, TypeOK
<1>6. QED
  BY <1>3, <1>4, <1>5

\* Every step keeps every variable in its type.
LEMMA TypeStep == TypeOK /\ [Next]_vars => TypeOK'
<1> SUFFICES ASSUME TypeOK, [Next]_vars PROVE TypeOK'
  OBVIOUS
<1> USE DEF TypeOK, threadVars, storeVars
<1>1. CASE Tick
  BY <1>1 DEF Tick
<1>2. ASSUME NEW t \in Threads, NEW k \in Kinds, NEW i \in Instruments, Call(t, k, i) PROVE TypeOK'
  BY <1>2 DEF Call, Goto, Locations, Keys, Legs, Kinds
<1>3. ASSUME NEW t \in Threads, Guard(t) PROVE TypeOK'
  BY <1>3 DEF Guard, Goto, Locations
<1>4. ASSUME NEW t \in Threads, AcquireFresh(t) PROVE TypeOK'
  BY <1>4 DEF AcquireFresh, Goto, Locations
<1>5. ASSUME NEW t \in Threads, AcquireStale(t) PROVE TypeOK'
  <2>1. [NoBatch EXCEPT !.todo = Instruments] \in
          [quoted : [Legs -> SUBSET Instruments], todo : SUBSET Instruments, at : Nat]
    BY DEF NoBatch
  <2>2. QED
    BY <1>5, <2>1 DEF AcquireStale, Goto, Locations
<1>6. ASSUME NEW t \in Threads, QuotesReply(t) PROVE TypeOK'
  BY <1>6 DEF QuotesReply, Goto, Locations
<1>7. ASSUME NEW t \in Threads, NEW i \in Instruments, FillFromQuotes(t, i) PROVE TypeOK'
  BY <1>7, FillTypes, ValueTypes DEF FillFromQuotes, Goto, Locations
<1>8. ASSUME NEW t \in Threads, NEW i \in Instruments, FillAsksChain(t, i) PROVE TypeOK'
  BY <1>8 DEF FillAsksChain, Goto, Locations
<1>9. ASSUME NEW t \in Threads, FillFromChain(t) PROVE TypeOK'
  BY <1>9, FillTypes, ValueTypes DEF FillFromChain, Goto, Locations, Keys
<1>10. ASSUME NEW t \in Threads, Finish(t) PROVE TypeOK'
  BY <1>10 DEF Finish, Goto, Locations, NoBatch
<1>11. ASSUME NEW t \in Threads, RereadHit(t) PROVE TypeOK'
  BY <1>11, ValueTypes DEF RereadHit, Return, Goto, Locations
<1>12. ASSUME NEW t \in Threads, RereadMiss(t) PROVE TypeOK'
  BY <1>12 DEF RereadMiss, Goto, Locations, Keys
<1>13. ASSUME NEW t \in Threads, ReturnFromChain(t) PROVE TypeOK'
  <2> DEFINE v == FromChain(got[t], req[t][1])
  <2>1. req[t] \in Keys /\ v \in Value
    BY <1>13, ValueTypes DEF ReturnFromChain, Return, Goto
  <2>2. cache' \in [Keys -> Value] /\ cachedAt' \in [Keys -> Nat]
    BY <1>13, <2>1 DEF ReturnFromChain, CachePut
  <2>3. QED
    BY <1>13, <2>2, ValueTypes DEF ReturnFromChain, Return, Goto, Locations
<1>14. ASSUME NEW t \in Threads, ChainHit(t) PROVE TypeOK'
  BY <1>14 DEF ChainHit, Goto, ChainKey, Locations, Keys, Kinds
<1>15. ASSUME NEW t \in Threads, ChainMiss(t) PROVE TypeOK'
  BY <1>15 DEF ChainMiss, Goto, Locations
<1>16. ASSUME NEW t \in Threads, ChainLive(t) PROVE TypeOK'
  <2>1. PICK legs \in ChainLegs :
          LET v == Live(sentAt[t], legs) IN
          /\ lastGood' = [lastGood EXCEPT ![ChainKey(t)] = v]
          /\ CachePut(ChainKey(t), v)
          /\ got' = [got EXCEPT ![t] = v]
    BY <1>16 DEF ChainLive
  <2>2. Live(sentAt[t], legs) \in Value
    BY ValueTypes, ProviderAssumption DEF Legs
  <2>3. ChainKey(t) \in Keys
    BY <1>16 DEF ChainLive, Goto, ChainKey, Keys, Kinds
  <2>4. QED
    BY <1>16, <2>1, <2>2, <2>3 DEF ChainLive, Goto, CachePut, Locations
<1>17. ASSUME NEW t \in Threads, ChainFails(t) PROVE TypeOK'
  BY <1>17, ValueTypes DEF ChainFails, Goto, ChainKey, Locations, Keys, Kinds
<1>18. ASSUME NEW t \in Threads, ChainPut(t) PROVE TypeOK'
  BY <1>18 DEF ChainPut, CachePut, Goto, ChainKey, Locations, Keys, Kinds
<1>19. ASSUME NEW t \in Threads, ReturnChain(t) PROVE TypeOK'
  BY <1>19, ValueTypes DEF ReturnChain, Return, Goto, Locations
<1>20. CASE UNCHANGED vars
  BY <1>20 DEF vars
<1>21. QED
  BY <1>1, <1>2, <1>3, <1>4, <1>5, <1>6, <1>7, <1>8, <1>9, <1>10, <1>11, <1>12, <1>13, <1>14, <1>15, <1>16, <1>17, <1>18, <1>19, <1>20 DEF Next, Step, Acquire

\* The steps of a thread that do not belong to the refresh, and the ones by which
\* the refresh asks for a chain.
Quiet(t) ==
  \/ \E k \in Kinds, i \in Instruments : Call(t, k, i)
  \/ \E i \in Instruments : FillAsksChain(t, i)
  \/ Guard(t) \/ AcquireFresh(t) \/ RereadHit(t) \/ RereadMiss(t) \/ ReturnFromChain(t)
  \/ ChainHit(t) \/ ChainMiss(t) \/ ChainLive(t) \/ ChainFails(t) \/ ChainPut(t)
  \/ ReturnChain(t)

\* One turn of the refresh loop.
Turn(t) == FillFromChain(t) \/ \E i \in Instruments : FillFromQuotes(t, i)

LEMMA NextCases ==
  ASSUME [Next]_vars
  PROVE  \/ Tick \/ UNCHANGED vars
         \/ \E t \in Threads : \/ Quiet(t) \/ Turn(t)
                               \/ AcquireStale(t) \/ QuotesReply(t) \/ Finish(t)
BY DEF Next, Step, Acquire, Quiet, Turn

\* Steps outside the refresh start none, and put only recovered prices.
LEMMA QuietFacts ==
  ASSUME TypeOK, NEW t \in Threads, Quiet(t)
  PROVE  /\ UNCHANGED <<now, lastRefresh, lock, batch, quotesAt>>
         /\ \A u \in Threads : InRefresh(u)' => InRefresh(u)
         /\ \A u \in Threads : pc'[u] = "quotes" => pc[u] = "quotes" /\ sentAt'[u] = sentAt[u]
         /\ \A k \in Legs \X Instruments :
              /\ lastGood'[k] = lastGood[k]
              /\ \/ cache'[k] = cache[k] /\ cachedAt'[k] = cachedAt[k]
                 \/ cache'[k] \notin {Absent, Mock} /\ cachedAt'[k] = now
<1> USE DEF TypeOK, InRefresh, storeVars
<1>1. CASE \E k \in Kinds, i \in Instruments : Call(t, k, i)
  BY <1>1 DEF Call, Goto
<1>2. CASE \E i \in Instruments : FillAsksChain(t, i)
  BY <1>2 DEF FillAsksChain, Goto
<1>3. CASE Guard(t) \/ AcquireFresh(t)
  BY <1>3 DEF Guard, AcquireFresh, Goto
<1>4. CASE RereadHit(t) \/ RereadMiss(t) \/ ReturnChain(t)
  BY <1>4 DEF RereadHit, RereadMiss, ReturnChain, Return, Goto
<1>5. CASE ReturnFromChain(t)
  <2> DEFINE v == FromChain(got[t], req[t][1])
  <2>1. v \in Value /\ v # Mock
    BY <1>5, ValueTypes DEF ReturnFromChain
  <2>2. req[t] \in Keys /\ Legs \X Instruments \subseteq Keys
    BY <1>5 DEF ReturnFromChain, Return, Goto, Keys, Kinds
  <2>3. \/ v # Absent /\ CachePut(req[t], v)
        \/ UNCHANGED <<cache, cachedAt>>
    BY <1>5 DEF ReturnFromChain
  <2>4. \A k \in Legs \X Instruments :
           \/ cache'[k] = cache[k] /\ cachedAt'[k] = cachedAt[k]
           \/ cache'[k] \notin {Absent, Mock} /\ cachedAt'[k] = now
    BY <2>1, <2>2, <2>3 DEF CachePut
  <2>5. QED
    BY <1>5, <2>4 DEF ReturnFromChain, Return, Goto
<1>6. \A k \in Legs \X Instruments : k # ChainKey(t)
  BY DEF ChainKey, Legs
<1>7. Legs \X Instruments \subseteq Keys
  BY DEF Keys, Kinds
<1>8. CASE ChainHit(t) \/ ChainMiss(t) \/ ChainFails(t)
  BY <1>8 DEF ChainHit, ChainMiss, ChainFails, Goto
<1>9. CASE ChainLive(t)
  BY <1>9, <1>6, <1>7 DEF ChainLive, CachePut, Goto
<1>10. CASE ChainPut(t)
  BY <1>10, <1>6, <1>7 DEF ChainPut, CachePut, Goto
<1>11. QED
  BY <1>1, <1>2, <1>3, <1>4, <1>5, <1>8, <1>9, <1>10 DEF Quiet

\* A turn of the loop fills one instrument and leaves the others alone.
LEMMA TurnFacts ==
  ASSUME TypeOK, NEW t \in Threads, Turn(t)
  PROVE  \E i \in Instruments :
           /\ UNCHANGED <<now, lastRefresh, lock, sentAt, quotesAt>>
           /\ InRefresh(t)
           /\ pc' = [pc EXCEPT ![t] = "fill"]
           /\ batch' = [batch EXCEPT ![t].todo = @ \ {i}]
           /\ cache'[<<"spot", i>>] # Absent /\ cachedAt'[<<"spot", i>>] = now
           /\ \A k \in Legs \X Instruments :
                \/ lastGood'[k] = lastGood[k]
                \/ batch[t].quoted[k[1]] # {} /\ lastGood'[k] = Live(batch[t].at, {})
           /\ \A k \in Legs \X Instruments :
                \/ UNCHANGED <<cache[k], cachedAt[k], lastGood[k]>>
                \/ cachedAt'[k] = now /\ cache'[k] # Absent
           /\ \A k \in Legs \X Instruments :
                cache'[k] = Mock => \/ k[1] = "spot" /\ lastGood'[k] = Absent
                                    \/ UNCHANGED <<cache[k], lastGood[k]>>
<1>1. PICK i \in Instruments, c \in Value :
         /\ Fill(t, i, c) /\ pc' = [pc EXCEPT ![t] = "fill"] /\ InRefresh(t)
         /\ UNCHANGED <<now, lastRefresh, lock, sentAt, quotesAt>>
  <2>1. CASE FillFromChain(t)
    <3>1. cur[t] \in Instruments /\ got[t] \in Value
      BY <2>1 DEF FillFromChain, Goto, TypeOK
    <3>2. QED
      BY <2>1, <3>1 DEF FillFromChain, Goto, InRefresh
  <2>2. CASE \E i \in Instruments : FillFromQuotes(t, i)
    BY <2>2, ValueTypes DEF FillFromQuotes, Goto, InRefresh
  <2>3. QED
    BY <2>1, <2>2 DEF Turn
<1> DEFINE quoted(k) == k[2] = i /\ k[1] \in Legs /\ i \in batch[t].quoted[k[1]]
           new(k) == IF quoted(k) THEN Live(batch[t].at, {}) ELSE Degraded(k[1], i, c)
           puts(k) == k[2] = i /\ k[1] \in Legs /\ new(k) # Absent
<1>2. /\ lastGood' = [k \in Keys |-> IF quoted(k) THEN new(k) ELSE lastGood[k]]
      /\ cache' = [k \in Keys |-> IF puts(k) THEN new(k) ELSE cache[k]]
      /\ cachedAt' = [k \in Keys |-> IF puts(k) THEN now ELSE cachedAt[k]]
      /\ batch' = [batch EXCEPT ![t].todo = @ \ {i}]
  BY <1>1 DEF Fill
<1>3. Legs \X Instruments \subseteq Keys /\ <<"spot", i>> \in Legs \X Instruments
  BY DEF Keys, Kinds, Legs
<1>4. Live(batch[t].at, {}) \notin {Absent, Mock}
  BY ValueTypes DEF TypeOK
<1>5. \A k \in Legs \X Instruments : k[2] = i =>
         /\ Degraded(k[1], i, c) = Mock => k[1] = "spot" /\ lastGood[k] = Absent
         /\ k[1] = "spot" => Degraded(k[1], i, c) # Absent
  <2>1. ASSUME NEW l \in Legs
        PROVE  /\ Degraded(l, i, c) = Mock => l = "spot" /\ lastGood[<<l, i>>] = Absent
               /\ l = "spot" => Degraded(l, i, c) # Absent
    <3>1. lastGood[<<l, i>>] \in Value
      BY <1>3 DEF TypeOK
    <3>2. QED
      BY <3>1, ValueTypes DEF Degraded
  <2>2. \A k \in Legs \X Instruments : k[2] = i => k = <<k[1], i>> /\ k[1] \in Legs
    OBVIOUS
  <2>3. QED
    BY <2>1, <2>2
<1>6. cache'[<<"spot", i>>] # Absent /\ cachedAt'[<<"spot", i>>] = now
  BY <1>2, <1>3, <1>4, <1>5
<1>7. \A k \in Legs \X Instruments :
         \/ lastGood'[k] = lastGood[k]
         \/ batch[t].quoted[k[1]] # {} /\ lastGood'[k] = Live(batch[t].at, {})
  BY <1>2, <1>3
<1>8. \A k \in Legs \X Instruments :
         \/ UNCHANGED <<cache[k], cachedAt[k], lastGood[k]>>
         \/ cachedAt'[k] = now /\ cache'[k] # Absent
  BY <1>2, <1>3, <1>4
<1>9. \A k \in Legs \X Instruments :
         cache'[k] = Mock => \/ k[1] = "spot" /\ lastGood'[k] = Absent
                             \/ UNCHANGED <<cache[k], lastGood[k]>>
  BY <1>2, <1>3, <1>4, <1>5
<1>10. QED
  BY <1>1, <1>2, <1>6, <1>7, <1>8, <1>9

\* Who holds the lock, and the guard's timestamp against the last call.
LEMMA LockStep == IInv /\ [Next]_vars => LockInv'
<1> SUFFICES ASSUME IInv, [Next]_vars PROVE LockInv'
  OBVIOUS
<1> USE DEF IInv, LockInv
<1>1. CASE Tick \/ UNCHANGED vars
  BY <1>1 DEF Tick, vars, threadVars, InRefresh
<1>2. ASSUME NEW t \in Threads, Quiet(t) PROVE LockInv'
  BY <1>2, QuietFacts
<1>3. ASSUME NEW t \in Threads, Turn(t) PROVE LockInv'
  <2>1. PICK i \in Instruments :
          /\ UNCHANGED <<now, lastRefresh, lock, quotesAt>> /\ InRefresh(t)
          /\ pc' = [pc EXCEPT ![t] = "fill"]
          /\ batch' = [batch EXCEPT ![t].todo = @ \ {i}]
    BY <1>3, TurnFacts
  <2>2. \A u \in Threads : InRefresh(u)' => InRefresh(u)
    BY <2>1 DEF InRefresh, TypeOK
  <2>3. QED
    BY <2>1, <2>2
<1>4. ASSUME NEW t \in Threads, AcquireStale(t) PROVE LockInv'
  <2>1. \A u \in Threads : u # t => InRefresh(u)' = InRefresh(u)
    BY <1>4 DEF AcquireStale, Goto, InRefresh, TypeOK
  <2>2. QED
    BY <1>4, <2>1, ProviderAssumption DEF AcquireStale
<1>5. ASSUME NEW t \in Threads, QuotesReply(t) PROVE LockInv'
  <2>1. \A u \in Threads : InRefresh(u)' => InRefresh(u)
    BY <1>5 DEF QuotesReply, Goto, InRefresh, TypeOK
  <2>2. QED
    BY <1>5, <2>1 DEF QuotesReply
<1>6. ASSUME NEW t \in Threads, Finish(t) PROVE LockInv'
  <2>1. InRefresh(t) /\ ~InRefresh(t)'
    BY <1>6 DEF Finish, Goto, InRefresh, TypeOK, NoBatch
  <2>2. \A u \in Threads : u # t => InRefresh(u)' = InRefresh(u)
    BY <1>6 DEF Finish, Goto, InRefresh, TypeOK
  <2>3. QED
    BY <1>6, <2>1, <2>2 DEF Finish, TimeInv
<1>7. QED
  BY <1>1, <1>2, <1>3, <1>4, <1>5, <1>6, NextCases

\* How old the prices in the stores and in the running refresh can be.
LEMMA TimeStep == IInv /\ [Next]_vars => TimeInv'
<1> SUFFICES ASSUME IInv, [Next]_vars PROVE TimeInv'
  OBVIOUS
<1>1. /\ lastRefresh <= now /\ quotesAt <= now
      /\ \A t \in Threads : pc[t] = "quotes" => sentAt[t] = quotesAt
      /\ \A t \in Threads, k \in Legs :
           InRefresh(t) /\ batch[t].quoted[k] # {} => batch[t].at = quotesAt
      /\ \A k \in Legs \X Instruments : lastGood[k].priceAt <= quotesAt
      /\ TypeOK /\ LockInv
  BY DEF IInv, TimeInv
<1> USE DEF TimeInv
<1>2. CASE Tick \/ UNCHANGED vars
  BY <1>1, <1>2 DEF Tick, vars, threadVars, storeVars, InRefresh, TypeOK
<1>3. ASSUME NEW t \in Threads, Quiet(t) PROVE TimeInv'
  BY <1>1, <1>3, QuietFacts
<1>4. ASSUME NEW t \in Threads, Turn(t) PROVE TimeInv'
  <2>1. PICK i \in Instruments :
          /\ UNCHANGED <<now, lastRefresh, lock, sentAt, quotesAt>> /\ InRefresh(t)
          /\ pc' = [pc EXCEPT ![t] = "fill"]
          /\ batch' = [batch EXCEPT ![t].todo = @ \ {i}]
          /\ \A k \in Legs \X Instruments :
               \/ lastGood'[k] = lastGood[k]
               \/ batch[t].quoted[k[1]] # {} /\ lastGood'[k] = Live(batch[t].at, {})
    BY <1>1, <1>4, TurnFacts
  <2>2. \A u \in Threads : /\ InRefresh(u)' => InRefresh(u)
                           /\ batch'[u].quoted = batch[u].quoted
                           /\ batch'[u].at = batch[u].at
                           /\ pc'[u] = "quotes" => pc[u] = "quotes"
    BY <1>1, <2>1 DEF InRefresh, TypeOK
  <2>3. ASSUME NEW k \in Legs \X Instruments PROVE lastGood'[k].priceAt <= quotesAt
    <3>1. CASE lastGood'[k] = lastGood[k]
      BY <1>1, <3>1
    <3>2. CASE batch[t].quoted[k[1]] # {} /\ lastGood'[k] = Live(batch[t].at, {})
      <4>1. k[1] \in Legs /\ batch[t].at = quotesAt /\ quotesAt \in Nat
        BY <1>1, <2>1, <3>2 DEF TypeOK
      <4>2. QED
        BY <1>1, <3>2, <4>1 DEF Live
    <3>3. QED
      BY <1>1, <2>1, <3>1, <3>2
  <2>4. \A u \in Threads : pc'[u] = "quotes" => sentAt'[u] = quotesAt'
    BY <1>1, <2>1, <2>2
  <2>5. \A u \in Threads, k \in Legs :
           InRefresh(u)' /\ batch'[u].quoted[k] # {} => batch'[u].at = quotesAt'
    BY <1>1, <2>1, <2>2
  <2>6. QED
    BY <1>1, <2>1, <2>3, <2>4, <2>5
<1>5. ASSUME NEW t \in Threads, AcquireStale(t) PROVE TimeInv'
  <2>1. \A u \in Threads : ~InRefresh(u)
    BY <1>1, <1>5, ProviderAssumption DEF AcquireStale, LockInv
  <2>2. \A u \in Threads : u # t => InRefresh(u)' = InRefresh(u)
    BY <1>1, <1>5 DEF AcquireStale, Goto, InRefresh, TypeOK
  <2>3. \A k \in Legs : batch'[t].quoted[k] = {}
    BY <1>1, <1>5 DEF AcquireStale, NoBatch, TypeOK
  <2>4. quotesAt' \in Nat /\ quotesAt <= quotesAt' /\ quotesAt' <= now
    BY <1>1, <1>5 DEF AcquireStale, TypeOK
  <2>5. \A k \in Legs \X Instruments : lastGood[k].priceAt \in Nat
    BY <1>1 DEF TypeOK, Keys, Kinds, Value
  <2>6. \A u \in Threads : pc'[u] = "quotes" => sentAt'[u] = quotesAt'
    BY <1>1, <1>5, <2>1 DEF AcquireStale, Goto, InRefresh, TypeOK
  <2>7. \A u \in Threads, k \in Legs :
           InRefresh(u)' /\ batch'[u].quoted[k] # {} => batch'[u].at = quotesAt'
    BY <1>1, <2>1, <2>2, <2>3
  <2>8. \A k \in Legs \X Instruments : lastGood'[k].priceAt <= quotesAt'
    BY <1>1, <1>5, <2>4, <2>5 DEF AcquireStale, storeVars, TypeOK
  <2>9. QED
    BY <1>1, <1>5, <2>4, <2>6, <2>7, <2>8 DEF AcquireStale
<1>6. ASSUME NEW t \in Threads, QuotesReply(t) PROVE TimeInv'
  <2>1. \A u \in Threads : InRefresh(u)' => InRefresh(u)
    BY <1>1, <1>6 DEF QuotesReply, Goto, InRefresh, TypeOK
  <2>2. batch'[t].at = quotesAt /\ \A u \in Threads : u # t => batch'[u] = batch[u]
    BY <1>1, <1>6 DEF QuotesReply, Goto, TypeOK
  <2>3. \A u \in Threads : pc'[u] = "quotes" => pc[u] = "quotes" /\ sentAt'[u] = sentAt[u]
    BY <1>1, <1>6 DEF QuotesReply, Goto, TypeOK
  <2>4. QED
    BY <1>1, <1>6, <2>1, <2>2, <2>3 DEF QuotesReply, storeVars
<1>7. ASSUME NEW t \in Threads, Finish(t) PROVE TimeInv'
  <2>1. \A u \in Threads : /\ InRefresh(u)' => InRefresh(u) /\ batch'[u] = batch[u]
                           /\ pc'[u] = "quotes" => pc[u] = "quotes"
    BY <1>1, <1>7 DEF Finish, Goto, InRefresh, TypeOK, NoBatch
  <2>2. UNCHANGED <<now, lastGood, sentAt, quotesAt>> /\ lastRefresh' = now /\ now \in Nat
    BY <1>1, <1>7 DEF Finish, storeVars, TypeOK
  <2>3. \A u \in Threads : pc'[u] = "quotes" => sentAt'[u] = quotesAt'
    BY <1>1, <2>1, <2>2
  <2>4. \A u \in Threads, k \in Legs :
           InRefresh(u)' /\ batch'[u].quoted[k] # {} => batch'[u].at = quotesAt'
    BY <1>1, <2>1, <2>2
  <2>5. QED
    BY <1>1, <2>2, <2>3, <2>4
<1>8. QED
  BY <1>2, <1>3, <1>4, <1>5, <1>6, <1>7, NextCases

\* The loop reaches every instrument before the lock is released.
LEMMA FillStep == IInv /\ [Next]_vars => FillInv'
<1> SUFFICES ASSUME IInv, [Next]_vars PROVE FillInv'
  OBVIOUS
<1> USE DEF IInv, FillInv, Filled
<1>1. /\ quotesAt <= now /\ quotesAt \in Nat /\ now \in Nat
      /\ \A i \in Instruments : <<"spot", i>> \in Legs \X Instruments
  BY DEF TimeInv, TypeOK, Legs
<1>2. CASE Tick \/ UNCHANGED vars
  BY <1>2 DEF Tick, vars, threadVars, storeVars
<1>3. ASSUME NEW t \in Threads, Quiet(t) PROVE FillInv'
  <2>1. \A i \in Instruments : Filled(i) => Filled(i)'
    BY <1>1, <1>3, QuietFacts
  <2>2. QED
    BY <1>3, <2>1, QuietFacts
<1>4. ASSUME NEW t \in Threads, Turn(t) PROVE FillInv'
  <2>1. PICK i \in Instruments :
          /\ UNCHANGED <<now, lastRefresh, lock, quotesAt>> /\ InRefresh(t)
          /\ batch' = [batch EXCEPT ![t].todo = @ \ {i}]
          /\ cache'[<<"spot", i>>] # Absent /\ cachedAt'[<<"spot", i>>] = now
          /\ \A k \in Legs \X Instruments :
               \/ UNCHANGED <<cache[k], cachedAt[k], lastGood[k]>>
               \/ cachedAt'[k] = now /\ cache'[k] # Absent
    BY <1>4, TurnFacts
  <2>2. lock = t
    BY <2>1 DEF LockInv
  <2>3. Filled(i)' /\ \A j \in Instruments : Filled(j) => Filled(j)'
    BY <1>1, <2>1
  <2>4. batch'[t].todo = batch[t].todo \ {i}
    BY <2>1 DEF TypeOK
  <2>5. QED
    BY <2>1, <2>2, <2>3, <2>4, ProviderAssumption
<1>5. ASSUME NEW t \in Threads, AcquireStale(t) PROVE FillInv'
  <2>1. batch'[t].todo = Instruments /\ lock' = t
    BY <1>5 DEF AcquireStale, TypeOK, NoBatch
  <2>2. QED
    BY <2>1, ProviderAssumption
<1>6. ASSUME NEW t \in Threads, QuotesReply(t) PROVE FillInv'
  <2>1. \A u \in Threads : batch'[u].todo = batch[u].todo
    BY <1>6 DEF QuotesReply, TypeOK
  <2>2. QED
    BY <1>6, <2>1 DEF QuotesReply, storeVars
<1>7. ASSUME NEW t \in Threads, Finish(t) PROVE FillInv'
  <2>1. lock = t
    BY <1>7 DEF Finish, Goto, InRefresh, LockInv
  <2>2. QED
    BY <1>1, <1>7, <2>1, ProviderAssumption DEF Finish, storeVars
<1>8. QED
  BY <1>2, <1>3, <1>4, <1>5, <1>6, <1>7, NextCases

\* A mock is never put where a live price has been seen.
LEMMA MockStep == IInv /\ [Next]_vars => MockOnlyBeforeLive'
<1> SUFFICES ASSUME IInv, [Next]_vars PROVE MockOnlyBeforeLive'
  OBVIOUS
<1> USE DEF IInv, MockOnlyBeforeLive
<1>1. \A i \in Instruments : /\ <<"spot", i>> \in Legs \X Instruments
                             /\ <<"futures", i>> \in Legs \X Instruments
  BY DEF Legs
<1>2. CASE Tick \/ UNCHANGED vars
  BY <1>2 DEF Tick, vars, storeVars
<1>3. ASSUME NEW t \in Threads, Quiet(t) PROVE MockOnlyBeforeLive'
  BY <1>1, <1>3, QuietFacts
<1>4. ASSUME NEW t \in Threads, Turn(t) PROVE MockOnlyBeforeLive'
  BY <1>1, <1>4, TurnFacts
<1>5. ASSUME NEW t \in Threads, AcquireStale(t) \/ QuotesReply(t) \/ Finish(t)
      PROVE  MockOnlyBeforeLive'
  BY <1>5 DEF AcquireStale, QuotesReply, Finish, storeVars
<1>6. QED
  BY <1>2, <1>3, <1>4, <1>5, NextCases

\* The inductive invariant holds in every reachable state.
THEOREM Invariance == Spec => []IInv
<1>1. IInv /\ [Next]_vars => IInv'
  BY TypeStep, LockStep, TimeStep, FillStep, MockStep DEF IInv
<1>2. QED
  BY <1>1, InitIInv, PTL DEF Spec

\* Every variable keeps its type, for any number of threads and instruments.
THEOREM TypeCorrect == Spec => []TypeOK
<1>1. IInv => TypeOK
  BY DEF IInv
<1>2. QED
  BY <1>1, Invariance, PTL

\* The batched refresh of _ensure_spots_fresh is a critical section.
THEOREM RefreshIsExclusive == Spec => []OneRefresh
<1>1. IInv => OneRefresh
  BY DEF IInv, LockInv, OneRefresh
<1>2. QED
  BY <1>1, Invariance, PTL

\* No mock takes the place of a live price in the spot and futures cache.
THEOREM MocksYield == Spec => []MockOnlyBeforeLive
<1>1. IInv => MockOnlyBeforeLive
  BY DEF IInv
<1>2. QED
  BY <1>1, Invariance, PTL

\* A refresh that is over has put an entry for every instrument.
THEOREM RefreshIsComplete == Spec => []RefreshSkipsNobody
<1>1. IInv => RefreshSkipsNobody
  BY DEF IInv, FillInv, Filled, RefreshSkipsNobody
<1>2. QED
  BY <1>1, Invariance, PTL

\* The remembered live prices of _LAST_GOOD never go back in time.
THEOREM LastGoodIsMonotone == Spec => LastGoodMovesForward
<1>1. IInv /\ [Next]_vars =>
        [\A k \in Legs \X Instruments : lastGood'[k].priceAt >= lastGood[k].priceAt]_vars
  <2> SUFFICES ASSUME IInv, [Next]_vars, NEW k \in Legs \X Instruments
               PROVE  lastGood'[k].priceAt >= lastGood[k].priceAt
    OBVIOUS
  <2>1. lastGood[k].priceAt \in Nat /\ lastGood[k].priceAt <= quotesAt
    BY DEF IInv, TypeOK, TimeInv, Keys, Kinds, Value
  <2>2. CASE lastGood'[k] = lastGood[k]
    BY <2>1, <2>2
  <2>3. ASSUME NEW t \in Threads, Turn(t) PROVE lastGood'[k].priceAt >= lastGood[k].priceAt
    <3>1. \/ lastGood'[k] = lastGood[k]
          \/ /\ batch[t].quoted[k[1]] # {} /\ InRefresh(t)
             /\ lastGood'[k] = Live(batch[t].at, {})
      BY <2>3, TurnFacts DEF IInv
    <3>2. k[1] \in Legs
      OBVIOUS
    <3>3. batch[t].quoted[k[1]] # {} /\ InRefresh(t) => batch[t].at = quotesAt
      BY <3>2 DEF IInv, TimeInv
    <3>4. quotesAt \in Nat
      BY DEF IInv, TypeOK
    <3>5. QED
      BY <2>1, <2>2, <3>1, <3>3, <3>4 DEF Live
  <2>4. ASSUME NEW t \in Threads, Quiet(t) PROVE lastGood'[k] = lastGood[k]
    BY <2>4, QuietFacts DEF IInv
  <2>5. QED
    BY <2>2, <2>3, <2>4, NextCases
       DEF Tick, vars, storeVars, AcquireStale, QuotesReply, Finish
<1>2. QED
  BY <1>1, Invariance, PTL DEF Spec, LastGoodMovesForward

\* The provider implements the abstract throttle: two calls of quotes() are at
\* least _SPOT_TTL apart.
THEOREM ProviderIsThrottled == Spec => QuotesThrottled
<1>1. Init => Quotes!Init
  BY ProviderAssumption DEF Init, Quotes!Init
<1>2. IInv /\ [Next]_vars => [Quotes!Next]_<<now, quotesAt>>
  <2> SUFFICES ASSUME IInv, [Next]_vars PROVE [Quotes!Next]_<<now, quotesAt>>
    OBVIOUS
  <2>1. CASE Tick
    BY <2>1 DEF Tick, Quotes!Next, Quotes!Tick
  <2>2. ASSUME NEW t \in Threads, Quiet(t) \/ Turn(t)
        PROVE  UNCHANGED <<now, quotesAt>>
    BY <2>2, QuietFacts, TurnFacts DEF IInv
  <2>3. ASSUME NEW t \in Threads, AcquireStale(t)
        PROVE  [Quotes!Next]_<<now, quotesAt>>
    <3>1. now - quotesAt >= SpotTtl
      BY <2>3, ProviderAssumption
         DEF AcquireStale, RefreshDue, IInv, LockInv, TypeOK
    <3>2. QED
      BY <2>3, <3>1 DEF AcquireStale, Quotes!Next, Quotes!Call
  <2>4. ASSUME NEW t \in Threads, QuotesReply(t) \/ Finish(t)
        PROVE  UNCHANGED <<now, quotesAt>>
    BY <2>4 DEF QuotesReply, Finish
  <2>5. QED
    BY <2>1, <2>2, <2>3, <2>4, NextCases DEF vars
<1>3. QED
  BY <1>1, <1>2, Invariance, PTL DEF Spec, QuotesThrottled, Quotes!Spec
=============================================================================
