--------------------------- MODULE FyersProvider ----------------------------
(***************************************************************************)
(* The cached market-data provider, ingestion/providers/fyers_provider.py. *)
(*                                                                         *)
(* Worker threads (the dashboard's to_thread calls, the event loop itself) *)
(* call get_spot, get_futures and get_option_chain.  They share a TTL      *)
(* cache, a store of the last live values that never expires, and the      *)
(* batched refresh: one quotes() call for all instruments, serialised by   *)
(* _spot_refresh_lock and throttled by _last_spot_refresh.                 *)
(*                                                                         *)
(* A thread's step ends where it blocks (a call to the broker, the lock)   *)
(* and wherever a pre-emption shows: between an unlocked read and the step *)
(* that acts on it.  A price is abstracted to the time it was asked for.   *)
(***************************************************************************)
EXTENDS Integers, FiniteSets

CONSTANTS
  Instruments,     (* Active instruments with a Fyers spot symbol.         *)
  Threads,         (* Threads that call the provider.                      *)
  NoThread,        (* Nobody: the lock is free.                            *)
  NoInstrument,    (* No instrument: the thread asks for none.             *)
  ChainLegs,       (* The sets of prices a live chain may carry.           *)
  SpotTtl,         (* _SPOT_TTL                                            *)
  ChainTtl,        (* _CHAIN_TTL                                           *)
  StartTime,       (* Wall clock when the process starts.                  *)
  MaxTime          (* Bound on the clock, for model checking.              *)

ASSUME ProviderAssumption ==
  /\ NoThread \notin Threads /\ NoInstrument \notin Instruments
  /\ ChainLegs \subseteq SUBSET {"spot", "futures"}
  /\ SpotTtl \in Nat \ {0} /\ ChainTtl \in Nat \ {0}
  /\ MaxTime \in Nat
  /\ StartTime \in Nat /\ StartTime >= SpotTtl  \* epoch seconds: never near 0

VARIABLES
  now,             (* time.time()                                          *)
  cache,           (* _CACHE: key -> value,                                *)
  cachedAt,        (*         key -> time of the put                       *)
  lastGood,        (* _LAST_GOOD: key -> last live value                   *)
  lastRefresh,     (* _last_spot_refresh                                   *)
  lock,            (* Holder of _spot_refresh_lock.                        *)
  pc,              (* Where each thread is.                                *)
  req,             (* The request each thread serves: a key, or NoKey.     *)
  batch,           (* _refresh_all_spots' locals: the instruments quoted   *)
                   (* (live, futs) and still to fill, and when they were.  *)
  cur,             (* Instrument whose chain the thread is asking for.     *)
  sentAt,          (* When the thread's call to the broker was sent.       *)
  got,             (* The chain _serve hands to its caller.                *)
  quotesAt         (* History: when quotes() was last called.              *)

threadVars == <<pc, req, batch, cur, sentAt, got>>
storeVars  == <<cache, cachedAt, lastGood>>
vars == <<now, storeVars, lastRefresh, lock, threadVars, quotesAt>>

(***************************************************************************)
(* Values.  Legs are the prices an option chain carries beside its rows:   *)
(* the index ltp (spot) and fp (near-month futures).                       *)
(***************************************************************************)
Legs    == {"spot", "futures"}
Kinds   == Legs \cup {"chain"}
Keys    == Kinds \X Instruments
NoKey   == <<"none", NoInstrument>>
Sources == {"none", "fyers", "fyers_cached", "fyers_chain", "mock_fallback"}
Value   == [src : Sources, priceAt : Nat, legs : SUBSET Legs]

Absent == [src |-> "none", priceAt |-> 0, legs |-> {}]
Mock   == [src |-> "mock_fallback", priceAt |-> 0, legs |-> {}]

Live(at, legs) == [src |-> "fyers", priceAt |-> at, legs |-> legs]
Stale(v)       == [v EXCEPT !.src = "fyers_cached"]

Fresh(k, ttl) == cache[k] # Absent /\ now - cachedAt[k] < ttl

CachePut(k, v) == /\ cache' = [cache EXCEPT ![k] = v]
                  /\ cachedAt' = [cachedAt EXCEPT ![k] = now]

NoBatch == [quoted |-> [k \in Legs |-> {}], todo |-> {}, at |-> 0]

Locations == {"idle", "ensure", "lock", "quotes", "fill", "reread",
              "chain", "fetch", "put", "gotChain"}

TypeOK ==
  /\ now \in Nat /\ lastRefresh \in Nat /\ quotesAt \in Nat
  /\ cache \in [Keys -> Value] /\ lastGood \in [Keys -> Value]
  /\ cachedAt \in [Keys -> Nat]
  /\ lock \in Threads \cup {NoThread}
  /\ pc \in [Threads -> Locations]
  /\ req \in [Threads -> Keys \cup {NoKey}]
  /\ batch \in [Threads -> [quoted : [Legs -> SUBSET Instruments],
                            todo : SUBSET Instruments, at : Nat]]
  /\ cur \in [Threads -> Instruments \cup {NoInstrument}]
  /\ sentAt \in [Threads -> Nat]
  /\ got \in [Threads -> Value]
  /\ \A t \in Threads : pc[t] # "idle" => req[t] \in Keys /\ cur[t] \in Instruments

Init ==
  /\ now = StartTime /\ lastRefresh = 0 /\ quotesAt = 0
  /\ cache = [k \in Keys |-> Absent] /\ lastGood = [k \in Keys |-> Absent]
  /\ cachedAt = [k \in Keys |-> 0]
  /\ lock = NoThread
  /\ pc = [t \in Threads |-> "idle"]
  /\ req = [t \in Threads |-> NoKey] /\ cur = [t \in Threads |-> NoInstrument]
  /\ batch = [t \in Threads |-> NoBatch]
  /\ sentAt = [t \in Threads |-> 0]
  /\ got = [t \in Threads |-> Absent]

Goto(t, from, to) == pc[t] = from /\ pc' = [pc EXCEPT ![t] = to]

Return(t, from) ==
  /\ Goto(t, from, "idle")
  /\ req' = [req EXCEPT ![t] = NoKey]
  /\ cur' = [cur EXCEPT ![t] = NoInstrument]
  /\ got' = [got EXCEPT ![t] = Absent]

(***************************************************************************)
(* get_spot, get_futures and get_option_chain: the entry.  A request that  *)
(* finds a fresh entry returns it and changes nothing, so it is no step.   *)
(***************************************************************************)
Call(t, k, i) ==
  /\ Goto(t, "idle", IF k \in Legs THEN "ensure" ELSE "chain")
  /\ k \in Legs => ~Fresh(<<k, i>>, SpotTtl)
  /\ req' = [req EXCEPT ![t] = <<k, i>>]
  /\ cur' = [cur EXCEPT ![t] = i]
  /\ UNCHANGED <<now, storeVars, lastRefresh, lock, batch, sentAt, got, quotesAt>>

(***************************************************************************)
(* _ensure_spots_fresh: the unlocked guard, the lock, the guard again.     *)
(***************************************************************************)
RefreshDue == now - lastRefresh >= SpotTtl

Guard(t) ==
  /\ Goto(t, "ensure", IF RefreshDue THEN "lock" ELSE "reread")
  /\ UNCHANGED <<now, storeVars, lastRefresh, lock, req, batch, cur, sentAt, got,
                 quotesAt>>

AcquireFresh(t) ==       \* refreshed while we waited: take the lock, release it
  /\ Goto(t, "lock", "reread")
  /\ lock = NoThread /\ ~RefreshDue
  /\ UNCHANGED <<now, storeVars, lastRefresh, lock, req, batch, cur, sentAt, got,
                 quotesAt>>

\* Mutant: the guard is not repeated under the lock.
AcquireNoRecheck(t) ==
  /\ Goto(t, "lock", "quotes")
  /\ lock = NoThread /\ lock' = t
  /\ batch' = [batch EXCEPT ![t] = [NoBatch EXCEPT !.todo = Instruments]]
  /\ quotesAt' = now
  /\ sentAt' = [sentAt EXCEPT ![t] = now]
  /\ UNCHANGED <<now, storeVars, lastRefresh, req, cur, got>>

\* Mutant: the refresh runs without the lock.
AcquireNoLock(t) ==
  /\ Goto(t, "lock", "quotes")
  /\ RefreshDue /\ lock' = t
  /\ batch' = [batch EXCEPT ![t] = [NoBatch EXCEPT !.todo = Instruments]]
  /\ quotesAt' = now
  /\ sentAt' = [sentAt EXCEPT ![t] = now]
  /\ UNCHANGED <<now, storeVars, lastRefresh, req, cur, got>>

AcquireStale(t) ==
  /\ lock = NoThread /\ RefreshDue
  /\ lock' = t
  /\ batch' = [batch EXCEPT ![t] = [NoBatch EXCEPT !.todo = Instruments]]
  /\ \/ /\ Goto(t, "lock", "quotes")
        /\ quotesAt' = now
        /\ sentAt' = [sentAt EXCEPT ![t] = now]
     \/ /\ Goto(t, "lock", "fill")         \* _get_fyers: no access token
        /\ UNCHANGED <<quotesAt, sentAt>>
  /\ UNCHANGED <<now, storeVars, lastRefresh, req, cur, got>>

(***************************************************************************)
(* _refresh_all_spots.  The answer covers any subset of the symbols; an    *)
(* error (HTTP 429, a timeout) leaves none.                                *)
(***************************************************************************)
QuotesReply(t) ==
  /\ Goto(t, "quotes", "fill")
  /\ \E answer \in [Legs -> SUBSET Instruments] :
       batch' = [batch EXCEPT ![t] = [quoted |-> answer, todo |-> batch[t].todo,
                                      at |-> sentAt[t]]]
  /\ sentAt' = [sentAt EXCEPT ![t] = 0]
  /\ UNCHANGED <<now, storeVars, lastRefresh, lock, req, cur, got, quotesAt>>

\* Mutant: the recovered price carries a tag nobody knows.
FromChainMistagged(c, k) ==
  IF c.src \in {"fyers", "fyers_cached"} /\ k \in c.legs
    THEN [src |-> "chain", priceAt |-> c.priceAt, legs |-> {}]
    ELSE Absent

\* The price of kind k that _spot_and_fut_from_chain recovers from chain c.
FromChain(c, k) ==
  IF c.src \in {"fyers", "fyers_cached"} /\ k \in c.legs
    THEN [src |-> "fyers_chain", priceAt |-> c.priceAt, legs |-> {}]
    ELSE Absent

\* Mutant: the last good value is not consulted.
DegradedToMock(k, i, c) ==
  LET v == FromChain(c, k) IN
  IF v = Absent /\ k = "spot" THEN Mock ELSE v

\* What the refresh puts for kind k of an instrument it has no quote for.  Nothing
\* is put for a future that was never live: a mock future is not cached.
Degraded(k, i, c) ==
  LET v == FromChain(c, k) IN
  IF v # Absent THEN v
  ELSE IF lastGood[<<k, i>>] # Absent THEN Stale(lastGood[<<k, i>>])
  ELSE IF k = "spot" THEN Mock ELSE Absent

\* One turn of the loop over the instruments, c being the chain it fetched.
Fill(t, i, c) ==
  LET quoted(k) == k[2] = i /\ k[1] \in Legs /\ i \in batch[t].quoted[k[1]]
      new(k) == IF quoted(k) THEN Live(batch[t].at, {}) ELSE Degraded(k[1], i, c)
      puts(k) == k[2] = i /\ k[1] \in Legs /\ new(k) # Absent
  IN
  /\ lastGood' = [k \in Keys |-> IF quoted(k) THEN new(k) ELSE lastGood[k]]
  /\ cache' = [k \in Keys |-> IF puts(k) THEN new(k) ELSE cache[k]]
  /\ cachedAt' = [k \in Keys |-> IF puts(k) THEN now ELSE cachedAt[k]]
  /\ batch' = [batch EXCEPT ![t].todo = @ \ {i}]

NeedsChain(t, i) == \E k \in Legs : i \notin batch[t].quoted[k]

FillFromQuotes(t, i) ==
  /\ Goto(t, "fill", "fill")
  /\ i \in batch[t].todo /\ ~NeedsChain(t, i)
  /\ Fill(t, i, Absent)
  /\ UNCHANGED <<now, lastRefresh, lock, req, cur, sentAt, got, quotesAt>>

FillAsksChain(t, i) ==
  /\ Goto(t, "fill", "chain")
  /\ i \in batch[t].todo /\ NeedsChain(t, i)
  /\ cur' = [cur EXCEPT ![t] = i]
  /\ UNCHANGED <<now, storeVars, lastRefresh, lock, req, batch, sentAt, got,
                 quotesAt>>

FillFromChain(t) ==
  /\ Goto(t, "gotChain", "fill")
  /\ batch[t].todo # {}
  /\ Fill(t, cur[t], got[t])
  /\ got' = [got EXCEPT ![t] = Absent]
  /\ cur' = [cur EXCEPT ![t] = req[t][2]]
  /\ UNCHANGED <<now, lastRefresh, lock, req, sentAt, quotesAt>>

\* Mutant: the loop stops half-way, and the window is closed all the same.
FinishEarly(t) ==
  /\ Goto(t, "fill", "reread")
  /\ lastRefresh' = now
  /\ lock' = NoThread
  /\ batch' = [batch EXCEPT ![t] = NoBatch]
  /\ UNCHANGED <<now, storeVars, req, cur, sentAt, got, quotesAt>>

\* Mutant: the lock is not released.
FinishLocked(t) ==
  /\ Goto(t, "fill", "reread")
  /\ batch[t].todo = {}
  /\ lastRefresh' = now
  /\ batch' = [batch EXCEPT ![t] = NoBatch]
  /\ UNCHANGED <<now, storeVars, lock, req, cur, sentAt, got, quotesAt>>

Finish(t) ==             \* the finally clause, then the end of the with block
  /\ Goto(t, "fill", "reread")
  /\ batch[t].todo = {}
  /\ lastRefresh' = now
  /\ lock' = NoThread
  /\ batch' = [batch EXCEPT ![t] = NoBatch]
  /\ UNCHANGED <<now, storeVars, req, cur, sentAt, got, quotesAt>>

(***************************************************************************)
(* The second half of get_spot and get_futures.                            *)
(***************************************************************************)
RereadHit(t) ==
  /\ Return(t, "reread")
  /\ Fresh(req[t], SpotTtl)
  /\ UNCHANGED <<now, storeVars, lastRefresh, lock, batch, sentAt, quotesAt>>

RereadMiss(t) ==
  /\ Goto(t, "reread", "chain")
  /\ ~Fresh(req[t], SpotTtl)
  /\ cur' = [cur EXCEPT ![t] = req[t][2]]
  /\ UNCHANGED <<now, storeVars, lastRefresh, lock, req, batch, sentAt, got,
                 quotesAt>>

ReturnFromChain(t) ==    \* a real price from the chain, else an uncached mock
  LET v == FromChain(got[t], req[t][1]) IN
  /\ batch[t].todo = {} /\ req[t][1] \in Legs
  /\ Return(t, "gotChain")
  /\ IF v # Absent THEN CachePut(req[t], v) ELSE UNCHANGED <<cache, cachedAt>>
  /\ UNCHANGED <<now, lastGood, lastRefresh, lock, batch, sentAt, quotesAt>>

(***************************************************************************)
(* get_option_chain, through _serve.                                       *)
(***************************************************************************)
ChainKey(t) == <<"chain", cur[t]>>

ChainHit(t) ==
  /\ Goto(t, "chain", "gotChain")
  /\ Fresh(ChainKey(t), ChainTtl)
  /\ got' = [got EXCEPT ![t] = cache[ChainKey(t)]]
  /\ UNCHANGED <<now, storeVars, lastRefresh, lock, req, batch, cur, sentAt,
                 quotesAt>>

ChainMiss(t) ==
  /\ Goto(t, "chain", "fetch")
  /\ ~Fresh(ChainKey(t), ChainTtl)
  /\ sentAt' = [sentAt EXCEPT ![t] = now]
  /\ UNCHANGED <<now, storeVars, lastRefresh, lock, req, batch, cur, got, quotesAt>>

ChainLive(t) ==
  /\ Goto(t, "fetch", "gotChain")
  /\ \E legs \in ChainLegs :
       LET v == Live(sentAt[t], legs) IN
       /\ lastGood' = [lastGood EXCEPT ![ChainKey(t)] = v]
       /\ CachePut(ChainKey(t), v)
       /\ got' = [got EXCEPT ![t] = v]
  /\ sentAt' = [sentAt EXCEPT ![t] = 0]
  /\ UNCHANGED <<now, lastRefresh, lock, req, batch, cur, quotesAt>>

ChainFails(t) ==         \* any exception, a missing token included
  LET k == ChainKey(t) IN
  /\ Goto(t, "fetch", "put")
  /\ got' = [got EXCEPT ![t] = IF lastGood[k] # Absent THEN Stale(lastGood[k]) ELSE Mock]
  /\ sentAt' = [sentAt EXCEPT ![t] = 0]
  /\ UNCHANGED <<now, storeVars, lastRefresh, lock, req, batch, cur, quotesAt>>

ChainPut(t) ==           \* _serve caches what it chose a moment ago
  /\ Goto(t, "put", "gotChain")
  /\ CachePut(ChainKey(t), got[t])
  /\ UNCHANGED <<now, lastGood, lastRefresh, lock, req, batch, cur, sentAt, got,
                 quotesAt>>

ReturnChain(t) ==
  /\ Return(t, "gotChain")
  /\ batch[t].todo = {} /\ req[t][1] = "chain"
  /\ UNCHANGED <<now, storeVars, lastRefresh, lock, batch, sentAt, quotesAt>>

(***************************************************************************)
(* The specification.  Tick's bound is the only one in this module.        *)
(***************************************************************************)
Tick ==
  /\ now < MaxTime
  /\ now' = now + 1
  /\ UNCHANGED <<storeVars, lastRefresh, lock, threadVars, quotesAt>>

Acquire(t) == AcquireFresh(t) \/ AcquireStale(t)

Step(t) ==
  \/ Guard(t) \/ QuotesReply(t)
  \/ \E i \in Instruments : FillFromQuotes(t, i) \/ FillAsksChain(t, i)
  \/ FillFromChain(t) \/ Finish(t)
  \/ RereadHit(t) \/ RereadMiss(t) \/ ReturnFromChain(t)
  \/ ChainHit(t) \/ ChainMiss(t) \/ ChainLive(t) \/ ChainFails(t)
  \/ ChainPut(t) \/ ReturnChain(t)

Next ==
  \/ Tick
  \/ \E t \in Threads :
       \/ \E k \in Kinds, i \in Instruments : Call(t, k, i)
       \/ Acquire(t)
       \/ Step(t)

Spec == Init /\ [][Next]_vars

\* A running thread is scheduled, the broker answers or times out, and a free
\* lock is eventually granted to each waiter.  Nobody has to call, or the clock
\* to advance.
FairSpec ==
  Spec /\ \A t \in Threads : WF_vars(Step(t)) /\ SF_vars(Acquire(t))

(***************************************************************************)
(* Properties.                                                             *)
(***************************************************************************)

\* Two calls of quotes() are never closer than the TTL, whatever the threads do
\* and whether the calls succeed: the promise of lines 39-42 and 176-178.
Quotes == INSTANCE Throttle WITH Window <- SpotTtl, calledAt <- quotesAt
QuotesThrottled == Quotes!Spec

\* The batched refresh is a critical section, from the call to the release.
InRefresh(t) == pc[t] = "quotes" \/ batch[t].todo # {} \/ pc[t] = "fill"
OneRefresh == \A t, u \in Threads : InRefresh(t) /\ InRefresh(u) => t = u

\* An answer that arrives late never replaces a newer live price: the remembered
\* spot and futures prices of an instrument only move forward.
LastGoodMovesForward ==
  [][\A k \in Legs \X Instruments : lastGood'[k].priceAt >= lastGood[k].priceAt]_vars

\* Once an instrument had a live spot, the spot cache never holds a mock for it,
\* and the futures cache never holds one at all (lines 305-307 and 409-411).
MockOnlyBeforeLive ==
  \A i \in Instruments :
    /\ cache[<<"spot", i>>] = Mock => lastGood[<<"spot", i>>] = Absent
    /\ cache[<<"futures", i>>] # Mock

\* When no refresh is running, every instrument has a spot entry put after the
\* latest quotes() call was sent: an attempt, failed or partial, skips nobody.
RefreshSkipsNobody ==
  lock = NoThread /\ quotesAt > 0 =>
    \A i \in Instruments : /\ cache[<<"spot", i>>] # Absent
                           /\ cachedAt[<<"spot", i>>] >= quotesAt

\* Every request is answered, even while refreshes fail and threads queue up.
RequestsReturn == \A t \in Threads : pc[t] # "idle" ~> pc[t] = "idle"

(***************************************************************************)
(* The inductive invariant behind these properties: who holds the lock,    *)
(* how the guard's timestamp relates to the last call, and what the        *)
(* thread in the refresh knows.                                            *)
(***************************************************************************)
LockInv == /\ \A t \in Threads : InRefresh(t) => lock = t
           /\ lock = NoThread => quotesAt <= lastRefresh

TimeInv == /\ lastRefresh <= now /\ quotesAt <= now
           /\ \A t \in Threads : pc[t] = "quotes" => sentAt[t] = quotesAt
           /\ \A t \in Threads, k \in Legs :
                InRefresh(t) /\ batch[t].quoted[k] # {} => batch[t].at = quotesAt
           /\ \A k \in Legs \X Instruments : lastGood[k].priceAt <= quotesAt

Filled(i) == /\ cache[<<"spot", i>>] # Absent
             /\ cachedAt[<<"spot", i>>] >= quotesAt

FillInv == /\ \A t \in Threads : lock = t =>
                \A i \in Instruments : i \in batch[t].todo \/ quotesAt = 0 \/ Filled(i)
           /\ lock = NoThread /\ quotesAt > 0 => \A i \in Instruments : Filled(i)

IInv == TypeOK /\ LockInv /\ TimeInv /\ FillInv /\ MockOnlyBeforeLive

\* What comments say and the code does not do; TLC refutes each (README, section 7).

\* Lines 26-29: the fan-out collapses "into one real API hit per instrument".
OneChainFetch ==
  \A t, u \in Threads :
    pc[t] = "fetch" /\ pc[u] = "fetch" /\ cur[t] = cur[u] => t = u

\* Lines 61-62: _serve prefers "the last *live* value over mock".
ChainMockOnlyBeforeLive ==
  \A i \in Instruments : cache[<<"chain", i>>] = Mock => lastGood[<<"chain", i>>] = Absent

\* Lines 305-307: an instrument degrades "to mock only if we have never had a
\* live value".
SpotMockOnlyBeforeLive ==
  [][\A t \in Threads :
       ReturnFromChain(t) /\ req[t][1] = "spot" /\ FromChain(got[t], "spot") = Absent
         => lastGood[req[t]] = Absent]_vars

\* Lines 386-388: the chain gives "REAL values", to be preferred to "stale
\* last-good"; so a chain-derived spot is at least as recent as the last good one.
ChainSpotNotOlder ==
  \A i \in Instruments :
    LET v == cache[<<"spot", i>>] IN
    v.src = "fyers_chain" => v.priceAt >= lastGood[<<"spot", i>>].priceAt
=============================================================================
