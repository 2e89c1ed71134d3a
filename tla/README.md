# A verification project for Strikfin-ATT

Strikfin-ATT is a market-intelligence terminal for Indian index derivatives
(NIFTY 50, SENSEX): a FastAPI backend that reads quotes and option chains from
the Fyers broker, derives signals from them, keeps a history in PostgreSQL and
serves a React frontend over HTTP and a WebSocket.

This directory holds TLA+ models of the parts of it that keep state under
concurrency, failure and time, the TLC configurations that check them, and
proofs of the main results. File names below are relative to `backend/app/`
unless they start with `frontend/`.

## 1. Inventory

### Market data

| Component | State | Operations | What is hard | Correct when |
|---|---|---|---|---|
| **Provider** `ingestion/providers/fyers_provider.py` | TTL cache, last-good store, `_last_spot_refresh`, one lock | `get_spot`, `get_futures`, `get_option_chain`, `get_history` | dashboard worker threads and the event loop call it at once; the vendor throttles, fails, answers in part | quotes() is throttled and single-flight; live prices never go back; a mock never replaces a live price |
| **Scheduler** `ingestion/scheduler.py` | two background tasks, a tick counter | snapshot prices, snapshot options, score signals | shares the database with request handlers; one commit per tick | only real quotes reach the history |
| **Signals** `services/signal_service.py`, `services/signal_outcome_service.py`, `engines/outcome.py` | tables signal, signal_outcome, index_snapshot | persist a signal on change or every 5 minutes; score open signals | read-then-insert; the scorer loop races the `/score` endpoint; rows committed late | one outcome per signal, terminal verdicts stay |
| **Option metrics and Options Lab** `services/options_service.py`, `services/options_lab_service.py`, `services/market_history.py` | tables option_metric, option_chain_row | persist a chain; build OI, PCR and GEX series | partial data, fallback between live and stored | the numbers shown are those of one chain |
| **Instrument master** `instruments/` | instrument tables, TTL cache, in-process snapshot | upsert, resolve, refresh | cache filled between invalidation and commit; the snapshot is cleared while read | readers see the old or the new set, never half |
| **Shared cache** `core/cache.py` | Redis or an in-process dictionary, a circuit breaker | get, set, delete | Redis disappears and returns with old values | a deleted value is not served again |

### Broker connection

| Component | State | Operations | What is hard | Correct when |
|---|---|---|---|---|
| **Broker token** `core/token_store.py`, `brokers/connections.py`, `api/v1/routers/fyers_auth.py` | the token in memory, in `.env`, in the database | login callback, manual set, clear, start-up hydration | three copies, best-effort writes, restarts | after a restart the process uses the token the user last chose |
| **Brokers and facade** `brokers/`, `market_data/service.py` | none | delegation | - | - |

### Users

| Component | State | Operations | What is hard | Correct when |
|---|---|---|---|---|
| **Auth service** `services/auth_service.py` | users, refresh tokens | register, login, refresh, logout | two refreshes with one token; duplicate registrations | a refresh token is used once |
| **Client session** `frontend/src/api/client.ts`, `lib/session.ts`, `stores/authStore.ts` | access token in memory, refresh token in local storage shared by tabs | restore, refresh once, logout | lost responses; logout during a refresh; two tabs | a page's own requests never race for the token; whoever waits is told; a sign-out reaches all tabs |
| **Tenancy** `tenancy/`, `core/deps.py` | organisations, memberships, API keys | provision, create, resolve, revoke | lazy provisioning by concurrent logins | one personal organisation per user |
| **Rate limiter** `core/rate_limit.py` | request times per client | check | boundaries of the sliding window | at most n requests in any window |

### Live feed

| Component | State | Operations | What is hard | Correct when |
|---|---|---|---|---|
| **WebSocket server** `websocket/` | subscriptions per channel | connect, subscribe, unsubscribe, broadcast, disconnect | sends interleave with unsubscribes and disconnects | no message after an unsubscribe is acknowledged; nobody is forgotten |
| **Feed client** `frontend/src/lib/liveFeed.ts` | socket, reconnect timer, listeners | subscribe, unsubscribe, reconnect | a closed socket, a missing token, stale sockets | it reconnects while somebody listens |

### Pages

| Component | State | Operations | What is hard | Correct when |
|---|---|---|---|---|
| **Data hook** `frontend/src/lib/useFetch.ts` | data, error, loading, one `mounted` flag per component | fetch, poll, refetch | a change of the dependencies does not cancel what is under way: answers of two instruments in any order | foreign data do not last; the last good data outlive a failure |
| **Market pages** `frontend/src/pages/`, `api/endpoints.ts` | the hooks of their feeds, a few settings each | switch page or instrument, settings, retry | feeds load and fail independently; nullable and undeclared fields | every skeleton ends; the table shows what the user asked for |
| **All in 1** `frontend/src/pages/all-in-1/` | five feeds | twenty factors computed of them | a failed feed must degrade only the cards that depend on it | a card changes only with its own feeds, and keeps what it had |
| **Options Lab tools** `frontend/src/pages/options-lab/`, `future-lab/` | a series of snapshots, window, pin, selection | modes, ranges, sliders, rankings | the series grows, or is replaced by a shorter one, under a pinned index | selections and indices stay within what is shown |
| **Options Lab charts** `frontend/src/components/options-lab/` | an ECharts instance kept beside React | effects that merge options | the canvas comes late or is replaced; merging leaves things behind, or undoes what the user did | the canvas shows what it was last given, as the user left it |
| **Analytics** `frontend/src/lib/maxpain.ts`, `gex.ts` | none | max pain, walls, flip | ties, exact zeros, one-signed profiles | the figures are where their definitions put them |
| **Settings** `frontend/src/components/settings/`, `lib/usePreferences.ts`, `lib/useTheme.ts` | stores in the browser, a row in the database | optimistic edits, the profile editor | requests overtake each other, are refused, or lose their answers; reloads | browser and server agree when nothing is under way |
| **Broker connection** `frontend/src/lib/useFyersConnect.ts` | phase, popup, interval | connect, poll, disconnect | asynchronous ticks overlap, the popup is closed, time runs out | waiting ends |

The remaining parts (response-shaping routers, indicator arithmetic in floating
point, tenancy, the instrument master and its cache, migrations, configuration,
static pages) are listed in `PROJECT.json`, each with the reason it is left out.

## 2. Plan

Done, in this order: the core of the system is the path from the broker to the
browser, so it comes first.

| | Modules | Question |
|---|---|---|
| 1 | `Throttle`, `FyersProvider` | Is the broker throttled, and are live prices kept, under concurrent threads? |
| 2 | `RateLimiter` | Is the window exact at its boundaries? |
| 3 | `BrokerToken` | Do the three copies of the token survive failures and restarts? |
| 4 | `WsFeed` | Do the two maps of the connection manager stay consistent, and does every subscriber get the latest quote? |
| 5 | `LiveFeed` | Does the browser, composed with that server, follow the market through broken connections? |
| 6 | `OutcomeRules`, `EvaluatePath` | Is the loop that judges a path the rule it documents? |
| 7 | `SignalScoring` | Do ingestion, persistence and scoring agree when they interleave? |
| 8 | `AuthService`, `ClientSession` | Who is refused a refresh token, and why; does everybody who waits for a rotation go on; do tabs follow a sign-out? |
| 9 | `UseFetch`, `Feeds`, `MarketPages`, `ChainTables`, `Factors`, `OpenInterestTool`, `MultiOiVolumeTool`, `GammaExposureTool`, `CurveTools`, composed in `Pages` | What do the pages show while answers come late, in any order, or not at all? |
| 10 | `MaxPainMath`, `GexMath`, `ChartOptions`, composed in `LabCharts` | Does a canvas show what it was last given, and are its figures right? |
| 11 | `FyersConnect`, composed in `SettingsPage` | Do browser and server agree after edits that race and fail; does connecting end? |

What could follow, by value: `Tenancy` (one personal organisation per user), a
two-tier cache with `InstrumentMaster` on top (is a deleted value served
again), and the expiry calendar as a pure function.

## 3. How the models correspond to the code

Common to all: a step of a coroutine is what it does between two awaits, since
all coroutines share one event loop; a step of a thread ends wherever another
thread could see the difference. A database transaction is a read of what is
committed, in one step, and a commit in another (PostgreSQL, READ COMMITTED).
Wording, logging and layout of data are left out. The rows of `map` in
`PROJECT.json` name the lines of every definition.

**FyersProvider** models `get_spot`, `get_futures` and `get_option_chain` of
`ingestion/providers/fyers_provider.py`, called by worker threads. `cache`,
`cachedAt`, `lastGood` and `lastRefresh` are `_CACHE`, `_LAST_GOOD` and
`_last_spot_refresh`; `lock` is `_spot_refresh_lock`. A thread's `pc` follows
`_ensure_spots_fresh` (`Guard`, `AcquireFresh`, `AcquireStale`),
`_refresh_all_spots` (`QuotesReply`, the three `Fill` actions, `Finish`),
`_serve` (`ChainHit`, `ChainMiss`, `ChainLive`, `ChainFails`, `ChainPut`) and
the return to the caller. A price is the time at which it was asked for, which
is what the properties about freshness and order compare. A broker call may
answer for any subset of the instruments, fail, or answer late.
**Throttle** is what that amounts to for the broker: a call, then none for a TTL.

**RateLimiter** models `SlidingWindowLimiter.check`, which never awaits and so is
one step, `Admit` or `Refuse`. The clock is finer than a second (`Second` ticks),
so that the truncation in Retry-After matters. `admitted` and `promise` are
history: they state the properties and the code does not keep them.

**BrokerToken** models the copies of the Fyers token in memory, in `.env` and in
`broker_connections`. A token is the number of the user's choice that set it.
`SetToken`, `FindRow`, `Flush`, `Execute`, `Commit` and `Fail` are the steps of
the OAuth callback and of the manual set; `ClearToken` and `Restart` the others.
An UPDATE waits for a row another transaction has updated; the INSERT of a row
with a NULL user is never refused, as NULLs do not collide in the unique key.

**WsFeed** models `websocket/`: `Connect`, `Disconnect`, `Subscribe`,
`Unsubscribe` are the manager's methods on `_subs` and `_conn_channels`;
`Accept`, `Receive`-based handlers, `FetchSnapshot`, `SendSnapshot`,
`SnapshotFails` and `Leave` the endpoint; `StartTick`, `Fetch`, `FetchFails`,
`Broadcast`, `SendNext` and `Prune` the publisher. A quote is its version. The
manager's lock is never held across an await, so its methods are atomic.

**LiveFeed** extends it with one browser: `socket`, `refs` and `timer` are `ws`,
`channels` and `reconnectTimer` of `frontend/src/lib/liveFeed.ts`; `Mount` and
`Unmount` are the effects of `useLiveQuotes`; `shown` is the state of each hook,
which starts empty and which only messages fill; `Login` and `Logout` set and clear
the token, and `RequireAuth` unmounts the pages after a logout. The network may
refuse or break a connection, with what is under way. Two sockets overlap: the
old one may still be torn down on the server while the new one is served.

**OutcomeRules** holds the levels of a signal (`engines/synthesizer.py`, lines
162-197) and the verdict (`engines/outcome.py`) as operators: `Verdict` is the
documented rule, "the first bar that touches a level decides". **EvaluatePath**
is the loop of `evaluate_path`, bar by bar (`PathSpec`), on levels that are positive
prices.

**SignalScoring** puts three loops on one database, for one instrument:
`SnapshotIndex`/`CommitIndex` (`_snapshot_index` stamps a row when it is added
and commits it later), the readers of the latest signal
(`Synthesize`, `SelectLatest`, `CommitSignal`), and the scorers
(`Begin`, `ReadOutcomes`, `ScoreOne`, `Commit`). The session does not autoflush,
so nothing is written before the commit, which is refused as a whole when another
scorer inserted an outcome of the same signal (the unique `signal_id`); an UPDATE
writes the columns that changed. The path of a signal (`PathTo`) is the rows
committed so far with a stamp between its time and its horizon. A failed path query returns an empty path, but it
also aborts the transaction, so its verdicts are never committed (`PathFails`).

**AuthService** is the server's side of a session: a token is its number. A
refresh is two steps, `RefreshRead` (the SELECT) and `RefreshCommit`, so that two
may read one token unrevoked. **ClientSession** adds the browser: each tab has a
page in memory (`page[t]`: the access token, the call of `refreshPromise`, the
restore at start-up, a login and a logout under way), all tabs share `stored`,
the token in local storage. `Unauthorised` is the interceptor at a 401 and its
three ways: join the rotation, begin one, give up; `RefreshGranted`,
`RefreshRefused`, `RefreshLost` and `RefreshError` are the ends of the rotation
with all the continuations that wait for it; `MeRefused` is the `getMe` of a
restore that comes too late for its access token and clears the session; `Open`
loads a page anew, which makes the calls of the old one unheard. `View` is the guard of the routes. An
answer's handler and the continuations of the promise it settles are one step:
the browser runs no other event in between.

**UseFetch** holds `useFetch` as operators on what the hook remembers: `Mounted`,
`Begun`, `Answered`, `Failed`. **Pages** puts every page of the market and of the
two labs on it: `Select`, `FollowLink`, `Pick` and `Cycle` change the address,
which mounts (`Mounts`) or changes the dependencies (`Switches`); `Poll`,
`Retry`, `Answer` and `Fail` are requests and their ends, in any order;
`Press` is any control of the page; `Record` lets the server's series grow.
**MarketPages** says which feeds each page asks for and which regions it shows
(`DashboardView`, `OptionChainView`, ...); **ChainTables** the rows and marks of an
option chain; **Feeds** which of the server's fields arrive under which name;
**Factors** the twenty cards of All in 1, as readings: headline, case and bias.
**OpenInterestTool**, **MultiOiVolumeTool**, **GammaExposureTool** and
**CurveTools** are the tools: `Presses` is what the user can do in a state,
`ChartPanel`, `Sidebar` and the like what is shown.

What the server sends is a constant, `Wire`, about which `ServerAssumption` says
what the backend does: no ranking has a contract twice, the snapshot of an index
has no `atm_strike` and its levels no `pivot` (`domain/schemas.py`), a chain is an
array of rows, and a strike or a price is a number when it is there. `Contents` is
what a page has of its feeds: what was sent for the instrument that answered last,
or nothing.

**MaxPainMath** and **GexMath** translate `lib/maxpain.ts` and `lib/gex.ts` over
integers (an interval `[a, b]` stands for the crossing in it). Their sums are folds
over the strikes; the scan of `computeZeroGamma` stops at the first step that meets
a zero or a change of sign, and a round of its bisection is `Halved`. A chain of one
strike has no flip, nor has one that has expired, whose legs have no gamma: a poll
of Gamma Exposure may bring one. **ChartOptions** is
`buildOption()` of the four charts: the series, the band at the money, the marks.
**LabCharts** is the component and its canvas: `instance` says whether
`getEchartsInstance()` gives one (without, the canvas is `Blank`), `Ready` gives or
replaces it, `OiEffect`, `GexEffect`, `PainEffect` and `LinesEffect` are the effects
with ECharts' merge as the code relies on it (external), `Zoom`, `Legend` and
`ResetZoom` the user's.

**FyersConnect** is `useFyersConnect`: `Connect`, `LoginAnswered`, `Tick`,
`Deadline`, `StatusComes`, `Disconnect`; a tick that waits for its status is a
member of `reads`, and may end whatever connection is under way by then.
**SettingsPage** adds the preferences (`Edit`, `Upsert`, `PutAnswered`), the theme
of the navbar (`ToggleDark`), the profile (`OpenEditor`, `Save`, `SaveAnswered`) and
a reload that loads the server's preferences (`Reload`). Any number of edits of one
field may be under way; `unsure` collects, at the step at which it happens, what the
code then has no way to repair (`Doubt`, a lost answer, the navbar).

## 4. What is checked

| Run | Shows |
|---|---|
| `provider` | One refresh at a time; quotes() calls a TTL apart (as a refinement of `Throttle`); last-good prices move forward; no spot or futures mock from the refresh over a live price; a refresh skips no instrument; every request returns. Two threads, with failures. |
| `rate_limiter` | At most `MaxRequests` in any window, Retry-After is long enough, a refusal has a cause. |
| `token_races` | Three concurrent saves, failures, clears, crashes: a save that runs alone and commits decides the next start-up. |
| `token_cleared` | Violation, see section 7. |
| `feed` | The two maps mirror each other and nothing outlives its connection; a connection that stays subscribed is sent the latest quote in the end. Every interleaving of two endpoints and the publisher. |
| `browser` | Browser and server agree on the channels, a held channel has a socket or a timer, the browser is a client as `WsFeed` assumes it, and, end to end, a mounted hook shows the latest quote in the end. |
| `evaluate_path` | The loop returns the rule's verdict, and R has the sign of the status. |
| `scoring` | A win or a loss on record is the verdict of the complete path, although it was given earlier, with rows committed late and two scorers; every signal whose horizon ends is resolved. |
| `session` | A page is refused a token only if the token was signed out, another page exchanged it, an answer to the page was lost, or a login stored it anew: never because its own requests raced. Whoever waits for a rotation goes on or is given up. A sign-out reaches every tab. |
| `pages` | The selection of Multi OI & Volume names contracts of the payload shown; the window of the Option Chain encloses the strike at the money; data of another instrument, shown after a late answer, give way; skeletons end; a card of All in 1 changes only with the feeds it declares and does not lose a reading. |
| `charts` | The pin costs the least, and the flip is where the profile changes sign, for every sample chain. The canvas shows what it was last given; a zoom and a hidden line stay; a canvas that was late catches up. |
| `settings` | Once nothing is under way browser and server agree on preferences and profile; waiting for the broker ends. |

Every property of a passing run has a mutant: a definition changed the way a bug
would, marked `Mutant` in the modules, under which the same run fails.

The types of `RateLimiter`, `BrokerToken`, `WsFeed`, `EvaluatePath` and
`SignalScoring` are parts of the proved invariants (section 5), and no run repeats
them.

**Bounds.** Two threads and one instrument are what a race on one lock and one
key needs; a clock up to twice the TTL lets an entry expire and be replaced. An
answer that covers only some of several instruments is left to the proofs
(`RefreshIsComplete`, `MocksYield`), which hold for any number of them.
`RateLimiter` has a limit of 2, and a clock of two and a half windows, so that
the deque fills, empties and fills again. `BrokerToken` has three handlers: one to
race another, and one alone afterwards. The feed has two connections: one that
breaks while the other is served, or, for the browser, the old and the new
socket; queues of one or two frames are full and empty in turn. `EvaluatePath`
takes four prices, so that a spot has strikes on both sides, and two bars, so
that the first touch can be the second bar. `SignalScoring` takes two recorded
prices, one of which touches a stop and the other a target, `Entries` at and
between them, and a clock that ends with the horizon. `ClientSession` has two
tabs, one with two requests (to share a rotation) and one reload, the other
(`Signers`) where the user signs in and out; three tokens are one from an earlier
visit, one exchanged, one of a login; when they run out a refresh fails and rolls back. One fault is a
lost answer, a reload or a restore whose `getMe` is refused. `Pages` has two
instruments whose strikes are far apart, series of two and three snapshots, two requests under way and two presses; on a
page of many feeds those its regions wait for are answered (`MCAnswers`).
`LabCharts` samples every chain of three strikes with up to two contracts a leg,
and redraws between three chains. `SettingsPage` has three themes, two values of a
profile field, two status questions and three clicks: one to the tab and two edits
of one field at once (the theorem has no such bound). The clocks stop at
`MaxTime`; deadlock is checked except where a run really ends (`EvaluatePath`
returns; `BrokerToken` runs out of choices and restarts; the settings page out of
clicks).

**Fairness.** `FyersProvider`: a running thread is scheduled and the broker answers
or fails (WF), and a waiter gets a lock that is free again and again (SF): a
`threading.Lock` makes no promise of order, but a waiter is not passed over for
ever. `WsFeed`: the event loop runs every ready task and clients read (WF); SF of
a send, since two tasks may wait to write to one connection and drain wakes both.
`LiveFeed`: the same for the browser's callbacks, a timer fires, and a page
without a session is unmounted. `ClientSession`: the server works and answers
(WF), a token expires and pages ask for data some time (WF; they poll), and a
request that is asked again and again is told some time that its token is stale
(SF). `Pages`: polls are asked, and what was asked is answered or fails (WF); the
run of the user is not fair, and `SkeletonEnds` speaks of users who settle.
`LabCharts`: the tool polls. `SettingsPage`: the interval ticks, and a status
question is answered or fails. `SignalScoring`: the clock and the scorer loop go
on (WF); forced scorings, readers and ingestion owe nothing. No environment action
(market, failure, user) is fair.

## 5. What is proved

The proofs are in the modules `*_proofs`, checked by TLAPS; they hold for every
value of the constants that the module's `ASSUME` admits, and need no bound: the
`Max...` constants may be any number. Each follows the same argument: the
inductive invariant holds initially, every action preserves it, it implies the
property. Every safety property and every action property that a passing run
checks is proved.

| Theorem | Inductive invariant and why it is needed |
|---|---|
| `FyersProvider_proofs`: `TypeCorrect`, `RefreshIsExclusive`, `MocksYield`, `RefreshIsComplete`, `LastGoodIsMonotone`, `ProviderIsThrottled` | `IInv` = types, `LockInv` (who refreshes holds the lock), `TimeInv` (what the refresher knows was asked for at the last call; the window was stamped after it), `FillInv` (an instrument is still to fill or has a new entry). The throttle needs that the guard read again under the lock is not older than the last call; the order of prices needs that the batch in hand is the latest. `ProviderIsThrottled` is the refinement: every step is a `Throttle` step or leaves it alone. |
| `RateLimiter_proofs`: `LimitHolds`, `RetryAfterIsEnough`, `RefusalHasCause` | `DequeInv`: the deque is the end of the history of admissions and what precedes it is out of the window. `PromiseInv`: the oldest entry of a full deque expires before the time promised. Lemmas say what the `while` loop keeps and what Retry-After rounds to. |
| `BrokerToken_proofs`: `Invariance`, `LoneSaveIsDurable` | `AloneInv`: a handler that runs alone carries a stamp later than that of every row, so that `_find` at the next start-up picks its row. |
| `LiveFeed_proofs`, the server: `TypeInvariance`, `MapsMirrorEachOther`, `NothingLeaks` | `MapsInv`: a connection without an endpoint is in neither map; needs that the publisher only ever removes. Proved of the steps of `WsFeed`, each of which is a step of the composition. |
| `LiveFeed_proofs`, the browser: `BrowserIsAClient`, `HeldChannelsAreServed`, `BrowserAndServerAgree` | `AgreementInv` = `LinksInv` (no frames wait on a connection that is gone), `FreshInv` (one that is being accepted has no channels and no frames), `InStepInv` (on an open socket the last frame under way about a channel, or the map if there is none, says what the browser wants). `Agreement` speaks of empty queues only and is not inductive. |
| `ClientSession_proofs`: `Invariance`, `RefusalHasCause` | `IInv` = types and: `FlightInv` (a page waits for one refresh call at most, the one of its `refreshPromise`), `DeafInv` (a call nobody waits for was lost or its page is gone), `FreshInv` (the token of a grant on its way is valid and nobody else has it), `CallInv` and `StoredInv` (a call that is going to be refused, now or if a page begins it later, has its cause already, unless it is the page whose grant is on its way), `UsedInv`, `ClosedInv`. `RefusedForCause` alone is not inductive: the refusal is decided when the token is exchanged or revoked, steps before it is read. Steps that issue, exchange and revoke nothing are treated together (`QuietStep`). |
| `SignalScoring_proofs`: `LoopReturnsVerdict`, `ROfEachStatus` | `PathInv` of the loop: the bars passed so far touch nothing; stop and target enclose the entry, whatever walls and ATR. |
| `SignalScoring_proofs`: `TypeInvariance`, `VerdictsStand` | `HistoryInv`: rows are committed in the order of their times, so that what a scorer has read of a path stays its beginning, and what decides a prefix decides the whole. `VerdictInv`: a win or a loss, on record or in the hands of a scorer (what it read and what it is going to write), is the rule's verdict of the rows so far. Without the scorers' copies it is not inductive: a commit writes what was judged long before. |
| `SettingsPage_proofs`: `QuietPageAgrees` | `IInv` = types, `PrefsInv`: the edits of a field that are not done are a chain (`Chained`) from the server's value to the one shown, each to be undone to the value of the one before it; the server takes links off one end (`ChainTaken`), a refusal off the other (`ChainUndone`), and an edit adds one there (`ChainGrows`). `ProfileOK`: one save at most has its answer on its way, which is the server's profile. What is in `unsure` is outside, as it is of the property: the property alone says nothing while a request is under way. |
| `Pages_proofs`: `TypeInvariance`, `SelectionFollowsData` | `PagesInv`: every hook and request of a feed of instruments is of one of them, and `FollowsShown`: the selection was seeded by the payload that is shown now. |
| `Pages_proofs`: `CardsStandAlone`, `CardsStay` | The readings of a card are a function of the feeds it declares, by cases over the twenty; a hook never loses its data while the page stays. |
| `Pages_proofs`: `MoneyStaysInView` | The enumeration of the strikes takes every place once and is ascending (`PlacesAreTaken`, `InOrder`); the rows in view are a window of it around the one at the money (`VisibleIsAWindow`); the legs of the Dashboard are those of the strikes with the fewest nearer ones (`NearestLegs`). |
| `Pages_proofs`: `EachRenderIsPainted`, `TheViewIsKept` | `ChartInv`: an instance is one of a mounted chart that has a canvas, and its zoom is one the user made; `LotInv`: the setting an effect saw last is that of the canvas. |
| `Pages_proofs`: `PinCostsLeast` | The cost of a price is a convex function of it, whose slope changes at strikes only (`PainIsConvex`); so it falls to its least value and rises from there (`Valley`), and one of the strikes attains it. |
| `Pages_proofs`: `FlipChangesSign` | A step of the scan that meets a change of sign has a bracket at hand; `Halved` keeps its ends at opposite signs, or closes it on a zero (`HalvedIsBracket`), in any number of rounds. |

The figures are functions defined by recursion and folds over a chain. The
induction that they need is stated over sets (`ByInduction` over the naturals,
`BySubsets` over the subsets of a finite set, both from the well-foundedness of
the naturals), since a theorem with an operator for a parameter cannot be
instantiated; a fold is first shown to be a function that satisfies its equation
(`FoldExists`, `FoldEquation`).

What the assumptions ask of the constants is what the code gives: positive prices
and strikes, and bounds that are numbers. `SamplesAssumption` asks of
the gamma of a leg that it is a natural number: `bsGamma` is never negative.

## 6. What is only model-checked, and what is not modelled

Liveness is out of the prover's reach: `RequestsReturn`, `LatestWins`,
`FollowsMarket`, `EveryHorizonResolves`, `NobodyWaitsForever`,
`SignedOutEverywhere`, `OwnDataReturns`, `SkeletonEnds`, `CatchesUp` and
`ConnectEnds` stay with TLC: they rest on fairness, and on `ENABLED` in it.

Left out within the modelled parts, and why: the arithmetic of greeks and implied
volatility, and the Black-Scholes gamma (floating point; a constant of
`GexMath`); authentication of the socket and start and stop of the background
tasks (a flag each); the encryption of the token and the OAuth exchange
(external); market hours; `bars_held` and `evaluated_at`; registration, password
hashing and the expiry of refresh tokens after thirty days; formatting, colours
and layout of the pages; time limits of calls to the vendor and of sends, which
the code does not set. The remaining parts are listed in `PROJECT.json` with
their status. A hazard there without a property has a note that says why: the
part is not modelled, or what the code does leaves nothing that could hold.

Two answers of the server are taken as they usually are: the VIX is never null
(a null one throws in `OptionChainPage.tsx`, line 404, and unmounts the whole
application), and the prices of a chain row are always there.

## 7. Where the code and its words differ

Each definition below states the words, and TLC violates it when it stands in the
place of the properties of the configuration named. `ClearedStaysCleared` is a run
and a finding of `PROJECT.json`; the others are reproduced by hand.

| Definition, in the configuration | Words | Code |
|---|---|---|
| `ClearedStaysCleared`, `BrokerToken_cleared` | "Clear token (logout from Fyers)" | the row in the database stays and start-up loads it |
| `ChainMockOnlyBeforeLive`, `FyersProvider` | prefer "the last *live* value over mock" | test and put of the mock are separate; a live chain is overwritten for a TTL |
| `OneChainFetch`, `FyersProvider` | fan-out collapses "into one real API hit per instrument" | `_serve` is unlocked: two threads that miss a chain both fetch it |
| `SpotMockOnlyBeforeLive`, `FyersProvider` | mock "only if we have never had a live value" | `get_spot` ends in a mock when the entry expires before the window opens and the chain fails |
| `ChainSpotNotOlder`, `FyersProvider` | the chain gives "REAL values" rather than "stale last-good" | a chain served from the cache may be older than the last-good spot |
| `SetSurvivesRestart`, `BrokerToken_race` | "app restart doesn't lose the token" | the swallowed failure, or the other order of two commits, leaves an older token in the database, which start-up prefers |
| `OneConnection`, `BrokerToken_race` | "Upsert the (user_id, broker) connection" | two first saves insert two rows |
| `QuotesMoveForward`, `WsFeed` | "return the latest quote per instrument id" | a snapshot fetched earlier is sent after a broadcast |
| `NoNearDuplicates`, `SignalScoring` with two readers and signals | "Only persist when the signal is meaningfully new" | read and insert are separate: overlapping reads persist twice |
| `ExpiredUntouched`, `SignalScoring` | "neither hit within horizon" | a row stamped within the horizon may commit after the verdict |
| `ResolvedForGood`, `SignalScoring` | "skip already-resolved ones" | outcomes are read once at the start: the later commit overwrites |
| `HistoryIsLive`, `SignalScoring` | "Don't pollute history with fallback/empty quotes" | only the mock is skipped; the last-good quote is recorded as new |

What the models of the browser show beside their properties, each a behaviour the
properties make room for by name:

- **Session.** The answer of a refresh or of the `getMe` of a login stores its
  tokens whatever happened since, also after a logout (`client.ts`, line 48;
  `LoginPage.tsx`, line 72): `RefreshGranted`, `LoginDone`. A login whose token was
  rotated meanwhile stores the old one again (`putBack`). The interceptor gives the
  session up at any failure, a lost answer too, where `session.ts` (lines 50-56)
  keeps it unless it was refused: `RefreshFails`. A logout with a stale access
  token does not revoke anything: `ServeLogout`.
- **Support / Resistance.** `/levels` sends `support_zone` and `resistance_zone`
  (`domain/schemas.py`, lines 202-209), which `getLevels` passes on under those
  names; the page reads `support`, `resistance` and `pivot`, which never arrive. The card
  falls back to the option metrics, which it does not declare, and the branch of
  Price Action on a pivot is dead: `Feeds!Levels`, `Undeclared`.
- **Position size.** The entry and the stop of a neutral signal are null;
  `Number(null)` is 0, so the card shows a stop of 0 points
  (`factorRegistry.ts`, lines 460-463).
- **All in 1** ignores `loading`: after a switch the old instrument's figures stay
  as "ok" until each feed answers.
- **Multi OI & Volume** keeps the mark of High Volume when a new instrument seeds the
  selection by open interest (lines 72-73).
- **Option Chain**: the expiry that is chosen has no effect, and no banner tells of an
  error.
- **Settings**: `toggleDark` never tells the server. Of several edits of one field at
  once, one that is overtaken on its way, refused after a later one, or undone after
  a later one, leaves browser and server apart, and so does an answer lost after the
  save, and two profiles answered in the other order (`unsure`; each of these is
  needed, without it the run finds the disagreement). An editor closed while it saves closes another field's later
  (`ProfileCard.tsx`, lines 19-23).
- **Broker connection**: a late tick of an earlier connection ends a new one, and
  a panel unmounted while the login address is asked for starts a timer that
  nothing clears (`useFyersConnect.ts`, line 60, says "Cleanup timers/popup on
  unmount").
