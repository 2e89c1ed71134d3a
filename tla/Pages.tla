-------------------------------- MODULE Pages -------------------------------
(***************************************************************************)
(* The pages of the browser: the market pages (MarketPages) and the tools  *)
(* of the Options Lab and the Future Lab, over the data hook they share    *)
(* (UseFetch), beside the server, whose series of snapshots grow.          *)
(*                                                                         *)
(* The page and the instrument are in the address.  One page is mounted at *)
(* a time; it has one hook for every feed.  An answer carries what the     *)
(* server had when it was asked; the delay is all on its way back, so that *)
(* answers may come in any order.                                          *)
(***************************************************************************)
EXTENDS Integers, FiniteSets, Sequences, SequencesExt

CONSTANTS
  Instruments,     (* The built-in instruments, 1..k.                      *)
  NoData,          (* No payload.                                          *)
  None, Null,      (* undefined, and null.                                 *)
  All,             (* 'all', of a filter, a quick range or a count.        *)
  Live,            (* null: a slider follows the last snapshot.            *)
  Filters,         (* The strike filters of the tools.                     *)
  Filter0,         (* The filter the tools open with.                      *)
  Ranges,          (* The quick ranges of Open Interest.                   *)
  Timeframes,      (* The timeframes of Put-Call Ratio.                    *)
  Expiries,        (* The number of expiries that Price vs OI lists.       *)
  Counts, Count0,  (* The counts of Multi OI & Volume, and the first one.  *)
  StrikeCounts,    (* The counts of Option Chain, and the first one.       *)
  Strike0,
  Contracts(_),    (* The contracts of a series.                           *)
  Ranked(_, _),    (* The contracts of a series by "oi" or by "vol".       *)
  Behind(_),       (* How many snapshots of an instrument are missing.     *)
  Wire(_, _),      (* What the server sends, of a feed for an instrument.  *)
  Shown,           (* The pages that the menu leads to in an instance.     *)
  Answers(_),      (* The feeds of a page that answer in an instance.      *)
  Fails(_),        (* The feeds of a page that may fail in an instance.    *)
  FirstSnaps,      (* The snapshots of the day taken when the page opens.  *)
  MaxSnaps,        (* Bound on the snapshots of the day.                   *)
  MaxAsked,        (* Bound on the requests of a feed under way.           *)
  MaxPresses       (* Bound on what the user presses in one mounted tool.  *)

VARIABLES
  page,            (* The route, or ?tool= : the component mounted.        *)
  inst,            (* ?inst=.                                              *)
  ui,              (* The state of the component.                          *)
  presses,         (* What the user has pressed in it, if it is a tool.    *)
  hook,            (* Its data hooks, by the feed of each.                 *)
  asked,           (* Their requests under way, the oldest first.          *)
  snaps            (* The snapshots of the day, so far.                    *)

vars == <<page, inst, ui, presses, hook, asked, snaps>>

Fetch  == INSTANCE UseFetch
OI     == INSTANCE OpenInterestTool
Gex    == INSTANCE GammaExposureTool
Multi  == INSTANCE MultiOiVolumeTool
Curve  == INSTANCE CurveTools
Market == INSTANCE MarketPages
Api    == INSTANCE Feeds
Card   == INSTANCE Factors

OiTools == {"open-interest", "multi-oi-volume", "put-call-ratio", "max-pain",
            "gamma-exposure"}
LabTools == OiTools \cup {"price-vs-oi"}
PageNames == LabTools \cup Market!MarketNames \cup {"coming-soon"}

(* The pages with arrows that go around the instruments.                   *)
WithArrows == LabTools \cup {"option-chain"}

FeedsOf(p) ==
  IF p \in LabTools THEN <<"series">>
  ELSE IF p \in Market!MarketNames THEN Market!Feeds(p) ELSE << >>

Payload == [inst : Instruments \cup {0}, n : 0..MaxSnaps]

ASSUME PagesAssumption ==
  /\ IsFiniteSet(Instruments) /\ Instruments # {}
  /\ Instruments = 1..Cardinality(Instruments)
  /\ MaxSnaps \in Nat /\ FirstSnaps \in 0..MaxSnaps
  /\ MaxAsked \in Nat \ {0} /\ MaxPresses \in Nat
  /\ \A i \in Instruments : Behind(i) \in Nat
  /\ Shown \subseteq PageNames
  /\ \A p \in PageNames : Answers(p) \cup Fails(p) \subseteq ToSet(FeedsOf(p))
  /\ NoData \notin Payload

(* What the components are written with.                                   *)
ASSUME ComponentAssumption ==
  /\ Filter0 \in Filters /\ All \in Ranges /\ Ranges \ {All} \subseteq Nat
  /\ Expiries \in Nat \ {0} /\ Counts \cup {Count0} \subseteq Nat
  /\ Strike0 \in StrikeCounts /\ StrikeCounts \ {All} \subseteq Nat

(* What the server sends: a ranking has no contract twice, the snapshot of *)
(* an index has no strike at the money, and its levels have no pivot.  A   *)
(* chain is an array of rows; its strikes and the prices are numbers, if   *)
(* they are there.                                                         *)
ASSUME ServerAssumption ==
  /\ \A d \in Payload : \A by \in {"oi", "vol"} :
       Ranked(d, by) \in Seq(Contracts(d)) /\ IsInjective(Ranked(d, by))
  /\ \A i \in Instruments : /\ "atm_strike" \notin DOMAIN Wire("snapshot", i)
                            /\ "pivot" \notin DOMAIN Wire("levels", i)
  /\ \A i \in Instruments :
       /\ LET raw == Api!ChainArray(Wire("chain", i)) IN
          /\ IsFiniteSet(DOMAIN raw) /\ DOMAIN raw = 1..Cardinality(DOMAIN raw)
          /\ \A k \in DOMAIN raw : Api!Sent(raw[k], "strike") \in Nat \cup {None}
       /\ \A f \in {<<"snapshot", "last_price">>, <<"optionsMetrics", "spot">>,
                    <<"optionsMetrics", "atm_strike">>, <<"dashboard", "atm_strike">>} :
            Api!Sent(Wire(f[1], i), f[2]) \in Nat \cup {None}

MaxFeeds == 5
Slots == 1..MaxFeeds
HasSlot(k) == k \in DOMAIN FeedsOf(page)
Feed(k) == FeedsOf(page)[k]

Snapshots == 0..(MaxSnaps - 1)

(* What the server has of a feed: of the series, the snapshots; the global *)
(* feeds are of no instrument.                                             *)
Served(f, i) ==
  [inst |-> IF f \in Market!Global THEN 0 ELSE i,
   n    |-> IF f = "series" /\ snaps > Behind(i) THEN snaps - Behind(i) ELSE 0]

(* The requests of a feed after one more; it is not kept when nothing will *)
(* come of it in this instance.                                            *)
Asking(p, f, i, requests) ==
  IF f \in Answers(p) \cup Fails(p) THEN Append(requests, Served(f, i)) ELSE requests

-----------------------------------------------------------------------------
Start(p) ==
  CASE p = "open-interest"   -> OI!Start
    [] p = "gamma-exposure"  -> Gex!Start
    [] p = "multi-oi-volume" -> Multi!Start
    [] p = "put-call-ratio"  -> Curve!PcrStart
    [] p = "max-pain"        -> Curve!PainStart
    [] p = "price-vs-oi"     -> Curve!FutureStart
    [] OTHER                 -> Market!Start(p)

(* What the page has of its feeds.                                         *)
(* (Nothing of a future is looked at.)                                     *)
Read == {"dashboard", "snapshot", "levels", "optionsMetrics", "chain", "signal",
         "smartMoney", "institutional"}
NothingOf == [f \in Read |-> Api!Nothing(f)]
PayloadOf == [f \in Read |-> [i \in Instruments |-> Api!Received(f, Wire(f, i))]]

Contents == [f \in DOMAIN hook \cap Read |->
               IF hook[f].data = NoData THEN NothingOf[f]
               ELSE PayloadOf[f][IF f \in Market!Global THEN inst ELSE hook[f].data.inst]]

Pressed ==
  CASE page = "open-interest"   -> OI!Presses(ui, hook["series"].data)
    [] page = "gamma-exposure"  -> Gex!Presses(ui, hook["series"].data)
    [] page = "multi-oi-volume" -> Multi!Presses(ui, hook["series"])
    [] page = "put-call-ratio"  -> Curve!PcrPresses(ui)
    [] page = "max-pain"        -> Curve!PainPresses(ui)
    [] page = "price-vs-oi"     -> Curve!FuturePresses(ui)
    [] OTHER                    -> Market!Presses(page, ui)

View ==
  CASE page = "open-interest"   -> OI!View(hook["series"])
    [] page = "gamma-exposure"  -> Gex!View(ui, hook["series"])
    [] page = "multi-oi-volume" -> Multi!View(ui, hook["series"])
    [] page = "put-call-ratio"  -> Curve!PcrView(hook["series"])
    [] page = "max-pain"        -> Curve!PainView(hook["series"])
    [] page = "price-vs-oi"     -> Curve!FutureView(ui, hook["series"])
    [] page = "coming-soon"     -> {"coming soon"}
    [] OTHER                    -> Market!View(page, ui, hook, Contents)

Drawn == UNION {Contracts(d) : d \in Payload}

UiOK(p, u) ==
  CASE p = "open-interest"   -> u \in OI!States(Snapshots)
    [] p = "gamma-exposure"  -> u \in Gex!States(Snapshots)
    [] p = "multi-oi-volume" -> u \in Multi!States(Instruments, Drawn) /\ IsInjective(u.selected)
    [] p = "put-call-ratio"  -> u \in Curve!PcrStates
    [] p = "max-pain"        -> u \in Curve!PainStates
    [] p = "price-vs-oi"     -> u \in Curve!FutureStates
    [] OTHER                 -> u \in Market!States(p)

TypeOK ==
  /\ page \in PageNames /\ inst \in Instruments /\ UiOK(page, ui)
  /\ presses \in 0..MaxPresses
  /\ DOMAIN hook = ToSet(FeedsOf(page)) /\ DOMAIN asked = DOMAIN hook
  /\ \A f \in DOMAIN hook :
       /\ hook[f] \in Fetch!Hooks(Payload)
       /\ asked[f] \in Seq(Payload) /\ Len(asked[f]) <= MaxAsked
  /\ snaps \in FirstSnaps..MaxSnaps

(* A page as it mounts: every hook asks at once.                           *)
MountedAs(p, i) ==
  /\ page' = p /\ inst' = i /\ ui' = Start(p) /\ presses' = 0
  /\ hook' = [f \in ToSet(FeedsOf(p)) |-> Fetch!Mounted]
  /\ asked' = [f \in ToSet(FeedsOf(p)) |-> Asking(p, f, i, << >>)]

Init ==
  /\ page = "open-interest" /\ inst = 1 /\ ui = OI!Start /\ presses = 0
  /\ snaps = FirstSnaps
  /\ hook = [f \in {"series"} |-> Fetch!Mounted]
  /\ asked = [f \in {"series"} |-> Asking(page, f, inst, << >>)]

-----------------------------------------------------------------------------
(* Another page is mounted; what the old one asked for is not heard.       *)
Mounts(p, i) == MountedAs(p, i) /\ UNCHANGED snaps

(* Another instrument on the same page: the hooks whose deps have it begin *)
(* anew, nothing else is reset.                                            *)
Switches(i) ==
  LET local == DOMAIN hook \ Market!Global IN
  /\ \A f \in local : Len(asked[f]) < MaxAsked
  /\ inst' = i
  /\ hook' = [f \in DOMAIN hook |-> IF f \in local THEN Fetch!Begun(hook[f], TRUE)
                                    ELSE hook[f]]
  /\ asked' = [f \in DOMAIN hook |-> IF f \in local THEN Asking(page, f, i, asked[f])
                                     ELSE asked[f]]
  /\ UNCHANGED <<page, ui, presses, snaps>>

(* selectTool(), of the bar that the tools of open interest have.          *)
Select(t) ==
  /\ page \in OiTools /\ t \in (OiTools \cap Shown) \ {page}
  /\ Mounts(t, inst)

(* A link: its address has no instrument, which is then the first.         *)
FollowLink(p) ==
  \/ p # page /\ Mounts(p, 1)
  \/ p = page /\ inst # 1 /\ Switches(1)

(* The tabs of a page, or the search of the navigation bar.                *)
Pick(i) == i # inst /\ Switches(i)

(* cycleInstrument().                                                      *)
Cycle(dir) ==
  /\ page \in WithArrows
  /\ ~(page = "price-vs-oi" /\ ui.collapsed)
  /\ Switches(((inst - 1 + dir + Cardinality(Instruments)) % Cardinality(Instruments)) + 1)

(* Anything else on the page.                                              *)
Press ==
  /\ ui' \in Pressed
  /\ IF page \in LabTools THEN presses < MaxPresses /\ presses' = presses + 1
     ELSE UNCHANGED presses
  /\ UNCHANGED <<page, inst, hook, asked, snaps>>

(* Some feeds are asked again, while there is room for it.  A page of      *)
(* several feeds is asked only for those that owe no answer.               *)
Room(f) == Len(asked[f]) < IF DOMAIN hook = {f} THEN MaxAsked ELSE 1

(* Mutant: the fetcher is the one of the data that is shown.               *)
RefetchShown(feeds) ==
  /\ \A f \in feeds : Room(f)
  /\ asked' = [f \in DOMAIN hook |->
       IF f \notin feeds THEN asked[f]
       ELSE Asking(page, f, IF hook[f].data = NoData THEN inst ELSE hook[f].data.inst, asked[f])]
  /\ UNCHANGED <<page, inst, ui, presses, hook, snaps>>

Refetch(feeds) ==
  /\ \A f \in feeds : Room(f)
  /\ asked' = [f \in DOMAIN hook |-> IF f \in feeds THEN Asking(page, f, inst, asked[f])
                                     ELSE asked[f]]
  /\ UNCHANGED <<page, inst, ui, presses, hook, snaps>>

(* The timer of a hook.                                                    *)
Poll(k) == HasSlot(k) /\ Refetch({Feed(k)})

(* The Retry of the error banner.                                          *)
Retry ==
  /\ "banner" \in View
  /\ Refetch(IF page \in LabTools THEN DOMAIN hook ELSE Market!RetryFeeds(page))

(* An answer of a feed comes, and the page is rendered with it.            *)
Answer(k, j) ==
  /\ HasSlot(k)
  /\ LET f == Feed(k) IN
     /\ f \in Answers(page) /\ j \in DOMAIN asked[f]
     /\ hook' = [hook EXCEPT ![f] = Fetch!Answered(@, asked[f][j])]
     /\ ui' = IF page = "multi-oi-volume" THEN Multi!Rendered(ui, asked[f][j]) ELSE ui
     /\ asked' = [asked EXCEPT ![f] = RemoveAt(@, j)]
  /\ UNCHANGED <<page, inst, presses, snaps>>

Fail(k, j) ==
  /\ HasSlot(k)
  /\ LET f == Feed(k) IN
     /\ f \in Fails(page) /\ j \in DOMAIN asked[f]
     /\ hook' = [hook EXCEPT ![f] = Fetch!Failed(@)]
     /\ asked' = [asked EXCEPT ![f] = RemoveAt(@, j)]
  /\ UNCHANGED <<page, inst, ui, presses, snaps>>

(* The server takes the next snapshot of the day; it is only counted while *)
(* a page shows the series.                                                *)
Record ==
  /\ page \in LabTools /\ snaps < MaxSnaps /\ snaps' = snaps + 1
  /\ UNCHANGED <<page, inst, ui, presses, hook, asked>>

Next ==
  \/ \E p \in Shown : Select(p) \/ FollowLink(p)
  \/ \E i \in Instruments : Pick(i)
  \/ Cycle(1) \/ Cycle(-1)
  \/ Press \/ Retry
  \/ \E k \in Slots : Poll(k)
  \/ \E k \in Slots, j \in 1..MaxAsked : Answer(k, j) \/ Fail(k, j)
  \/ Record

Spec == Init /\ [][Next]_vars

(* The timers fire, and a request is answered or fails some time.          *)
Returns(k) == Answer(k, 1) \/ Fail(k, 1)
FairSpec == Spec /\ \A k \in Slots : WF_vars(Poll(k)) /\ WF_vars(Returns(k))

-----------------------------------------------------------------------------
(* What is selected in Multi OI & Volume is what the active helper says,   *)
(* for the instrument whose data is shown, though answers for the old and  *)
(* the new instrument may come in any order: each rendered payload with    *)
(* another key seeds anew.  (It is not so for High Volume, which keeps its *)
(* mark over a seed by open interest.)                                     *)
PayloadsOf(i) == [inst : {i}, n : 0..MaxSnaps]

SelectionIsOfShownData ==
  page = "multi-oi-volume" /\ hook["series"].data # NoData =>
    LET shown == PayloadsOf(hook["series"].data.inst) IN
    /\ ToSet(ui.selected) \subseteq UNION {Contracts(d) : d \in shown}
    /\ ui.source = "oi" => \E d \in shown : ui.selected = Multi!Top(d, "oi", ui.highOi)

(* The strike nearest to the spot is among the rows that the Option Chain  *)
(* page shows, though the spot and the chain may be of two instruments;    *)
(* there are at most as many rows on each side as the user asked for.  On  *)
(* the Dashboard no strike left out is nearer than one that is shown.      *)
Distance(s, t) == IF s < t THEN t - s ELSE s - t

AtmInView ==
  LET c == Contents
      all == {c["chain"].rows[k].strike : k \in DOMAIN c["chain"].rows}
  IN
  /\ page = "option-chain" /\ "table" \in View =>
       LET spot == Market!Tables!Spot(c["optionsMetrics"], c["snapshot"])
           table == Market!ChainTable(ui, c)
           strikes == {table[k].strike : k \in DOMAIN table}
           atm == {k \in DOMAIN table : table[k].isAtm}
       IN  /\ spot # None =>
                \E k \in atm : \A s \in all : Distance(table[k].strike, spot) <= Distance(s, spot)
           /\ ui.count # All =>
                \A k \in atm : k - 1 <= ui.count /\ Len(table) - k <= ui.count
           /\ \A s \in all \ strikes :
                (\A t \in strikes : s < t) \/ (\A t \in strikes : s > t)
  /\ page = "dashboard" /\ Market!DashboardAtm(c) # None =>
       LET atm == Market!DashboardAtm(c)
           rows == Market!DashboardRows(c)
           strikes == {rows[k].strike : k \in DOMAIN rows}
       IN  \A s \in all \ strikes, t \in strikes : Distance(t, atm) <= Distance(s, atm)

(* Data of another instrument than the one selected, shown as its own,     *)
(* after a late answer.                                                    *)
Mixed == \E f \in DOMAIN hook :
  hook[f].data # NoData /\ hook[f].data.inst \notin {0, inst} /\ ~hook[f].loading

(* It does not last: a poll asks for the instrument that is selected now   *)
(* (fetcherRef.current), and its answer replaces the other one.  Only a    *)
(* failure can prevent that.                                               *)
OwnDataReturns == Mixed ~> ~Mixed \/ \E f \in DOMAIN hook : hook[f].error

(* For a user who settles on a page and an instrument, a skeleton gives    *)
(* way to what it stands for, or to a message; a card of All in 1 to its   *)
(* reading, or to the word that its feed is unavailable.                   *)
Skeletons ==
  {"chart skeleton", "sentiment skeleton", "levels skeleton", "pcr skeleton",
   "chips skeleton", "indices skeleton", "metrics skeleton", "chain skeleton",
   "table skeleton", "nifty future skeleton", "sensex future skeleton",
   "banknifty future skeleton", "bias skeleton", "signals skeleton",
   "flows skeleton", "positions skeleton", "interpretation skeleton"}

CardStatus(card) == Card!FactorStatus(card, Market!SourceStatus(hook))

CardLoads(card) ==
  /\ Card!Sources[card] \subseteq Answers(page)
  /\ CardStatus(card) = "loading"

Waits == Skeletons \cap View # {} \/ (page = "all-in-1" /\ \E card \in Card!Cards : CardLoads(card))

Settles == <>[][page' = page /\ inst' = inst]_vars

SkeletonEnds == Settles => (Waits ~> ~Waits \/ "banner" \in View)

(* The cards of All in 1 stand on their own: what one shows changes only   *)
(* with the data or the first failure of the feeds that it declares.  (Two *)
(* cards read more than they declare: Max Pain the spot of the snapshot,   *)
(* Support / Resistance the snapshot and the metrics.)                     *)
CardsShown == Market!FactorCards(hook, Contents)
Undeclared == {"max-pain", "support-resistance"}

OnlyItsFeeds ==
  [][page = "all-in-1" /\ page' = page /\ hook' # hook =>
       \A card \in Card!Cards \ Undeclared :
         (\A f \in Card!Sources[card] : /\ hook'[f].data = hook[f].data
                                        /\ hook'[f].error = hook[f].error)
           => CardsShown'[card] = CardsShown[card]]_vars

(* A card that has shown a reading does not lose it while the page stays,  *)
(* whatever fails: the last good data outlives a failure.                  *)
CardsKeepTheirWord ==
  [][page = "all-in-1" /\ page' = page =>
       \A card \in Card!Cards : CardStatus(card) = "ok" => CardStatus(card)' = "ok"]_vars
=============================================================================
