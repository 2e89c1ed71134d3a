------------------------------ MODULE LiveFeed -------------------------------
(***************************************************************************)
(* The browser's end of the feed: the LiveFeed object of lib/liveFeed.ts   *)
(* and the hooks that use it (lib/useLiveQuotes.ts), composed with the     *)
(* server of WsFeed.  The browser is alone; each socket it opens is a      *)
(* connection of its own, so that an old one may still be torn down while  *)
(* the new one is served.                                                  *)
(*                                                                         *)
(* The back-off of the reconnection timer is left out: a timer that is set *)
(* fires some time.  A socket sends what it is given at once or, if it is  *)
(* not open, not at all.                                                   *)
(***************************************************************************)
EXTENDS WsFeed

CONSTANTS
  MaxHooks,        (* Bound on the hooks that hold a channel.              *)
  MaxBreaks        (* Bound on the connections that break or are refused.  *)

ASSUME LiveFeedAssumption == Conns # {} /\ MaxHooks \in Nat /\ MaxBreaks \in Nat

VARIABLES
  socket,          (* ws with its readyState, and the connection it is.    *)
  refs,            (* channels: the number of hooks of each channel.       *)
  timer,           (* reconnectTimer is set.                               *)
  token,           (* The store has an access token.                       *)
  shown,           (* What each hook of a channel shows of its quote.      *)
  breaks           (* The connections broken or refused so far.            *)

browserVars == <<socket, refs, timer, token, shown>>
serverVars == vars
allVars == <<serverVars, browserVars, breaks>>

\* A channel's hooks have a place each, or the place is nobody's.  A hook to which
\* no quote came yet shows version 0, as in sent.
Hooks == 1..MaxHooks
NoHook == -1

NoSocket == [state |-> "null", conn |-> CHOOSE c \in Conns : TRUE]

LiveTypeOK ==
  /\ TypeOK
  /\ socket \in [state : {"null", "connecting", "open"}, conn : Conns]
  /\ refs \in [Channels -> 0..MaxHooks]
  /\ timer \in BOOLEAN /\ token \in BOOLEAN
  /\ shown \in [Channels -> [Hooks -> {NoHook} \cup 0..MaxQuote]]
  /\ breaks \in 0..MaxBreaks

LiveInit == /\ Init
            /\ socket = NoSocket
            /\ refs = [h \in Channels |-> 0]
            /\ timer = FALSE /\ token = FALSE
            /\ shown = [h \in Channels |-> [i \in Hooks |-> NoHook]]
            /\ breaks = 0

ActiveIn(r) == {h \in Channels : r[h] > 0}

Active == ActiveIn(refs)

(***************************************************************************)
(* LiveFeed.                                                               *)
(***************************************************************************)

\* connect, with the token of the store.
OpenSocket(t) ==
  IF socket.state = "null" /\ t
  THEN \E c \in Conns : /\ link[c] = "none" /\ c \notin pub.targets \cup pub.dead
                        /\ socket' = [state |-> "connecting", conn |-> c]
  ELSE UNCHANGED socket

\* Mutant: readyState is not looked at.
SendUnchecked(op, H) ==
  /\ Len(inbox[socket.conn]) < MaxQueue
  /\ inbox' = [inbox EXCEPT ![socket.conn] = Append(@, [op |-> op, channels |-> H])]
  /\ UNCHANGED <<link, outbox, managerVars, task, pub, quote, sent, failures>>

\* A frame on an open socket is lost if the connection is broken.
SendFrame(op, H) ==
  LET c == socket.conn IN
  IF socket.state = "open" /\ link[c] = "open"
  THEN ClientSends(c, [op |-> op, channels |-> H])
  ELSE UNCHANGED serverVars

\* Mutant: a new socket does not subscribe again.
OnOpenSilent ==
  /\ socket.state = "connecting" /\ link[socket.conn] = "open"
  /\ socket' = [socket EXCEPT !.state = "open"]
  /\ UNCHANGED <<serverVars, refs, timer, token, shown, breaks>>

\* onopen: the socket subscribes to every active channel.
OnOpen ==
  /\ socket.state = "connecting" /\ link[socket.conn] = "open"
  /\ socket' = [socket EXCEPT !.state = "open"]
  /\ IF Active = {} THEN UNCHANGED serverVars
     ELSE ClientSends(socket.conn, [op |-> "subscribe", channels |-> Active])
  /\ UNCHANGED <<refs, timer, token, shown, breaks>>

\* onmessage: every listener hears it, and keeps the quote in a state of its own.
OnMessage ==
  /\ socket.state = "open" /\ outbox[socket.conn] # <<>>
  /\ LET msg == Head(outbox[socket.conn]) IN
     shown' = [shown EXCEPT ![msg.channel] =
                 [i \in Hooks |-> IF @[i] = NoHook THEN NoHook ELSE msg.quote]]
  /\ ClientReads(socket.conn)
  /\ UNCHANGED <<socket, refs, timer, token, breaks>>

\* Why a socket closes.
Closes ==
  \/ /\ socket.state = "open" /\ link[socket.conn] # "open"
     /\ UNCHANGED breaks
  \/ /\ socket.state = "connecting" /\ link[socket.conn] = "broken"
     /\ UNCHANGED breaks
  \/ /\ socket.state = "connecting" /\ link[socket.conn] = "none" /\ breaks < MaxBreaks
     /\ breaks' = breaks + 1

\* Mutant: onclose schedules nothing.
OnCloseForGood ==
  /\ Closes
  /\ socket' = NoSocket
  /\ UNCHANGED <<serverVars, refs, timer, token, shown>>

\* onclose, with scheduleReconnect.
OnClose ==
  /\ Closes
  /\ socket' = NoSocket
  /\ timer' = (timer \/ Active # {})
  /\ UNCHANGED <<serverVars, refs, token, shown>>

\* Mutant: the callback only clears the timer.
ReconnectIdle ==
  /\ timer
  /\ timer' = FALSE
  /\ UNCHANGED <<serverVars, socket, refs, token, shown, breaks>>

\* The callback of scheduleReconnect.
Reconnect ==
  /\ timer
  /\ timer' = FALSE
  /\ OpenSocket(token)
  /\ UNCHANGED <<serverVars, refs, token, shown, breaks>>

\* subscribe, from the effect of a hook; RequireAuth mounts no page without a token.
\* The hook starts empty.  One that takes its channels again, as its list of
\* instruments changed, is not told from a new one: what it still shows is older.
Mount(h) ==
  /\ token /\ refs[h] < MaxHooks
  /\ refs' = [refs EXCEPT ![h] = @ + 1]
  /\ LET place == CHOOSE i \in Hooks : /\ shown[h][i] = NoHook
                                       /\ \A j \in 1..(i - 1) : shown[h][j] # NoHook
     IN  shown' = [shown EXCEPT ![h][place] = 0]
  /\ IF refs[h] = 0 THEN SendFrame("subscribe", {h}) ELSE UNCHANGED serverVars
  /\ OpenSocket(token)
  /\ UNCHANGED <<timer, token, breaks>>

\* unsubscribe and removeListener, from the clean-up of the effect.
Unmount(h) ==
  /\ refs[h] > 0
  /\ refs' = [refs EXCEPT ![h] = @ - 1]
  /\ \E i \in Hooks : /\ shown[h][i] # NoHook
                      /\ shown' = [shown EXCEPT ![h][i] = NoHook]
  /\ IF refs[h] = 1 THEN SendFrame("unsubscribe", {h}) ELSE UNCHANGED serverVars
  /\ UNCHANGED <<socket, timer, token, breaks>>

(***************************************************************************)
(* The rest of the browser, and the network.                               *)
(***************************************************************************)

\* A login mounts the pages anew: those of the last session are gone.
Login == /\ ~token /\ Active = {}
         /\ token' = TRUE
         /\ UNCHANGED <<serverVars, socket, refs, timer, shown, breaks>>

\* clear of authStore.ts.  RequireAuth then sends the browser away: Unmount.
Logout == /\ token
          /\ token' = FALSE
          /\ UNCHANGED <<serverVars, socket, refs, timer, shown, breaks>>

Accepted == /\ socket.state = "connecting"
            /\ Accept(socket.conn)
            /\ UNCHANGED <<browserVars, breaks>>

BreakLink(c) == /\ breaks < MaxBreaks
                /\ Break(c)
                /\ breaks' = breaks + 1
                /\ UNCHANGED browserVars

ServerStep == Server /\ UNCHANGED <<browserVars, breaks>>

MarketStep == \E h \in Channels : Market(h) /\ UNCHANGED <<browserVars, breaks>>

LiveNext == \/ ServerStep \/ MarketStep \/ Accepted
            \/ OnOpen \/ OnMessage \/ OnClose \/ Reconnect
            \/ (\E h \in Channels : Mount(h) \/ Unmount(h))
            \/ Login \/ Logout
            \/ \E c \in Conns : BreakLink(c)

LiveSpec == LiveInit /\ [][LiveNext]_allVars

\* The loop of the server and that of the browser run every ready task, a socket
\* is accepted or refused, and a page without a session goes.
LiveFairness ==
  /\ WF_allVars(Publisher /\ UNCHANGED <<browserVars, breaks>>)
  /\ \A c \in Conns : WF_allVars(Endpoint(c) /\ UNCHANGED <<browserVars, breaks>>)
  /\ WF_allVars(Accepted) /\ WF_allVars(OnOpen) /\ WF_allVars(OnMessage)
  /\ WF_allVars(OnClose) /\ WF_allVars(Reconnect)
  /\ \A h \in Channels : WF_allVars(~token /\ Unmount(h))

LiveFairSpec == LiveSpec /\ LiveFairness

(***************************************************************************)
(* Properties.                                                             *)
(***************************************************************************)

\* Browser and server agree: once the frames under way are handled, the server
\* has exactly the channels that some hook holds.
Agreement ==
  LET c == socket.conn IN
  socket.state = "open" /\ link[c] = "open" /\ inbox[c] = <<>> => connChannels[c] = Active

\* While a hook holds a channel there is a socket, or one will be opened.
NeverForgotten == token /\ Active # {} => socket.state # "null" \/ timer

\* Every hook that stays mounted shows the latest quote in the end, also one whose
\* channel was subscribed to for another hook, so that no snapshot is sent to it;
\* however often the connection broke and the session changed before.
FollowsMarket ==
  \A h \in Served, i \in Hooks :
    <>[](shown[h][i] # NoHook) => <>[](shown[h][i] = quote[h])

\* The browser is one of the clients of WsFeed: what is checked and proved of the
\* server holds when it serves this browser.
IsAClient == Spec
=============================================================================
