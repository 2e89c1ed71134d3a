------------------------------- MODULE WsFeed --------------------------------
(***************************************************************************)
(* The WebSocket server of websocket/: the connection manager              *)
(* (manager.py), the endpoint (router.py) and the publisher loop           *)
(* (publisher.py).                                                         *)
(*                                                                         *)
(* Everything runs on one event loop; a step is what a task does between   *)
(* two suspensions.  The manager's lock is never held across one, so its   *)
(* methods are atomic.  send_json writes its frame before it suspends;     *)
(* fetch_channel_payload reads the quote in a worker thread and suspends.  *)
(* A quote is its version; pong, error and acknowledgement frames, which   *)
(* no client looks at, are left out.                                       *)
(***************************************************************************)
EXTENDS Integers, Sequences, FiniteSets

CONSTANTS
  Conns,           (* Connections.                                         *)
  Names,           (* What a client asks for ...                           *)
  Channels,        (* ... and which of them are channels.                  *)
  Served,          (* Those of an instrument the master knows.             *)
  MaxQuote,        (* Bound on the versions of a quote.                    *)
  MaxQueue,        (* Frames under way on a connection, in each direction. *)
  MaxFetchFailures (* Bound on the fetches that raise.                     *)

ASSUME FeedAssumption ==
  Channels # {} /\ Channels \subseteq Names /\ Served \subseteq Channels /\ MaxQuote \in Nat /\ MaxQueue \in Nat /\ MaxFetchFailures \in Nat

VARIABLES
  link,            (* Each connection as the server sees it.               *)
  inbox,           (* The frames received and not yet handled.             *)
  outbox,          (* The frames sent.                                     *)
  registered,      (* The keys of _conn_channels.                          *)
  connChannels,    (* _conn_channels: the channels of each connection.     *)
  subs,            (* _subs: the subscribers of each channel.              *)
  task,            (* The endpoint's coroutine of each connection.         *)
  pub,             (* The publisher.                                       *)
  quote,           (* The version of each channel's quote.                 *)
  sent,            (* History: the last version sent to a connection.      *)
  failures         (* The fetches that raised.                             *)

managerVars == <<registered, connChannels, subs>>
vars == <<link, inbox, outbox, managerVars, task, pub, quote, sent, failures>>

Frame == [op : {"subscribe", "unsubscribe"}, channels : SUBSET Names]

TypeOK ==
  /\ link \in [Conns -> {"none", "open", "broken"}]
  /\ inbox \in [Conns -> Seq(Frame)]
  /\ outbox \in [Conns -> Seq([channel : Channels, quote : Nat])]
  /\ registered \subseteq Conns
  /\ connChannels \in [Conns -> SUBSET Channels]
  /\ subs \in [Channels -> SUBSET Conns]
  /\ task \in [Conns -> [pc : {"none", "receive", "snapshot", "reply"},
                         todo : SUBSET Channels, channel : Channels, quote : Nat]]
  /\ pub \in [pc : {"sleep", "pick", "fetched", "send"}, todo : SUBSET Channels,
              channel : Channels, quote : Nat, targets : SUBSET Conns, dead : SUBSET Conns]
  /\ quote \in [Channels -> Nat] /\ failures \in Nat
  /\ sent \in [Conns -> [Channels -> Nat]]

AnyChannel == CHOOSE h \in Channels : TRUE

NoTask == [pc |-> "none", todo |-> {}, channel |-> AnyChannel, quote |-> 0]

Init == /\ link = [c \in Conns |-> "none"]
        /\ inbox = [c \in Conns |-> <<>>]
        /\ outbox = [c \in Conns |-> <<>>]
        /\ registered = {}
        /\ connChannels = [c \in Conns |-> {}]
        /\ subs = [h \in Channels |-> {}]
        /\ task = [c \in Conns |-> NoTask]
        /\ pub = [pc |-> "sleep", todo |-> {}, channel |-> AnyChannel, quote |-> 0,
                  targets |-> {}, dead |-> {}]
        /\ quote = [h \in Channels |-> 0]
        /\ sent = [c \in Conns |-> [h \in Channels |-> 0]]
        /\ failures = 0

(***************************************************************************)
(* ConnectionManager.                                                      *)
(***************************************************************************)
Connect(c) == /\ registered' = registered \cup {c}
              /\ connChannels' = [connChannels EXCEPT ![c] = {}]
              /\ UNCHANGED subs

\* Mutant: the reverse map is popped before it is read.
DisconnectHalf(C) ==
  /\ registered' = registered \ C
  /\ connChannels' = [c \in Conns |-> IF c \in C THEN {} ELSE connChannels[c]]
  /\ UNCHANGED subs

\* disconnect of all connections in C, which may be gone already.
Disconnect(C) ==
  /\ registered' = registered \ C
  /\ connChannels' = [c \in Conns |-> IF c \in C THEN {} ELSE connChannels[c]]
  /\ subs' = [h \in Channels |-> subs[h] \ {c \in C : h \in connChannels[c]}]

\* _conn_channels is a defaultdict: it takes a connection it does not know.
Subscribe(c, H) ==
  /\ registered' = IF H = {} THEN registered ELSE registered \cup {c}
  /\ connChannels' = [connChannels EXCEPT ![c] = @ \cup H]
  /\ subs' = [h \in Channels |-> IF h \in H THEN subs[h] \cup {c} ELSE subs[h]]

\* Mutant: unsubscribe forgets the reverse map.
UnsubscribeHalf(c, H) ==
  /\ subs' = [h \in Channels |-> IF h \in H THEN subs[h] \ {c} ELSE subs[h]]
  /\ UNCHANGED <<registered, connChannels>>

Unsubscribe(c, H) ==
  /\ connChannels' = [connChannels EXCEPT ![c] = @ \ H]
  /\ subs' = [h \in Channels |-> IF h \in H THEN subs[h] \ {c} ELSE subs[h]]
  /\ UNCHANGED registered

ActiveChannels == {h \in Channels : subs[h] # {}}

\* send_json of a quote to an open connection; a client that does not read
\* keeps it waiting.
Send(c, h, q) == /\ link[c] = "open" /\ Len(outbox[c]) < MaxQueue
                 /\ outbox' = [outbox EXCEPT ![c] = Append(@, [channel |-> h, quote |-> q])]
                 /\ sent' = [sent EXCEPT ![c][h] = q]

(***************************************************************************)
(* The endpoint.                                                           *)
(***************************************************************************)

\* ws_endpoint of a client whose token is good: accept, register, greet.  The
\* name of a connection is used again once nothing refers to the old one.
Accept(c) ==
  /\ link[c] = "none" /\ c \notin pub.targets \cup pub.dead
  /\ link' = [link EXCEPT ![c] = "open"]
  /\ Connect(c)
  /\ task' = [task EXCEPT ![c] = [NoTask EXCEPT !.pc = "receive"]]
  /\ UNCHANGED <<inbox, outbox, sent, pub, quote, failures>>

\* The finally clause; the server closes a connection whose endpoint ended.
End(c) == /\ link' = [link EXCEPT ![c] = "none"]
          /\ task' = [task EXCEPT ![c] = NoTask]
          /\ Disconnect({c})
          /\ inbox' = [inbox EXCEPT ![c] = <<>>]
          /\ outbox' = [outbox EXCEPT ![c] = <<>>]
          /\ sent' = [sent EXCEPT ![c] = [h \in Channels |-> 0]]
          /\ UNCHANGED <<pub, quote>>

\* receive_json or send_json raises on a broken connection.  A subscribe frame
\* left in the buffer is undone at once, as its acknowledgement raises.
Leave(c) == /\ link[c] = "broken" /\ task[c].pc \in {"receive", "reply"}
            /\ End(c)
            /\ UNCHANGED failures

\* fetch_channel_payload raises in _handle: the connection is given up.
SnapshotFails(c) == /\ task[c].pc = "snapshot" /\ failures < MaxFetchFailures
                    /\ End(c)
                    /\ failures' = failures + 1

\* Takes the next frame from the connection.
Receive(c, op) == /\ link[c] = "open" /\ task[c].pc = "receive"
                  /\ inbox[c] # <<>> /\ Head(inbox[c]).op = op
                  /\ inbox' = [inbox EXCEPT ![c] = Tail(@)]

\* channels.is_valid filters what was asked for.
Valid(H) == H \cap Channels

AfterReply(todo) == IF todo = {} THEN "receive" ELSE "snapshot"

\* _handle of a subscribe frame, up to the fetch of the first snapshot.
HandleSubscribe(c) ==
  /\ Receive(c, "subscribe")
  /\ LET H == Valid(Head(inbox[c]).channels) IN
     /\ Subscribe(c, H)
     /\ task' = [task EXCEPT ![c].pc = AfterReply(H), ![c].todo = H]
  /\ UNCHANGED <<link, outbox, pub, quote, sent, failures>>

HandleUnsubscribe(c) ==
  /\ Receive(c, "unsubscribe")
  /\ Unsubscribe(c, Valid(Head(inbox[c]).channels))
  /\ UNCHANGED <<link, outbox, task, pub, quote, sent, failures>>

\* fetch_channel_payload of the next channel: the worker thread reads the quote;
\* there is no payload of an unknown instrument.
FetchSnapshot(c) ==
  /\ task[c].pc = "snapshot"
  /\ \E h \in task[c].todo :
       LET rest == task[c].todo \ {h} IN
       task' = [task EXCEPT
                  ![c] = IF h \in Served
                         THEN [pc |-> "reply", todo |-> rest, channel |-> h, quote |-> quote[h]]
                         ELSE [NoTask EXCEPT !.pc = AfterReply(rest), !.todo = rest]]
  /\ UNCHANGED <<link, inbox, outbox, managerVars, pub, quote, sent, failures>>

SendSnapshot(c) ==
  /\ task[c].pc = "reply"
  /\ Send(c, task[c].channel, task[c].quote)
  /\ task' = [task EXCEPT ![c] = [NoTask EXCEPT !.pc = AfterReply(task[c].todo),
                                                !.todo = task[c].todo]]
  /\ UNCHANGED <<link, inbox, managerVars, pub, quote, failures>>

(***************************************************************************)
(* The publisher.                                                          *)
(***************************************************************************)
StartTick ==
  /\ pub.pc = "sleep" /\ ActiveChannels # {}
  /\ pub' = [pub EXCEPT !.pc = "pick", !.todo = ActiveChannels]
  /\ UNCHANGED <<link, inbox, outbox, managerVars, task, quote, sent, failures>>

NextChannel(todo) == IF todo = {} THEN "sleep" ELSE "pick"

Fetch(h) ==
  /\ pub.pc = "pick" /\ h \in pub.todo
  /\ LET rest == pub.todo \ {h} IN
     pub' = IF h \in Served
            THEN [pub EXCEPT !.pc = "fetched", !.todo = rest, !.channel = h, !.quote = quote[h]]
            ELSE [pub EXCEPT !.pc = NextChannel(rest), !.todo = rest]
  /\ UNCHANGED <<link, inbox, outbox, managerVars, task, quote, sent, failures>>

\* An exception ends the tick, whatever channels are left.
FetchFails ==
  /\ pub.pc = "pick" /\ failures < MaxFetchFailures
  /\ failures' = failures + 1
  /\ pub' = [pub EXCEPT !.pc = "sleep", !.todo = {}]
  /\ UNCHANGED <<link, inbox, outbox, managerVars, task, quote, sent>>

\* broadcast copies the set of subscribers.
Broadcast ==
  /\ pub.pc = "fetched"
  /\ pub' = [pub EXCEPT !.pc = "send", !.targets = subs[pub.channel]]
  /\ UNCHANGED <<link, inbox, outbox, managerVars, task, quote, sent, failures>>

\* Mutant: a broken connection is not skipped.
SendNextOpen(c) ==
  /\ pub.pc = "send" /\ c \in pub.targets
  /\ Send(c, pub.channel, pub.quote)
  /\ pub' = [pub EXCEPT !.targets = @ \ {c}]
  /\ UNCHANGED <<link, inbox, managerVars, task, quote, failures>>

SendNext(c) ==
  /\ pub.pc = "send" /\ c \in pub.targets
  /\ \/ /\ Send(c, pub.channel, pub.quote)
        /\ pub' = [pub EXCEPT !.targets = @ \ {c}]
     \/ /\ link[c] # "open"
        /\ pub' = [pub EXCEPT !.targets = @ \ {c}, !.dead = @ \cup {c}]
        /\ UNCHANGED <<outbox, sent>>
  /\ UNCHANGED <<link, inbox, managerVars, task, quote, failures>>

\* The dead are pruned, and the loop goes on to the next channel.
Prune ==
  /\ pub.pc = "send" /\ pub.targets = {}
  /\ Disconnect(pub.dead)
  /\ pub' = [pub EXCEPT !.pc = NextChannel(pub.todo), !.channel = AnyChannel, !.quote = 0,
                        !.dead = {}]
  /\ UNCHANGED <<link, inbox, outbox, task, quote, sent, failures>>

Endpoint(c) == HandleSubscribe(c) \/ HandleUnsubscribe(c) \/ FetchSnapshot(c)
               \/ SendSnapshot(c) \/ Leave(c)
Publisher == StartTick \/ (\E h \in Channels : Fetch(h)) \/ Broadcast
             \/ (\E c \in Conns : SendNext(c)) \/ Prune
Server == (\E c \in Conns : Endpoint(c) \/ SnapshotFails(c)) \/ Publisher \/ FetchFails

(***************************************************************************)
(* The environment: the market and the clients.                            *)
(***************************************************************************)
Market(h) ==
  /\ quote[h] < MaxQuote
  /\ quote' = [quote EXCEPT ![h] = @ + 1]
  /\ UNCHANGED <<link, inbox, outbox, managerVars, task, pub, sent, failures>>

ClientSends(c, frame) ==
  /\ link[c] = "open" /\ Len(inbox[c]) < MaxQueue
  /\ inbox' = [inbox EXCEPT ![c] = Append(@, frame)]
  /\ UNCHANGED <<link, outbox, managerVars, task, pub, quote, sent, failures>>

ClientReads(c) ==
  /\ outbox[c] # <<>>
  /\ outbox' = [outbox EXCEPT ![c] = Tail(@)]
  /\ UNCHANGED <<link, inbox, managerVars, task, pub, quote, sent, failures>>

\* The connection breaks, with what is under way, and the server notices.
Break(c) ==
  /\ link[c] = "open"
  /\ link' = [link EXCEPT ![c] = "broken"]
  /\ inbox' = [inbox EXCEPT ![c] = <<>>]
  /\ outbox' = [outbox EXCEPT ![c] = <<>>]
  /\ sent' = [sent EXCEPT ![c] = [h \in Channels |-> 0]]
  /\ UNCHANGED <<managerVars, task, pub, quote, failures>>

Client(c) == Accept(c) \/ ClientReads(c) \/ Break(c) \/ \E f \in Frame : ClientSends(c, f)

Next == Server \/ (\E c \in Conns : Client(c)) \/ \E h \in Channels : Market(h)

Spec == Init /\ [][Next]_vars

\* The loop runs every ready task, the clients read what they get, and when two
\* tasks wait to write to one connection its transport wakes both.
Fairness == /\ WF_vars(Publisher)
            /\ \A c \in Conns : SF_vars(SendNext(c))
            /\ \A c \in Conns : WF_vars(Endpoint(c)) /\ WF_vars(ClientReads(c))

FairSpec == Spec /\ Fairness

(***************************************************************************)
(* Properties.                                                             *)
(***************************************************************************)

\* _subs and _conn_channels say the same, so that disconnect forgets nothing.
Mirrored == \A c \in Conns, h \in Channels : c \in subs[h] <=> h \in connChannels[c]

\* No subscription outlives its connection: when the endpoint has ended, neither
\* map mentions it, whatever the publisher did meanwhile.
NoLeak == \A c \in Conns : task[c].pc = "none" =>
            c \notin registered /\ \A h \in Channels : c \notin subs[h]

\* A connection that stays subscribed ends up with the latest quote, whatever
\* stale frame it got on the way, and though other connections break.
LatestWins ==
  \A c \in Conns, h \in Served :
    <>[](c \in subs[h] /\ link[c] = "open") => <>[](sent[c][h] = quote[h])

\* useLiveQuotes.ts lines 6-7, "return the latest quote per instrument id", which
\* is the one that came last: frames of a channel are sent in their order.
QuotesMoveForward ==
  [][\A c \in Conns, h \in Channels : link'[c] = "open" => sent'[c][h] >= sent[c][h]]_vars
=============================================================================
