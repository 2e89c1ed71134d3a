--------------------------- MODULE LiveFeed_proofs ---------------------------
(***************************************************************************)
(* Proofs about WsFeed, for any sets of connections, names and channels:   *)
(* types, and that the maps of the manager mirror each other.  Then about  *)
(* LiveFeed, its composition with the browser: the composition is an       *)
(* instance of the server's environment, a held channel is never           *)
(* forgotten, and both sides agree when nothing is under way.              *)
(***************************************************************************)
EXTENDS LiveFeed, TLAPS

(***************************************************************************)
(* Types.                                                                  *)
(***************************************************************************)
Task == [pc : {"none", "receive", "snapshot", "reply"},
         todo : SUBSET Channels, channel : Channels, quote : Nat]

Pub == [pc : {"sleep", "pick", "fetched", "send"}, todo : SUBSET Channels,
        channel : Channels, quote : Nat, targets : SUBSET Conns, dead : SUBSET Conns]

Quote == [channel : Channels, quote : Nat]

\* The constant task, and the updates of a task, are tasks.
LEMMA TaskFacts ==
  /\ AnyChannel \in Channels
  /\ NoTask \in Task /\ NoTask.pc = "none"
  /\ \A p \in {"none", "receive", "snapshot", "reply"}, H \in SUBSET Channels :
       [NoTask EXCEPT !.pc = p, !.todo = H] \in Task
  /\ [NoTask EXCEPT !.pc = "receive"] \in Task
  /\ \A H : AfterReply(H) \in {"receive", "snapshot"}
  /\ \A H : NextChannel(H) \in {"sleep", "pick"}
<1>1. AnyChannel \in Channels
  BY FeedAssumption DEF AnyChannel
<1>2. QED
  BY <1>1 DEF NoTask, Task, AfterReply, NextChannel

\* A task stays one when it moves on.
LEMMA UpdatedTask ==
  ASSUME NEW t \in Task, NEW H \in SUBSET Channels,
         NEW p \in {"none", "receive", "snapshot", "reply"}
  PROVE  [t EXCEPT !.pc = p, !.todo = H] \in Task
BY DEF Task

\* The manager's methods keep its types.
LEMMA ManagerTypes ==
  ASSUME TypeOK, NEW c \in Conns, NEW H \in SUBSET Channels, NEW C \in SUBSET Conns,
         Connect(c) \/ Disconnect(C) \/ Subscribe(c, H) \/ Unsubscribe(c, H)
  PROVE  /\ registered' \subseteq Conns
         /\ connChannels' \in [Conns -> SUBSET Channels]
         /\ subs' \in [Channels -> SUBSET Conns]
<1>1. CASE Connect(c)
  BY <1>1 DEF TypeOK, Connect
<1>2. CASE Disconnect(C)
  BY <1>2 DEF TypeOK, Disconnect
<1>3. CASE Subscribe(c, H)
  BY <1>3 DEF TypeOK, Subscribe
<1>4. CASE Unsubscribe(c, H)
  BY <1>4 DEF TypeOK, Unsubscribe
<1>5. QED
  BY <1>1, <1>2, <1>3, <1>4

\* A frame that is sent is a quote.
LEMMA SendTypes ==
  ASSUME TypeOK, NEW c \in Conns, NEW h \in Channels, NEW q \in Nat, Send(c, h, q)
  PROVE  /\ outbox' \in [Conns -> Seq(Quote)]
         /\ sent' \in [Conns -> [Channels -> Nat]]
<1>1. [channel |-> h, quote |-> q] \in Quote
  BY DEF Quote
<1>2. outbox \in [Conns -> Seq(Quote)]
  BY DEF TypeOK, Quote
<1>3. Append(outbox[c], [channel |-> h, quote |-> q]) \in Seq(Quote)
  BY <1>1, <1>2
<1>4. outbox' \in [Conns -> Seq(Quote)]
  BY <1>2, <1>3 DEF Send
<1>5. [sent[c] EXCEPT ![h] = q] \in [Channels -> Nat]
  BY DEF TypeOK
<1>6. sent' = [sent EXCEPT ![c] = [sent[c] EXCEPT ![h] = q]]
  BY DEF Send
<1>7. QED
  BY <1>4, <1>5, <1>6 DEF TypeOK

\* The initial state has the types.
LEMMA InitTypes == Init => TypeOK
<1> SUFFICES ASSUME Init PROVE TypeOK
  OBVIOUS
<1>1. AnyChannel \in Channels /\ NoTask \in Task
  BY TaskFacts
<1>2. QED
  BY <1>1 DEF Init, TypeOK, Task

\* A connection that has ended leaves empty queues.
LEMMA EmptyQueues ==
  ASSUME TypeOK, NEW c \in Conns,
         inbox' = [inbox EXCEPT ![c] = <<>>], outbox' = [outbox EXCEPT ![c] = <<>>],
         sent' = [sent EXCEPT ![c] = [h \in Channels |-> 0]]
  PROVE  /\ inbox' \in [Conns -> Seq(Frame)]
         /\ outbox' \in [Conns -> Seq(Quote)]
         /\ sent' \in [Conns -> [Channels -> Nat]]
<1>1. <<>> \in Seq(Frame) /\ <<>> \in Seq(Quote) /\ [h \in Channels |-> 0] \in [Channels -> Nat]
  OBVIOUS
<1>2. outbox \in [Conns -> Seq(Quote)]
  BY DEF TypeOK, Quote
<1>3. QED
  BY <1>1, <1>2 DEF TypeOK

\* The end of an endpoint keeps the types.
LEMMA EndTypes ==
  ASSUME TypeOK, NEW c \in Conns, End(c), failures' \in Nat
  PROVE  TypeOK'
<1>1. task' \in [Conns -> Task] /\ link' \in [Conns -> {"none", "open", "broken"}]
  BY TaskFacts DEF End, TypeOK, Task
<1>2. /\ registered' \subseteq Conns
      /\ connChannels' \in [Conns -> SUBSET Channels]
      /\ subs' \in [Channels -> SUBSET Conns]
  <2>1. Disconnect({c}) /\ {c} \in SUBSET Conns /\ {} \in SUBSET Channels
    BY DEF End
  <2>2. QED
    BY <2>1, ManagerTypes
<1>3. /\ inbox' \in [Conns -> Seq(Frame)]
      /\ outbox' \in [Conns -> Seq(Quote)]
      /\ sent' \in [Conns -> [Channels -> Nat]]
  BY EmptyQueues DEF End
<1>4. QED
  BY <1>1, <1>2, <1>3 DEF TypeOK, End, Task, Quote

\* Each step of an endpoint keeps the types.
LEMMA EndpointTypes ==
  ASSUME TypeOK, NEW c \in Conns, Endpoint(c) \/ SnapshotFails(c)
  PROVE  TypeOK'
<1> USE DEF Endpoint
<1>1. CASE HandleSubscribe(c)
  <2> DEFINE H == Valid(Head(inbox[c]).channels)
  <2>1. H \in SUBSET Channels
    BY DEF Valid
  <2>2. Subscribe(c, H) /\ task' = [task EXCEPT ![c].pc = AfterReply(H), ![c].todo = H]
    BY <1>1 DEF HandleSubscribe
  <2> HIDE DEF H
  <2>3. [task[c] EXCEPT !.pc = AfterReply(H), !.todo = H] \in Task
    <3>1. AfterReply(H) \in {"none", "receive", "snapshot", "reply"} /\ task[c] \in Task
      BY TaskFacts DEF TypeOK, Task
    <3>2. QED
      BY <2>1, <3>1, UpdatedTask
  <2>4. task' \in [Conns -> Task]
    BY <2>2, <2>3 DEF TypeOK, Task
  <2>5. inbox' \in [Conns -> Seq(Frame)]
    BY <1>1 DEF HandleSubscribe, Receive, TypeOK
  <2>6. /\ registered' \subseteq Conns
        /\ connChannels' \in [Conns -> SUBSET Channels]
        /\ subs' \in [Channels -> SUBSET Conns]
    BY <2>1, <2>2, ManagerTypes
  <2>7. UNCHANGED <<link, outbox, pub, quote, sent, failures>>
    BY <1>1 DEF HandleSubscribe
  <2>8. QED
    BY <2>4, <2>5, <2>6, <2>7 DEF TypeOK, Task
<1>2. CASE HandleUnsubscribe(c)
  <2>1. inbox' \in [Conns -> Seq(Frame)]
    BY <1>2 DEF HandleUnsubscribe, Receive, TypeOK
  <2>2. Valid(Head(inbox[c]).channels) \in SUBSET Channels
    BY DEF Valid
  <2>3. /\ registered' \subseteq Conns
        /\ connChannels' \in [Conns -> SUBSET Channels]
        /\ subs' \in [Channels -> SUBSET Conns]
    BY <1>2, <2>2, ManagerTypes DEF HandleUnsubscribe
  <2>4. QED
    BY <1>2, <2>1, <2>3 DEF HandleUnsubscribe, TypeOK
<1>3. CASE FetchSnapshot(c)
  <2>1. PICK h \in task[c].todo :
          task' = [task EXCEPT
                     ![c] = IF h \in Served
                            THEN [pc |-> "reply", todo |-> task[c].todo \ {h}, channel |-> h,
                                  quote |-> quote[h]]
                            ELSE [NoTask EXCEPT !.pc = AfterReply(task[c].todo \ {h}),
                                                !.todo = task[c].todo \ {h}]]
    BY <1>3 DEF FetchSnapshot
  <2>2. h \in Channels /\ task[c].todo \ {h} \in SUBSET Channels /\ quote[h] \in Nat
    BY <2>1 DEF TypeOK
  <2>3. [pc |-> "reply", todo |-> task[c].todo \ {h}, channel |-> h, quote |-> quote[h]] \in Task
    BY <2>2 DEF Task
  <2>4. [NoTask EXCEPT !.pc = AfterReply(task[c].todo \ {h}), !.todo = task[c].todo \ {h}] \in Task
    BY <2>2, TaskFacts
  <2>5. task' \in [Conns -> Task]
    BY <2>1, <2>3, <2>4 DEF TypeOK, Task
  <2>6. QED
    BY <1>3, <2>5 DEF FetchSnapshot, TypeOK, Task, managerVars
<1>4. CASE SendSnapshot(c)
  <2>1. task[c].channel \in Channels /\ task[c].quote \in Nat /\ task[c].todo \in SUBSET Channels
    BY DEF TypeOK
  <2>2. /\ outbox' \in [Conns -> Seq(Quote)]
        /\ sent' \in [Conns -> [Channels -> Nat]]
    BY <1>4, <2>1, SendTypes DEF SendSnapshot
  <2>3. [NoTask EXCEPT !.pc = AfterReply(task[c].todo), !.todo = task[c].todo] \in Task
    BY <2>1, TaskFacts
  <2>4. task' \in [Conns -> Task]
    BY <1>4, <2>3 DEF SendSnapshot, TypeOK, Task
  <2>5. QED
    BY <1>4, <2>2, <2>4 DEF SendSnapshot, TypeOK, Task, Quote, managerVars
<1>5. CASE Leave(c)
  BY <1>5, EndTypes DEF Leave, TypeOK
<1>6. CASE SnapshotFails(c)
  <2>1. End(c) /\ failures' \in Nat
    BY <1>6 DEF SnapshotFails, TypeOK
  <2>2. QED
    BY <2>1, EndTypes
<1>7. QED
  BY <1>1, <1>2, <1>3, <1>4, <1>5, <1>6

\* Each step of the publisher keeps the types.
LEMMA PublisherTypes ==
  ASSUME TypeOK, Publisher \/ FetchFails
  PROVE  TypeOK'
<1>1. CASE StartTick
  <2>1. ActiveChannels \in SUBSET Channels
    BY DEF ActiveChannels
  <2>2. pub' \in Pub
    BY <1>1, <2>1 DEF StartTick, TypeOK, Pub
  <2>3. QED
    BY <1>1, <2>2 DEF StartTick, TypeOK, Pub, managerVars
<1>2. ASSUME NEW h \in Channels, Fetch(h) PROVE TypeOK'
  <2>1. pub.todo \ {h} \in SUBSET Channels /\ quote[h] \in Nat
    BY DEF TypeOK
  <2>2. NextChannel(pub.todo \ {h}) \in {"sleep", "pick"}
    BY TaskFacts
  <2>3. pub' \in Pub
    BY <1>2, <2>1, <2>2 DEF Fetch, TypeOK, Pub
  <2>4. QED
    BY <1>2, <2>3 DEF Fetch, TypeOK, Pub, managerVars
<1>3. CASE Broadcast
  <2>1. pub' \in Pub
    BY <1>3 DEF Broadcast, TypeOK, Pub
  <2>2. QED
    BY <1>3, <2>1 DEF Broadcast, TypeOK, Pub, managerVars
<1>4. ASSUME NEW c \in Conns, SendNext(c) PROVE TypeOK'
  <2>1. pub' \in Pub
    <3>1. pub.targets \ {c} \in SUBSET Conns /\ pub.dead \cup {c} \in SUBSET Conns /\ pub \in Pub
      BY DEF TypeOK, Pub
    <3>2. \/ pub' = [pub EXCEPT !.targets = pub.targets \ {c}]
          \/ pub' = [pub EXCEPT !.targets = pub.targets \ {c}, !.dead = pub.dead \cup {c}]
      BY <1>4 DEF SendNext
    <3>3. [pub EXCEPT !.targets = pub.targets \ {c}] \in Pub
      BY <3>1 DEF Pub
    <3>4. [pub EXCEPT !.targets = pub.targets \ {c}, !.dead = pub.dead \cup {c}] \in Pub
      BY <3>1 DEF Pub
    <3>5. QED
      BY <3>2, <3>3, <3>4
  <2>2. /\ outbox' \in [Conns -> Seq(Quote)]
        /\ sent' \in [Conns -> [Channels -> Nat]]
    <3>1. CASE Send(c, pub.channel, pub.quote)
      <4>1. pub.channel \in Channels /\ pub.quote \in Nat
        BY DEF TypeOK
      <4>2. QED
        BY <3>1, <4>1, SendTypes
    <3>2. CASE UNCHANGED <<outbox, sent>>
      BY <3>2 DEF TypeOK, Quote
    <3>3. QED
      BY <1>4, <3>1, <3>2 DEF SendNext
  <2>3. QED
    BY <1>4, <2>1, <2>2 DEF SendNext, TypeOK, Pub, Quote, managerVars
<1>5. CASE Prune
  <2>1. pub.dead \in SUBSET Conns /\ pub.todo \in SUBSET Channels
    BY DEF TypeOK
  <2>2. NextChannel(pub.todo) \in {"sleep", "pick"} /\ AnyChannel \in Channels
    BY TaskFacts
  <2>3. pub' \in Pub
    BY <1>5, <2>1, <2>2 DEF Prune, TypeOK, Pub
  <2>4. /\ registered' \subseteq Conns
        /\ connChannels' \in [Conns -> SUBSET Channels]
        /\ subs' \in [Channels -> SUBSET Conns]
    BY <1>5, <2>1 DEF Prune, Disconnect, TypeOK
  <2>5. QED
    BY <1>5, <2>3, <2>4 DEF Prune, TypeOK, Pub
<1>6. CASE FetchFails
  <2>1. pub' \in Pub
    BY <1>6 DEF FetchFails, TypeOK, Pub
  <2>2. failures' \in Nat
    BY <1>6 DEF FetchFails, TypeOK
  <2>3. QED
    BY <1>6, <2>1, <2>2 DEF FetchFails, TypeOK, Pub, managerVars
<1>7. QED
  BY <1>1, <1>2, <1>3, <1>4, <1>5, <1>6 DEF Publisher

\* Each step of the environment keeps the types.
LEMMA EnvironmentTypes ==
  ASSUME TypeOK, (\E c \in Conns : Client(c)) \/ (\E h \in Channels : Market(h))
  PROVE  TypeOK'
<1>1. ASSUME NEW c \in Conns, Accept(c) PROVE TypeOK'
  <2>1. task' \in [Conns -> Task] /\ link' \in [Conns -> {"none", "open", "broken"}]
    BY <1>1, TaskFacts DEF Accept, TypeOK, Task
  <2>2. /\ registered' \subseteq Conns
        /\ connChannels' \in [Conns -> SUBSET Channels]
        /\ subs' \in [Channels -> SUBSET Conns]
    BY <1>1 DEF Accept, Connect, TypeOK
  <2>3. QED
    BY <1>1, <2>1, <2>2 DEF Accept, TypeOK, Task
<1>2. ASSUME NEW c \in Conns, ClientReads(c) PROVE TypeOK'
  <2>1. outbox' \in [Conns -> Seq(Quote)]
    <3>1. outbox[c] \in Seq(Quote) /\ outbox[c] # <<>> /\ outbox \in [Conns -> Seq(Quote)]
      BY <1>2 DEF ClientReads, TypeOK, Quote
    <3>2. Tail(outbox[c]) \in Seq(Quote)
      BY <3>1
    <3>3. QED
      BY <1>2, <3>1, <3>2 DEF ClientReads
  <2>2. QED
    BY <1>2, <2>1 DEF ClientReads, TypeOK, Quote, managerVars
<1>3. ASSUME NEW c \in Conns, Break(c) PROVE TypeOK'
  <2>1. /\ inbox' \in [Conns -> Seq(Frame)]
        /\ outbox' \in [Conns -> Seq(Quote)]
        /\ sent' \in [Conns -> [Channels -> Nat]]
    BY <1>3, EmptyQueues DEF Break
  <2>2. link' \in [Conns -> {"none", "open", "broken"}]
    BY <1>3 DEF Break, TypeOK
  <2>3. QED
    BY <1>3, <2>1, <2>2 DEF Break, TypeOK, Quote, managerVars
<1>4. ASSUME NEW c \in Conns, NEW f \in Frame, ClientSends(c, f) PROVE TypeOK'
  <2>1. Append(inbox[c], f) \in Seq(Frame)
    BY DEF TypeOK
  <2>2. inbox' \in [Conns -> Seq(Frame)]
    BY <1>4, <2>1 DEF ClientSends, TypeOK
  <2>3. QED
    BY <1>4, <2>2 DEF ClientSends, TypeOK, managerVars
<1>5. ASSUME NEW h \in Channels, Market(h) PROVE TypeOK'
  BY <1>5 DEF Market, TypeOK, managerVars
<1>6. QED
  BY <1>1, <1>2, <1>3, <1>4, <1>5 DEF Client

\* Every variable of the server keeps its type (manager.py, router.py,
\* publisher.py), whatever names the clients send.
THEOREM TypeInvariance == Spec => []TypeOK
<1>1. TypeOK /\ [Next]_vars => TypeOK'
  <2>1. CASE UNCHANGED vars
    BY <2>1 DEF TypeOK, vars, managerVars
  <2>2. CASE Next
    BY <2>2, EndpointTypes, PublisherTypes, EnvironmentTypes DEF Next, Server
  <2>3. QED
    BY <2>1, <2>2
<1>2. QED
  BY InitTypes, <1>1, PTL DEF Spec

(***************************************************************************)
(* The two maps of the manager.                                            *)
(***************************************************************************)

\* Each method of the manager keeps the maps mirror images.
LEMMA ManagerMirrors ==
  ASSUME TypeOK, Mirrored, NEW c \in Conns, NEW H \in SUBSET Channels, NEW C \in SUBSET Conns,
         \/ Connect(c) /\ connChannels[c] = {}
         \/ Disconnect(C) \/ Subscribe(c, H) \/ Unsubscribe(c, H)
  PROVE  Mirrored'
<1>1. CASE Connect(c) /\ connChannels[c] = {}
  BY <1>1 DEF TypeOK, Mirrored, Connect
<1>2. CASE Disconnect(C)
  BY <1>2 DEF TypeOK, Mirrored, Disconnect
<1>3. CASE Subscribe(c, H)
  BY <1>3 DEF TypeOK, Mirrored, Subscribe
<1>4. CASE Unsubscribe(c, H)
  BY <1>4 DEF TypeOK, Mirrored, Unsubscribe
<1>5. QED
  BY <1>1, <1>2, <1>3, <1>4

\* The coroutine of a connection that is not accepted has ended.
Ended == \A c \in Conns : link[c] = "none" <=> task[c].pc = "none"

MapsInv == Mirrored /\ NoLeak /\ Ended

\* The end of an endpoint removes the connection from both maps.
LEMMA EndForgets ==
  ASSUME TypeOK, MapsInv, NEW c \in Conns, End(c)
  PROVE  MapsInv'
<1>1. Disconnect({c})
  BY DEF End
<1>2. Mirrored'
  BY <1>1, ManagerMirrors, {c} \in SUBSET Conns, {} \in SUBSET Channels DEF MapsInv
<1>3. /\ \A d \in Conns \ {c} : task'[d] = task[d] /\ link'[d] = link[d]
      /\ task'[c].pc = "none" /\ link'[c] = "none"
  BY TaskFacts DEF End, TypeOK
<1>4. Ended'
  BY <1>3 DEF MapsInv, Ended
<1>5. c \notin registered' /\ registered' \subseteq registered
  BY <1>1 DEF Disconnect
<1>6. \A h \in Channels : c \notin subs'[h] /\ subs'[h] \subseteq subs[h]
  BY <1>1 DEF Disconnect, TypeOK, MapsInv, Mirrored
<1>7. NoLeak'
  BY <1>3, <1>5, <1>6 DEF MapsInv, NoLeak
<1>8. QED
  BY <1>2, <1>4, <1>7 DEF MapsInv

\* A step that leaves the maps alone and starts or ends no endpoint.
LEMMA OtherSteps ==
  ASSUME TypeOK, MapsInv, UNCHANGED managerVars,
         \A c \in Conns : /\ task'[c].pc = "none" <=> task[c].pc = "none"
                          /\ link'[c] = "none" <=> link[c] = "none"
  PROVE  MapsInv'
BY DEF TypeOK, MapsInv, Mirrored, NoLeak, Ended, managerVars

\* Each step of an endpoint keeps the maps in order.
LEMMA EndpointMaps ==
  ASSUME TypeOK, MapsInv, NEW c \in Conns, Endpoint(c) \/ SnapshotFails(c)
  PROVE  MapsInv'
<1>1. CASE HandleSubscribe(c)
  <2> DEFINE H == Valid(Head(inbox[c]).channels)
  <2>1. H \in SUBSET Channels
    BY DEF Valid
  <2>2. /\ Subscribe(c, H) /\ UNCHANGED link /\ link[c] = "open"
        /\ task' = [task EXCEPT ![c].pc = AfterReply(H), ![c].todo = H]
    BY <1>1 DEF HandleSubscribe, Receive
  <2> HIDE DEF H
  <2>3. Mirrored'
    BY <2>1, <2>2, ManagerMirrors DEF MapsInv
  <2>4. /\ \A d \in Conns \ {c} : task'[d] = task[d]
        /\ task'[c].pc # "none" /\ task[c].pc # "none"
    BY <2>2, TaskFacts DEF TypeOK, MapsInv, Ended
  <2>5. Ended'
    BY <2>2, <2>4 DEF MapsInv, Ended
  <2>6. /\ registered' \subseteq registered \cup {c}
        /\ \A h \in Channels : subs'[h] \subseteq subs[h] \cup {c}
    BY <2>2 DEF Subscribe, TypeOK
  <2>7. NoLeak'
    BY <2>4, <2>6 DEF MapsInv, NoLeak
  <2>8. QED
    BY <2>3, <2>5, <2>7 DEF MapsInv
<1>2. CASE HandleUnsubscribe(c)
  <2> DEFINE H == Valid(Head(inbox[c]).channels)
  <2>1. H \in SUBSET Channels
    BY DEF Valid
  <2>2. Unsubscribe(c, H) /\ UNCHANGED <<link, task>>
    BY <1>2 DEF HandleUnsubscribe
  <2> HIDE DEF H
  <2>3. Mirrored'
    BY <2>1, <2>2, ManagerMirrors DEF MapsInv
  <2>4. registered' = registered /\ \A h \in Channels : subs'[h] \subseteq subs[h]
    BY <2>2 DEF Unsubscribe, TypeOK
  <2>5. NoLeak' /\ Ended'
    BY <2>2, <2>4 DEF MapsInv, NoLeak, Ended
  <2>6. QED
    BY <2>3, <2>5 DEF MapsInv
<1>3. CASE FetchSnapshot(c)
  <2>1. \A d \in Conns \ {c} : task'[d] = task[d]
    BY <1>3 DEF FetchSnapshot, TypeOK
  <2>2. task'[c].pc # "none" /\ task[c].pc # "none"
    <3>1. task[c].pc # "none"
      BY <1>3 DEF FetchSnapshot
    <3>2. PICK h \in task[c].todo :
            task'[c] = IF h \in Served
                       THEN [pc |-> "reply", todo |-> task[c].todo \ {h}, channel |-> h,
                             quote |-> quote[h]]
                       ELSE [NoTask EXCEPT !.pc = AfterReply(task[c].todo \ {h}),
                                           !.todo = task[c].todo \ {h}]
      BY <1>3 DEF FetchSnapshot, TypeOK
    <3>3. AfterReply(task[c].todo \ {h}) # "none"
      BY DEF AfterReply
    <3>4. task'[c].pc # "none"
      BY <3>2, <3>3 DEF NoTask
    <3>5. QED
      BY <3>1, <3>4
  <2>3. UNCHANGED <<managerVars, link>>
    BY <1>3 DEF FetchSnapshot
  <2>4. QED
    BY <2>1, <2>2, <2>3, OtherSteps
<1>4. CASE SendSnapshot(c)
  <2>1. \A d \in Conns \ {c} : task'[d] = task[d]
    BY <1>4 DEF SendSnapshot, TypeOK
  <2>2. task'[c].pc # "none" /\ task[c].pc # "none"
    BY <1>4, TaskFacts DEF SendSnapshot, TypeOK, NoTask
  <2>3. UNCHANGED <<managerVars, link>>
    BY <1>4 DEF SendSnapshot
  <2>4. QED
    BY <2>1, <2>2, <2>3, OtherSteps
<1>5. CASE Leave(c) \/ SnapshotFails(c)
  BY <1>5, EndForgets DEF Leave, SnapshotFails
<1>6. QED
  BY <1>1, <1>2, <1>3, <1>4, <1>5 DEF Endpoint

\* Each step of the publisher keeps the maps in order.
LEMMA PublisherMaps ==
  ASSUME TypeOK, MapsInv, Publisher \/ FetchFails
  PROVE  MapsInv'
<1>1. CASE Prune
  <2>1. pub.dead \in SUBSET Conns /\ Disconnect(pub.dead) /\ UNCHANGED <<link, task>>
    BY <1>1 DEF Prune, TypeOK
  <2>2. Mirrored'
    BY <2>1 DEF TypeOK, Mirrored, Disconnect, MapsInv
  <2>3. registered' \subseteq registered /\ \A h \in Channels : subs'[h] \subseteq subs[h]
    BY <2>1 DEF Disconnect
  <2>4. NoLeak' /\ Ended'
    BY <2>1, <2>3 DEF MapsInv, NoLeak, Ended
  <2>5. QED
    BY <2>2, <2>4 DEF MapsInv
<1>2. CASE FetchFails \/ StartTick \/ (\E h \in Channels : Fetch(h)) \/ Broadcast
           \/ \E c \in Conns : SendNext(c)
  <2>1. UNCHANGED <<managerVars, link, task>>
    BY <1>2 DEF FetchFails, StartTick, Fetch, Broadcast, SendNext
  <2>2. QED
    BY <2>1, OtherSteps
<1>3. QED
  BY <1>1, <1>2 DEF Publisher

\* Each step of the environment keeps the maps in order.
LEMMA EnvironmentMaps ==
  ASSUME TypeOK, MapsInv, (\E c \in Conns : Client(c)) \/ (\E h \in Channels : Market(h))
  PROVE  MapsInv'
<1>1. ASSUME NEW c \in Conns, Accept(c) PROVE MapsInv'
  <2>1. task[c].pc = "none" /\ Connect(c)
    BY <1>1 DEF Accept, MapsInv, Ended
  <2>2. connChannels[c] = {}
    BY <2>1 DEF TypeOK, MapsInv, Mirrored, NoLeak
  <2>3. Mirrored'
    BY <2>1, <2>2 DEF TypeOK, Mirrored, Connect, MapsInv
  <2>4. /\ \A d \in Conns \ {c} : task'[d] = task[d] /\ link'[d] = link[d]
        /\ task'[c].pc = "receive" /\ link'[c] = "open"
    BY <1>1 DEF Accept, TypeOK, NoTask
  <2>5. Ended'
    BY <2>4 DEF MapsInv, Ended
  <2>6. registered' = registered \cup {c} /\ subs' = subs
    BY <2>1 DEF Connect
  <2>7. NoLeak'
    BY <2>4, <2>6 DEF MapsInv, NoLeak
  <2>8. QED
    BY <2>3, <2>5, <2>7 DEF MapsInv
<1>2. ASSUME NEW c \in Conns, Break(c) PROVE MapsInv'
  <2>1. UNCHANGED <<managerVars, task>>
    BY <1>2 DEF Break
  <2>2. \A d \in Conns : link'[d] = "none" <=> link[d] = "none"
    BY <1>2 DEF Break, TypeOK
  <2>3. QED
    BY <2>1, <2>2, OtherSteps
<1>3. ASSUME NEW c \in Conns, ClientReads(c) \/ \E f \in Frame : ClientSends(c, f)
      PROVE  MapsInv'
  <2>1. UNCHANGED <<managerVars, link, task>>
    BY <1>3 DEF ClientReads, ClientSends
  <2>2. QED
    BY <2>1, OtherSteps
<1>4. ASSUME NEW h \in Channels, Market(h) PROVE MapsInv'
  BY <1>4, OtherSteps DEF Market
<1>5. QED
  BY <1>1, <1>2, <1>3, <1>4 DEF Client

\* The maps are in order in every state.
LEMMA MapsInvariance == Spec => []MapsInv
<1>1. Init => MapsInv
  BY TaskFacts DEF Init, MapsInv, Mirrored, NoLeak, Ended
<1>2. TypeOK /\ MapsInv /\ [Next]_vars => MapsInv'
  <2>1. CASE UNCHANGED vars
    BY <2>1 DEF MapsInv, Mirrored, NoLeak, Ended, vars, managerVars
  <2>2. CASE Next
    BY <2>2, EndpointMaps, PublisherMaps, EnvironmentMaps DEF Next, Server
  <2>3. QED
    BY <2>1, <2>2
<1>3. QED
  BY <1>1, <1>2, TypeInvariance, PTL DEF Spec

\* _subs and _conn_channels are mirror images in every state (manager.py), so
\* that disconnect unsubscribes a connection from all its channels.
THEOREM MapsMirrorEachOther == Spec => []Mirrored
<1>1. MapsInv => Mirrored
  BY DEF MapsInv
<1>2. QED
  BY <1>1, MapsInvariance, PTL

\* Neither map mentions a connection whose endpoint has ended, whatever the
\* publisher was doing with it (router.py, the finally clause).
THEOREM NothingLeaks == Spec => []NoLeak
<1>1. MapsInv => NoLeak
  BY DEF MapsInv
<1>2. QED
  BY <1>1, MapsInvariance, PTL

(***************************************************************************)
(* The browser beside the server.                                          *)
(***************************************************************************)
\* The types of the browser's own variables.
BrowserTypeOK ==
  /\ socket \in [state : {"null", "connecting", "open"}, conn : Conns]
  /\ refs \in [Channels -> 0..MaxHooks]
  /\ timer \in BOOLEAN /\ token \in BOOLEAN
  /\ breaks \in 0..MaxBreaks

\* The browser's variables keep their types.
LEMMA BrowserTypes ==
  ASSUME BrowserTypeOK, LiveNext
  PROVE  BrowserTypeOK'
<1> USE LiveFeedAssumption DEF BrowserTypeOK
<1>1. CASE ServerStep \/ MarketStep \/ Accepted
  BY <1>1 DEF ServerStep, MarketStep, Accepted, browserVars
<1>2. CASE OnOpen \/ OnMessage
  BY <1>2 DEF OnOpen, OnMessage
<1>3. CASE OnClose
  <2>1. NoSocket \in [state : {"null", "connecting", "open"}, conn : Conns]
    BY DEF NoSocket
  <2>2. breaks' \in 0..MaxBreaks
    BY <1>3 DEF OnClose, Closes
  <2>3. socket' = NoSocket /\ timer' \in BOOLEAN /\ UNCHANGED <<refs, token>>
    BY <1>3 DEF OnClose
  <2>4. QED
    BY <2>1, <2>2, <2>3
<1>4. CASE Reconnect
  <2>1. socket' \in [state : {"null", "connecting", "open"}, conn : Conns]
    BY <1>4 DEF Reconnect, OpenSocket
  <2>2. timer' \in BOOLEAN /\ UNCHANGED <<refs, token, breaks>>
    BY <1>4 DEF Reconnect
  <2>3. QED
    BY <2>1, <2>2
<1>5. ASSUME NEW h \in Channels, Mount(h) PROVE BrowserTypeOK'
  <2>1. refs' \in [Channels -> 0..MaxHooks]
    BY <1>5 DEF Mount
  <2>2. socket' \in [state : {"null", "connecting", "open"}, conn : Conns]
    BY <1>5 DEF Mount, OpenSocket
  <2>3. UNCHANGED <<timer, token, breaks>>
    BY <1>5 DEF Mount
  <2>4. QED
    BY <2>1, <2>2, <2>3
<1>6. ASSUME NEW h \in Channels, Unmount(h) PROVE BrowserTypeOK'
  BY <1>6 DEF Unmount
<1>7. CASE Login \/ Logout
  BY <1>7 DEF Login, Logout
<1>8. ASSUME NEW c \in Conns, BreakLink(c) PROVE BrowserTypeOK'
  BY <1>8 DEF BreakLink, browserVars
<1>9. QED
  BY <1>1, <1>2, <1>3, <1>4, <1>5, <1>6, <1>7, <1>8 DEF LiveNext

\* The initial state has the types.
LEMMA InitBrowser ==
  ASSUME LiveInit
  PROVE  BrowserTypeOK
<1>1. NoSocket \in [state : {"null", "connecting", "open"}, conn : Conns]
  BY LiveFeedAssumption DEF NoSocket
<1>2. 0 \in 0..MaxHooks /\ 0 \in 0..MaxBreaks
  BY LiveFeedAssumption
<1>3. refs \in [Channels -> 0..MaxHooks] /\ breaks \in 0..MaxBreaks
  BY <1>2 DEF LiveInit
<1>4. socket = NoSocket /\ timer = FALSE /\ token = FALSE
  BY DEF LiveInit
<1>5. QED
  BY <1>1, <1>3, <1>4 DEF BrowserTypeOK

(***************************************************************************)
(* The composition implements the server's specification.                  *)
(***************************************************************************)

\* Sending a frame is a client's step or nothing.
LEMMA SendIsClient ==
  ASSUME BrowserTypeOK, NEW op \in {"subscribe", "unsubscribe"}, NEW H \in SUBSET Channels,
         SendFrame(op, H)
  PROVE  (\E c \in Conns : Client(c)) \/ UNCHANGED vars
<1>1. socket.conn \in Conns
  BY DEF BrowserTypeOK
<1>2. [op |-> op, channels |-> H] \in Frame
  BY FeedAssumption DEF Frame
<1>3. QED
  BY <1>1, <1>2 DEF SendFrame, serverVars, Client

\* Every step of the composition is a step of WsFeed or leaves it alone.
LEMMA StepIsServerStep ==
  ASSUME BrowserTypeOK, LiveNext
  PROVE  [Next]_vars
<1>1. CASE ServerStep \/ MarketStep
  BY <1>1 DEF ServerStep, MarketStep, Next
<1>2. CASE Accepted
  <2>1. socket.conn \in Conns /\ Accept(socket.conn)
    BY <1>2 DEF Accepted, BrowserTypeOK
  <2>2. QED
    BY <2>1 DEF Next, Client
<1>3. CASE OnOpen
  <2>1. CASE Active = {}
    BY <1>3, <2>1 DEF OnOpen, serverVars
  <2>2. CASE Active # {}
    <3>1. ClientSends(socket.conn, [op |-> "subscribe", channels |-> Active])
      BY <1>3, <2>2 DEF OnOpen
    <3>2. [op |-> "subscribe", channels |-> Active] \in Frame
      BY FeedAssumption DEF Frame, Active, ActiveIn
    <3>3. socket.conn \in Conns
      BY DEF BrowserTypeOK
    <3>4. QED
      BY <3>1, <3>2, <3>3 DEF Next, Client
  <2>3. QED
    BY <2>1, <2>2
<1>4. CASE OnMessage
  <2>1. socket.conn \in Conns /\ ClientReads(socket.conn)
    BY <1>4 DEF OnMessage, BrowserTypeOK
  <2>2. QED
    BY <2>1 DEF Next, Client
<1>5. CASE OnClose \/ Reconnect \/ Login \/ Logout
  BY <1>5 DEF OnClose, Reconnect, Login, Logout, serverVars
<1>6. ASSUME NEW h \in Channels, Mount(h) \/ Unmount(h) PROVE [Next]_vars
  <2>1. SendFrame("subscribe", {h}) \/ SendFrame("unsubscribe", {h}) \/ UNCHANGED vars
    BY <1>6 DEF Mount, Unmount, serverVars
  <2>2. {h} \in SUBSET Channels
    OBVIOUS
  <2>3. QED
    BY <2>1, <2>2, SendIsClient DEF Next
<1>7. ASSUME NEW c \in Conns, BreakLink(c) PROVE [Next]_vars
  BY <1>7 DEF BreakLink, Next, Client
<1>8. QED
  BY <1>1, <1>2, <1>3, <1>4, <1>5, <1>6, <1>7 DEF LiveNext

\* The browser's types hold in every state.
LEMMA BrowserTypeInvariance == LiveSpec => []BrowserTypeOK
<1>1. BrowserTypeOK /\ [LiveNext]_allVars => BrowserTypeOK'
  <2>1. CASE UNCHANGED allVars
    BY <2>1 DEF BrowserTypeOK, allVars, browserVars
  <2>2. CASE LiveNext
    BY <2>2, BrowserTypes
  <2>3. QED
    BY <2>1, <2>2
<1>2. QED
  BY <1>1, InitBrowser, PTL DEF LiveSpec

\* The composition implements WsFeed: liveFeed.ts sends nothing the server is not
\* checked with.
THEOREM BrowserIsAClient == LiveSpec => IsAClient
<1>1. LiveInit => Init
  BY DEF LiveInit
<1>2. BrowserTypeOK /\ [LiveNext]_allVars => [Next]_vars
  <2>1. CASE UNCHANGED allVars
    BY <2>1 DEF allVars, serverVars
  <2>2. CASE LiveNext
    BY <2>2, StepIsServerStep
  <2>3. QED
    BY <2>1, <2>2
<1>3. QED
  BY <1>1, <1>2, BrowserTypeInvariance, PTL DEF LiveSpec, IsAClient, Spec

\* What is proved of the server holds when it serves the browser.
COROLLARY ServerInvariants == LiveSpec => [](TypeOK /\ Mirrored /\ NoLeak)
BY BrowserIsAClient, TypeInvariance, MapsMirrorEachOther, NothingLeaks, PTL DEF IsAClient

(***************************************************************************)
(* A held channel is not forgotten.                                        *)
(***************************************************************************)

\* Every step keeps a socket or a timer for a held channel.
LEMMA StepRemembers ==
  ASSUME BrowserTypeOK, NeverForgotten, LiveNext
  PROVE  NeverForgotten'
<1> USE DEF NeverForgotten, Active, ActiveIn
<1>1. CASE ServerStep \/ MarketStep \/ Accepted
  BY <1>1 DEF ServerStep, MarketStep, Accepted, browserVars
<1>2. CASE OnOpen
  <2>1. socket'.state = "open"
    BY <1>2 DEF OnOpen, BrowserTypeOK
  <2>2. QED
    BY <2>1
<1>3. CASE OnMessage \/ Login \/ Logout
  BY <1>3 DEF OnMessage, Login, Logout
<1>4. CASE OnClose
  BY <1>4 DEF OnClose
<1>5. CASE Reconnect
  BY <1>5 DEF Reconnect, OpenSocket
<1>6. ASSUME NEW h \in Channels, Mount(h) PROVE NeverForgotten'
  BY <1>6 DEF Mount, OpenSocket
<1>7. ASSUME NEW h \in Channels, Unmount(h) PROVE NeverForgotten'
  <2>1. \A k \in Channels : refs'[k] > 0 => refs[k] > 0
    BY <1>7, LiveFeedAssumption DEF Unmount, BrowserTypeOK
  <2>2. UNCHANGED <<socket, timer, token>>
    BY <1>7 DEF Unmount
  <2>3. QED
    BY <2>1, <2>2
<1>8. ASSUME NEW c \in Conns, BreakLink(c) PROVE NeverForgotten'
  BY <1>8 DEF BreakLink, browserVars
<1>9. QED
  BY <1>1, <1>2, <1>3, <1>4, <1>5, <1>6, <1>7, <1>8 DEF LiveNext

\* While a session lasts, a held channel has a socket or a timer that will open
\* one (liveFeed.ts, connect and scheduleReconnect).
THEOREM HeldChannelsAreServed == LiveSpec => []NeverForgotten
<1>1. LiveInit => NeverForgotten
  BY DEF LiveInit, NeverForgotten
<1>2. BrowserTypeOK /\ NeverForgotten /\ [LiveNext]_allVars => NeverForgotten'
  <2>1. CASE UNCHANGED allVars
    BY <2>1 DEF NeverForgotten, Active, ActiveIn, allVars, browserVars
  <2>2. CASE LiveNext
    BY <2>2, StepRemembers
  <2>3. QED
    BY <2>1, <2>2
<1>3. QED
  BY <1>1, <1>2, BrowserTypeInvariance, PTL DEF LiveSpec

(***************************************************************************)
(* Browser and server agree.                                               *)
(***************************************************************************)

\* No frame of q is about the channel, ...
Unmentioned(q, h) == \A i \in 1..Len(q) : h \notin q[i].channels

\* ... the i-th is the last one that is.
LastAbout(q, i, h) ==
  i \in 1..Len(q) /\ h \in q[i].channels /\ \A j \in 1..Len(q) : j > i => h \notin q[j].channels

\* Once the frames of q are handled, a server that has the channels of H agrees on
\* h with a browser that wants those of A.
Foretold(q, h, H, A) ==
  /\ Unmentioned(q, h) => (h \in H <=> h \in A)
  /\ \A i : LastAbout(q, i, h) => (q[i].op = "subscribe" <=> h \in A)

\* A connection that is none has no frames, and the publisher buries no open one.
LinksInv ==
  /\ \A c \in Conns : link[c] = "none" => inbox[c] = <<>>
  /\ \A c \in pub.dead : link[c] # "open"

\* A connection that is accepted starts with nothing, ...
FreshInv ==
  LET c == socket.conn IN
  socket.state = "connecting" /\ link[c] = "open" => inbox[c] = <<>> /\ connChannels[c] = {}

\* ... and what is under way on an open socket ends in agreement.
InStepInv ==
  LET c == socket.conn IN
  socket.state = "open" /\ link[c] = "open" =>
    \A h \in Channels : Foretold(inbox[c], h, connChannels[c], Active)

AgreementInv == LinksInv /\ FreshInv /\ InStepInv

\* A frame that says of the channels it is about what the browser wants now.
LEMMA FrameSent ==
  ASSUME NEW q \in Seq(Frame), NEW f \in Frame, NEW h, NEW H, NEW A, NEW B,
         Foretold(q, h, H, A),
         h \in f.channels => (f.op = "subscribe" <=> h \in B),
         h \notin f.channels => (h \in A <=> h \in B)
  PROVE  Foretold(Append(q, f), h, H, B)
<1> DEFINE r == Append(q, f)
<1>1. /\ Len(r) = Len(q) + 1 /\ r[Len(q) + 1] = f /\ Len(q) \in Nat
      /\ \A i \in 1..Len(q) : r[i] = q[i]
  OBVIOUS
<1> HIDE DEF r
<1>2. Unmentioned(r, h) => (h \in H <=> h \in B)
  BY <1>1 DEF Foretold, Unmentioned
<1>3. ASSUME NEW i, LastAbout(r, i, h) PROVE r[i].op = "subscribe" <=> h \in B
  <2>1. CASE h \in f.channels
    <3>1. i = Len(q) + 1
      BY <1>1, <1>3, <2>1 DEF LastAbout
    <3>2. QED
      BY <1>1, <2>1, <3>1
  <2>2. CASE h \notin f.channels
    <3>1. i \in 1..Len(q)
      BY <1>1, <1>3, <2>2 DEF LastAbout
    <3>2. LastAbout(q, i, h)
      BY <1>1, <1>3, <3>1 DEF LastAbout
    <3>3. QED
      BY <1>1, <2>2, <3>1, <3>2 DEF Foretold
  <2>3. QED
    BY <2>1, <2>2
<1>4. QED
  BY <1>2, <1>3 DEF Foretold, r

\* The server does what its next frame says.
LEMMA FrameHandled ==
  ASSUME NEW q \in Seq(Frame), q # <<>>, NEW h, NEW H, NEW K, NEW A,
         Foretold(q, h, H, A),
         h \in Head(q).channels => (h \in K <=> Head(q).op = "subscribe"),
         h \notin Head(q).channels => (h \in K <=> h \in H)
  PROVE  Foretold(Tail(q), h, K, A)
<1> DEFINE r == Tail(q)
<1>1. /\ Len(q) \in Nat /\ Len(q) > 0 /\ Len(r) = Len(q) - 1 /\ q[1] = Head(q)
      /\ \A i \in 1..Len(r) : r[i] = q[i + 1]
  OBVIOUS
<1> HIDE DEF r
<1>2. \A j \in 1..Len(q) : j > 1 => j - 1 \in 1..Len(r) /\ r[j - 1] = q[j]
  BY <1>1
<1>3. ASSUME Unmentioned(r, h) PROVE h \in K <=> h \in A
  <2>1. \A j \in 1..Len(q) : j > 1 => h \notin q[j].channels
    BY <1>2, <1>3 DEF Unmentioned
  <2>2. CASE h \in Head(q).channels
    <3>1. LastAbout(q, 1, h)
      BY <1>1, <2>1, <2>2 DEF LastAbout
    <3>2. QED
      BY <1>1, <2>2, <3>1 DEF Foretold
  <2>3. CASE h \notin Head(q).channels
    <3>1. Unmentioned(q, h)
      BY <1>1, <2>1, <2>3 DEF Unmentioned
    <3>2. QED
      BY <2>3, <3>1 DEF Foretold
  <2>4. QED
    BY <2>2, <2>3
<1>4. ASSUME NEW i, LastAbout(r, i, h) PROVE r[i].op = "subscribe" <=> h \in A
  <2>1. i \in 1..Len(r) /\ h \in r[i].channels /\ \A j \in 1..Len(r) : j > i => h \notin r[j].channels
    BY <1>4 DEF LastAbout
  <2>2. i + 1 \in 1..Len(q) /\ q[i + 1] = r[i]
    BY <1>1, <2>1
  <2>3. ASSUME NEW j \in 1..Len(q), j > i + 1 PROVE h \notin q[j].channels
    <3>1. j - 1 \in 1..Len(r) /\ r[j - 1] = q[j] /\ j - 1 > i
      BY <1>1, <1>2, <2>1, <2>3
    <3>2. QED
      BY <2>1, <3>1
  <2>4. LastAbout(q, i + 1, h)
    BY <2>1, <2>2, <2>3 DEF LastAbout
  <2>5. QED
    BY <2>2, <2>4 DEF Foretold
<1>5. QED
  BY <1>3, <1>4 DEF Foretold, r

\* A step that hands no frame over and opens no connection.
LEMMA NothingHandedOver ==
  ASSUME TypeOK, BrowserTypeOK, AgreementInv, UNCHANGED <<socket, refs>>,
         \A c \in Conns : link'[c] = "open" =>
           /\ link[c] = "open"
           /\ inbox'[c] = inbox[c] /\ (c \notin pub.dead => connChannels'[c] = connChannels[c]),
         \A c \in Conns : link'[c] = "none" =>
           inbox'[c] = <<>> \/ (link[c] = "none" /\ inbox'[c] = inbox[c]),
         \A c \in pub'.dead : c \in pub.dead \/ link[c] # "open",
         pub'.dead \subseteq Conns
  PROVE  AgreementInv'
<1>1. socket.conn \in Conns
  BY DEF BrowserTypeOK
<1>2. LinksInv'
  BY DEF AgreementInv, LinksInv
<1>3. FreshInv'
  BY <1>1 DEF AgreementInv, LinksInv, FreshInv
<1>4. InStepInv'
  BY <1>1 DEF AgreementInv, LinksInv, InStepInv, Active, ActiveIn
<1>5. QED
  BY <1>2, <1>3, <1>4 DEF AgreementInv

\* What the publisher has buried when it sends or prunes.
LEMMA Buried ==
  ASSUME TypeOK, Publisher \/ FetchFails
  PROVE  /\ pub'.dead \subseteq Conns
         /\ \A c \in pub'.dead : c \in pub.dead \/ link[c] # "open"
         /\ UNCHANGED <<link, inbox>>
         /\ \A c \in Conns \ pub.dead : connChannels'[c] = connChannels[c]
<1>1. pub \in Pub
  BY DEF TypeOK, Pub
<1>2. CASE Prune
  <2>1. pub'.dead = {}
    BY <1>1, <1>2 DEF Prune, Pub
  <2>2. Disconnect(pub.dead) /\ UNCHANGED <<link, inbox>>
    BY <1>2 DEF Prune
  <2>3. QED
    BY <2>1, <2>2 DEF Disconnect
<1>3. ASSUME NEW c \in Conns, SendNext(c)
      PROVE  pub'.dead \subseteq pub.dead \cup {c} /\ (c \in pub'.dead => c \in pub.dead \/ link[c] # "open")
  <2>1. CASE pub' = [pub EXCEPT !.targets = @ \ {c}]
    BY <1>1, <2>1 DEF Pub
  <2>2. CASE link[c] # "open" /\ pub' = [pub EXCEPT !.targets = @ \ {c}, !.dead = @ \cup {c}]
    BY <1>1, <2>2 DEF Pub
  <2>3. QED
    BY <1>3, <2>1, <2>2 DEF SendNext
<1>4. CASE FetchFails \/ StartTick \/ (\E h \in Channels : Fetch(h)) \/ Broadcast
  <2>1. pub'.dead = pub.dead
    BY <1>1, <1>4 DEF FetchFails, StartTick, Fetch, Broadcast, Pub
  <2>2. UNCHANGED <<link, inbox, managerVars>>
    BY <1>4 DEF FetchFails, StartTick, Fetch, Broadcast
  <2>3. QED
    BY <1>1, <2>1, <2>2 DEF Pub, managerVars
<1>5. CASE \E c \in Conns : SendNext(c)
  <2>1. UNCHANGED <<link, inbox, managerVars>>
    BY <1>5 DEF SendNext
  <2>2. PICK c \in Conns : SendNext(c)
    BY <1>5
  <2>3. QED
    BY <1>1, <1>3, <2>1, <2>2 DEF Pub, managerVars
<1>6. QED
  BY <1>2, <1>4, <1>5 DEF Publisher

\* Each step of an endpoint keeps the agreement in sight.
LEMMA EndpointAgrees ==
  ASSUME TypeOK, BrowserTypeOK, AgreementInv, UNCHANGED <<socket, refs>>,
         NEW c \in Conns, Endpoint(c) \/ SnapshotFails(c)
  PROVE  AgreementInv'
<1>1. ASSUME NEW op \in {"subscribe", "unsubscribe"}, Receive(c, op), UNCHANGED <<link, pub>>,
             \A d \in Conns \ {c} : connChannels'[d] = connChannels[d],
             connChannels'[c] = IF op = "subscribe"
                                THEN connChannels[c] \cup Valid(Head(inbox[c]).channels)
                                ELSE connChannels[c] \ Valid(Head(inbox[c]).channels)
      PROVE  AgreementInv'
  <2> DEFINE q == inbox[c]
  <2>1. q \in Seq(Frame) /\ q # <<>> /\ Head(q).op = op /\ link[c] = "open"
    BY <1>1 DEF Receive, TypeOK
  <2>2. inbox'[c] = Tail(q) /\ \A d \in Conns \ {c} : inbox'[d] = inbox[d]
    BY <1>1 DEF Receive, TypeOK
  <2>3. LinksInv'
    BY <1>1, <2>1, <2>2 DEF AgreementInv, LinksInv
  <2>4. socket.conn \in Conns /\ (socket.conn = c => socket.state # "connecting")
    BY <2>1 DEF BrowserTypeOK, AgreementInv, FreshInv
  <2>5. FreshInv'
    BY <1>1, <2>2, <2>4 DEF AgreementInv, FreshInv
  <2>6. CASE socket.conn = c /\ socket.state = "open"
    <3>1. \A h \in Channels : Foretold(q, h, connChannels[c], Active)
      BY <2>1, <2>6 DEF AgreementInv, InStepInv
    <3>2. \A h \in Channels : h \in Head(q).channels =>
            (h \in connChannels'[c] <=> Head(q).op = "subscribe")
      BY <1>1, <2>1 DEF Valid
    <3>3. \A h \in Channels : h \notin Head(q).channels =>
            (h \in connChannels'[c] <=> h \in connChannels[c])
      BY <1>1 DEF Valid
    <3> HIDE DEF q
    <3>4. \A h \in Channels : Foretold(Tail(q), h, connChannels'[c], Active)
      BY <2>1, <3>1, <3>2, <3>3, FrameHandled
    <3>5. Active' = Active
      BY DEF Active, ActiveIn
    <3>6. QED
      BY <2>2, <2>3, <2>5, <2>6, <3>4, <3>5 DEF AgreementInv, InStepInv
  <2>7. CASE ~(socket.conn = c /\ socket.state = "open")
    <3>1. InStepInv'
      BY <1>1, <2>2, <2>4, <2>7 DEF AgreementInv, InStepInv, Active, ActiveIn
    <3>2. QED
      BY <2>3, <2>5, <3>1 DEF AgreementInv
  <2>8. QED
    BY <2>6, <2>7
<1>2. CASE HandleSubscribe(c)
  BY <1>1, <1>2 DEF HandleSubscribe, Subscribe, TypeOK
<1>3. CASE HandleUnsubscribe(c)
  BY <1>1, <1>3 DEF HandleUnsubscribe, Unsubscribe, TypeOK
<1>4. CASE FetchSnapshot(c) \/ SendSnapshot(c)
  <2>1. UNCHANGED <<link, inbox, managerVars, pub>>
    BY <1>4 DEF FetchSnapshot, SendSnapshot
  <2>2. pub.dead \subseteq Conns
    BY DEF TypeOK
  <2>3. QED
    BY <2>1, <2>2, NothingHandedOver DEF managerVars
<1>5. CASE Leave(c) \/ SnapshotFails(c)
  <2>1. End(c)
    BY <1>5 DEF Leave, SnapshotFails
  <2>2. /\ link'[c] = "none" /\ inbox'[c] = <<>> /\ pub' = pub
        /\ \A d \in Conns \ {c} : /\ link'[d] = link[d] /\ inbox'[d] = inbox[d]
                                  /\ connChannels'[d] = connChannels[d]
    BY <2>1 DEF End, Disconnect, TypeOK
  <2>3. pub.dead \subseteq Conns
    BY DEF TypeOK
  <2>4. QED
    BY <2>2, <2>3, NothingHandedOver
<1>6. QED
  BY <1>2, <1>3, <1>4, <1>5 DEF Endpoint

\* Each step of the server or the market keeps the agreement in sight.
LEMMA ServerAgrees ==
  ASSUME TypeOK, BrowserTypeOK, AgreementInv, UNCHANGED <<socket, refs>>,
         Server \/ \E h \in Channels : Market(h)
  PROVE  AgreementInv'
<1>1. CASE Publisher \/ FetchFails
  BY <1>1, Buried, NothingHandedOver
<1>2. CASE \E h \in Channels : Market(h)
  <2>1. UNCHANGED <<link, inbox, managerVars, pub>> /\ pub.dead \subseteq Conns
    BY <1>2 DEF Market, TypeOK
  <2>2. QED
    BY <2>1, NothingHandedOver DEF managerVars
<1>3. QED
  BY <1>1, <1>2, EndpointAgrees DEF Server

\* A frame sent on an open socket tells the server what the browser wants from now
\* on, if it would have agreed with one that wants A.
LEMMA SendAgrees ==
  ASSUME TypeOK, BrowserTypeOK, AgreementInv, NEW op \in {"subscribe", "unsubscribe"},
         NEW K \in SUBSET Channels, NEW A,
         ClientSends(socket.conn, [op |-> op, channels |-> K]),
         socket'.conn = socket.conn, socket'.state = "open",
         \A h \in Channels : Foretold(inbox[socket.conn], h, connChannels[socket.conn], A),
         \A h \in K : h \in Active' <=> op = "subscribe",
         \A h \in Channels \ K : h \in Active' <=> h \in A
  PROVE  AgreementInv'
<1> DEFINE c == socket.conn
           f == [op |-> op, channels |-> K]
<1>1. c \in Conns /\ f \in Frame /\ inbox[c] \in Seq(Frame)
  BY FeedAssumption DEF BrowserTypeOK, Frame, TypeOK
<1>2. /\ link[c] = "open" /\ inbox'[c] = Append(inbox[c], f)
      /\ \A d \in Conns \ {c} : inbox'[d] = inbox[d]
      /\ UNCHANGED <<link, connChannels, pub>>
  BY <1>1 DEF ClientSends, managerVars, TypeOK
<1>3. LinksInv'
  BY <1>2 DEF AgreementInv, LinksInv
<1>4. f.op = op /\ f.channels = K
  OBVIOUS
<1> HIDE DEF f
<1>5. \A h \in Channels : Foretold(Append(inbox[c], f), h, connChannels[c], Active')
  BY <1>1, <1>4, FrameSent
<1>6. InStepInv'
  BY <1>2, <1>5 DEF InStepInv
<1>7. FreshInv'
  BY DEF FreshInv
<1>8. QED
  BY <1>3, <1>6, <1>7 DEF AgreementInv

\* A step of the browser that leaves the server alone.
LEMMA BrowserAlone ==
  ASSUME TypeOK, BrowserTypeOK, AgreementInv, UNCHANGED vars,
         \/ /\ UNCHANGED socket
            /\ socket.state = "open" /\ link[socket.conn] = "open" => Active' = Active
         \/ socket'.state = "null"
         \/ socket'.state = "connecting" /\ link[socket'.conn] = "none"
  PROVE  AgreementInv'
<1>1. UNCHANGED <<link, inbox, connChannels, pub>>
  BY DEF vars, managerVars
<1>2. LinksInv'
  BY <1>1 DEF AgreementInv, LinksInv
<1>3. FreshInv'
  BY <1>1 DEF AgreementInv, FreshInv
<1>4. InStepInv'
  BY <1>1 DEF AgreementInv, InStepInv
<1>5. QED
  BY <1>2, <1>3, <1>4 DEF AgreementInv

\* connect opens a socket on a connection that is none, or does nothing.
LEMMA Opened ==
  ASSUME OpenSocket(token)
  PROVE  \/ UNCHANGED socket
         \/ socket.state = "null" /\ socket'.state = "connecting" /\ link[socket'.conn] = "none"
<1>1. CASE socket.state = "null" /\ token
  <2>1. PICK c \in Conns : link[c] = "none" /\ socket' = [state |-> "connecting", conn |-> c]
    BY <1>1 DEF OpenSocket
  <2>2. socket'.state = "connecting" /\ socket'.conn = c
    BY <2>1
  <2>3. QED
    BY <1>1, <2>1, <2>2
<1>2. CASE ~(socket.state = "null" /\ token)
  BY <1>2 DEF OpenSocket
<1>3. QED
  BY <1>1, <1>2

\* A channel is wanted from its first hook to its last.
LEMMA ActiveMoves ==
  ASSUME BrowserTypeOK, NEW h \in Channels
  PROVE  /\ Mount(h) => Active' = Active \cup {h}
         /\ Mount(h) /\ refs[h] # 0 => Active' = Active
         /\ Unmount(h) /\ refs[h] = 1 => Active' = Active \ {h}
         /\ Unmount(h) /\ refs[h] # 1 => Active' = Active
<1> USE LiveFeedAssumption DEF Active, ActiveIn, BrowserTypeOK
<1>1. Mount(h) => Active' = Active \cup {h}
  BY DEF Mount
<1>2. Mount(h) /\ refs[h] # 0 => Active' = Active
  BY DEF Mount
<1>3. Unmount(h) /\ refs[h] = 1 => Active' = Active \ {h}
  BY DEF Unmount
<1>4. Unmount(h) /\ refs[h] # 1 => Active' = Active
  BY DEF Unmount
<1>5. QED
  BY <1>1, <1>2, <1>3, <1>4

\* Every step of the composition keeps the agreement in sight.
LEMMA StepAgrees ==
  ASSUME TypeOK, BrowserTypeOK, AgreementInv, LiveNext
  PROVE  AgreementInv'
<1>1. CASE ServerStep \/ MarketStep
  BY <1>1, ServerAgrees DEF ServerStep, MarketStep, browserVars
<1>2. CASE Accepted
  <2> DEFINE c == socket.conn
  <2>1. c \in Conns /\ Accept(c) /\ UNCHANGED socket /\ socket.state = "connecting"
    BY <1>2 DEF Accepted, BrowserTypeOK, browserVars
  <2>2. /\ link[c] = "none" /\ c \notin pub.dead /\ UNCHANGED <<inbox, pub>>
        /\ link' = [link EXCEPT ![c] = "open"] /\ connChannels'[c] = {}
    BY <2>1 DEF Accept, Connect, TypeOK
  <2>3. LinksInv' /\ FreshInv' /\ InStepInv'
    BY <2>1, <2>2 DEF AgreementInv, LinksInv, FreshInv, InStepInv, TypeOK
  <2>4. QED
    BY <2>3 DEF AgreementInv
<1>3. CASE OnOpen
  <2>1. /\ socket.state = "connecting" /\ link[socket.conn] = "open"
        /\ socket'.state = "open" /\ socket'.conn = socket.conn /\ Active' = Active
    BY <1>3 DEF OnOpen, BrowserTypeOK, Active, ActiveIn
  <2>2. inbox[socket.conn] = <<>> /\ connChannels[socket.conn] = {}
    BY <2>1 DEF AgreementInv, FreshInv
  <2>3. \A h \in Channels : Foretold(inbox[socket.conn], h, connChannels[socket.conn], {})
    BY <2>2 DEF Foretold, LastAbout
  <2>4. CASE Active = {}
    <3>1. UNCHANGED <<link, inbox, connChannels, pub>>
      BY <1>3, <2>4 DEF OnOpen, serverVars, vars, managerVars
    <3>2. LinksInv' /\ FreshInv' /\ InStepInv'
      BY <2>1, <2>3, <2>4, <3>1 DEF AgreementInv, LinksInv, FreshInv, InStepInv
    <3>3. QED
      BY <3>2 DEF AgreementInv
  <2>5. CASE Active # {}
    <3>1. ClientSends(socket.conn, [op |-> "subscribe", channels |-> Active])
      BY <1>3, <2>5 DEF OnOpen
    <3>2. Active \in SUBSET Channels
      BY DEF Active, ActiveIn
    <3>3. \A h \in Channels \ Active : h \in Active' <=> h \in {}
      BY <2>1
    <3>4. \A h \in Active : h \in Active' <=> "subscribe" = "subscribe"
      BY <2>1
    <3>5. QED
      BY <2>1, <2>3, <3>1, <3>2, <3>3, <3>4, SendAgrees
  <2>6. QED
    BY <2>4, <2>5
<1>4. CASE OnMessage
  <2>1. UNCHANGED <<socket, refs, link, inbox, managerVars, pub>> /\ pub.dead \subseteq Conns
    BY <1>4 DEF OnMessage, ClientReads, TypeOK
  <2>2. QED
    BY <2>1, NothingHandedOver DEF managerVars
<1>5. CASE OnClose
  BY <1>5, BrowserAlone DEF OnClose, NoSocket, serverVars
<1>6. CASE Reconnect
  <2>1. UNCHANGED vars /\ Active' = Active
    BY <1>6 DEF Reconnect, serverVars, Active, ActiveIn
  <2>2. UNCHANGED socket \/ (socket'.state = "connecting" /\ link[socket'.conn] = "none")
    BY <1>6, Opened DEF Reconnect
  <2>3. QED
    BY <2>1, <2>2, BrowserAlone
<1>7. ASSUME NEW h \in Channels, Mount(h) PROVE AgreementInv'
  <2>1. \/ UNCHANGED socket
        \/ socket.state = "null" /\ socket'.state = "connecting" /\ link[socket'.conn] = "none"
    BY <1>7, Opened DEF Mount
  <2>2. CASE refs[h] = 0 /\ socket.state = "open" /\ link[socket.conn] = "open"
    <3>1. ClientSends(socket.conn, [op |-> "subscribe", channels |-> {h}])
      BY <1>7, <2>2 DEF Mount, SendFrame
    <3>2. socket' = socket
      BY <2>1, <2>2
    <3>3. \A k \in Channels : Foretold(inbox[socket.conn], k, connChannels[socket.conn], Active)
      BY <2>2 DEF AgreementInv, InStepInv
    <3>4. Active' = Active \cup {h}
      BY <1>7, ActiveMoves
    <3>5. QED
      BY <2>2, <3>1, <3>2, <3>3, <3>4, SendAgrees
  <2>3. CASE ~(refs[h] = 0 /\ socket.state = "open" /\ link[socket.conn] = "open")
    <3>1. UNCHANGED vars
      BY <1>7, <2>3 DEF Mount, SendFrame, serverVars
    <3>2. refs[h] # 0 => Active' = Active
      BY <1>7, ActiveMoves
    <3>3. QED
      BY <2>1, <2>3, <3>1, <3>2, BrowserAlone
  <2>4. QED
    BY <2>2, <2>3
<1>8. ASSUME NEW h \in Channels, Unmount(h) PROVE AgreementInv'
  <2>1. UNCHANGED socket
    BY <1>8 DEF Unmount
  <2>2. CASE refs[h] = 1 /\ socket.state = "open" /\ link[socket.conn] = "open"
    <3>1. ClientSends(socket.conn, [op |-> "unsubscribe", channels |-> {h}])
      BY <1>8, <2>2 DEF Unmount, SendFrame
    <3>2. \A k \in Channels : Foretold(inbox[socket.conn], k, connChannels[socket.conn], Active)
      BY <2>2 DEF AgreementInv, InStepInv
    <3>3. Active' = Active \ {h}
      BY <1>8, <2>2, ActiveMoves
    <3>4. \A k \in {h} : k \in Active' <=> "unsubscribe" = "subscribe"
      BY <3>3
    <3>5. \A k \in Channels \ {h} : k \in Active' <=> k \in Active
      BY <3>3
    <3>6. QED
      BY <2>1, <2>2, <3>1, <3>2, <3>4, <3>5, SendAgrees
  <2>3. CASE ~(refs[h] = 1 /\ socket.state = "open" /\ link[socket.conn] = "open")
    <3>1. UNCHANGED vars
      BY <1>8, <2>3 DEF Unmount, SendFrame, serverVars
    <3>2. refs[h] # 1 => Active' = Active
      BY <1>8, ActiveMoves
    <3>3. QED
      BY <2>1, <2>3, <3>1, <3>2, BrowserAlone
  <2>4. QED
    BY <2>2, <2>3
<1>9. CASE Login \/ Logout
  <2>1. UNCHANGED vars /\ UNCHANGED <<socket, refs>>
    BY <1>9 DEF Login, Logout, serverVars
  <2>2. QED
    BY <2>1, BrowserAlone DEF Active, ActiveIn
<1>10. ASSUME NEW c \in Conns, BreakLink(c) PROVE AgreementInv'
  <2>1. /\ UNCHANGED <<socket, refs, connChannels, pub>> /\ pub.dead \subseteq Conns
        /\ link' = [link EXCEPT ![c] = "broken"] /\ inbox' = [inbox EXCEPT ![c] = <<>>]
    BY <1>10 DEF BreakLink, Break, browserVars, managerVars, TypeOK
  <2>2. \A d \in Conns \ {c} : link'[d] = link[d] /\ inbox'[d] = inbox[d]
    BY <2>1 DEF TypeOK
  <2>3. link'[c] = "broken" /\ inbox'[c] = <<>>
    BY <2>1 DEF TypeOK
  <2>4. QED
    BY <2>1, <2>2, <2>3, NothingHandedOver
<1>11. QED
  BY <1>1, <1>2, <1>3, <1>4, <1>5, <1>6, <1>7, <1>8, <1>9, <1>10 DEF LiveNext

\* When the frames under way on an open socket are handled, the server has exactly
\* the channels that some hook holds: the frames of liveFeed.ts, one per first and
\* last hook and one per reconnection, add up to what the hooks want.
THEOREM BrowserAndServerAgree == LiveSpec => []Agreement
<1>1. LiveInit => AgreementInv
  <2> SUFFICES ASSUME LiveInit PROVE AgreementInv
    OBVIOUS
  <2>1. inbox = [c \in Conns |-> <<>>] /\ pub.dead = {} /\ socket.state = "null"
    BY DEF LiveInit, Init, NoSocket
  <2>2. QED
    BY <2>1 DEF AgreementInv, LinksInv, FreshInv, InStepInv
<1>2. TypeOK /\ BrowserTypeOK /\ AgreementInv /\ [LiveNext]_allVars => AgreementInv'
  <2>1. CASE UNCHANGED allVars
    BY <2>1, BrowserAlone DEF allVars, serverVars, browserVars, Active, ActiveIn
  <2>2. CASE LiveNext
    BY <2>2, StepAgrees
  <2>3. QED
    BY <2>1, <2>2
<1>3. TypeOK /\ BrowserTypeOK /\ AgreementInv => Agreement
  <2> SUFFICES ASSUME TypeOK, BrowserTypeOK, AgreementInv, socket.state = "open",
                      link[socket.conn] = "open", inbox[socket.conn] = <<>>
               PROVE  connChannels[socket.conn] = Active
    BY DEF Agreement
  <2>1. \A h \in Channels : h \in connChannels[socket.conn] <=> h \in Active
    BY DEF AgreementInv, InStepInv, Foretold, Unmentioned
  <2>2. QED
    BY <2>1 DEF Active, ActiveIn, TypeOK, BrowserTypeOK
<1>4. QED
  BY <1>1, <1>2, <1>3, BrowserTypeInvariance, ServerInvariants, PTL DEF LiveSpec
=============================================================================
