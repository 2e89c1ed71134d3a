------------------------- MODULE BrokerToken_proofs --------------------------
(***************************************************************************)
(* Proofs about BrokerToken, for any number of handlers, choices and       *)
(* restarts, with and without failures.                                    *)
(***************************************************************************)
EXTENDS BrokerToken, TLAPS, WellFoundedInduction

\* A non-empty set of naturals has a least element.
LEMMA LeastNatural ==
  ASSUME NEW T \in SUBSET Nat, T # {}
  PROVE  \E m \in T : \A n \in T : m <= n
<1>1. \E m \in T : \A n \in T : ~(<<n, m>> \in OpToRel(<, Nat))
  BY WFMin, NatLessThanWellFounded, Zenon
<1>2. \A m, n \in T : n < m => <<n, m>> \in OpToRel(<, Nat)
  BY DEF OpToRel
<1>3. \E m \in T : \A n \in T : ~(n < m)
  BY <1>1, <1>2, Zenon
<1>4. QED
  BY <1>3

\* The fields of a row.
LEMMA RowFacts ==
  ASSUME NEW t \in Seq(Row), NEW i \in 1..Len(t)
  PROVE  t[i] \in Row /\ t[i].token \in Nat \ {NoToken} /\ t[i].at \in Nat \ {0}
<1>1. t[i] \in Row
  OBVIOUS
<1>2. QED
  BY <1>1 DEF Row

\* _find returns a row with the latest updated_at.
LEMMA FindFacts ==
  ASSUME NEW c \in Nat, NEW t \in Seq(Row), \A i \in 1..Len(t) : t[i].at <= c
  PROVE  /\ Find(t) \in 0..Len(t)
         /\ t # <<>> => Find(t) \in 1..Len(t)
<1>1. CASE t = <<>>
  BY <1>1 DEF Find
<1>2. CASE t # <<>>
  <2>1. \A i \in 1..Len(t) : t[i].at \in Nat /\ t[i].at <= c
    BY RowFacts
  <2>2. 1 \in 1..Len(t)
    BY <1>2
  <2> DEFINE Ages == {c - t[i].at : i \in 1..Len(t)}
  <2>3. Ages \in SUBSET Nat /\ Ages # {}
    BY <2>1, <2>2
  <2>4. PICK m \in Ages : \A a \in Ages : m <= a
    BY <2>3, LeastNatural
  <2>5. PICK i \in 1..Len(t) : m = c - t[i].at
    BY <2>4
  <2>6. ASSUME NEW j \in 1..Len(t) PROVE t[j].at <= t[i].at
    <3>1. c - t[i].at <= c - t[j].at
      BY <2>4, <2>5
    <3>2. QED
      BY <2>1, <3>1
  <2>7. (CHOOSE k \in 1..Len(t) : \A j \in 1..Len(t) : t[j].at <= t[k].at) \in 1..Len(t)
    BY <2>6, Zenon
  <2>8. QED
    BY <1>2, <2>7 DEF Find
<1>3. QED
  BY <1>1, <1>2

\* A row later than all the others is the one _find returns.
LEMMA FindNewest ==
  ASSUME NEW t, NEW n \in 1..Len(t), t # <<>>, Len(t) \in Nat,
         \A j \in 1..Len(t) : t[j].at \in Nat,
         \A j \in 1..Len(t) \ {n} : t[j].at < t[n].at
  PROVE  Find(t) = n
<1>1. \A j \in 1..Len(t) : t[j].at <= t[n].at
  OBVIOUS
<1>2. \A k \in 1..Len(t) : (\A j \in 1..Len(t) : t[j].at <= t[k].at) => k = n
  OBVIOUS
<1>3. QED
  BY <1>1, <1>2 DEF Find

\* The initial state satisfies the inductive invariant.
LEMMA InitIInv == Init => IInv
<1> SUFFICES ASSUME Init PROVE IInv
  OBVIOUS
<1>1. TypeOK
  BY DEF Init, TypeOK, Idle, Handler, NoToken
<1>2. HandlerInv /\ StampInv /\ AloneInv
  BY DEF Init, HandlerInv, StampInv, AloneInv, Stamped, Idle
<1>3. QED
  BY <1>1, <1>2 DEF IInv

\* Setting a token.
LEMMA SetTokenStep ==
  ASSUME IInv, NEW r \in Requests, SetToken(r)
  PROVE  IInv'
<1>1. /\ TypeOK /\ HandlerInv /\ StampInv /\ AloneInv
      /\ rows' = rows /\ clock' = clock
  BY DEF IInv, SetToken
<1>2. /\ req'[r] \in Handler /\ req'[r].pc = "find" /\ req'[r].row = 0
      /\ req'[r].token # NoToken /\ req'[r].at = 0
      /\ req'[r].alone => \A o \in Requests \ {r} : req[o].pc = "idle"
  <2> DEFINE only == \A o \in Requests \ {r} : req[o].pc = "idle"
  <2>1. req'[r] = [Idle EXCEPT !.pc = "find", !.token = latest + 1, !.alone = only]
    BY DEF SetToken
  <2>2. only \in BOOLEAN /\ latest \in Nat
    BY <1>1 DEF TypeOK
  <2> HIDE DEF only
  <2>3. req'[r] = [pc |-> "find", token |-> latest + 1, row |-> 0, at |-> 0, alone |-> only]
    BY <2>1 DEF Idle
  <2>4. req'[r] \in Handler /\ latest + 1 # NoToken
    BY <2>2, <2>3 DEF Handler, NoToken
  <2>5. QED
    BY <2>3, <2>4 DEF only
<1>3. ASSUME NEW o \in Requests \ {r}
      PROVE  /\ req'[o] \in Handler /\ req'[o].pc = req[o].pc /\ req'[o].row = req[o].row
             /\ req'[o].token = req[o].token /\ req'[o].at = req[o].at /\ ~req'[o].alone
  BY <1>1 DEF SetToken, TypeOK, Handler
<1>4. req' \in [Requests -> Handler]
  BY <1>2, <1>3 DEF SetToken
<1>5. TypeOK'
  <2>1. mem' \in Nat /\ env' \in Nat /\ latest' \in Nat
    <3>1. latest \in Nat /\ env \in Nat
      BY <1>1 DEF TypeOK
    <3>2. mem' = latest + 1 /\ latest' = latest + 1 /\ env' \in {latest + 1, env}
      BY DEF SetToken, WriteEnv
    <3>3. QED
      BY <3>1, <3>2
  <2>2. acked' = acked /\ cleared' = cleared /\ restarts' = restarts
    BY DEF SetToken
  <2>3. QED
    BY <1>1, <1>4, <2>1, <2>2 DEF TypeOK
<1>6. HandlerInv' /\ StampInv'
  BY <1>1, <1>2, <1>3 DEF HandlerInv, StampInv, Stamped, TypeOK
<1>7. AloneInv'
  <2> SUFFICES ASSUME NEW o \in Requests, req'[o].alone, req'[o].pc # "idle"
               PROVE  /\ \A q \in Requests \ {o} : req'[q].pc = "idle"
                      /\ req'[o].pc \notin {"wait", "commit"}
    BY DEF AloneInv, Stamped
  <2>1. o = r
    BY <1>3
  <2>2. QED
    BY <1>2, <1>3, <2>1
<1>8. QED
  BY <1>5, <1>6, <1>7 DEF IInv

\* Looking for the row.
LEMMA FindRowStep ==
  ASSUME IInv, NEW r \in Requests, FindRow(r)
  PROVE  IInv'
<1>1. TypeOK /\ HandlerInv /\ StampInv /\ AloneInv
  BY DEF IInv
<1>2. Find(rows) \in 0..Len(rows)
  BY <1>1, FindFacts DEF TypeOK, StampInv
<1>3. /\ req' = [req EXCEPT ![r].pc = "flush", ![r].row = Find(rows)]
      /\ rows' = rows /\ clock' = clock /\ req[r].pc = "find"
  BY DEF FindRow
<1>4. TypeOK'
  <2>1. req[r] \in Handler
    BY <1>1 DEF TypeOK
  <2>2. Find(rows) \in Nat
    BY <1>1, <1>2 DEF TypeOK
  <2>3. ASSUME NEW h \in Handler, NEW i \in Nat
        PROVE  [h EXCEPT !.pc = "flush", !.row = i] \in Handler
    BY DEF Handler
  <2>4. [req[r] EXCEPT !.pc = "flush", !.row = Find(rows)] \in Handler
    BY <2>1, <2>2, <2>3
  <2>5. req' \in [Requests -> Handler]
    BY <1>1, <1>3, <2>4 DEF TypeOK
  <2>6. QED
    BY <1>1, <2>5 DEF TypeOK, FindRow
<1>5. HandlerInv' /\ StampInv'
  BY <1>1, <1>2, <1>3 DEF HandlerInv, StampInv, Stamped, TypeOK, Handler
<1>6. AloneInv'
  BY <1>1, <1>3 DEF AloneInv, Stamped, TypeOK, Handler
<1>7. QED
  BY <1>4, <1>5, <1>6 DEF IInv

\* Flushing: the new stamp is later than every row.
LEMMA FlushStep ==
  ASSUME IInv, NEW r \in Requests, Flush(r)
  PROVE  IInv'
<1>1. TypeOK /\ HandlerInv /\ StampInv /\ AloneInv
  BY DEF IInv
<1>2. /\ req' = [req EXCEPT ![r].pc = "wait", ![r].at = clock + 1]
      /\ rows' = rows /\ clock' = clock + 1 /\ req[r].pc = "flush" /\ clock \in Nat
  BY <1>1 DEF Flush, TypeOK
<1>3. TypeOK'
  <2>1. req[r] \in Handler
    BY <1>1 DEF TypeOK
  <2>2. clock + 1 \in Nat
    BY <1>2
  <2>3. ASSUME NEW h \in Handler, NEW c \in Nat
        PROVE  [h EXCEPT !.pc = "wait", !.at = c] \in Handler
    BY DEF Handler
  <2>4. [req[r] EXCEPT !.pc = "wait", !.at = clock + 1] \in Handler
    BY <2>1, <2>2, <2>3
  <2>5. req' \in [Requests -> Handler]
    BY <1>1, <1>2, <2>4 DEF TypeOK
  <2>6. QED
    BY <1>1, <1>2, <2>5 DEF TypeOK, Flush
<1>4. ASSUME NEW i \in 1..Len(rows) PROVE rows[i].at \in Nat /\ rows[i].at < clock + 1
  BY <1>1, <1>2, RowFacts DEF StampInv, TypeOK
<1>5. HandlerInv'
  BY <1>1, <1>2 DEF HandlerInv, Stamped, TypeOK, Handler
<1>6. StampInv'
  BY <1>2, <1>4 DEF StampInv
<1>7. AloneInv'
  BY <1>1, <1>2, <1>4 DEF AloneInv, Stamped, TypeOK, Handler
<1>8. QED
  BY <1>3, <1>5, <1>6, <1>7 DEF IInv

\* Running the statement.
LEMMA ExecuteStep ==
  ASSUME IInv, NEW r \in Requests, Execute(r)
  PROVE  IInv'
<1>1. TypeOK /\ HandlerInv /\ StampInv /\ AloneInv
  BY DEF IInv
<1>2. /\ req' = [req EXCEPT ![r].pc = "commit"]
      /\ rows' = rows /\ clock' = clock /\ req[r].pc = "wait"
  BY DEF Execute
<1>3. TypeOK'
  BY <1>1, <1>2 DEF TypeOK, Execute, Handler
<1>4. HandlerInv' /\ StampInv'
  BY <1>1, <1>2 DEF HandlerInv, StampInv, Stamped, TypeOK, Handler
<1>5. AloneInv'
  BY <1>1, <1>2 DEF AloneInv, Stamped, TypeOK, Handler
<1>6. QED
  BY <1>3, <1>4, <1>5 DEF IInv

\* The table after a commit: the committed row at n, the others as they were.
LEMMA CommitFacts ==
  ASSUME IInv, NEW r \in Requests, Commit(r)
  PROVE  LET n == IF req[r].row = 0 THEN Len(rows) + 1 ELSE req[r].row
         IN /\ n \in 1..Len(rows') /\ Len(rows') \in Nat /\ Len(rows') >= Len(rows)
            /\ rows'[n] = [token |-> req[r].token, at |-> req[r].at]
            /\ \A j \in 1..Len(rows') \ {n} : j \in 1..Len(rows) /\ rows'[j] = rows[j]
            /\ rows' \in Seq(Row)
<1> DEFINE row == [token |-> req[r].token, at |-> req[r].at]
<1>1. /\ req[r] \in Handler /\ req[r].row <= Len(rows) /\ req[r].token # NoToken
      /\ req[r].at \in 1..clock /\ clock \in Nat
  BY DEF IInv, TypeOK, HandlerInv, Stamped, Commit
<1>2. /\ req[r].row \in 0..Len(rows) /\ rows \in Seq(Row) /\ Len(rows) \in Nat
      /\ req[r].token \in Nat \ {NoToken} /\ req[r].at \in Nat \ {0}
  BY <1>1 DEF IInv, TypeOK, Handler
<1>3. row \in Row
  BY <1>2 DEF Row
<1>4. rows' = IF req[r].row = 0 THEN Append(rows, row) ELSE [rows EXCEPT ![req[r].row] = row]
  BY DEF Commit
<1> HIDE DEF row
<1>5. CASE req[r].row = 0
  <2>1. rows' = Append(rows, row)
    BY <1>4, <1>5
  <2>2. /\ rows' \in Seq(Row) /\ Len(rows') = Len(rows) + 1
        /\ rows'[Len(rows) + 1] = row
        /\ \A j \in 1..Len(rows) : rows'[j] = rows[j]
    BY <1>2, <1>3, <2>1
  <2>3. QED
    BY <1>2, <1>5, <2>2 DEF row
<1>6. CASE req[r].row # 0
  <2>1. rows' = [rows EXCEPT ![req[r].row] = row] /\ req[r].row \in 1..Len(rows)
    BY <1>2, <1>4, <1>6
  <2>2. /\ rows' \in Seq(Row) /\ Len(rows') = Len(rows)
        /\ rows'[req[r].row] = row
        /\ \A j \in 1..Len(rows) \ {req[r].row} : rows'[j] = rows[j]
    BY <1>2, <1>3, <2>1
  <2>3. QED
    BY <1>2, <1>6, <2>1, <2>2 DEF row
<1>7. QED
  BY <1>5, <1>6

\* A handler that ends leaves no trace but the table.
LEMMA IdleStep ==
  ASSUME IInv, NEW r \in Requests, Acknowledge(r), req[r].pc # "idle",
         clock' = clock, mem' \in Nat, env' = env,
         latest' = latest, cleared' = cleared, restarts' = restarts,
         rows' \in Seq(Row), Len(rows') \in Nat, Len(rows') >= Len(rows), StampInv'
  PROVE  IInv'
<1>1. TypeOK /\ HandlerInv /\ AloneInv /\ req' = [req EXCEPT ![r] = Idle]
  BY DEF IInv, Acknowledge
<1>2. req' \in [Requests -> Handler] /\ acked' \in Nat
  BY <1>1 DEF TypeOK, Idle, Handler, NoToken, Acknowledge
<1>3. TypeOK'
  BY <1>1, <1>2 DEF TypeOK
<1>4. HandlerInv'
  <2> SUFFICES ASSUME NEW o \in Requests
               PROVE  /\ req'[o].pc # "idle" => req'[o].token # NoToken
                      /\ req'[o].row <= Len(rows')
                      /\ req'[o].pc \in {"wait", "commit"} => req'[o].at \in 1..clock'
    BY DEF HandlerInv, Stamped
  <2>1. CASE o = r
    BY <1>1, <2>1 DEF Idle, TypeOK
  <2>2. CASE o # r
    <3>1. req'[o] = req[o] /\ req[o].row \in Nat /\ Len(rows) \in Nat
      BY <1>1, <2>2 DEF TypeOK, Handler
    <3>2. QED
      BY <1>1, <3>1 DEF HandlerInv, Stamped
  <2>3. QED
    BY <2>1, <2>2
<1>5. AloneInv'
  <2> SUFFICES ASSUME NEW o \in Requests, req'[o].pc # "idle" PROVE ~req'[o].alone
    BY DEF AloneInv
  <2>1. o # r /\ req'[o] = req[o]
    BY <1>1 DEF TypeOK, Idle
  <2>2. QED
    BY <1>1, <2>1 DEF AloneInv
<1>6. QED
  BY <1>3, <1>4, <1>5 DEF IInv

\* Committing.
LEMMA CommitStep ==
  ASSUME IInv, NEW r \in Requests, Commit(r)
  PROVE  IInv'
<1> DEFINE n == IF req[r].row = 0 THEN Len(rows) + 1 ELSE req[r].row
<1>1. /\ n \in 1..Len(rows') /\ Len(rows') \in Nat /\ Len(rows') >= Len(rows)
      /\ rows'[n] = [token |-> req[r].token, at |-> req[r].at]
      /\ \A j \in 1..Len(rows') \ {n} : j \in 1..Len(rows) /\ rows'[j] = rows[j]
      /\ rows' \in Seq(Row)
  BY CommitFacts
<1> HIDE DEF n
<1>2. /\ req[r].at \in 1..clock /\ clock' = clock /\ StampInv
  BY DEF IInv, HandlerInv, Stamped, Commit
<1>3. StampInv'
  <2> SUFFICES ASSUME NEW i \in 1..Len(rows') PROVE rows'[i].at <= clock
    BY <1>2 DEF StampInv
  <2>1. CASE i = n
    BY <1>1, <1>2, <2>1
  <2>2. CASE i # n
    BY <1>1, <1>2, <2>2 DEF StampInv
  <2>3. QED
    BY <2>1, <2>2
<1>4. /\ Acknowledge(r) /\ req[r].pc # "idle" /\ mem' \in Nat /\ env' = env /\ latest' = latest
      /\ cleared' = cleared /\ restarts' = restarts
  BY DEF Commit, IInv, TypeOK
<1>5. QED
  BY <1>1, <1>2, <1>3, <1>4, IdleStep

\* A save that fails.
LEMMA FailStep ==
  ASSUME IInv, NEW r \in Requests, Fail(r)
  PROVE  IInv'
<1>1. /\ Acknowledge(r) /\ req[r].pc # "idle" /\ clock' = clock /\ mem' = mem /\ env' = env /\ latest' = latest
      /\ cleared' = cleared /\ restarts' = restarts /\ rows' = rows
  BY DEF Fail
<1>2. mem' \in Nat /\ rows' \in Seq(Row) /\ Len(rows') \in Nat /\ Len(rows') >= Len(rows)
  BY <1>1 DEF IInv, TypeOK
<1>3. StampInv'
  BY <1>1 DEF IInv, StampInv
<1>4. QED
  BY <1>1, <1>2, <1>3, IdleStep

\* Every step keeps the invariant.
LEMMA NextIInv == IInv /\ [Next]_vars => IInv'
<1> SUFFICES ASSUME IInv, [Next]_vars PROVE IInv'
  OBVIOUS
<1>1. ASSUME NEW r \in Requests, SetToken(r) PROVE IInv'
  BY <1>1, SetTokenStep
<1>2. ASSUME NEW r \in Requests, Save(r) PROVE IInv'
  BY <1>2, FindRowStep, FlushStep, ExecuteStep, CommitStep, FailStep DEF Save
<1>3. CASE ClearToken
  <2>1. TypeOK'
    BY <1>3 DEF ClearToken, WriteEnv, IInv, TypeOK, NoToken
  <2>2. HandlerInv' /\ StampInv' /\ AloneInv'
    BY <1>3 DEF ClearToken, IInv, HandlerInv, StampInv, AloneInv, Stamped
  <2>3. QED
    BY <2>1, <2>2 DEF IInv
<1>4. CASE Restart
  <2>1. Hydrated \in Nat
    <3>1. rows # <<>> => Find(rows) \in 1..Len(rows)
      BY FindFacts DEF IInv, TypeOK, StampInv
    <3>2. rows # <<>> => rows[Find(rows)].token \in Nat
      BY <3>1, RowFacts DEF IInv, TypeOK
    <3>3. QED
      BY <3>2 DEF Hydrated, IInv, TypeOK
  <2>2. TypeOK'
    BY <1>4, <2>1 DEF Restart, IInv, TypeOK, Idle, Handler, NoToken
  <2>3. Len(rows) \in Nat
    BY DEF IInv, TypeOK
  <2>4. HandlerInv' /\ StampInv' /\ AloneInv'
    BY <1>4, <2>3 DEF Restart, IInv, HandlerInv, StampInv, AloneInv, Stamped, Idle
  <2>5. QED
    BY <2>2, <2>4 DEF IInv
<1>5. CASE UNCHANGED vars
  BY <1>5 DEF vars, IInv, TypeOK, HandlerInv, StampInv, AloneInv, Stamped
<1>6. QED
  BY <1>1, <1>2, <1>3, <1>4, <1>5 DEF Next

\* The inductive invariant holds in every reachable state.
THEOREM Invariance == Spec => []IInv
<1>1. QED
  BY InitIInv, NextIInv, PTL DEF Spec

\* A save that ran alone and committed is what the next restart uses, for any
\* number of handlers and any history of races, failures and crashes.
THEOREM LoneSaveIsDurable == Spec => LoneSaveSticks
<1>1. IInv /\ [Next]_vars =>
        [\A r \in Requests : Commit(r) /\ req[r].alone => Hydrated' = req[r].token]_vars
  <2> SUFFICES ASSUME IInv, NEW r \in Requests, Commit(r), req[r].alone
               PROVE  Hydrated' = req[r].token
    OBVIOUS
  <2> DEFINE n == IF req[r].row = 0 THEN Len(rows) + 1 ELSE req[r].row
  <2>1. /\ n \in 1..Len(rows') /\ Len(rows') \in Nat
        /\ rows'[n] = [token |-> req[r].token, at |-> req[r].at]
        /\ \A j \in 1..Len(rows') \ {n} : j \in 1..Len(rows) /\ rows'[j] = rows[j]
        /\ rows' \in Seq(Row)
    BY CommitFacts
  <2> HIDE DEF n
  <2>2. \A i \in 1..Len(rows) : rows[i].at < req[r].at
    BY DEF IInv, AloneInv, Stamped, Commit
  <2>3. ASSUME NEW j \in 1..Len(rows') PROVE rows'[j].at \in Nat
    BY <2>1, RowFacts
  <2>4. ASSUME NEW j \in 1..Len(rows') \ {n} PROVE rows'[j].at < rows'[n].at
    <3>1. rows'[j] = rows[j] /\ j \in 1..Len(rows)
      BY <2>1
    <3>2. QED
      BY <2>1, <2>2, <3>1
  <2>5. rows' # <<>>
    BY <2>1
  <2> DEFINE t == rows'
  <2>6. Find(t) = n
    <3> HIDE DEF t
    <3>1. /\ n \in 1..Len(t) /\ t # <<>> /\ Len(t) \in Nat
          /\ \A j \in 1..Len(t) : t[j].at \in Nat
          /\ \A j \in 1..Len(t) \ {n} : t[j].at < t[n].at
      BY <2>1, <2>3, <2>4, <2>5 DEF t
    <3>2. QED
      BY <3>1, FindNewest
  <2>7. QED
    BY <2>1, <2>5, <2>6 DEF Hydrated
<1>2. QED
  BY Invariance, <1>1, PTL DEF Spec, LoneSaveSticks
==============================================================================
