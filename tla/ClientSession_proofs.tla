------------------------ MODULE ClientSession_proofs -------------------------
(***************************************************************************)
(* Proofs about ClientSession: a token is refused to a page only for a     *)
(* cause, for any number of tabs, requests, tokens and faults.             *)
(***************************************************************************)
EXTENDS ClientSession, TLAPS

(* A page is a pair of a tab and a load of it.                             *)
LEMMA PageFacts ==
  /\ \A p \in Pages : /\ p[1] \in Tabs /\ p[2] \in 1..LoadsOf[p[1]]
                      /\ p = <<p[1], p[2]>>
  /\ \A t \in Tabs : \A n \in 1..LoadsOf[t] : <<t, n>> \in Pages
BY DEF Pages

(* The parts of a call.                                                    *)
LEMMA CallFacts ==
  ASSUME NEW c \in Call
  PROVE  /\ c.page \in Pages /\ c.token \in Tokens /\ c.next \in Tokens \cup {NoToken}
         /\ c.phase \in {"sent", "checked", "granted", "refused"} /\ c.heard \in BOOLEAN
         /\ c.token \in Nat /\ c.next \in Nat
         /\ Deaf(c) \in Call /\ ~Deaf(c).heard /\ Deaf(c).page = c.page
         /\ Deaf(c).token = c.token /\ Deaf(c).next = c.next /\ Deaf(c).phase = c.phase
<1>1. /\ c.page \in Pages /\ c.token \in Tokens /\ c.next \in Tokens \cup {NoToken}
      /\ c.phase \in {"sent", "checked", "granted", "refused"} /\ c.heard \in BOOLEAN
  BY DEF Call
<1>2. c.token \in Nat /\ c.next \in Nat
  BY <1>1, AuthAssumption DEF Tokens, NoToken
<1>3. /\ Deaf(c) \in Call /\ ~Deaf(c).heard /\ Deaf(c).page = c.page
      /\ Deaf(c).token = c.token /\ Deaf(c).next = c.next /\ Deaf(c).phase = c.phase
  BY DEF Call, Deaf
<1> QED
  BY <1>1, <1>2, <1>3

(* A new call, of a page for a token that is not none.                     *)
LEMMA NewCallFacts ==
  ASSUME NEW p \in Pages, NEW k \in Tokens
  PROVE  /\ NewCall(p, k) \in Call /\ NewCall(p, k).heard /\ NewCall(p, k).page = p
         /\ NewCall(p, k).token = k /\ NewCall(p, k).next = NoToken
         /\ NewCall(p, k).phase = "sent"
BY DEF NewCall, Call, NoToken

-----------------------------------------------------------------------------
(* Types.                                                                  *)
LEMMA InitTypes == Init => TypeOK
<1> SUFFICES ASSUME Init PROVE TypeOK
  OBVIOUS
<1>1. AuthTypeOK
  BY AuthAssumption DEF Init, AuthInit, AuthTypeOK, Tokens
<1>2. page \in [Tabs -> PageState] /\ \A t \in Tabs : page[t].load <= LoadsOf[t]
  BY AuthAssumption DEF Init, Loaded, PageState, LoginState, LogoutState, NoLogin, NoLogout, Access, NoToken, Tokens
<1>3. /\ DOMAIN request = Tabs
      /\ \A t \in Tabs : request[t] \in [RequestsOf[t] -> {"idle", "stale", "waiting"}]
  BY DEF Init, Idle
<1> QED
  BY <1>1, <1>2, <1>3, AuthAssumption, SessionAssumption DEF Init, TypeOK, Tokens

(* A loaded page is typed; so is one that changes a part.                  *)
LEMMA LoadedTypes == \A n \in Nat : Loaded(n) \in PageState /\ Loaded(n).load = n
BY DEF Loaded, PageState, LoginState, LogoutState, NoLogin, NoLogout, Access, NoToken, Tokens

LEMMA RestoringTypes ==
  ASSUME NEW n \in Nat, NEW k \in Tokens
  PROVE  LET p == [Loaded(n) EXCEPT !.restoring = TRUE, !.flight = k]
         IN  p \in PageState /\ p.load = n /\ p.flight = k /\ p.access = "none"
             /\ p.login = NoLogin /\ p.logout = NoLogout
<1> DEFINE q == [Loaded(n) EXCEPT !.restoring = TRUE]
<1>1. /\ Loaded(n) \in PageState /\ Loaded(n).load = n /\ Loaded(n).access = "none"
      /\ Loaded(n).login = NoLogin /\ Loaded(n).logout = NoLogout
  BY LoadedTypes DEF Loaded
<1>2. /\ q \in PageState /\ q.load = n /\ q.access = "none"
      /\ q.login = NoLogin /\ q.logout = NoLogout
  BY <1>1 DEF PageState
<1> HIDE DEF q
<1>3. LET p == [q EXCEPT !.flight = k]
      IN  p \in PageState /\ p.load = n /\ p.flight = k /\ p.access = "none"
          /\ p.login = NoLogin /\ p.logout = NoLogout
  BY <1>2 DEF PageState
<1> QED
  BY <1>3 DEF q

(* A page that changes one part.                                           *)
LEMMA PartTypes ==
  ASSUME NEW p \in PageState
  PROVE  /\ \A l \in LoginState : [p EXCEPT !.login = l] \in PageState
         /\ \A l \in LogoutState : [p EXCEPT !.logout = l] \in PageState
         /\ \A a \in Access : [p EXCEPT !.access = a] \in PageState
         /\ \A k \in Tokens \cup {NoToken} : [p EXCEPT !.flight = k] \in PageState
         /\ \A b \in BOOLEAN : [p EXCEPT !.restoring = b] \in PageState
         /\ \A a \in Access : [p EXCEPT !.me = a] \in PageState
         /\ p.login \in LoginState /\ p.logout \in LogoutState
BY DEF PageState

LEMMA NoPartTypes == NoLogin \in LoginState /\ NoLogout \in LogoutState
BY DEF NoLogin, NoLogout, LoginState, LogoutState, Access

(* The calls, once a tab does not wait for them.                           *)
LEMMA UnheardTypes ==
  ASSUME calls \subseteq Call, NEW t
  PROVE  /\ Unheard(t) \subseteq Call
         /\ \A c \in Unheard(t) :
              \/ c \in calls /\ ~(c.heard /\ c.page[1] = t)
              \/ \E d \in calls : /\ d.heard /\ d.page[1] = t /\ c = Deaf(d)
                                  /\ d.phase \in {"sent", "checked"}
BY CallFacts DEF Unheard

(* What replacing one part of a page leaves alone.                         *)
LEMMA LoginPart ==
  ASSUME NEW p \in PageState, NEW l
  PROVE  LET q == [p EXCEPT !.login = l]
         IN  /\ q.login = l /\ q.load = p.load /\ q.flight = p.flight
             /\ q.logout = p.logout /\ q.access = p.access /\ q.restoring = p.restoring
BY DEF PageState

LEMMA LogoutPart ==
  ASSUME NEW p \in PageState, NEW l
  PROVE  LET q == [p EXCEPT !.logout = l]
         IN  /\ q.logout = l /\ q.load = p.load /\ q.flight = p.flight
             /\ q.login = p.login /\ q.access = p.access /\ q.restoring = p.restoring
BY DEF PageState

LEMMA AccessPart ==
  ASSUME NEW p \in PageState, NEW a
  PROVE  LET q == [p EXCEPT !.access = a]
         IN  /\ q.access = a /\ q.load = p.load /\ q.flight = p.flight
             /\ q.login = p.login /\ q.logout = p.logout /\ q.restoring = p.restoring
BY DEF PageState

LEMMA FlightPart ==
  ASSUME NEW p \in PageState, NEW k
  PROVE  LET q == [p EXCEPT !.flight = k]
         IN  /\ q.flight = k /\ q.load = p.load /\ q.access = p.access
             /\ q.login = p.login /\ q.logout = p.logout /\ q.restoring = p.restoring
BY DEF PageState

LEMMA RestoringPart ==
  ASSUME NEW p \in PageState, NEW b
  PROVE  LET q == [p EXCEPT !.restoring = b]
         IN  /\ q.restoring = b /\ q.load = p.load /\ q.access = p.access
             /\ q.login = p.login /\ q.logout = p.logout /\ q.flight = p.flight
BY DEF PageState

LEMMA MePart ==
  ASSUME NEW p \in PageState, NEW a
  PROVE  LET q == [p EXCEPT !.me = a]
         IN  /\ q.me = a /\ q.load = p.load /\ q.access = p.access
             /\ q.login = p.login /\ q.logout = p.logout /\ q.flight = p.flight
BY DEF PageState

(* The parts of a page in a typed state.                                   *)
LEMMA PageTypes ==
  ASSUME TypeOK, NEW t \in Tabs
  PROVE  /\ page[t] \in PageState /\ page[t].load \in 0..LoadsOf[t]
         /\ page[t].flight \in Tokens \cup {NoToken}
         /\ page[t].login \in LoginState /\ page[t].login.access \in Access
         /\ page[t].login.token \in Tokens \cup {NoToken}
         /\ page[t].login.phase \in {"idle", "asked", "me"}
         /\ page[t].logout \in LogoutState
         /\ page[t].logout.token \in Tokens \cup {NoToken}
<1>1. page[t] \in PageState /\ page[t].load <= LoadsOf[t] /\ LoadsOf[t] \in Nat
  BY AuthAssumption DEF TypeOK
<1>2. /\ page[t].load \in Nat /\ page[t].flight \in Tokens \cup {NoToken}
      /\ page[t].login \in LoginState /\ page[t].logout \in LogoutState
  BY <1>1 DEF PageState
<1>3. /\ page[t].login.access \in Access /\ page[t].login.token \in Tokens \cup {NoToken}
      /\ page[t].login.phase \in {"idle", "asked", "me"}
      /\ page[t].logout.token \in Tokens \cup {NoToken}
  BY <1>2 DEF LoginState, LogoutState
<1> QED
  BY <1>1, <1>2, <1>3

-----------------------------------------------------------------------------
(* A quiet step issues, exchanges and revokes nothing, and begins no call. *)
PartsQuiet(t) ==
  /\ page'[t].load = page[t].load
  /\ page'[t].login.token \in {page[t].login.token, NoToken}
  /\ page'[t].login.phase = "me" => page'[t].login.token # NoToken
  /\ page'[t].logout.token \in {page[t].logout.token, stored, NoToken}
  /\ page[t].load = 0 => /\ page'[t].access = "none" /\ page'[t].login.phase = "idle"
                        /\ \A r \in RequestsOf[t] : request'[t][r] = "idle"

CallsQuiet ==
  /\ \A c \in calls' :
       \/ c \in calls /\ (c.heard => page'[c.page[1]].flight = page[c.page[1]].flight)
       \/ \E d \in calls : /\ c = Deaf(d) /\ d.phase \in {"sent", "checked"}
                           /\ <<d.page, d.token>> \in lost'
  /\ \A c \in calls : c.heard /\ c.phase = "granted" =>
       c \in calls' \/ <<c.page, c.token>> \in lost'

Quiet ==
  /\ UNCHANGED <<issued, valid, exchangedBy, signedOut, putBack>>
  /\ lost \subseteq lost' /\ stored' \in {stored, NoToken}
  /\ \A t \in Tabs : PartsQuiet(t)
  /\ CallsQuiet

(* A quiet step keeps the invariant.                                       *)
LEMMA QuietStep ==
  ASSUME IInv, TypeOK', Quiet
  PROVE  IInv'
<1> USE DEF Quiet
<1>1. /\ TypeOK /\ calls \subseteq Call /\ calls' \subseteq Call
      /\ stored \in Tokens \cup {NoToken} /\ issued \in Nat /\ valid \subseteq 1..issued
  BY DEF IInv, TypeOK, AuthTypeOK
<1>2. /\ \A c \in Call : c.page \in Pages /\ c.token \in Nat /\ c.next \in Nat /\ c.token # NoToken
      /\ \A c \in Call : /\ ~Deaf(c).heard /\ Deaf(c).page = c.page /\ Deaf(c).token = c.token
                         /\ Deaf(c).next = c.next /\ Deaf(c).phase = c.phase
      /\ \A p \in Pages : p[1] \in Tabs /\ p[2] \in Nat
  BY CallFacts, PageFacts, AuthAssumption DEF Tokens, NoToken
(* The causes of before remain, and so does each call, but for its hearer. *)
<1>3. \A p, k : Cause(p, k) => Cause(p, k)'
  BY DEF Cause
<1>4. \A c \in calls' :
        \E d \in calls : /\ c.page = d.page /\ c.token = d.token /\ c.next = d.next
                         /\ c.phase = d.phase
                         /\ c = d \/ (~c.heard /\ d.phase \in {"sent", "checked"})
  <2> SUFFICES ASSUME NEW c \in calls'
               PROVE  \E d \in calls :
                        /\ c.page = d.page /\ c.token = d.token /\ c.next = d.next
                        /\ c.phase = d.phase
                        /\ c = d \/ (~c.heard /\ d.phase \in {"sent", "checked"})
    OBVIOUS
  <2>1. CASE c \in calls
    BY <2>1
  <2>2. ASSUME NEW d \in calls, c = Deaf(d), d.phase \in {"sent", "checked"}
        PROVE  /\ c.page = d.page /\ c.token = d.token /\ c.next = d.next
               /\ c.phase = d.phase /\ ~c.heard
    BY <1>1, <1>2, <2>2
  <2>3. c \in calls \/ \E d \in calls : c = Deaf(d) /\ d.phase \in {"sent", "checked"}
    BY DEF CallsQuiet
  <2> QED
    BY <2>1, <2>2, <2>3
<1>5. \A c \in calls' : c.heard =>
        c \in calls /\ page'[c.page[1]].flight = page[c.page[1]].flight
  <2> SUFFICES ASSUME NEW c \in calls', c.heard
               PROVE  c \in calls /\ page'[c.page[1]].flight = page[c.page[1]].flight
    OBVIOUS
  <2>1. \A d \in calls : c # Deaf(d)
    BY <1>1, <1>2
  <2> QED
    BY <2>1 DEF CallsQuiet
<1>6. UsedInv'
  <2>1. stored' <= issued' /\ NoToken <= issued
    BY <1>1 DEF IInv, UsedInv, NoToken
  <2>2. \A c \in calls' : c.token <= issued' /\ c.next <= issued'
    BY <1>4 DEF IInv, UsedInv
  <2>3. ASSUME NEW t \in Tabs
        PROVE  /\ page'[t].login.token <= issued' /\ page'[t].logout.token <= issued'
               /\ page'[t].login.phase = "me" => page'[t].login.token # NoToken
    <3>1. page[t].login.token <= issued /\ page[t].logout.token <= issued /\ stored <= issued
      BY DEF IInv, UsedInv
    <3>2. PartsQuiet(t)
      OBVIOUS
    <3> QED
      BY <3>1, <3>2, <2>1 DEF PartsQuiet
  <2> QED
    BY <2>1, <2>2, <2>3 DEF UsedInv
<1>7. ClosedInv'
  BY DEF ClosedInv, PartsQuiet
<1>8. FlightInv'
  <2>1. \A t \in Tabs : PageOf(t)' = PageOf(t)
    BY DEF PageOf, PartsQuiet
  <2> QED
    BY <1>1, <1>2, <1>5, <2>1 DEF IInv, FlightInv
<1>9. DeafInv'
  <2> SUFFICES ASSUME NEW c \in calls', ~c.heard
               PROVE  /\ c.phase \in {"sent", "checked"}
                      /\ <<c.page, c.token>> \in lost' \/ c.page[2] < page'[c.page[1]].load
    BY DEF DeafInv
  <2>1. CASE c \in calls
    BY <1>1, <1>2, <2>1 DEF IInv, DeafInv, PartsQuiet
  <2>2. CASE c \notin calls
    <3>1. PICK d \in calls : /\ c = Deaf(d) /\ d.phase \in {"sent", "checked"}
                             /\ <<d.page, d.token>> \in lost'
      BY <2>2 DEF CallsQuiet
    <3>2. Deaf(d).page = d.page /\ Deaf(d).token = d.token /\ Deaf(d).phase = d.phase
      BY <1>1, <1>2
    <3>3. c.page = d.page /\ c.token = d.token /\ c.phase = d.phase
      BY <3>1, <3>2, Zenon
    <3> QED
      BY <3>1, <3>3
  <2> QED
    BY <2>1, <2>2
<1>10. FreshInv'
  <2> SUFFICES ASSUME NEW c \in calls', c.phase = "granted"
               PROVE  /\ c.next \in valid' /\ c.next # stored'
                      /\ \A d \in calls' : d.token # c.next /\ (d.next = c.next => d = c)
                      /\ \A t \in Tabs : /\ page'[t].login.token # c.next
                                        /\ page'[t].logout.token # c.next
    BY DEF FreshInv
  <2>1. c \in calls
    BY <1>4
  <2>2. /\ c.next \in valid /\ c.next # stored /\ c.next # NoToken
        /\ \A d \in calls : d.token # c.next /\ (d.next = c.next => d = c)
        /\ \A t \in Tabs : page[t].login.token # c.next /\ page[t].logout.token # c.next
    BY <1>1, <2>1 DEF IInv, FreshInv, NoToken
  <2>3. \A d \in calls' : d.token # c.next /\ (d.next = c.next => d = c)
    BY <1>4, <2>2
  <2>4. \A t \in Tabs : page'[t].login.token # c.next /\ page'[t].logout.token # c.next
    BY <2>2 DEF PartsQuiet
  <2> QED
    BY <2>2, <2>3, <2>4
<1>11. CallInv' /\ RefusedForCause'
  BY <1>3, <1>5 DEF IInv, CallInv, RefusedForCause
<1>12. StoredInv'
  <2> SUFFICES ASSUME stored' # NoToken, stored' \notin valid', NEW t \in Tabs,
                      NEW n \in 1..LoadsOf[t], n >= page'[t].load
               PROVE  \/ Cause(<<t, n>>, stored)'
                      \/ \E c \in calls' : /\ c.heard /\ c.phase = "granted"
                                          /\ c.page = <<t, n>> /\ c.token = stored'
    BY DEF StoredInv, Cause
  <2>1. stored' = stored /\ n >= page[t].load
    BY DEF PartsQuiet
  <2>2. \/ Cause(<<t, n>>, stored)
        \/ \E c \in calls : /\ c.heard /\ c.phase = "granted"
                           /\ c.page = <<t, n>> /\ c.token = stored
    BY <2>1 DEF IInv, StoredInv
  <2>3. ASSUME NEW c \in calls, c.heard, c.phase = "granted", c.page = <<t, n>>, c.token = stored,
               c \notin calls'
        PROVE  Cause(<<t, n>>, stored)'
    BY <2>1, <2>3 DEF Cause, CallsQuiet
  <2>4. Cause(<<t, n>>, stored) => Cause(<<t, n>>, stored)'
    BY <2>1 DEF Cause
  <2> QED
    BY <2>1, <2>2, <2>3, <2>4
<1> QED
  BY <1>6, <1>7, <1>8, <1>9, <1>10, <1>11, <1>12 DEF IInv

-----------------------------------------------------------------------------
(* A quiet step of one page: what the page becomes, and its requests.      *)
PageQuiet(t, q) ==
  /\ q \in PageState /\ q.load = page[t].load
  /\ q.login.token \in {page[t].login.token, NoToken}
  /\ q.login.phase = "me" => q.login.token # NoToken
  /\ q.logout.token \in {page[t].logout.token, stored, NoToken}
  /\ page[t].load = 0 => q.access = "none" /\ q.login.phase = "idle"

RequestsQuiet(t) ==
  /\ DOMAIN request' = Tabs
  /\ request'[t] \in [RequestsOf[t] -> {"idle", "stale", "waiting"}]
  /\ \A u \in Tabs \ {t} : request'[u] = request[u]
  /\ page[t].load = 0 => \A r \in RequestsOf[t] : request'[t][r] = "idle"

LEMMA OnePageQuiet ==
  ASSUME IInv, NEW t \in Tabs, NEW q, PageQuiet(t, q), page' = [page EXCEPT ![t] = q],
         RequestsQuiet(t), UNCHANGED <<issued, valid, exchangedBy, signedOut, putBack>>,
         lost \subseteq lost', lost' \subseteq Pages \X Tokens, stored' \in {stored, NoToken},
         faults' \in 0..MaxFaults, calls' \subseteq Call, CallsQuiet
  PROVE  IInv'
<1> USE DEF PageQuiet
<1>1. TypeOK
  BY DEF IInv
<1>2. /\ page' \in [Tabs -> PageState] /\ page'[t] = q
      /\ \A u \in Tabs \ {t} : page'[u] = page[u]
  BY <1>1 DEF TypeOK
<1>3. \A u \in Tabs : page'[u].load = page[u].load
  BY <1>2
<1>4. TypeOK'
  <2>1. AuthTypeOK' /\ stored' \in Tokens \cup {NoToken} /\ putBack' \subseteq Tokens
    BY <1>1 DEF TypeOK, AuthTypeOK
  <2>2. \A u \in Tabs : request'[u] \in [RequestsOf[u] -> {"idle", "stale", "waiting"}]
    BY <1>1 DEF TypeOK, RequestsQuiet
  <2>3. \A u \in Tabs : page'[u].load <= LoadsOf[u]
    BY <1>1, <1>3 DEF TypeOK
  <2> QED
    BY <1>2, <2>1, <2>2, <2>3 DEF TypeOK, RequestsQuiet
<1>5. ASSUME NEW u \in Tabs PROVE PartsQuiet(u)
  <2>1. CASE u = t
    BY <1>2, <2>1 DEF PartsQuiet, RequestsQuiet
  <2>2. CASE u # t
    <3>1. page'[u] = page[u] /\ request'[u] = request[u]
      BY <1>2, <2>2 DEF RequestsQuiet
    <3>2. page[u].login.phase = "me" => page[u].login.token # NoToken
      BY DEF IInv, UsedInv
    <3>3. page[u].load = 0 => /\ page[u].access = "none" /\ page[u].login.phase = "idle"
                              /\ \A r \in RequestsOf[u] : request[u][r] = "idle"
      BY DEF IInv, ClosedInv
    <3> QED
      BY <3>1, <3>2, <3>3 DEF PartsQuiet
  <2> QED
    BY <2>1, <2>2
<1>6. Quiet
  BY <1>5 DEF Quiet
<1> QED
  BY <1>4, <1>6, QuietStep

(* The calls stay, and the page waits for the same one.                    *)
LEMMA CallsStay ==
  ASSUME IInv, UNCHANGED calls, NEW t \in Tabs, NEW q, q.flight = page[t].flight,
         page' = [page EXCEPT ![t] = q]
  PROVE  CallsQuiet /\ calls' \subseteq Call
<1>1. /\ calls \subseteq Call /\ page \in [Tabs -> PageState]
      /\ \A c \in Call : c.page[1] \in Tabs
  BY CallFacts, PageFacts DEF IInv, TypeOK, AuthTypeOK
<1>2. \A u \in Tabs : page'[u].flight = page[u].flight
  BY <1>1
<1> QED
  BY <1>1, <1>2 DEF CallsQuiet

(* The page no longer waits for its call, which has been answered.         *)
LEMMA CallEnds ==
  ASSUME IInv, NEW t \in Tabs, NEW q, page' = [page EXCEPT ![t] = q],
         NEW c \in InFlight(t), calls' = calls \ {c}, c.phase # "granted"
  PROVE  CallsQuiet /\ calls' \subseteq Call
<1>1. /\ calls \subseteq Call /\ page \in [Tabs -> PageState]
      /\ \A d \in Call : d.page[1] \in Tabs
  BY CallFacts, PageFacts DEF IInv, TypeOK, AuthTypeOK
<1>2. c \in calls /\ c.heard /\ c.page = PageOf(t)
  BY DEF InFlight
<1>3. ASSUME NEW d \in calls', d.heard
      PROVE  page'[d.page[1]].flight = page[d.page[1]].flight
  <2>1. d \in calls /\ d # c /\ d.page = PageOf(d.page[1]) /\ d.page[1] \in Tabs
    BY <1>1, <1>3 DEF IInv, FlightInv
  <2>2. d.page[1] # t
    BY <1>2, <1>3, <2>1 DEF IInv, FlightInv
  <2> QED
    BY <1>1, <2>1, <2>2
<1> QED
  BY <1>1, <1>3 DEF CallsQuiet

(* The page no longer waits for its call, whose answer is lost.            *)
LEMMA CallLost ==
  ASSUME IInv, NEW t \in Tabs, NEW q, page' = [page EXCEPT ![t] = q],
         NEW c \in InFlight(t), calls' = Unheard(t), lost' = lost \cup {<<c.page, c.token>>}
  PROVE  CallsQuiet /\ calls' \subseteq Call /\ lost' \subseteq Pages \X Tokens
<1>1. /\ calls \subseteq Call /\ page \in [Tabs -> PageState] /\ lost \subseteq Pages \X Tokens
      /\ \A d \in Call : d.page[1] \in Tabs /\ ~Deaf(d).heard
      /\ calls' \subseteq Call
  BY CallFacts, PageFacts, UnheardTypes DEF IInv, TypeOK, AuthTypeOK
<1>2. c \in calls /\ c.heard /\ c.page = PageOf(t)
  BY DEF InFlight
<1>3. \A d \in calls : d.heard /\ d.page[1] = t => d = c
  BY <1>2 DEF IInv, FlightInv
<1>4. ASSUME NEW d \in calls' PROVE
        \/ d \in calls /\ (d.heard => page'[d.page[1]].flight = page[d.page[1]].flight)
        \/ \E e \in calls : /\ d = Deaf(e) /\ e.phase \in {"sent", "checked"}
                            /\ <<e.page, e.token>> \in lost'
  <2>1. CASE d \in calls /\ ~(d.heard /\ d.page[1] = t)
    BY <1>1, <2>1
  <2>2. ASSUME NEW e \in calls, e.heard, e.page[1] = t, d = Deaf(e), e.phase \in {"sent", "checked"}
        PROVE  <<e.page, e.token>> \in lost'
    BY <1>3, <2>2
  <2> QED
    BY <1>1, <1>4, <2>1, <2>2, UnheardTypes
<1>5. ASSUME NEW d \in calls, d.heard, d.phase = "granted"
      PROVE  d \in calls' \/ <<d.page, d.token>> \in lost'
  <2>1. CASE d = c
    BY <2>1
  <2>2. CASE d # c
    BY <1>3, <1>5, <2>2 DEF Unheard
  <2> QED
    BY <2>1, <2>2
<1>6. lost' \subseteq Pages \X Tokens
  BY <1>1, <1>2, CallFacts
<1> QED
  BY <1>1, <1>4, <1>5, <1>6 DEF CallsQuiet

(* The page's flight and restore end; or the page is loaded again.         *)
LEMMA FlightEnds ==
  ASSUME IInv, NEW t \in Tabs, page[t].load # 0
  PROVE  LET q == [page[t] EXCEPT !.flight = NoToken, !.restoring = FALSE]
         IN  PageQuiet(t, q) /\ q.flight = NoToken
<1> DEFINE p == [page[t] EXCEPT !.flight = NoToken]
           q == [p EXCEPT !.restoring = FALSE]
<1>1. page[t] \in PageState
  BY PageTypes DEF IInv
<1>2. /\ p \in PageState /\ p.load = page[t].load /\ p.login = page[t].login
      /\ p.logout = page[t].logout /\ p.flight = NoToken
  BY <1>1, PartTypes, FlightPart
<1> HIDE DEF p
<1>3. /\ q \in PageState /\ q.load = page[t].load /\ q.login = page[t].login
      /\ q.logout = page[t].logout /\ q.flight = NoToken
  BY <1>2, PartTypes, RestoringPart
<1> HIDE DEF q
<1>4. page[t].login.phase = "me" => page[t].login.token # NoToken
  BY DEF IInv, UsedInv
<1>5. PageQuiet(t, q)
  BY <1>3, <1>4 DEF PageQuiet
<1> QED
  BY <1>3, <1>5 DEF p, q

LEMMA PageEnds ==
  ASSUME IInv, NEW t \in Tabs
  PROVE  PageQuiet(t, Loaded(page[t].load)) /\ Loaded(page[t].load).flight = NoToken
<1>1. page[t].load \in Nat
  BY PageTypes, AuthAssumption DEF IInv
<1>2. Loaded(page[t].load) \in PageState /\ Loaded(page[t].load).load = page[t].load
  BY <1>1, LoadedTypes
<1> QED
  BY <1>2 DEF PageQuiet, Loaded, NoLogin, NoLogout

(* What clear() and the end of a refresh make of a page and its requests.  *)
LEMMA GiveUpQuiet ==
  ASSUME IInv, NEW t \in Tabs, page[t].load # 0, NEW requests,
         requests \in [RequestsOf[t] -> {"idle", "stale", "waiting"}], GiveUp(t, requests)
  PROVE  /\ stored' = NoToken /\ RequestsQuiet(t)
         /\ \E q : PageQuiet(t, q) /\ q.flight = NoToken /\ page' = [page EXCEPT ![t] = q]
<1>1. stored' = NoToken
  BY DEF GiveUp
<1>2. RequestsQuiet(t)
  BY DEF GiveUp, RequestsQuiet, IInv, TypeOK, Idle
<1>3. CASE View(t) = "login"
  <2> DEFINE q == [page[t] EXCEPT !.flight = NoToken, !.restoring = FALSE]
  <2>1. page' = [page EXCEPT ![t] = q]
    BY <1>3 DEF GiveUp
  <2>2. PageQuiet(t, q) /\ q.flight = NoToken
    BY FlightEnds
  <2> QED
    BY <1>1, <1>2, <2>1, <2>2
<1>4. CASE View(t) # "login"
  <2>1. page' = [page EXCEPT ![t] = Loaded(page[t].load)]
    BY <1>4 DEF GiveUp
  <2> QED
    BY <1>1, <1>2, <2>1, PageEnds
<1> QED
  BY <1>3, <1>4

LEMMA RefreshFailsQuiet ==
  ASSUME IInv, NEW t \in Tabs, page[t].load # 0, NEW refused, RefreshFails(t, refused)
  PROVE  /\ stored' \in {stored, NoToken} /\ RequestsQuiet(t)
         /\ \E q : PageQuiet(t, q) /\ page' = [page EXCEPT ![t] = q]
<1>1. CASE \E r \in RequestsOf[t] : request[t][r] = "waiting"
  <2> DEFINE s == [r \in RequestsOf[t] |-> IF request[t][r] = "waiting" THEN "idle" ELSE request[t][r]]
  <2>1. s \in [RequestsOf[t] -> {"idle", "stale", "waiting"}]
    BY DEF IInv, TypeOK
  <2>2. GiveUp(t, s)
    BY <1>1 DEF RefreshFails
  <2> HIDE DEF s
  <2> QED
    BY <2>1, <2>2, GiveUpQuiet
<1>2. CASE ~\E r \in RequestsOf[t] : request[t][r] = "waiting"
  <2> DEFINE q == [page[t] EXCEPT !.flight = NoToken, !.restoring = FALSE]
  <2>1. /\ page' = [page EXCEPT ![t] = q] /\ UNCHANGED request
        /\ stored' \in {stored, NoToken}
    BY <1>2 DEF RefreshFails
  <2>2. PageQuiet(t, q)
    BY FlightEnds
  <2>3. RequestsQuiet(t)
    BY <2>1 DEF RequestsQuiet, IInv, TypeOK
  <2> QED
    BY <2>1, <2>2, <2>3
<1> QED
  BY <1>1, <1>2

-----------------------------------------------------------------------------
(* The steps that are quiet.                                               *)
LEMMA FlightPage ==
  ASSUME IInv, NEW t \in Tabs, NEW c \in InFlight(t)
  PROVE  c \in calls /\ c \in Call /\ c.heard /\ c.page = PageOf(t) /\ page[t].load # 0
<1>1. c \in calls /\ c \in Call /\ c.heard /\ c.page = PageOf(t)
  BY DEF InFlight, IInv, TypeOK, AuthTypeOK
<1>2. c.page[2] \in 1..LoadsOf[c.page[1]] /\ LoadsOf[c.page[1]] \in Nat
  BY <1>1, CallFacts, PageFacts, AuthAssumption
<1>3. c.page[2] = page[t].load
  BY <1>1 DEF PageOf
<1> QED
  BY <1>1, <1>2, <1>3

LEMMA RefusedStep == ASSUME IInv, NEW t \in Tabs, RefreshRefused(t) PROVE IInv'
<1>1. PICK c \in InFlight(t) :
        /\ c.phase = "refused" /\ calls' = calls \ {c} /\ RefreshFails(t, TRUE)
        /\ UNCHANGED <<issued, valid, exchangedBy, signedOut, lost, putBack, faults>>
  BY DEF RefreshRefused
<1>2. PICK q : PageQuiet(t, q) /\ page' = [page EXCEPT ![t] = q]
  BY <1>1, FlightPage, RefreshFailsQuiet
<1>3. stored' \in {stored, NoToken} /\ RequestsQuiet(t)
  BY <1>1, FlightPage, RefreshFailsQuiet
<1>4. CallsQuiet /\ calls' \subseteq Call
  BY <1>1, <1>2, CallEnds
<1>5. lost' \subseteq Pages \X Tokens /\ faults' \in 0..MaxFaults
  BY <1>1 DEF IInv, TypeOK
<1> QED
  BY <1>1, <1>2, <1>3, <1>4, <1>5, OnePageQuiet

LEMMA ErrorStep == ASSUME IInv, NEW t \in Tabs, RefreshError(t) PROVE IInv'
<1>1. PICK c \in InFlight(t) :
        /\ c.phase = "checked" /\ calls' = calls \ {c} /\ RefreshFails(t, FALSE)
        /\ UNCHANGED <<issued, valid, exchangedBy, signedOut, lost, putBack, faults>>
  BY DEF RefreshError
<1>2. PICK q : PageQuiet(t, q) /\ page' = [page EXCEPT ![t] = q]
  BY <1>1, FlightPage, RefreshFailsQuiet
<1>3. stored' \in {stored, NoToken} /\ RequestsQuiet(t)
  BY <1>1, FlightPage, RefreshFailsQuiet
<1>4. CallsQuiet /\ calls' \subseteq Call
  BY <1>1, <1>2, CallEnds
<1>5. lost' \subseteq Pages \X Tokens /\ faults' \in 0..MaxFaults
  BY <1>1 DEF IInv, TypeOK
<1> QED
  BY <1>1, <1>2, <1>3, <1>4, <1>5, OnePageQuiet

LEMMA LostStep == ASSUME IInv, NEW t \in Tabs, RefreshLost(t) PROVE IInv'
<1>1. PICK c \in InFlight(t) :
        /\ faults < MaxFaults /\ faults' = faults + 1 /\ calls' = Unheard(t)
        /\ lost' = lost \cup {<<c.page, c.token>>} /\ RefreshFails(t, FALSE)
        /\ UNCHANGED <<issued, valid, exchangedBy, signedOut, putBack>>
  BY DEF RefreshLost
<1>2. PICK q : PageQuiet(t, q) /\ page' = [page EXCEPT ![t] = q]
  BY <1>1, FlightPage, RefreshFailsQuiet
<1>3. stored' \in {stored, NoToken} /\ RequestsQuiet(t)
  BY <1>1, FlightPage, RefreshFailsQuiet
<1>4. CallsQuiet /\ calls' \subseteq Call /\ lost' \subseteq Pages \X Tokens
  BY <1>1, <1>2, CallLost
<1>5. lost \subseteq lost' /\ faults' \in 0..MaxFaults
  BY <1>1, SessionAssumption DEF IInv, TypeOK
<1> QED
  BY <1>1, <1>2, <1>3, <1>4, <1>5, OnePageQuiet

(* A step that changes a page, no call, no request and no history.         *)
LEMMA OnePageAlone ==
  ASSUME IInv, NEW t \in Tabs, NEW q, PageQuiet(t, q), page' = [page EXCEPT ![t] = q],
         q.flight = page[t].flight, UNCHANGED <<authVars, request, lost, putBack, faults>>,
         stored' \in {stored, NoToken}
  PROVE  IInv'
<1>1. CallsQuiet /\ calls' \subseteq Call
  BY CallsStay DEF authVars
<1>2. RequestsQuiet(t)
  BY DEF RequestsQuiet, IInv, TypeOK, ClosedInv
<1>3. lost' \subseteq Pages \X Tokens /\ faults' \in 0..MaxFaults
  BY DEF IInv, TypeOK
<1> QED
  BY <1>1, <1>2, <1>3, OnePageQuiet DEF authVars

(* The parts of a page that the invariant speaks of.                       *)
LEMMA PageParts ==
  ASSUME IInv, NEW t \in Tabs
  PROVE  /\ page[t] \in PageState /\ page[t].login \in LoginState
         /\ page[t].logout \in LogoutState /\ page[t].login.access \in Access
         /\ page[t].me \in Access
         /\ page[t].login.phase = "me" => page[t].login.token # NoToken
         /\ page[t].load = 0 => page[t].access = "none" /\ page[t].login.phase = "idle"
BY PageTypes DEF IInv, UsedInv, ClosedInv, PageState

LEMMA ExpireStep == ASSUME IInv, NEW t \in Tabs, Expire(t) PROVE IInv'
<1> DEFINE a == IF page[t].login.access = "fresh" THEN "stale" ELSE page[t].login.access
           b == IF page[t].me = "fresh" THEN "stale" ELSE page[t].me
           l == [page[t].login EXCEPT !.access = a]
           p == [page[t] EXCEPT !.access = "stale"]
           o == [p EXCEPT !.me = b]
           q == [o EXCEPT !.login = l]
<1>1. a \in Access /\ b \in Access
  BY PageParts DEF Access
<1>2. /\ p \in PageState /\ p.load = page[t].load /\ p.flight = page[t].flight
      /\ p.login = page[t].login /\ p.logout = page[t].logout /\ p.me = page[t].me
  <2>1. "stale" \in Access /\ page[t] \in PageState
    BY PageParts DEF Access
  <2>2. p \in PageState /\ p.me = page[t].me
    BY <2>1, PartTypes DEF PageState
  <2> QED
    BY <2>1, <2>2, AccessPart
<1> HIDE DEF b
<1>3. /\ o \in PageState /\ o.load = page[t].load /\ o.flight = page[t].flight
      /\ o.login = page[t].login /\ o.logout = page[t].logout
  BY <1>1, <1>2, PartTypes, MePart
<1>4. page' = [page EXCEPT ![t] = q]
  BY <1>2, <1>3 DEF Expire, b
<1> HIDE DEF a, p, o
<1>5. l \in LoginState /\ l.token = page[t].login.token /\ l.phase = page[t].login.phase
  BY <1>1, PageParts DEF LoginState
<1> HIDE DEF l
<1>6. /\ q \in PageState /\ q.load = page[t].load /\ q.flight = page[t].flight
      /\ q.login = l /\ q.logout = page[t].logout
  BY <1>3, <1>5, PartTypes, LoginPart
<1> HIDE DEF q
<1>7. page[t].load # 0
  BY PageParts DEF Expire
<1>8. PageQuiet(t, q)
  BY <1>5, <1>6, <1>7, PageParts DEF PageQuiet
<1> QED
  BY <1>4, <1>6, <1>8, OnePageAlone DEF Expire

LEMMA RequestStep ==
  ASSUME IInv, NEW t \in Tabs, NEW r \in RequestsOf[t], Request(t, r) \/ RequestFails(t, r)
  PROVE  IInv'
<1> DEFINE s == IF Request(t, r) THEN "stale" ELSE "idle"
<1>1. /\ request' = [request EXCEPT ![t][r] = s] /\ s \in {"idle", "stale"}
      /\ UNCHANGED <<authVars, stored, page, lost, putBack, faults>>
  BY DEF Request, RequestFails
<1> HIDE DEF s
<1>2. page[t].load # 0
  BY PageParts DEF Request, RequestFails, IInv, ClosedInv
<1>3. RequestsQuiet(t)
  BY <1>1, <1>2 DEF RequestsQuiet, IInv, TypeOK
<1>4. PageQuiet(t, page[t]) /\ page' = [page EXCEPT ![t] = page[t]]
  BY <1>1, PageParts DEF PageQuiet, IInv, TypeOK
<1>5. CallsQuiet /\ calls' \subseteq Call
  BY <1>1, <1>4, CallsStay DEF authVars
<1>6. lost' \subseteq Pages \X Tokens /\ faults' \in 0..MaxFaults
  BY <1>1 DEF IInv, TypeOK
<1> QED
  BY <1>1, <1>3, <1>4, <1>5, <1>6, OnePageQuiet DEF authVars

LEMMA LoginStep ==
  ASSUME IInv, NEW t \in Tabs, SubmitLogin(t) \/ LoginRefused(t) \/ LoginWithoutUser(t)
  PROVE  IInv'
<1> DEFINE l == IF SubmitLogin(t) THEN [page[t].login EXCEPT !.phase = "asked"] ELSE NoLogin
           q == [page[t] EXCEPT !.login = l]
<1>1. /\ l \in LoginState /\ l.token \in {page[t].login.token, NoToken} /\ l.phase # "me"
  BY PageParts, NoPartTypes DEF LoginState, NoLogin
<1>2. page[t].load = 0 => ~SubmitLogin(t)
  BY DEF SubmitLogin, View
<1>3. page[t].load = 0 => l.phase = "idle"
  BY <1>2 DEF NoLogin
<1>4. page' = [page EXCEPT ![t] = q]
  BY DEF SubmitLogin, LoginRefused, LoginWithoutUser
<1> HIDE DEF l
<1>5. /\ q \in PageState /\ q.load = page[t].load /\ q.flight = page[t].flight
      /\ q.login = l /\ q.logout = page[t].logout /\ q.access = page[t].access
  BY <1>1, PageParts, PartTypes, LoginPart
<1> HIDE DEF q
<1>6. PageQuiet(t, q)
  BY <1>1, <1>3, <1>5, PageParts DEF PageQuiet
<1> QED
  BY <1>4, <1>5, <1>6, OnePageAlone DEF SubmitLogin, LoginRefused, LoginWithoutUser

LEMMA SignOutStep == ASSUME IInv, NEW t \in Tabs, SignOut(t) PROVE IInv'
<1> DEFINE l == [phase |-> IF stored = NoToken THEN "served" ELSE "sent",
                 token |-> stored, authorised |-> page[t].access = "fresh"]
           q == [page[t] EXCEPT !.logout = l]
<1>1. l \in LogoutState /\ l.token = stored
  BY DEF LogoutState, IInv, TypeOK
<1>2. page' = [page EXCEPT ![t] = q]
  BY DEF SignOut
<1> HIDE DEF l
<1>3. /\ q \in PageState /\ q.load = page[t].load /\ q.flight = page[t].flight
      /\ q.login = page[t].login /\ q.logout = l /\ q.access = page[t].access
  BY <1>1, PageParts, PartTypes, LogoutPart
<1> HIDE DEF q
<1>4. PageQuiet(t, q)
  BY <1>1, <1>3, PageParts DEF PageQuiet
<1> QED
  BY <1>2, <1>3, <1>4, OnePageAlone DEF SignOut

LEMMA SignedOutStep == ASSUME IInv, NEW t \in Tabs, SignedOut(t) PROVE IInv'
<1> DEFINE p == [page[t] EXCEPT !.access = "none"]
           q == [p EXCEPT !.logout = NoLogout]
<1>1. "none" \in Access /\ page[t] \in PageState
  BY PageParts DEF Access
<1>2. p \in PageState
  BY <1>1, PartTypes
<1>3. /\ p.load = page[t].load /\ p.flight = page[t].flight /\ p.access = "none"
      /\ p.login = page[t].login
  BY <1>1, AccessPart
<1>4. page' = [page EXCEPT ![t] = q]
  BY DEF SignedOut
<1> HIDE DEF p
<1>5. /\ q \in PageState /\ q.load = page[t].load /\ q.flight = page[t].flight
      /\ q.login = page[t].login /\ q.logout = NoLogout /\ q.access = "none"
  BY <1>2, <1>3, NoPartTypes, PartTypes, LogoutPart
<1> HIDE DEF q
<1>6. PageQuiet(t, q)
  BY <1>5, PageParts DEF PageQuiet, NoLogout
<1> QED
  BY <1>4, <1>5, <1>6, OnePageAlone DEF SignedOut

LEMMA MeRefusedStep == ASSUME IInv, NEW t \in Tabs, MeRefused(t) PROVE IInv'
<1> DEFINE p == [page[t] EXCEPT !.access = "none"]
           q == [p EXCEPT !.me = "none"]
<1>1. "none" \in Access /\ page[t] \in PageState
  BY PageParts DEF Access
<1>2. p \in PageState
  BY <1>1, PartTypes
<1>3. /\ p.load = page[t].load /\ p.flight = page[t].flight /\ p.access = "none"
      /\ p.login = page[t].login /\ p.logout = page[t].logout
  BY <1>1, AccessPart
<1>4. page' = [page EXCEPT ![t] = q]
  BY DEF MeRefused
<1> HIDE DEF p
<1>5. /\ q \in PageState /\ q.load = page[t].load /\ q.flight = page[t].flight
      /\ q.login = page[t].login /\ q.logout = page[t].logout /\ q.access = "none"
  BY <1>1, <1>2, <1>3, PartTypes, MePart
<1> HIDE DEF q
<1>6. PageQuiet(t, q)
  BY <1>5, PageParts DEF PageQuiet
<1>7. CallsQuiet /\ calls' \subseteq Call
  BY <1>4, <1>5, CallsStay DEF MeRefused, authVars
<1>8. RequestsQuiet(t)
  BY DEF MeRefused, RequestsQuiet, IInv, TypeOK, ClosedInv
<1>9. lost' \subseteq Pages \X Tokens /\ faults' \in 0..MaxFaults
  BY SessionAssumption DEF MeRefused, IInv, TypeOK
<1> QED
  BY <1>4, <1>6, <1>7, <1>8, <1>9, OnePageQuiet DEF MeRefused, authVars

(* Joining the rotation under way, and giving up without a token.          *)
LEMMA JoinStep ==
  ASSUME IInv, NEW t \in Tabs, NEW r \in RequestsOf[t], Unauthorised(t, r),
         page[t].flight # NoToken \/ stored = NoToken
  PROVE  IInv'
<1>1. page[t].load # 0 /\ lost' \subseteq Pages \X Tokens /\ faults' \in 0..MaxFaults
  BY DEF Unauthorised, IInv, ClosedInv, TypeOK
<1>2. CASE page[t].flight # NoToken
  <2>1. request' = [request EXCEPT ![t][r] = "waiting"] /\ UNCHANGED <<calls, stored, page>>
    BY <1>2 DEF Unauthorised
  <2>2. RequestsQuiet(t)
    BY <1>1, <2>1 DEF RequestsQuiet, IInv, TypeOK
  <2>3. PageQuiet(t, page[t]) /\ page' = [page EXCEPT ![t] = page[t]]
    BY <2>1, PageParts DEF PageQuiet, IInv, TypeOK
  <2>4. CallsQuiet /\ calls' \subseteq Call
    BY <2>1, <2>3, CallsStay
  <2> QED
    BY <1>1, <2>1, <2>2, <2>3, <2>4, OnePageQuiet DEF Unauthorised
<1>3. CASE page[t].flight = NoToken
  <2> DEFINE s == [request[t] EXCEPT ![r] = "idle"]
  <2>1. s \in [RequestsOf[t] -> {"idle", "stale", "waiting"}]
    BY DEF IInv, TypeOK
  <2>2. GiveUp(t, s) /\ UNCHANGED calls
    BY <1>3 DEF Unauthorised
  <2> HIDE DEF s
  <2>3. PICK q : PageQuiet(t, q) /\ q.flight = NoToken /\ page' = [page EXCEPT ![t] = q]
    BY <1>1, <2>1, <2>2, GiveUpQuiet
  <2>4. stored' = NoToken /\ RequestsQuiet(t)
    BY <1>1, <2>1, <2>2, GiveUpQuiet
  <2>5. CallsQuiet /\ calls' \subseteq Call
    BY <1>3, <2>2, <2>3, CallsStay
  <2> QED
    BY <1>1, <2>3, <2>4, <2>5, OnePageQuiet DEF Unauthorised
<1> QED
  BY <1>2, <1>3

-----------------------------------------------------------------------------
(* The other steps.  First, what the invariant says of the calls.          *)
LEMMA CallParts ==
  ASSUME IInv
  PROVE  /\ issued \in Nat /\ valid \subseteq 1..issued
         /\ stored \in Tokens \cup {NoToken} /\ calls \subseteq Call
         /\ \A c \in calls : /\ c.page \in Pages /\ c.page[1] \in Tabs /\ c.page[2] \in Nat
                            /\ c.page = <<c.page[1], c.page[2]>>
                            /\ c.token \in Tokens /\ c.token \in Nat /\ c.next \in Nat
                            /\ c.heard \in BOOLEAN
                            /\ c.token # NoToken /\ c.token <= issued /\ c.next <= issued
<1>1. /\ issued \in Nat /\ valid \subseteq 1..issued
      /\ stored \in Tokens \cup {NoToken} /\ calls \subseteq Call
  BY DEF IInv, TypeOK, AuthTypeOK
<1> SUFFICES ASSUME NEW c \in calls
             PROVE  /\ c.page \in Pages /\ c.page[1] \in Tabs /\ c.page[2] \in Nat
                    /\ c.page = <<c.page[1], c.page[2]>>
                    /\ c.token \in Tokens /\ c.token \in Nat /\ c.next \in Nat
                    /\ c.heard \in BOOLEAN
                    /\ c.token # NoToken /\ c.token <= issued /\ c.next <= issued
  BY <1>1
<1>2. c.page \in Pages /\ c.token \in Tokens /\ c.token \in Nat /\ c.next \in Nat /\ c.heard \in BOOLEAN
  BY <1>1, CallFacts
<1>3. c.page[1] \in Tabs /\ c.page[2] \in Nat /\ c.page = <<c.page[1], c.page[2]>>
  <2>1. c.page[1] \in Tabs /\ c.page[2] \in 1..LoadsOf[c.page[1]] /\ c.page = <<c.page[1], c.page[2]>>
    BY <1>2, PageFacts
  <2> QED
    BY <2>1
<1>4. c.token # NoToken
  BY <1>2, AuthAssumption DEF Tokens, NoToken
<1>5. c.token <= issued /\ c.next <= issued
  BY DEF IInv, UsedInv
<1> QED
  BY <1>2, <1>3, <1>4, <1>5

(* The SELECT: a call is refused only for the cause that CallInv names.    *)
LEMMA ReadStep ==
  ASSUME IInv, NEW c \in calls, RefreshRead(c),
         UNCHANGED <<stored, page, request, lost, putBack, faults>>
  PROVE  IInv'
<1> DEFINE d == [c EXCEPT !.phase = IF c.token \in valid THEN "checked" ELSE "refused"]
<1>1. /\ c.phase = "sent" /\ UNCHANGED <<issued, valid, exchangedBy, signedOut>>
      /\ calls' = (calls \ {c}) \cup (IF c.token \in valid \/ c.heard THEN {d} ELSE {})
  BY DEF RefreshRead, Moved, Ended
<1>2. c \in Call
  BY CallParts
<1>3. /\ d \in Call /\ d.page = c.page /\ d.token = c.token /\ d.next = c.next
      /\ d.heard = c.heard /\ d.phase = (IF c.token \in valid THEN "checked" ELSE "refused")
  BY <1>2 DEF Call
<1> HIDE DEF d
<1>4. calls' \subseteq (calls \ {c}) \cup {d} /\ calls \ {c} \subseteq calls'
  BY <1>1
<1>5. \A p, k : Cause(p, k)' <=> Cause(p, k)
  BY <1>1 DEF Cause
<1>6. TypeOK'
  BY <1>1, <1>3, <1>4 DEF IInv, TypeOK, AuthTypeOK
<1>7. UsedInv'
  BY <1>1, <1>3, <1>4 DEF IInv, UsedInv
<1>8. ClosedInv'
  BY DEF IInv, ClosedInv
<1>9. FlightInv'
  <2>1. \A e \in calls' : e.heard => e.page = PageOf(e.page[1])' /\ page'[e.page[1]].flight = e.token
    BY <1>3, <1>4 DEF IInv, FlightInv, PageOf
  <2>2. \A e, f \in calls' : e.heard /\ f.heard /\ e.page = f.page => e = f
    BY <1>3, <1>4 DEF IInv, FlightInv
  <2> QED
    BY <2>1, <2>2 DEF FlightInv
<1>10. DeafInv'
  <2> SUFFICES ASSUME NEW e \in calls', ~e.heard
               PROVE  /\ e.phase \in {"sent", "checked"}
                      /\ <<e.page, e.token>> \in lost' \/ e.page[2] < page'[e.page[1]].load
    BY DEF DeafInv
  <2>1. CASE e = d
    BY <1>1, <1>3, <2>1 DEF IInv, DeafInv
  <2>2. CASE e \in calls
    BY <2>2 DEF IInv, DeafInv
  <2> QED
    BY <1>4, <2>1, <2>2
<1>11. FreshInv'
  <2> SUFFICES ASSUME NEW e \in calls', e.phase = "granted"
               PROVE  /\ e.next \in valid /\ e.next # stored
                      /\ \A f \in calls' : f.token # e.next /\ (f.next = e.next => f = e)
                      /\ \A t \in Tabs : page[t].login.token # e.next /\ page[t].logout.token # e.next
    BY <1>1 DEF FreshInv
  <2>1. e \in calls /\ e # c
    BY <1>1, <1>3, <1>4
  <2>2. /\ e.next \in valid /\ e.next # stored
        /\ \A f \in calls : f.token # e.next /\ (f.next = e.next => f = e)
        /\ \A t \in Tabs : page[t].login.token # e.next /\ page[t].logout.token # e.next
    BY <2>1 DEF IInv, FreshInv
  <2> QED
    BY <1>3, <1>4, <2>1, <2>2
<1>12. CallInv' /\ RefusedForCause'
  <2>1. ASSUME NEW e \in calls', e.heard, e.phase = "sent", e.token \notin valid
        PROVE  Cause(e.page, e.token)
    BY <1>3, <1>4, <2>1 DEF IInv, CallInv
  <2>2. ASSUME NEW e \in calls', e.heard, e.phase = "refused" PROVE Cause(e.page, e.token)
    <3>1. CASE e = d
      BY <1>1, <1>3, <2>2, <3>1 DEF IInv, CallInv
    <3>2. CASE e \in calls
      BY <2>2, <3>2 DEF IInv, RefusedForCause
    <3> QED
      BY <1>4, <3>1, <3>2
  <2> QED
    BY <1>1, <1>5, <2>1, <2>2 DEF CallInv, RefusedForCause
<1>13. StoredInv'
  <2> SUFFICES ASSUME stored # NoToken, stored \notin valid, NEW t \in Tabs,
                      NEW n \in 1..LoadsOf[t], n >= page[t].load
               PROVE  \/ Cause(<<t, n>>, stored)
                      \/ \E e \in calls' : /\ e.heard /\ e.phase = "granted"
                                          /\ e.page = <<t, n>> /\ e.token = stored
    BY <1>1, <1>5 DEF StoredInv
  <2>1. \/ Cause(<<t, n>>, stored)
        \/ \E e \in calls : /\ e.heard /\ e.phase = "granted"
                           /\ e.page = <<t, n>> /\ e.token = stored
    BY DEF IInv, StoredInv
  <2> QED
    BY <1>1, <1>4, <2>1
<1> QED
  BY <1>6, <1>7, <1>8, <1>9, <1>10, <1>11, <1>12, <1>13 DEF IInv

(* The COMMIT: whoever may still use the exchanged token has a cause, or   *)
(* is the page whose grant is on its way.                                  *)
LEMMA CommitStep ==
  ASSUME IInv, NEW c \in calls, RefreshCommit(c),
         UNCHANGED <<stored, page, request, lost, putBack, faults>>
  PROVE  IInv'
<1> DEFINE d == [c EXCEPT !.phase = "granted", !.next = issued + 1]
<1>1. /\ c.phase = "checked" /\ issued < MaxTokens /\ issued' = issued + 1
      /\ valid' = (valid \ {c.token}) \cup {issued + 1} /\ UNCHANGED signedOut
      /\ exchangedBy' = [exchangedBy EXCEPT ![c.token] = @ \cup {c.page}]
      /\ calls' = (calls \ {c}) \cup (IF c.heard THEN {d} ELSE {})
  BY DEF RefreshCommit, Ended
<1>2. c \in Call /\ issued \in Nat /\ issued + 1 \in Tokens /\ issued + 1 \in Nat
  BY <1>1, CallParts, AuthAssumption DEF Tokens
<1>3. /\ d \in Call /\ d.page = c.page /\ d.token = c.token /\ d.next = issued + 1
      /\ d.heard = c.heard /\ d.phase = "granted"
  BY <1>2 DEF Call
<1> HIDE DEF d
<1>4. /\ calls' \subseteq (calls \ {c}) \cup {d} /\ calls \ {c} \subseteq calls'
      /\ d \in calls' \/ ~c.heard
      /\ d \in calls' => d.heard \/ d \in calls
  BY <1>1, <1>3
<1>5. exchangedBy \in [Tokens -> SUBSET Pages] /\ c.token \in Tokens /\ c.page \in Pages
  BY CallParts DEF IInv, TypeOK, AuthTypeOK
(* Causes remain; and the exchange is a cause for every other page.        *)
<1>6. /\ \A k \in Tokens : exchangedBy[k] \subseteq exchangedBy'[k]
      /\ c.page \in exchangedBy'[c.token]
  BY <1>1, <1>5
<1>7. \A p : \A k \in Tokens : Cause(p, k) => Cause(p, k)'
  BY <1>1, <1>6 DEF Cause
<1>8. \A p : p # c.page => Cause(p, c.token)'
  BY <1>6 DEF Cause
<1>9. TypeOK'
  <2>1. valid' \subseteq 1..issued' /\ signedOut' \subseteq 1..issued' /\ issued' \in 0..MaxTokens
    <3>1. valid \subseteq 1..issued /\ signedOut \subseteq 1..issued /\ MaxTokens \in Nat
      BY AuthAssumption DEF IInv, TypeOK, AuthTypeOK
    <3>2. issued' \in 0..MaxTokens
      BY <1>1, <1>2, <3>1
    <3>3. 1..issued \subseteq 1..(issued + 1) /\ issued + 1 \in 1..(issued + 1)
      BY <1>2
    <3> QED
      BY <1>1, <3>1, <3>2, <3>3
  <2>2. exchangedBy' \in [Tokens -> SUBSET Pages]
    BY <1>1, <1>5
  <2>3. calls' \subseteq Call
    BY <1>3, <1>4, CallParts
  <2> QED
    BY <2>1, <2>2, <2>3 DEF IInv, TypeOK, AuthTypeOK
<1>10. UsedInv'
  <2>0. stored <= issued /\ stored \in Nat /\ c.token <= issued /\ c.token \in Nat
    BY CallParts, AuthAssumption DEF IInv, UsedInv, Tokens, NoToken
  <2>1. stored <= issued' /\ \A e \in calls' : e.token <= issued' /\ e.next <= issued'
    <3>1. stored <= issued'
      BY <1>1, <1>2, <2>0
    <3>2. \A e \in calls : e.token <= issued' /\ e.next <= issued'
      BY <1>1, <1>2, CallParts
    <3>3. d.token <= issued' /\ d.next <= issued'
      BY <1>1, <1>2, <1>3, <2>0
    <3> QED
      BY <1>4, <3>1, <3>2, <3>3
  <2>2. \A t \in Tabs : /\ page[t].login.token <= issued' /\ page[t].logout.token <= issued'
                        /\ page[t].login.phase = "me" => page[t].login.token # NoToken
    <3> SUFFICES ASSUME NEW t \in Tabs
                 PROVE  /\ page[t].login.token <= issued' /\ page[t].logout.token <= issued'
                        /\ page[t].login.phase = "me" => page[t].login.token # NoToken
      OBVIOUS
    <3>1. /\ page[t].login.token \in Nat /\ page[t].logout.token \in Nat
      BY PageTypes, AuthAssumption DEF IInv, Tokens, NoToken
    <3>2. /\ page[t].login.token <= issued /\ page[t].logout.token <= issued
          /\ page[t].login.phase = "me" => page[t].login.token # NoToken
      BY DEF IInv, UsedInv
    <3> QED
      BY <1>1, <1>2, <3>1, <3>2
  <2>3. UNCHANGED <<stored, page>>
    OBVIOUS
  <2> QED
    BY <2>1, <2>2, <2>3 DEF UsedInv
<1>11. ClosedInv'
  BY DEF IInv, ClosedInv
<1>12. FlightInv'
  <2>1. \A e \in calls' : e.heard => e.page = PageOf(e.page[1])' /\ page'[e.page[1]].flight = e.token
    BY <1>3, <1>4 DEF IInv, FlightInv, PageOf
  <2>2. \A e, f \in calls' : e.heard /\ f.heard /\ e.page = f.page => e = f
    BY <1>3, <1>4 DEF IInv, FlightInv
  <2> QED
    BY <2>1, <2>2 DEF FlightInv
<1>13. DeafInv'
  BY <1>4 DEF IInv, DeafInv
<1>14. FreshInv'
  <2> SUFFICES ASSUME NEW e \in calls', e.phase = "granted"
               PROVE  /\ e.next \in valid' /\ e.next # stored
                      /\ \A f \in calls' : f.token # e.next /\ (f.next = e.next => f = e)
                      /\ \A t \in Tabs : page[t].login.token # e.next /\ page[t].logout.token # e.next
    BY DEF FreshInv
  <2>1. CASE e = d
    <3>1. \A f \in calls : f.token # issued + 1 /\ f.next # issued + 1
      BY <1>2, CallParts
    <3>2. stored # issued + 1 /\ stored <= issued
      BY <1>2, CallParts DEF IInv, UsedInv
    <3>3. \A t \in Tabs : page[t].login.token # issued + 1 /\ page[t].logout.token # issued + 1
      BY <1>2 DEF IInv, UsedInv
    <3> QED
      BY <1>1, <1>3, <1>4, <2>1, <3>1, <3>2, <3>3
  <2>2. CASE e \in calls \ {c}
    <3>1. /\ e.next \in valid /\ e.next # stored
          /\ \A f \in calls : f.token # e.next /\ (f.next = e.next => f = e)
          /\ \A t \in Tabs : page[t].login.token # e.next /\ page[t].logout.token # e.next
      BY <2>2 DEF IInv, FreshInv
    <3>2. e.next # c.token /\ e.next # issued + 1
      BY <1>2, <2>2, <3>1, CallParts
    <3>3. e.next \in valid'
      BY <1>1, <3>1, <3>2
    <3> QED
      BY <1>3, <1>4, <3>1, <3>2, <3>3
  <2> QED
    BY <1>4, <2>1, <2>2
<1>15. CallInv'
  <2> SUFFICES ASSUME NEW e \in calls', e.heard, e.phase = "sent", e.token \notin valid'
               PROVE  Cause(e.page, e.token)'
    BY DEF CallInv
  <2>1. e \in calls /\ e # c /\ e.token \in Tokens
    BY <1>1, <1>3, <1>4, CallParts
  <2>2. CASE e.token # c.token
    <3>1. Cause(e.page, e.token)
      BY <1>1, <2>1, <2>2 DEF IInv, CallInv
    <3> QED
      BY <1>7, <2>1, <3>1
  <2>3. CASE e.token = c.token /\ e.page # c.page
    BY <1>8, <2>3
  <2>4. CASE e.token = c.token /\ e.page = c.page
    <3>1. ~c.heard
      BY <2>1, <2>4 DEF IInv, FlightInv
    <3>2. e.page = PageOf(e.page[1])
      BY <2>1 DEF IInv, FlightInv
    <3>3. e.page[2] = page[e.page[1]].load /\ e.page[2] \in Nat
      BY <2>1, <3>2, CallParts DEF PageOf
    <3>4. <<c.page, c.token>> \in lost
      BY <2>4, <3>1, <3>3 DEF IInv, DeafInv
    <3> QED
      BY <2>4, <3>4 DEF Cause
  <2> QED
    BY <2>2, <2>3, <2>4
<1>16. StoredInv'
  <2> SUFFICES ASSUME stored # NoToken, stored \notin valid', NEW t \in Tabs,
                      NEW n \in 1..LoadsOf[t], n >= page[t].load
               PROVE  \/ Cause(<<t, n>>, stored)'
                      \/ \E e \in calls' : /\ e.heard /\ e.phase = "granted"
                                          /\ e.page = <<t, n>> /\ e.token = stored
    BY DEF StoredInv, Cause
  <2>1. stored \in Tokens
    BY CallParts
  <2>2. CASE stored # c.token
    <3>1. stored \notin valid
      BY <1>1, <2>2
    <3>2. \/ Cause(<<t, n>>, stored)
          \/ \E e \in calls : /\ e.heard /\ e.phase = "granted"
                             /\ e.page = <<t, n>> /\ e.token = stored
      BY <3>1 DEF IInv, StoredInv
    <3> QED
      BY <1>1, <1>4, <1>7, <2>1, <3>2
  <2>3. CASE stored = c.token /\ <<t, n>> # c.page
    BY <1>8, <2>3
  <2>4. CASE stored = c.token /\ <<t, n>> = c.page /\ c.heard
    BY <1>1, <1>3, <2>4
  <2>5. CASE stored = c.token /\ <<t, n>> = c.page /\ ~c.heard
    <3>1. page[t].load \in Nat /\ n \in Nat /\ c.page[1] = t /\ c.page[2] = n
      BY <2>5, PageTypes, AuthAssumption DEF IInv
    <3>2. ~(c.page[2] < page[c.page[1]].load)
      BY <3>1
    <3>3. <<c.page, c.token>> \in lost
      BY <2>5, <3>2 DEF IInv, DeafInv
    <3> QED
      BY <2>5, <3>3 DEF Cause
  <2>6. c.heard \in BOOLEAN
    BY CallParts
  <2> QED
    BY <2>2, <2>3, <2>4, <2>5, <2>6
<1>17. RefusedForCause'
  <2> SUFFICES ASSUME NEW e \in calls', e.heard, e.phase = "refused"
               PROVE  Cause(e.page, e.token)'
    BY DEF RefusedForCause
  <2>1. e \in calls /\ e.token \in Tokens
    BY <1>3, <1>4, CallParts
  <2>2. Cause(e.page, e.token)
    BY <2>1 DEF IInv, RefusedForCause
  <2> QED
    BY <1>7, <2>1, <2>2
<1> QED
  BY <1>9, <1>10, <1>11, <1>12, <1>13, <1>14, <1>15, <1>16, <1>17 DEF IInv

(* A step that changes one page: what stays of the others.                 *)
LEMMA OnePage ==
  ASSUME IInv, NEW t \in Tabs, NEW q \in PageState, page' = [page EXCEPT ![t] = q],
         q.load <= LoadsOf[t]
  PROVE  /\ page' \in [Tabs -> PageState] /\ page'[t] = q
         /\ \A u \in Tabs \ {t} : page'[u] = page[u]
         /\ \A u \in Tabs : page'[u].load <= LoadsOf[u]
<1>1. page \in [Tabs -> PageState] /\ \A u \in Tabs : page[u].load <= LoadsOf[u]
  BY DEF IInv, TypeOK
<1>2. /\ page' \in [Tabs -> PageState] /\ page'[t] = q
      /\ \A u \in Tabs \ {t} : page'[u] = page[u]
  BY <1>1
<1> QED
  BY <1>1, <1>2

(* The refresh begins: its token, if it will be refused, has a cause.      *)
LEMMA BeginStep ==
  ASSUME IInv, NEW t \in Tabs, NEW r \in RequestsOf[t], Unauthorised(t, r),
         page[t].flight = NoToken, stored # NoToken
  PROVE  IInv'
<1> DEFINE q == [page[t] EXCEPT !.flight = stored]
           c == NewCall(PageOf(t), stored)
<1>1. /\ page' = [page EXCEPT ![t] = q] /\ calls' = calls \cup {c}
      /\ request' = [request EXCEPT ![t][r] = "waiting"] /\ request[t][r] = "stale"
      /\ UNCHANGED <<issued, valid, exchangedBy, signedOut, stored, lost, putBack, faults>>
  BY DEF Unauthorised
<1>2. page[t].load \in 1..LoadsOf[t] /\ stored \in Tokens
  <2>1. page[t].load # 0
    BY <1>1 DEF IInv, ClosedInv
  <2> QED
    BY <2>1, PageTypes, CallParts, AuthAssumption DEF IInv
<1>3. PageOf(t) \in Pages /\ PageOf(t)[1] = t /\ PageOf(t)[2] = page[t].load
  BY <1>2, PageFacts DEF PageOf
<1>4. /\ c \in Call /\ c.heard /\ c.page = PageOf(t) /\ c.token = stored /\ c.next = NoToken
      /\ c.phase = "sent"
  BY <1>2, <1>3, NewCallFacts
<1>5. /\ q \in PageState /\ q.load = page[t].load /\ q.flight = stored
      /\ q.login = page[t].login /\ q.logout = page[t].logout /\ q.access = page[t].access
  BY <1>2, PageParts, PartTypes, FlightPart
<1> HIDE DEF q, c
<1>6. /\ page' \in [Tabs -> PageState] /\ page'[t] = q
      /\ \A u \in Tabs \ {t} : page'[u] = page[u]
      /\ \A u \in Tabs : page'[u].load <= LoadsOf[u]
  <2>1. q.load <= LoadsOf[t]
    BY <1>5 DEF IInv, TypeOK
  <2> QED
    BY <1>1, <1>5, <2>1, OnePage
<1>7. \A u \in Tabs : /\ page'[u].load = page[u].load /\ page'[u].login = page[u].login
                      /\ page'[u].logout = page[u].logout /\ page'[u].access = page[u].access
                      /\ PageOf(u)' = PageOf(u)
  BY <1>5, <1>6 DEF PageOf
<1>8. \A p, k : Cause(p, k)' <=> Cause(p, k)
  BY <1>1 DEF Cause
(* Nobody in the page waits for another call.                              *)
<1>9. \A d \in calls : d.heard => d.page[1] # t /\ d.page # PageOf(t)
  <2> SUFFICES ASSUME NEW d \in calls, d.heard PROVE d.page[1] # t
    BY <1>3
  <2>1. page[d.page[1]].flight = d.token /\ d.token # NoToken
    BY CallParts DEF IInv, FlightInv
  <2> QED
    BY <2>1
<1>10. TypeOK'
  BY <1>1, <1>4, <1>6 DEF IInv, TypeOK, AuthTypeOK
<1>11. UsedInv'
  <2>1. /\ stored <= issued /\ NoToken <= issued
        /\ \A d \in calls : d.token <= issued /\ d.next <= issued
    BY CallParts DEF IInv, UsedInv, NoToken
  <2>2. \A u \in Tabs : /\ page[u].login.token <= issued /\ page[u].logout.token <= issued
                        /\ page[u].login.phase = "me" => page[u].login.token # NoToken
    BY DEF IInv, UsedInv
  <2> QED
    BY <1>1, <1>4, <1>7, <2>1, <2>2 DEF UsedInv
<1>12. ClosedInv'
  <2> SUFFICES ASSUME NEW u \in Tabs, page'[u].load = 0
               PROVE  /\ page'[u].access = "none" /\ page'[u].login.phase = "idle"
                      /\ \A s \in RequestsOf[u] : request'[u][s] = "idle"
    BY DEF ClosedInv
  <2>1. u # t
    BY <1>2, <1>7
  <2>2. request'[u] = request[u]
    BY <1>1, <2>1 DEF IInv, TypeOK
  <2> QED
    BY <1>7, <2>2 DEF IInv, ClosedInv
<1>13. FlightInv'
  <2>1. ASSUME NEW d \in calls', d.heard
        PROVE  d.page = PageOf(d.page[1])' /\ page'[d.page[1]].flight = d.token
    <3>1. CASE d = c
      BY <1>3, <1>4, <1>5, <1>6, <1>7, <3>1
    <3>2. CASE d \in calls
      BY <1>6, <1>7, <1>9, <2>1, <3>2, CallParts DEF IInv, FlightInv
    <3> QED
      BY <1>1, <3>1, <3>2
  <2>2. \A d, e \in calls' : d.heard /\ e.heard /\ d.page = e.page => d = e
    BY <1>1, <1>4, <1>9 DEF IInv, FlightInv
  <2> QED
    BY <2>1, <2>2 DEF FlightInv
<1>14. DeafInv'
  <2> SUFFICES ASSUME NEW d \in calls, ~d.heard
               PROVE  /\ d.phase \in {"sent", "checked"}
                      /\ <<d.page, d.token>> \in lost \/ d.page[2] < page'[d.page[1]].load
    BY <1>1, <1>4 DEF DeafInv
  <2> QED
    BY <1>7, CallParts DEF IInv, DeafInv
<1>15. FreshInv'
  <2> SUFFICES ASSUME NEW e \in calls, e.phase = "granted"
               PROVE  /\ e.next \in valid /\ e.next # stored
                      /\ \A f \in calls' : f.token # e.next /\ (f.next = e.next => f = e)
                      /\ \A u \in Tabs : /\ page'[u].login.token # e.next
                                         /\ page'[u].logout.token # e.next
    BY <1>1, <1>4 DEF FreshInv
  <2>1. /\ e.next \in valid /\ e.next # stored
        /\ \A f \in calls : f.token # e.next /\ (f.next = e.next => f = e)
        /\ \A u \in Tabs : page[u].login.token # e.next /\ page[u].logout.token # e.next
    BY DEF IInv, FreshInv
  <2>2. e.next # NoToken
    BY <2>1, CallParts DEF NoToken
  <2> QED
    BY <1>1, <1>4, <1>7, <2>1, <2>2
<1>16. CallInv'
  <2> SUFFICES ASSUME NEW d \in calls', d.heard, d.phase = "sent", d.token \notin valid
               PROVE  Cause(d.page, d.token)
    BY <1>1, <1>8 DEF CallInv
  <2>1. CASE d \in calls
    BY <2>1 DEF IInv, CallInv
  <2>2. CASE d = c
    <3>1. page[t].load >= page[t].load
      BY <1>2
    <3>2. \/ Cause(<<t, page[t].load>>, stored)
          \/ \E e \in calls : e.heard /\ e.page = <<t, page[t].load>>
      BY <1>2, <1>4, <2>2, <3>1 DEF IInv, StoredInv
    <3> QED
      BY <1>4, <1>9, <2>2, <3>2 DEF PageOf
  <2> QED
    BY <1>1, <2>1, <2>2
<1>17. StoredInv'
  <2> SUFFICES ASSUME stored # NoToken, stored \notin valid, NEW u \in Tabs,
                      NEW n \in 1..LoadsOf[u], n >= page[u].load
               PROVE  \/ Cause(<<u, n>>, stored)
                      \/ \E e \in calls' : /\ e.heard /\ e.phase = "granted"
                                          /\ e.page = <<u, n>> /\ e.token = stored
    BY <1>1, <1>7, <1>8 DEF StoredInv
  <2> QED
    BY <1>1 DEF IInv, StoredInv
<1>18. RefusedForCause'
  BY <1>1, <1>4, <1>8 DEF IInv, RefusedForCause
<1> QED
  BY <1>10, <1>11, <1>12, <1>13, <1>14, <1>15, <1>16, <1>17, <1>18 DEF IInv

(* The grant arrives: the token that is stored now is valid.               *)
LEMMA GrantedStep == ASSUME IInv, NEW t \in Tabs, RefreshGranted(t) PROVE IInv'
<1>1. PICK c \in InFlight(t) :
        /\ c.phase = "granted" /\ stored' = c.next /\ calls' = calls \ {c}
        /\ page' = [page EXCEPT ![t].access = "fresh", ![t].flight = NoToken,
                                ![t].restoring = FALSE,
                                ![t].me = IF page[t].restoring THEN "fresh" ELSE @]
        /\ request' = [request EXCEPT ![t] =
                         [r \in RequestsOf[t] |-> IF @[r] = "waiting" THEN "idle" ELSE @[r]]]
        /\ UNCHANGED <<issued, valid, exchangedBy, signedOut, lost, putBack, faults>>
  BY DEF RefreshGranted
<1>2. c \in calls /\ c \in Call /\ c.heard /\ c.page = PageOf(t) /\ page[t].load # 0
  BY <1>1, FlightPage
<1> DEFINE p == [page[t] EXCEPT !.access = "fresh"]
           o == [p EXCEPT !.flight = NoToken]
           n == [o EXCEPT !.restoring = FALSE]
           a == IF page[t].restoring THEN "fresh" ELSE page[t].me
           q == [n EXCEPT !.me = a]
<1>3. page' = [page EXCEPT ![t] = q] /\ a \in Access
  <2>1. p \in PageState /\ o \in PageState /\ n \in PageState /\ a \in Access
    BY PageParts, PartTypes DEF Access
  <2>2. n.me = page[t].me
    BY PageParts DEF PageState
  <2> QED
    BY <1>1, <2>1, <2>2
<1> HIDE DEF a
<1>4. p \in PageState
  <2>1. "fresh" \in Access
    BY DEF Access
  <2> QED
    BY <2>1, PageParts, PartTypes
<1>5. /\ p.load = page[t].load /\ p.login = page[t].login /\ p.logout = page[t].logout
  BY PageParts, AccessPart
<1> HIDE DEF p
<1>6. o \in PageState /\ o.load = page[t].load /\ o.login = page[t].login /\ o.logout = page[t].logout
  BY <1>4, <1>5, PartTypes, FlightPart
<1> HIDE DEF o
<1>7. n \in PageState /\ n.load = page[t].load /\ n.login = page[t].login /\ n.logout = page[t].logout
  BY <1>6, PartTypes, RestoringPart
<1> HIDE DEF n
<1>8. q \in PageState /\ q.load = page[t].load /\ q.login = page[t].login /\ q.logout = page[t].logout
  BY <1>3, <1>7, PartTypes, MePart
<1> HIDE DEF q
<1>9. /\ page' \in [Tabs -> PageState] /\ page'[t] = q
      /\ \A u \in Tabs \ {t} : page'[u] = page[u]
      /\ \A u \in Tabs : page'[u].load <= LoadsOf[u]
  <2>1. q.load <= LoadsOf[t]
    BY <1>8 DEF IInv, TypeOK
  <2> QED
    BY <1>3, <1>8, <2>1, OnePage
<1>10. \A u \in Tabs : /\ page'[u].load = page[u].load /\ page'[u].login = page[u].login
                      /\ page'[u].logout = page[u].logout /\ PageOf(u)' = PageOf(u)
  BY <1>8, <1>9 DEF PageOf
<1>11. \A x, k : Cause(x, k)' <=> Cause(x, k)
  BY <1>1 DEF Cause
<1>12. /\ c.next \in valid /\ \A e \in calls : e.token # c.next /\ (e.next = c.next => e = c)
       /\ \A u \in Tabs : page[u].login.token # c.next /\ page[u].logout.token # c.next
       /\ c.next \in Tokens \cup {NoToken} /\ c.next <= issued
  BY <1>1, <1>2, CallParts, CallFacts DEF IInv, FreshInv
<1>13. TypeOK'
  <2>1. AuthTypeOK' /\ stored' \in Tokens \cup {NoToken}
    BY <1>1, <1>12 DEF IInv, TypeOK, AuthTypeOK
  <2>2. /\ DOMAIN request' = Tabs
        /\ \A u \in Tabs : request'[u] \in [RequestsOf[u] -> {"idle", "stale", "waiting"}]
    BY <1>1 DEF IInv, TypeOK
  <2> QED
    BY <1>1, <1>9, <2>1, <2>2 DEF IInv, TypeOK
<1>14. UsedInv'
  BY <1>1, <1>10, <1>12 DEF IInv, UsedInv
<1>15. ClosedInv'
  <2> SUFFICES ASSUME NEW u \in Tabs, page'[u].load = 0
               PROVE  /\ page'[u].access = "none" /\ page'[u].login.phase = "idle"
                      /\ \A s \in RequestsOf[u] : request'[u][s] = "idle"
    BY DEF ClosedInv
  <2>1. u # t
    BY <1>2, <1>10
  <2>2. request'[u] = request[u] /\ page'[u] = page[u]
    BY <1>1, <1>9, <2>1 DEF IInv, TypeOK
  <2> QED
    BY <2>2 DEF IInv, ClosedInv
<1>16. FlightInv'
  <2>1. ASSUME NEW d \in calls', d.heard
        PROVE  d.page = PageOf(d.page[1])' /\ page'[d.page[1]].flight = d.token
    <3>1. d \in calls /\ d # c
      BY <1>1
    <3>2. d.page = PageOf(d.page[1]) /\ page[d.page[1]].flight = d.token /\ d.page[1] \in Tabs
      BY <2>1, <3>1, CallParts DEF IInv, FlightInv
    <3>3. d.page[1] # t
      BY <1>2, <2>1, <3>1, <3>2 DEF IInv, FlightInv
    <3> QED
      BY <1>9, <1>10, <3>2, <3>3
  <2>2. \A d, e \in calls' : d.heard /\ e.heard /\ d.page = e.page => d = e
    BY <1>1 DEF IInv, FlightInv
  <2> QED
    BY <2>1, <2>2 DEF FlightInv
<1>17. DeafInv'
  BY <1>1, <1>10, CallParts DEF IInv, DeafInv
<1>18. FreshInv'
  <2> SUFFICES ASSUME NEW e \in calls, e # c, e.phase = "granted"
               PROVE  /\ e.next \in valid /\ e.next # c.next
                      /\ \A f \in calls' : f.token # e.next /\ (f.next = e.next => f = e)
                      /\ \A u \in Tabs : /\ page'[u].login.token # e.next
                                         /\ page'[u].logout.token # e.next
    BY <1>1 DEF FreshInv
  <2>1. /\ e.next \in valid
        /\ \A f \in calls : f.token # e.next /\ (f.next = e.next => f = e)
        /\ \A u \in Tabs : page[u].login.token # e.next /\ page[u].logout.token # e.next
    BY DEF IInv, FreshInv
  <2> QED
    BY <1>1, <1>10, <1>12, <2>1
<1>19. CallInv' /\ RefusedForCause'
  BY <1>1, <1>11 DEF IInv, CallInv, RefusedForCause
<1>20. StoredInv'
  BY <1>1, <1>12 DEF StoredInv
<1> QED
  BY <1>13, <1>14, <1>15, <1>16, <1>17, <1>18, <1>19, <1>20 DEF IInv

(* A page is opened: the one before it waits for nothing any more.         *)
LEMMA OpenStep == ASSUME IInv, NEW t \in Tabs, Open(t) PROVE IInv'
<1> DEFINE n == page[t].load + 1
           c == NewCall(<<t, n>>, stored)
           q == IF stored = NoToken THEN Loaded(n)
                ELSE [Loaded(n) EXCEPT !.restoring = TRUE, !.flight = stored]
<1>1. /\ n <= LoadsOf[t] /\ faults' \in {faults, faults + 1} /\ (faults' # faults => faults < MaxFaults)
      /\ request' = [request EXCEPT ![t] = Idle(t)]
      /\ UNCHANGED <<issued, valid, exchangedBy, signedOut, stored, lost, putBack>>
      /\ page' = [page EXCEPT ![t] = q]
      /\ calls' = Unheard(t) \cup (IF stored = NoToken THEN {} ELSE {c})
  BY DEF Open
<1>2. page[t].load \in Nat /\ n \in Nat /\ n \in 1..LoadsOf[t] /\ <<t, n>> \in Pages
  <2>1. page[t].load \in Nat /\ LoadsOf[t] \in Nat
    BY PageTypes, AuthAssumption DEF IInv
  <2>2. n \in Nat /\ n \in 1..LoadsOf[t]
    BY <1>1, <2>1
  <2> QED
    BY <2>1, <2>2, PageFacts
<1>3. stored # NoToken => /\ c \in Call /\ c.heard /\ c.page = <<t, n>> /\ c.token = stored
                          /\ c.next = NoToken /\ c.phase = "sent" /\ stored \in Tokens
  BY <1>2, NewCallFacts, CallParts
<1>4. /\ q \in PageState /\ q.load = n /\ q.login = NoLogin /\ q.logout = NoLogout
      /\ stored # NoToken => q.flight = stored
  <2>1. CASE stored = NoToken
    <3>1. q = Loaded(n)
      BY <2>1
    <3> HIDE DEF n
    <3>2. Loaded(n) \in PageState /\ Loaded(n).load = n
      BY <1>2, LoadedTypes
    <3>3. Loaded(n).login = NoLogin /\ Loaded(n).logout = NoLogout
      BY DEF Loaded
    <3> QED
      BY <2>1, <3>1, <3>2, <3>3
  <2>2. CASE stored # NoToken
    <3> DEFINE k == stored
    <3>1. q = [Loaded(n) EXCEPT !.restoring = TRUE, !.flight = k]
      BY <2>2
    <3>2. k \in Tokens
      BY <1>3, <2>2
    <3> HIDE DEF n, k, q
    <3>3. /\ q \in PageState /\ q.load = n /\ q.flight = k
          /\ q.login = NoLogin /\ q.logout = NoLogout
      BY <1>2, <3>1, <3>2, RestoringTypes
    <3> QED
      BY <3>3 DEF k
  <2> QED
    BY <2>1, <2>2
<1> HIDE DEF q, c
<1>5. /\ page' \in [Tabs -> PageState] /\ page'[t] = q
      /\ \A u \in Tabs \ {t} : page'[u] = page[u]
      /\ \A u \in Tabs : page'[u].load <= LoadsOf[u]
  BY <1>1, <1>4, OnePage
<1>6. \A u \in Tabs \ {t} : PageOf(u)' = PageOf(u)
  BY <1>5 DEF PageOf
<1>7. PageOf(t)' = <<t, n>> /\ PageOf(t) = <<t, page[t].load>>
  BY <1>4, <1>5 DEF PageOf
<1>8. \A x, k : Cause(x, k)' <=> Cause(x, k)
  BY <1>1 DEF Cause
(* The calls of before, but for those of the tab, which nobody hears now.  *)
<1>9. ASSUME NEW d \in calls'
      PROVE  \/ d = c /\ stored # NoToken
             \/ d \in calls /\ ~(d.heard /\ d.page[1] = t)
             \/ \E e \in calls : /\ e.heard /\ e.page[1] = t /\ e.phase \in {"sent", "checked"}
                                 /\ d = Deaf(e)
  BY <1>1, <1>9, CallParts, UnheardTypes
<1>10. \A e \in calls : ~(e.heard /\ e.page[1] = t) => e \in calls'
  BY <1>1 DEF Unheard
<1>11. \A e \in calls : /\ ~Deaf(e).heard /\ Deaf(e).page = e.page /\ Deaf(e).token = e.token
                        /\ Deaf(e).next = e.next /\ Deaf(e).phase = e.phase
  BY CallParts, CallFacts
<1>12. \A e \in calls : e.heard /\ e.page[1] = t => e.page = PageOf(t) /\ e.page[2] = page[t].load
  BY DEF IInv, FlightInv, PageOf
<1>13. TypeOK'
  <2>1. calls' \subseteq Call
    BY <1>1, <1>3, CallParts, UnheardTypes
  <2>2. AuthTypeOK' /\ faults' \in 0..MaxFaults
    BY <1>1, <2>1, SessionAssumption DEF IInv, TypeOK, AuthTypeOK
  <2>3. /\ DOMAIN request' = Tabs
        /\ \A u \in Tabs : request'[u] \in [RequestsOf[u] -> {"idle", "stale", "waiting"}]
    BY <1>1 DEF IInv, TypeOK, Idle
  <2> QED
    BY <1>1, <1>5, <2>2, <2>3 DEF IInv, TypeOK
<1>14. UsedInv'
  <2>1. ASSUME NEW d \in calls' PROVE d.token <= issued /\ d.next <= issued
    <3>1. CASE d = c /\ stored # NoToken
      BY <1>3, <3>1, CallParts DEF IInv, UsedInv, NoToken
    <3>2. CASE d \in calls
      BY <3>2, CallParts
    <3>3. ASSUME NEW e \in calls, d = Deaf(e) PROVE d.token <= issued /\ d.next <= issued
      BY <1>11, <3>3, CallParts
    <3> QED
      BY <1>9, <3>1, <3>2, <3>3
  <2>2. ASSUME NEW u \in Tabs
        PROVE  /\ page'[u].login.token <= issued /\ page'[u].logout.token <= issued
               /\ page'[u].login.phase = "me" => page'[u].login.token # NoToken
    <3>1. CASE u = t
      BY <1>4, <1>5, <3>1, CallParts DEF NoLogin, NoLogout, NoToken
    <3>2. CASE u # t
      BY <1>5, <3>2 DEF IInv, UsedInv
    <3> QED
      BY <3>1, <3>2
  <2>3. stored <= issued
    BY DEF IInv, UsedInv
  <2> QED
    BY <1>1, <2>1, <2>2, <2>3 DEF UsedInv
<1>15. ClosedInv'
  <2> SUFFICES ASSUME NEW u \in Tabs, page'[u].load = 0
               PROVE  /\ page'[u].access = "none" /\ page'[u].login.phase = "idle"
                      /\ \A s \in RequestsOf[u] : request'[u][s] = "idle"
    BY DEF ClosedInv
  <2>1. u # t
    BY <1>2, <1>4, <1>5
  <2>2. request'[u] = request[u] /\ page'[u] = page[u]
    BY <1>1, <1>5, <2>1 DEF IInv, TypeOK
  <2> QED
    BY <2>2 DEF IInv, ClosedInv
<1>16. FlightInv'
  <2>1. \A d \in calls' : d.heard =>
          (d = c /\ stored # NoToken) \/ (d \in calls /\ d.page[1] # t)
    BY <1>9, <1>11
  <2>2. ASSUME NEW d \in calls', d.heard
        PROVE  d.page = PageOf(d.page[1])' /\ page'[d.page[1]].flight = d.token
    <3>1. CASE d = c /\ stored # NoToken
      BY <1>3, <1>4, <1>5, <1>7, <3>1
    <3>2. CASE d \in calls /\ d.page[1] # t
      <4>1. d.page = PageOf(d.page[1]) /\ page[d.page[1]].flight = d.token /\ d.page[1] \in Tabs
        BY <2>2, <3>2, CallParts DEF IInv, FlightInv
      <4> QED
        BY <1>5, <1>6, <3>2, <4>1
    <3> QED
      BY <2>1, <2>2, <3>1, <3>2
  <2>3. ASSUME NEW d \in calls', NEW e \in calls', d.heard, e.heard, d.page = e.page
        PROVE  d = e
    <3>1. stored # NoToken => c.page[1] = t
      BY <1>3
    <3> QED
      BY <2>1, <2>3, <3>1 DEF IInv, FlightInv
  <2> QED
    BY <2>2, <2>3 DEF FlightInv
<1>17. DeafInv'
  <2> SUFFICES ASSUME NEW d \in calls', ~d.heard
               PROVE  /\ d.phase \in {"sent", "checked"}
                      /\ <<d.page, d.token>> \in lost \/ d.page[2] < page'[d.page[1]].load
    BY <1>1 DEF DeafInv
  <2>1. CASE d \in calls
    <3>1. /\ d.phase \in {"sent", "checked"} /\ d.page[1] \in Tabs /\ d.page[2] \in Nat
          /\ <<d.page, d.token>> \in lost \/ d.page[2] < page[d.page[1]].load
      BY <2>1, CallParts DEF IInv, DeafInv
    <3>2. CASE d.page[1] = t
      BY <1>2, <1>4, <1>5, <3>1, <3>2
    <3>3. CASE d.page[1] # t
      BY <1>5, <3>1, <3>3
    <3> QED
      BY <3>2, <3>3
  <2>2. ASSUME NEW e \in calls, e.heard, e.page[1] = t, e.phase \in {"sent", "checked"}, d = Deaf(e)
        PROVE  d.phase \in {"sent", "checked"} /\ d.page[2] < page'[d.page[1]].load
    <3>1. d.phase \in {"sent", "checked"} /\ d.page[1] = t /\ d.page[2] = page[t].load
      BY <1>11, <1>12, <2>2
    <3> QED
      BY <1>2, <1>4, <1>5, <3>1
  <2> QED
    BY <1>3, <1>9, <2>1, <2>2
<1>18. FreshInv'
  <2> SUFFICES ASSUME NEW e \in calls', e.phase = "granted"
               PROVE  /\ e.next \in valid /\ e.next # stored
                      /\ \A f \in calls' : f.token # e.next /\ (f.next = e.next => f = e)
                      /\ \A u \in Tabs : /\ page'[u].login.token # e.next
                                         /\ page'[u].logout.token # e.next
    BY <1>1 DEF FreshInv
  <2>1. e \in calls
    BY <1>3, <1>9, <1>11
  <2>2. /\ e.next \in valid /\ e.next # stored
        /\ \A f \in calls : f.token # e.next /\ (f.next = e.next => f = e)
        /\ \A u \in Tabs : page[u].login.token # e.next /\ page[u].logout.token # e.next
    BY <2>1 DEF IInv, FreshInv
  <2>3. e.next # NoToken
    BY <2>2, CallParts DEF NoToken
  <2>4. ASSUME NEW f \in calls' PROVE f.token # e.next /\ (f.next = e.next => f = e)
    <3>1. CASE f = c /\ stored # NoToken
      BY <1>3, <2>2, <2>3, <3>1
    <3>2. CASE f \in calls
      BY <2>2, <3>2
    <3>3. ASSUME NEW g \in calls, g.phase \in {"sent", "checked"}, f = Deaf(g)
          PROVE  f.token # e.next /\ f.next # e.next
      BY <1>11, <2>2, <3>3
    <3> QED
      BY <1>9, <3>1, <3>2, <3>3
  <2>5. ASSUME NEW u \in Tabs
        PROVE  page'[u].login.token # e.next /\ page'[u].logout.token # e.next
    BY <1>4, <1>5, <2>2, <2>3 DEF NoLogin, NoLogout
  <2> QED
    BY <2>2, <2>4, <2>5
<1>19. CallInv'
  <2> SUFFICES ASSUME NEW d \in calls', d.heard, d.phase = "sent", d.token \notin valid
               PROVE  Cause(d.page, d.token)
    BY <1>1, <1>8 DEF CallInv
  <2>1. CASE d = c /\ stored # NoToken
    <3>1. n >= page[t].load
      BY <1>2
    <3>2. \/ Cause(<<t, n>>, stored)
          \/ \E e \in calls : e.heard /\ e.page = <<t, n>>
      BY <1>2, <1>3, <2>1, <3>1 DEF IInv, StoredInv
    <3>3. \A e \in calls : e.heard => e.page # <<t, n>>
      BY <1>2, <1>12
    <3> QED
      BY <1>3, <2>1, <3>2, <3>3
  <2>2. CASE d \in calls
    BY <2>2 DEF IInv, CallInv
  <2> QED
    BY <1>9, <1>11, <2>1, <2>2
<1>20. StoredInv'
  <2> SUFFICES ASSUME stored # NoToken, stored \notin valid, NEW u \in Tabs,
                      NEW m \in 1..LoadsOf[u], m >= page'[u].load
               PROVE  \/ Cause(<<u, m>>, stored)
                      \/ \E e \in calls' : /\ e.heard /\ e.phase = "granted"
                                          /\ e.page = <<u, m>> /\ e.token = stored
    BY <1>1, <1>8 DEF StoredInv
  <2>1. m >= page[u].load /\ (u = t => m # page[t].load)
    BY <1>2, <1>4, <1>5, AuthAssumption
  <2>2. \/ Cause(<<u, m>>, stored)
        \/ \E e \in calls : /\ e.heard /\ e.phase = "granted"
                           /\ e.page = <<u, m>> /\ e.token = stored
    BY <2>1 DEF IInv, StoredInv
  <2>3. ASSUME NEW e \in calls, e.heard, e.page = <<u, m>> PROVE e \in calls'
    BY <1>10, <1>12, <2>1, <2>3
  <2> QED
    BY <2>2, <2>3
<1>21. RefusedForCause'
  <2> SUFFICES ASSUME NEW d \in calls', d.heard, d.phase = "refused"
               PROVE  Cause(d.page, d.token)
    BY <1>1, <1>8 DEF RefusedForCause
  <2>1. d \in calls
    BY <1>3, <1>9, <1>11
  <2> QED
    BY <2>1 DEF IInv, RefusedForCause
<1> QED
  BY <1>13, <1>14, <1>15, <1>16, <1>17, <1>18, <1>19, <1>20, <1>21 DEF IInv

(* A step that changes no call and no flight keeps what pages wait for.    *)
LEMMA FlightsStay ==
  ASSUME IInv, UNCHANGED calls, lost' = lost,
         \A u \in Tabs : page'[u].load = page[u].load /\ page'[u].flight = page[u].flight
  PROVE  FlightInv' /\ DeafInv'
<1>1. \A u \in Tabs : PageOf(u)' = PageOf(u)
  BY DEF PageOf
<1>2. \A c \in calls : c.page[1] \in Tabs
  BY CallParts
<1> QED
  BY <1>1, <1>2 DEF IInv, FlightInv, DeafInv

(* A login: its token is new, so nobody can be refused it yet.             *)
LEMMA LoginGrantedStep == ASSUME IInv, NEW t \in Tabs, LoginGranted(t) PROVE IInv'
<1> DEFINE k == issued + 1
           l == [phase |-> "me", token |-> k, access |-> "fresh"]
           p == [page[t] EXCEPT !.access = "fresh"]
           q == [p EXCEPT !.login = l]
<1>1. /\ issued < MaxTokens /\ issued' = k /\ valid' = valid \cup {k} /\ stored' = k
      /\ page[t].login.phase = "asked" /\ page' = [page EXCEPT ![t] = q]
      /\ UNCHANGED <<calls, exchangedBy, signedOut, request, lost, putBack, faults>>
  BY DEF LoginGranted, Issue
<1>2. issued \in Nat /\ k \in Nat /\ k \in Tokens /\ k # NoToken /\ k <= MaxTokens
  BY <1>1, CallParts, AuthAssumption DEF Tokens, NoToken
<1>3. page[t].load # 0
  BY <1>1 DEF IInv, ClosedInv
<1>4. l \in LoginState /\ l.token = k
  BY <1>2 DEF LoginState, Access
<1>5. p \in PageState
  <2>1. "fresh" \in Access
    BY DEF Access
  <2> QED
    BY <2>1, PageParts, PartTypes
<1>6. p.load = page[t].load /\ p.flight = page[t].flight /\ p.logout = page[t].logout
  BY PageParts, AccessPart
<1> HIDE DEF p, l
<1>7. /\ q \in PageState /\ q.load = page[t].load /\ q.flight = page[t].flight
      /\ q.login = l /\ q.logout = page[t].logout
  BY <1>4, <1>5, <1>6, PartTypes, LoginPart
<1> HIDE DEF q, k
<1>8. /\ page' \in [Tabs -> PageState] /\ page'[t] = q
      /\ \A u \in Tabs \ {t} : page'[u] = page[u]
      /\ \A u \in Tabs : page'[u].load <= LoadsOf[u]
  <2>1. q.load <= LoadsOf[t]
    BY <1>7 DEF IInv, TypeOK
  <2> QED
    BY <1>1, <1>7, <2>1, OnePage
<1>9. \A u \in Tabs : /\ page'[u].load = page[u].load /\ page'[u].flight = page[u].flight
                      /\ page'[u].logout = page[u].logout
                      /\ page'[u].login.token \in {page[u].login.token, k}
  BY <1>4, <1>7, <1>8
<1>10. \A x, j : Cause(x, j)' <=> Cause(x, j)
  BY <1>1 DEF Cause
<1>11. /\ \A e \in calls : e.token <= issued /\ e.next <= issued /\ e.token \in Nat /\ e.next \in Nat
       /\ \A u \in Tabs : /\ page[u].login.token <= issued /\ page[u].logout.token <= issued
                          /\ page[u].login.token \in Nat /\ page[u].logout.token \in Nat
  <2>1. ASSUME NEW u \in Tabs
        PROVE  /\ page[u].login.token <= issued /\ page[u].logout.token <= issued
               /\ page[u].login.token \in Nat /\ page[u].logout.token \in Nat
    BY PageTypes, AuthAssumption DEF IInv, UsedInv, Tokens, NoToken
  <2> QED
    BY <2>1, CallParts
<1>12. TypeOK'
  <2>1. issued' \in 0..MaxTokens /\ 1..issued \subseteq 1..issued' /\ k \in 1..issued'
    BY <1>1, <1>2 DEF k
  <2>2. valid' \subseteq 1..issued' /\ signedOut' \subseteq 1..issued'
    BY <1>1, <2>1 DEF IInv, TypeOK, AuthTypeOK
  <2> QED
    BY <1>1, <1>2, <1>8, <2>1, <2>2 DEF IInv, TypeOK, AuthTypeOK
<1>13. UsedInv'
  <2>1. issued <= k /\ issued' = k /\ stored' = k
    BY <1>1, <1>2 DEF k
  <2>2. \A e \in calls' : e.token <= issued' /\ e.next <= issued'
    BY <1>1, <1>2, <1>11, <2>1
  <2>3. ASSUME NEW u \in Tabs
        PROVE  /\ page'[u].login.token <= issued' /\ page'[u].logout.token <= issued'
               /\ page'[u].login.phase = "me" => page'[u].login.token # NoToken
    <3>1. CASE u = t
      BY <1>2, <1>4, <1>7, <1>8, <1>11, <2>1, <3>1
    <3>2. CASE u # t
      <4>1. page[u].login.phase = "me" => page[u].login.token # NoToken
        BY DEF IInv, UsedInv
      <4> QED
        BY <1>2, <1>8, <1>11, <2>1, <3>2, <4>1
    <3> QED
      BY <3>1, <3>2
  <2>4. stored' <= issued'
    BY <1>2, <2>1
  <2> QED
    BY <2>2, <2>3, <2>4 DEF UsedInv
<1>14. ClosedInv'
  BY <1>1, <1>3, <1>8, <1>9 DEF IInv, ClosedInv
<1>15. FlightInv' /\ DeafInv'
  BY <1>1, <1>9, FlightsStay
<1>16. FreshInv'
  <2> SUFFICES ASSUME NEW e \in calls, e.phase = "granted"
               PROVE  /\ e.next \in valid' /\ e.next # k
                      /\ \A f \in calls : f.token # e.next /\ (f.next = e.next => f = e)
                      /\ \A u \in Tabs : /\ page'[u].login.token # e.next
                                         /\ page'[u].logout.token # e.next
    BY <1>1 DEF FreshInv
  <2>1. e.next # k
    BY <1>2, <1>11 DEF k
  <2>2. /\ e.next \in valid
        /\ \A f \in calls : f.token # e.next /\ (f.next = e.next => f = e)
        /\ \A u \in Tabs : page[u].login.token # e.next /\ page[u].logout.token # e.next
    BY DEF IInv, FreshInv
  <2> QED
    BY <1>1, <1>9, <2>1, <2>2
<1>17. CallInv' /\ RefusedForCause'
  BY <1>1, <1>10 DEF IInv, CallInv, RefusedForCause
<1>18. StoredInv'
  BY <1>1 DEF StoredInv
<1> QED
  BY <1>12, <1>13, <1>14, <1>15, <1>16, <1>17, <1>18 DEF IInv

(* The end of a login stores its token again, whatever became of it.       *)
LEMMA LoginDoneStep == ASSUME IInv, NEW t \in Tabs, LoginDone(t) PROVE IInv'
<1> DEFINE l == page[t].login
           k == page[t].login.token
           p == [page[t] EXCEPT !.access = l.access]
           q == [p EXCEPT !.login = NoLogin]
<1>1. /\ l.phase = "me" /\ stored' = k /\ page' = [page EXCEPT ![t] = q]
      /\ putBack' = IF k \in valid THEN putBack ELSE putBack \cup {k}
      /\ UNCHANGED <<authVars, request, lost, faults>>
  BY DEF LoginDone
<1>2. l.access \in Access /\ k # NoToken /\ k \in Tokens /\ page[t].load # 0
  BY <1>1, PageParts, PageTypes DEF IInv
<1>3. p \in PageState
  BY <1>2, PageParts, PartTypes
<1>4. p.load = page[t].load /\ p.flight = page[t].flight /\ p.logout = page[t].logout
  BY PageParts, AccessPart
<1> HIDE DEF p
<1>5. /\ q \in PageState /\ q.load = page[t].load /\ q.flight = page[t].flight
      /\ q.login = NoLogin /\ q.logout = page[t].logout
  BY <1>3, <1>4, NoPartTypes, PartTypes, LoginPart
<1> HIDE DEF q
<1>6. /\ page' \in [Tabs -> PageState] /\ page'[t] = q
      /\ \A u \in Tabs \ {t} : page'[u] = page[u]
      /\ \A u \in Tabs : page'[u].load <= LoadsOf[u]
  <2>1. q.load <= LoadsOf[t]
    BY <1>5 DEF IInv, TypeOK
  <2> QED
    BY <1>1, <1>5, <2>1, OnePage
<1>7. \A u \in Tabs : /\ page'[u].load = page[u].load /\ page'[u].flight = page[u].flight
                      /\ page'[u].logout = page[u].logout
                      /\ page'[u].login \in {page[u].login, NoLogin}
  BY <1>5, <1>6
<1>8. putBack \subseteq putBack' /\ putBack' \subseteq Tokens /\ (k \notin valid => k \in putBack')
  BY <1>1, <1>2 DEF IInv, TypeOK
<1>9. \A x, j : Cause(x, j) => Cause(x, j)'
  BY <1>1, <1>8 DEF Cause, authVars
<1>10. TypeOK'
  BY <1>1, <1>2, <1>6, <1>8 DEF IInv, TypeOK, AuthTypeOK, authVars
<1>11. UsedInv'
  <2>1. NoToken <= issued
    BY CallParts DEF NoToken
  <2>2. ASSUME NEW u \in Tabs
        PROVE  /\ page'[u].login.token <= issued /\ page'[u].logout.token <= issued
               /\ page'[u].login.phase = "me" => page'[u].login.token # NoToken
    <3>1. /\ page[u].login.token <= issued /\ page[u].logout.token <= issued
          /\ page[u].login.phase = "me" => page[u].login.token # NoToken
      BY DEF IInv, UsedInv
    <3> QED
      BY <1>7, <2>1, <3>1 DEF NoLogin
  <2> QED
    BY <1>1, <2>2 DEF IInv, UsedInv, authVars
<1>12. ClosedInv'
  BY <1>1, <1>2, <1>6, <1>7 DEF IInv, ClosedInv
<1>13. FlightInv' /\ DeafInv'
  BY <1>1, <1>7, FlightsStay DEF authVars
<1>14. FreshInv'
  <2> SUFFICES ASSUME NEW e \in calls, e.phase = "granted"
               PROVE  /\ e.next \in valid /\ e.next # k
                      /\ \A f \in calls : f.token # e.next /\ (f.next = e.next => f = e)
                      /\ \A u \in Tabs : /\ page'[u].login.token # e.next
                                         /\ page'[u].logout.token # e.next
    BY <1>1 DEF FreshInv, authVars
  <2>1. /\ e.next \in valid
        /\ \A f \in calls : f.token # e.next /\ (f.next = e.next => f = e)
        /\ \A u \in Tabs : page[u].login.token # e.next /\ page[u].logout.token # e.next
    BY DEF IInv, FreshInv
  <2>2. NoLogin.token # e.next
    BY <2>1, CallParts DEF NoLogin, NoToken
  <2> QED
    BY <1>7, <2>1, <2>2
<1>15. CallInv' /\ RefusedForCause'
  BY <1>1, <1>9 DEF IInv, CallInv, RefusedForCause, authVars
<1>16. StoredInv'
  BY <1>1, <1>8 DEF StoredInv, Cause, authVars
<1> QED
  BY <1>10, <1>11, <1>12, <1>13, <1>14, <1>15, <1>16 DEF IInv

(* The server revokes a token at a logout, which is a cause.               *)
LEMMA ServeLogoutStep == ASSUME IInv, NEW t \in Tabs, ServeLogout(t) PROVE IInv'
<1> DEFINE k == page[t].logout.token
           l == [page[t].logout EXCEPT !.phase = "served"]
           q == [page[t] EXCEPT !.logout = l]
<1>1. /\ valid' = valid \ {k} /\ signedOut' = signedOut \cup (valid \cap {k})
      /\ page' = [page EXCEPT ![t] = q]
      /\ UNCHANGED <<issued, calls, exchangedBy, stored, request, lost, putBack, faults>>
  BY DEF ServeLogout, Revoke
<1>2. l \in LogoutState /\ l.token = k
  BY PageParts DEF LogoutState
<1> HIDE DEF l
<1>3. /\ q \in PageState /\ q.load = page[t].load /\ q.flight = page[t].flight
      /\ q.login = page[t].login /\ q.logout = l /\ q.access = page[t].access
  BY <1>2, PageParts, PartTypes, LogoutPart
<1> HIDE DEF q
<1>4. /\ page' \in [Tabs -> PageState] /\ page'[t] = q
      /\ \A u \in Tabs \ {t} : page'[u] = page[u]
      /\ \A u \in Tabs : page'[u].load <= LoadsOf[u]
  <2>1. q.load <= LoadsOf[t]
    BY <1>3 DEF IInv, TypeOK
  <2> QED
    BY <1>1, <1>3, <2>1, OnePage
<1>5. \A u \in Tabs : /\ page'[u].load = page[u].load /\ page'[u].flight = page[u].flight
                      /\ page'[u].login = page[u].login /\ page'[u].access = page[u].access
                      /\ page'[u].logout.token = page[u].logout.token
  BY <1>2, <1>3, <1>4
<1>6. \A x, j : Cause(x, j) => Cause(x, j)'
  BY <1>1 DEF Cause
<1>7. \A x : \A j : j \notin valid' => j \notin valid \/ Cause(x, j)'
  BY <1>1 DEF Cause
<1>8. TypeOK'
  BY <1>1, <1>4 DEF IInv, TypeOK, AuthTypeOK
<1>9. UsedInv'
  <2>1. ASSUME NEW u \in Tabs
        PROVE  /\ page'[u].login.token <= issued /\ page'[u].logout.token <= issued
               /\ page'[u].login.phase = "me" => page'[u].login.token # NoToken
    BY <1>5 DEF IInv, UsedInv
  <2> QED
    BY <1>1, <2>1 DEF IInv, UsedInv
<1>10. ClosedInv'
  BY <1>1, <1>5 DEF IInv, ClosedInv
<1>11. FlightInv' /\ DeafInv'
  BY <1>1, <1>5, FlightsStay
<1>12. FreshInv'
  <2> SUFFICES ASSUME NEW e \in calls, e.phase = "granted"
               PROVE  /\ e.next \in valid' /\ e.next # stored
                      /\ \A f \in calls : f.token # e.next /\ (f.next = e.next => f = e)
                      /\ \A u \in Tabs : /\ page'[u].login.token # e.next
                                         /\ page'[u].logout.token # e.next
    BY <1>1 DEF FreshInv
  <2>1. /\ e.next \in valid /\ e.next # stored
        /\ \A f \in calls : f.token # e.next /\ (f.next = e.next => f = e)
        /\ \A u \in Tabs : page[u].login.token # e.next /\ page[u].logout.token # e.next
    BY DEF IInv, FreshInv
  <2> QED
    BY <1>1, <1>5, <2>1
<1>13. CallInv'
  BY <1>1, <1>6, <1>7 DEF IInv, CallInv
<1>14. RefusedForCause'
  BY <1>1, <1>6 DEF IInv, RefusedForCause
<1>15. StoredInv'
  BY <1>1, <1>5, <1>6, <1>7 DEF IInv, StoredInv
<1> QED
  BY <1>8, <1>9, <1>10, <1>11, <1>12, <1>13, <1>14, <1>15 DEF IInv

-----------------------------------------------------------------------------
LEMMA InitInv == Init => IInv
<1> SUFFICES ASSUME Init PROVE IInv
  OBVIOUS
<1>1. TypeOK
  BY InitTypes
<1>2. \A t \in Tabs : page[t] = Loaded(0) /\ request[t] = Idle(t)
  BY DEF Init
<1>3. calls = {} /\ issued = 1 /\ valid = {1} /\ stored = 1
  BY DEF Init, AuthInit
<1>4. UsedInv
  BY <1>2, <1>3 DEF UsedInv, Loaded, NoLogin, NoLogout, NoToken
<1>5. ClosedInv
  <2>1. ASSUME NEW t \in Tabs
        PROVE  /\ page[t].access = "none" /\ page[t].login.phase = "idle"
               /\ \A r \in RequestsOf[t] : request[t][r] = "idle"
    <3>1. page[t].access = "none" /\ page[t].login.phase = "idle"
      BY <1>2 DEF Loaded, NoLogin
    <3>2. \A r \in RequestsOf[t] : request[t][r] = "idle"
      BY <1>2 DEF Idle
    <3> QED
      BY <3>1, <3>2
  <2> QED
    BY <2>1 DEF ClosedInv
<1>6. FlightInv /\ DeafInv /\ FreshInv /\ CallInv /\ RefusedForCause
  BY <1>3 DEF FlightInv, DeafInv, FreshInv, CallInv, RefusedForCause
<1>7. StoredInv
  BY <1>3 DEF StoredInv
<1> QED
  BY <1>1, <1>4, <1>5, <1>6, <1>7 DEF IInv

LEMMA StutterInv == IInv /\ UNCHANGED vars => IInv'
<1> SUFFICES ASSUME IInv, UNCHANGED vars PROVE IInv'
  OBVIOUS
<1> USE DEF vars, authVars
<1>1. TypeOK'
  BY DEF IInv, TypeOK, AuthTypeOK
<1>2. UsedInv' /\ ClosedInv'
  BY DEF IInv, UsedInv, ClosedInv
<1>3. FlightInv' /\ DeafInv' /\ FreshInv'
  BY DEF IInv, FlightInv, DeafInv, FreshInv, PageOf
<1>4. CallInv' /\ StoredInv' /\ RefusedForCause'
  BY DEF IInv, CallInv, StoredInv, RefusedForCause, Cause
<1> QED
  BY <1>1, <1>2, <1>3, <1>4 DEF IInv

LEMMA NextInv == IInv /\ Next => IInv'
<1> SUFFICES ASSUME IInv, Next PROVE IInv'
  OBVIOUS
<1>1. CASE Server
  <2>1. PICK c \in calls : RefreshRead(c) \/ RefreshCommit(c)
    BY <1>1 DEF Server
  <2> QED
    BY <1>1, <2>1, ReadStep, CommitStep DEF Server
<1>2. ASSUME NEW t \in Tabs,
             Open(t) \/ Expire(t) \/ Answer(t) \/ RefreshLost(t) \/ MeRefused(t)
      PROVE  IInv'
  BY <1>2, OpenStep, ExpireStep, GrantedStep, RefusedStep, ErrorStep, LostStep, MeRefusedStep
     DEF Answer
<1>3. ASSUME NEW t \in Tabs,
             SubmitLogin(t) \/ LoginRefused(t) \/ LoginGranted(t) \/ LoginDone(t) \/ LoginWithoutUser(t)
      PROVE  IInv'
  BY <1>3, LoginStep, LoginGrantedStep, LoginDoneStep
<1>4. ASSUME NEW t \in Tabs, SignOut(t) \/ ServeLogout(t) \/ SignedOut(t) PROVE IInv'
  BY <1>4, SignOutStep, ServeLogoutStep, SignedOutStep
<1>5. ASSUME NEW t \in Tabs, NEW r \in RequestsOf[t], Request(t, r) \/ RequestFails(t, r) PROVE IInv'
  BY <1>5, RequestStep
<1>6. ASSUME NEW t \in Tabs, NEW r \in RequestsOf[t], Unauthorised(t, r) PROVE IInv'
  BY <1>6, JoinStep, BeginStep
<1> QED
  BY <1>1, <1>2, <1>3, <1>4, <1>5, <1>6 DEF Next

(* Whatever the tabs, the server and the network do, types hold, each page *)
(* waits for one refresh at most, the token of a grant on its way is valid *)
(* and nobody else has it, and every refusal to come has a cause already.  *)
THEOREM Invariance == Spec => []IInv
<1>1. Init => IInv
  BY InitInv
<1>2. IInv /\ [Next]_vars => IInv'
  BY NextInv, StutterInv
<1> QED
  BY <1>1, <1>2, PTL DEF Spec

(* A page is refused a token only because it was signed out, exchanged by  *)
(* another page, put back by a login, or lost on its way to this page: the *)
(* single flight of client.ts never lets a page race with itself.          *)
THEOREM RefusalHasCause == Spec => []RefusedForCause
<1>1. IInv => RefusedForCause
  BY DEF IInv
<1> QED
  BY <1>1, Invariance, PTL
=============================================================================
