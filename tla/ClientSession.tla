--------------------------- MODULE ClientSession ---------------------------
(***************************************************************************)
(* The session in the browser: the store (stores/authStore.ts), the        *)
(* interceptor that refreshes and retries (api/client.ts), the restore at  *)
(* start-up (lib/session.ts), the guard of the routes (App.tsx), login     *)
(* (pages/LoginPage.tsx) and logout (components/Navbar.tsx), composed with *)
(* the server of AuthService.                                              *)
(*                                                                         *)
(* The access token lives in a page's memory, the refresh token in the     *)
(* local storage that all tabs share.  An answer runs its handler, and all *)
(* continuations waiting for the promise it settles, before any other      *)
(* event of the tab.  The user's name and preferences are left out.        *)
(***************************************************************************)
EXTENDS AuthService

CONSTANTS
  RequestsOf,      (* The requests that a tab may have under way at once.  *)
  Signers,         (* The tabs in which the user signs in and out.         *)
  MaxFaults        (* Bound on the answers lost, the pages reloaded and the *)
                   (* restores whose user is refused.                      *)

ASSUME SessionAssumption == Signers \subseteq Tabs /\ MaxFaults \in Nat

VARIABLES
  stored,          (* localStorage[REFRESH_TOKEN_KEY].                     *)
  page,            (* What each tab has in memory.                         *)
  request,         (* Where each request of each tab is.                   *)
  lost,            (* History: whose answer for which token was lost.      *)
  putBack,         (* History: tokens stored again after their time.       *)
  faults           (* How many of these there were so far.                 *)

vars == <<authVars, stored, page, request, lost, putBack, faults>>

NoLogin == [phase |-> "idle", token |-> NoToken, access |-> "none"]
NoLogout == [phase |-> "idle", token |-> NoToken, authorised |-> FALSE]

(* A page as it is loaded, the n-th of its tab; 0 is a tab not yet open.   *)
Loaded(n) == [load |-> n, access |-> "none", flight |-> NoToken,
              restoring |-> FALSE, me |-> "none", login |-> NoLogin, logout |-> NoLogout]

Access == {"none", "fresh", "stale"}

LoginState ==
  [phase : {"idle", "asked", "me"}, token : Tokens \cup {NoToken}, access : Access]

LogoutState ==
  [phase : {"idle", "sent", "served"}, token : Tokens \cup {NoToken}, authorised : BOOLEAN]

PageState ==
  [load : Nat, access : Access, flight : Tokens \cup {NoToken}, restoring : BOOLEAN,
   me : Access, login : LoginState, logout : LogoutState]

TypeOK ==
  /\ AuthTypeOK
  /\ stored \in Tokens \cup {NoToken}
  /\ page \in [Tabs -> PageState]
  /\ \A t \in Tabs : page[t].load <= LoadsOf[t]
  /\ DOMAIN request = Tabs
  /\ \A t \in Tabs : request[t] \in [RequestsOf[t] -> {"idle", "stale", "waiting"}]
  /\ lost \subseteq Pages \X Tokens
  /\ putBack \subseteq Tokens
  /\ faults \in 0..MaxFaults

Idle(t) == [r \in RequestsOf[t] |-> "idle"]

Init ==
  /\ AuthInit
  /\ stored = 1
  /\ page = [t \in Tabs |-> Loaded(0)]
  /\ request = [t \in Tabs |-> Idle(t)]
  /\ lost = {} /\ putBack = {} /\ faults = 0

PageOf(t) == <<t, page[t].load>>

(* RequireAuth and LoginPage: what the tab shows follows from the store.   *)
View(t) == CASE page[t].load = 0 -> "closed"
             [] page[t].access # "none" -> "app"
             [] page[t].restoring -> "checking"
             [] OTHER -> "login"

(* The refresh call of the tab's refreshPromise.                           *)
InFlight(t) == {c \in calls : c.heard /\ c.page = PageOf(t) /\ c.token = page[t].flight}

Deaf(c) == [c EXCEPT !.heard = FALSE]

(* The calls, once no page of the tab waits for them.                      *)
Unheard(t) ==
  LET mine == {c \in calls : c.heard /\ c.page[1] = t}
  IN  (calls \ mine) \cup {Deaf(c) : c \in {d \in mine : d.phase \in {"sent", "checked"}}}

-----------------------------------------------------------------------------
(* A tab is opened or reloaded inside the app: the guard restores a session *)
(* when there is a token, else it goes to the login page.  What was under   *)
(* way in the old page is not waited for any more.                          *)
Open(t) ==
  LET n == page[t].load + 1 IN
  /\ n <= LoadsOf[t]
  /\ IF n = 1 THEN UNCHANGED faults ELSE faults < MaxFaults /\ faults' = faults + 1
  /\ IF stored = NoToken
     THEN page' = [page EXCEPT ![t] = Loaded(n)] /\ calls' = Unheard(t)
     ELSE /\ page' = [page EXCEPT ![t] = [Loaded(n) EXCEPT !.restoring = TRUE,
                                                           !.flight = stored]]
          /\ calls' = Unheard(t) \cup {NewCall(<<t, n>>, stored)}
  /\ request' = [request EXCEPT ![t] = Idle(t)]
  /\ UNCHANGED <<issued, valid, exchangedBy, signedOut, stored, lost, putBack>>

(* The access token outlives its hour.                                     *)
Expire(t) ==
  /\ page[t].access = "fresh"
  /\ page' = [page EXCEPT ![t].access = "stale",
                          ![t].me = IF @ = "fresh" THEN "stale" ELSE @,
                          ![t].login.access = IF @ = "fresh" THEN "stale" ELSE @]
  /\ UNCHANGED <<authVars, stored, request, lost, putBack, faults>>

(* A component asks for data, with a token that is stale: the interceptor  *)
(* lets every other answer pass, and it changes nothing here.              *)
Request(t, r) ==
  /\ page[t].access = "stale" /\ request[t][r] = "idle"
  /\ request' = [request EXCEPT ![t][r] = "stale"]
  /\ UNCHANGED <<authVars, stored, page, lost, putBack, faults>>

(* The request fails with something else than a 401.                       *)
RequestFails(t, r) ==
  /\ request[t][r] = "stale"
  /\ request' = [request EXCEPT ![t][r] = "idle"]
  /\ UNCHANGED <<authVars, stored, page, lost, putBack, faults>>

(* Mutant: the tokens are forgotten, the page stays where it is.            *)
GiveUpQuietly(t, requests) ==
  /\ stored' = NoToken
  /\ page' = [page EXCEPT ![t].flight = NoToken, ![t].restoring = FALSE]
  /\ request' = [request EXCEPT ![t] = requests]

(* clear(), and from inside the app window.location.assign('/'), which     *)
(* ends the page.  At the login page the other tasks go on.                *)
GiveUp(t, requests) ==
  /\ stored' = NoToken
  /\ page' = [page EXCEPT ![t] = IF View(t) = "login"
                                 THEN [@ EXCEPT !.flight = NoToken, !.restoring = FALSE]
                                 ELSE Loaded(@.load)]
  /\ request' = [request EXCEPT ![t] = IF View(t) = "login" THEN requests ELSE Idle(t)]

(* Mutant: every 401 begins a rotation of its own.                         *)
UnauthorisedAlone(t, r) ==
  /\ request[t][r] = "stale"
  /\ IF stored = NoToken THEN GiveUp(t, [request[t] EXCEPT ![r] = "idle"]) /\ UNCHANGED calls
     ELSE /\ page' = [page EXCEPT ![t].flight = stored]
          /\ calls' = calls \cup {NewCall(PageOf(t), stored)}
          /\ request' = [request EXCEPT ![t][r] = "waiting"]
          /\ UNCHANGED stored
  /\ UNCHANGED <<issued, valid, exchangedBy, signedOut, lost, putBack, faults>>

(* 401: join the rotation under way, or begin one; without a token, give up. *)
Unauthorised(t, r) ==
  /\ request[t][r] = "stale"
  /\ \/ /\ page[t].flight # NoToken
        /\ request' = [request EXCEPT ![t][r] = "waiting"]
        /\ UNCHANGED <<calls, stored, page>>
     \/ /\ page[t].flight = NoToken /\ stored # NoToken
        /\ page' = [page EXCEPT ![t].flight = stored]
        /\ calls' = calls \cup {NewCall(PageOf(t), stored)}
        /\ request' = [request EXCEPT ![t][r] = "waiting"]
        /\ UNCHANGED stored
     \/ /\ page[t].flight = NoToken /\ stored = NoToken
        /\ GiveUp(t, [request[t] EXCEPT ![r] = "idle"])
        /\ UNCHANGED calls
  /\ UNCHANGED <<issued, valid, exchangedBy, signedOut, lost, putBack, faults>>

-----------------------------------------------------------------------------
(* Mutant: nobody who waits is told.                                       *)
RefreshGrantedAlone(t) ==
  \E c \in InFlight(t) :
    /\ c.phase = "granted"
    /\ stored' = c.next
    /\ page' = [page EXCEPT ![t].access = "fresh", ![t].flight = NoToken,
                            ![t].restoring = FALSE,
                            ![t].me = IF page[t].restoring THEN "fresh" ELSE @]
    /\ calls' = calls \ {c}
    /\ UNCHANGED <<issued, valid, exchangedBy, signedOut, request, lost, putBack, faults>>

(* doRefresh() gets its pair: it stores both tokens, whoever asked for them *)
(* and whatever happened since; all who wait go on, and send their requests *)
(* again, for better or worse.  The restore asks who the user is.           *)
RefreshGranted(t) ==
  \E c \in InFlight(t) :
    /\ c.phase = "granted"
    /\ stored' = c.next
    /\ page' = [page EXCEPT ![t].access = "fresh", ![t].flight = NoToken,
                            ![t].restoring = FALSE,
                            ![t].me = IF page[t].restoring THEN "fresh" ELSE @]
    /\ request' = [request EXCEPT ![t] =
                     [r \in RequestsOf[t] |-> IF @[r] = "waiting" THEN "idle" ELSE @[r]]]
    /\ calls' = calls \ {c}
    /\ UNCHANGED <<issued, valid, exchangedBy, signedOut, lost, putBack, faults>>

(* The refresh fails: the interceptor gives up whatever the failure, the   *)
(* restore forgets the session only when the server refused the token.     *)
RefreshFails(t, refused) ==
  IF \E r \in RequestsOf[t] : request[t][r] = "waiting"
  THEN GiveUp(t, [r \in RequestsOf[t] |-> IF request[t][r] = "waiting" THEN "idle" ELSE request[t][r]])
  ELSE /\ stored' = IF refused THEN NoToken ELSE stored
       /\ page' = [page EXCEPT ![t].flight = NoToken, ![t].restoring = FALSE]
       /\ UNCHANGED request

RefreshRefused(t) ==
  \E c \in InFlight(t) :
    /\ c.phase = "refused"
    /\ calls' = calls \ {c}
    /\ RefreshFails(t, TRUE)
    /\ UNCHANGED <<issued, valid, exchangedBy, signedOut, lost, putBack, faults>>

(* The connection breaks: the server may or may not have done its work, or *)
(* may do it yet.                                                          *)
RefreshLost(t) ==
  \E c \in InFlight(t) :
    /\ faults < MaxFaults /\ faults' = faults + 1
    /\ calls' = Unheard(t)
    /\ lost' = lost \cup {<<c.page, c.token>>}
    /\ RefreshFails(t, FALSE)
    /\ UNCHANGED <<issued, valid, exchangedBy, signedOut, putBack>>

(* The transaction fails and is rolled back (always once tokens run out).  *)
RefreshError(t) ==
  \E c \in InFlight(t) :
    /\ c.phase = "checked" /\ issued = MaxTokens
    /\ calls' = calls \ {c}
    /\ RefreshFails(t, FALSE)
    /\ UNCHANGED <<issued, valid, exchangedBy, signedOut, lost, putBack, faults>>

(* getMe() of the restore is refused, as its access token has expired: the *)
(* restore clears the session; the endpoint is one of /auth/, for which the *)
(* interceptor tries no refresh.  Any other answer changes nothing here, so *)
(* that a call which is never refused stands for one that was answered.    *)
MeRefused(t) ==
  /\ page[t].me = "stale"
  /\ faults < MaxFaults /\ faults' = faults + 1
  /\ stored' = NoToken
  /\ page' = [page EXCEPT ![t].access = "none", ![t].me = "none"]
  /\ UNCHANGED <<authVars, request, lost, putBack>>

-----------------------------------------------------------------------------
(* handleSubmit() of the login form.                                       *)
SubmitLogin(t) ==
  /\ t \in Signers /\ View(t) = "login" /\ page[t].login.phase = "idle"
  /\ page' = [page EXCEPT ![t].login.phase = "asked"]
  /\ UNCHANGED <<authVars, stored, request, lost, putBack, faults>>

LoginRefused(t) ==
  /\ page[t].login.phase = "asked"
  /\ page' = [page EXCEPT ![t].login = NoLogin]
  /\ UNCHANGED <<authVars, stored, request, lost, putBack, faults>>

(* The pair is stored at once, which shows the app; then getMe() is asked. *)
LoginGranted(t) ==
  /\ page[t].login.phase = "asked"
  /\ Issue
  /\ stored' = issued'
  /\ page' = [page EXCEPT ![t].access = "fresh",
                          ![t].login = [phase |-> "me", token |-> issued',
                                        access |-> "fresh"]]
  /\ UNCHANGED <<request, lost, putBack, faults>>

(* getMe() answers: setSession() stores the pair of the login once more.   *)
LoginDone(t) ==
  LET l == page[t].login IN
  /\ l.phase = "me"
  /\ stored' = l.token
  /\ page' = [page EXCEPT ![t].access = l.access, ![t].login = NoLogin]
  /\ putBack' = IF l.token \in valid THEN putBack ELSE putBack \cup {l.token}
  /\ UNCHANGED <<authVars, request, lost, faults>>

LoginWithoutUser(t) ==
  /\ page[t].login.phase = "me"
  /\ page' = [page EXCEPT ![t].login = NoLogin]
  /\ UNCHANGED <<authVars, stored, request, lost, putBack, faults>>

(* handleLogout(): the token is read from storage and sent to the server.  *)
SignOut(t) ==
  /\ t \in Signers /\ View(t) = "app" /\ page[t].logout.phase = "idle"
  /\ page' = [page EXCEPT ![t].logout =
                [phase |-> IF stored = NoToken THEN "served" ELSE "sent",
                 token |-> stored, authorised |-> page[t].access = "fresh"]]
  /\ UNCHANGED <<authVars, stored, request, lost, putBack, faults>>

(* The endpoint asks for an access token; it is not one that is retried.   *)
ServeLogout(t) ==
  /\ page[t].logout.phase = "sent" /\ page[t].logout.authorised
  /\ Revoke(page[t].logout.token)
  /\ page' = [page EXCEPT ![t].logout.phase = "served"]
  /\ UNCHANGED <<stored, request, lost, putBack, faults>>

(* An answer or a failure: both end in clear() and the login page.         *)
SignedOut(t) ==
  /\ page[t].logout.phase # "idle"
  /\ stored' = NoToken
  /\ page' = [page EXCEPT ![t].access = "none", ![t].logout = NoLogout]
  /\ UNCHANGED <<authVars, request, lost, putBack, faults>>

-----------------------------------------------------------------------------
Server ==
  /\ \E c \in calls : RefreshRead(c) \/ RefreshCommit(c)
  /\ UNCHANGED <<stored, page, request, lost, putBack, faults>>

Answer(t) == RefreshGranted(t) \/ RefreshRefused(t) \/ RefreshError(t)

Next ==
  \/ Server
  \/ \E t \in Tabs :
       \/ Open(t) \/ Expire(t)
       \/ Answer(t) \/ RefreshLost(t) \/ MeRefused(t)
       \/ SubmitLogin(t) \/ LoginRefused(t) \/ LoginGranted(t)
       \/ LoginDone(t) \/ LoginWithoutUser(t)
       \/ SignOut(t) \/ ServeLogout(t) \/ SignedOut(t)
       \/ \E r \in RequestsOf[t] : Request(t, r) \/ RequestFails(t, r) \/ Unauthorised(t, r)

Spec == Init /\ [][Next]_vars

(* The server works and answers; pages poll, and tokens expire.  A request *)
(* that is answered again and again is told some time that its token is    *)
(* stale.  No user has to act, and nothing has to fail.                    *)
Fairness ==
  /\ WF_vars(Server)
  /\ \A t \in Tabs :
       /\ WF_vars(Answer(t)) /\ WF_vars(Expire(t))
       /\ \A r \in RequestsOf[t] : /\ WF_vars(Request(t, r)) /\ WF_vars(RequestFails(t, r))
                              /\ SF_vars(Unauthorised(t, r))

FairSpec == Spec /\ Fairness

-----------------------------------------------------------------------------
(* Why a token may be refused to a page.                                   *)
Cause(p, k) ==
  \/ k \in signedOut \cup putBack
  \/ exchangedBy[k] \ {p} # {}
  \/ <<p, k>> \in lost

(* A page is never refused a token because of what it did itself: the token *)
(* was signed out, another page exchanged it, the answer to this page was   *)
(* lost, or a login stored it again.  (The single flight of client.ts:      *)
(* concurrent callers "await ONE rotation instead of racing".)              *)
RefusedForCause ==
  \A c \in calls : c.heard /\ c.phase = "refused" => Cause(c.page, c.token)

(* Why: the strengthening of it that every step preserves.                 *)

(* Every token in use has been issued; a closed tab has nothing under way. *)
UsedInv ==
  /\ stored <= issued
  /\ \A c \in calls : c.token <= issued /\ c.next <= issued
  /\ \A t \in Tabs : /\ page[t].login.token <= issued /\ page[t].logout.token <= issued
                     /\ page[t].login.phase = "me" => page[t].login.token # NoToken

ClosedInv ==
  \A t \in Tabs : page[t].load = 0 =>
    /\ page[t].access = "none" /\ page[t].login.phase = "idle"
    /\ \A r \in RequestsOf[t] : request[t][r] = "idle"

(* A page waits for one call at most, the one of its refreshPromise.       *)
FlightInv ==
  /\ \A c \in calls : c.heard => /\ c.page = PageOf(c.page[1])
                                 /\ page[c.page[1]].flight = c.token
  /\ \A c, d \in calls : c.heard /\ d.heard /\ c.page = d.page => c = d

(* A call that nobody waits for was lost, or its page is gone.             *)
DeafInv ==
  \A c \in calls : ~c.heard =>
    /\ c.phase \in {"sent", "checked"}
    /\ <<c.page, c.token>> \in lost \/ c.page[2] < page[c.page[1]].load

(* The token of a grant on its way is valid, and nobody has it yet.        *)
FreshInv ==
  \A c \in calls : c.phase = "granted" =>
    /\ c.next \in valid /\ c.next # stored
    /\ \A d \in calls : d.token # c.next /\ (d.next = c.next => d = c)
    /\ \A t \in Tabs : page[t].login.token # c.next /\ page[t].logout.token # c.next

(* A call that is going to be refused has a cause, and so has one that any *)
(* page but the one whose grant is on its way may begin.                   *)
CallInv ==
  \A c \in calls : c.heard /\ c.phase = "sent" /\ c.token \notin valid => Cause(c.page, c.token)

StoredInv ==
  stored # NoToken /\ stored \notin valid =>
    \A t \in Tabs : \A n \in 1..LoadsOf[t] : n >= page[t].load =>
      \/ Cause(<<t, n>>, stored)
      \/ \E c \in calls : /\ c.heard /\ c.phase = "granted"
                          /\ c.page = <<t, n>> /\ c.token = stored

IInv == /\ TypeOK /\ UsedInv /\ ClosedInv /\ FlightInv /\ DeafInv /\ FreshInv
        /\ CallInv /\ StoredInv /\ RefusedForCause

(* A request that waits for a refresh goes on, or is given up: the shared  *)
(* promise settles for all who joined it.                                  *)
NobodyWaitsForever ==
  \A t \in Tabs : \A r \in RequestsOf[t] :
    request[t][r] = "waiting" ~> request[t][r] # "waiting"

(* A sign-out reaches all tabs: once no token is stored, none is being     *)
(* exchanged and no one is signing in, every tab that shows the app leaves *)
(* it, unless someone signs in.                                            *)
SignedOutEverywhere ==
  LET Quiet == stored = NoToken /\ \A t \in Tabs : page[t].flight = NoToken
      NoOneSignsIn == \A t \in Tabs : page[t].login.phase = "idle"
  IN  Quiet /\ NoOneSignsIn ~>
        (\A t \in Tabs : View(t) # "app") \/ ~NoOneSignsIn
=============================================================================
