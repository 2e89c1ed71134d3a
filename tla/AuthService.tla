---------------------------- MODULE AuthService ----------------------------
(***************************************************************************)
(* The server's side of a session (services/auth_service.py): it issues a  *)
(* refresh token at a login, exchanges a token for the next one, and       *)
(* revokes a token at a logout.  Tokens are numbered in the order in which *)
(* they are issued.  Their expiry, after thirty days, is left out.         *)
(*                                                                         *)
(* A refresh is a SELECT, an UPDATE and a COMMIT of a transaction of its   *)
(* own.  Two refreshes of one token may both read it unrevoked, so a       *)
(* refresh has two steps here.  A login or a logout writes rows by which   *)
(* no one else decides, and has one.                                       *)
(***************************************************************************)
EXTENDS Naturals, FiniteSets

CONSTANTS
  Tabs,            (* The tabs of the browser.                             *)
  LoadsOf,         (* Bounds on the pages that each tab loads.             *)
  MaxTokens        (* Bound on the tokens issued.                          *)

ASSUME AuthAssumption == LoadsOf \in [Tabs -> Nat] /\ MaxTokens \in Nat \ {0}

NoToken == 0
Tokens  == 1..MaxTokens

(* A page is one load of one tab: what lives in its memory ends with it.   *)
Pages == UNION {{t} \X (1..LoadsOf[t]) : t \in Tabs}

VARIABLES
  issued,          (* The number of tokens issued so far.                  *)
  valid,           (* The tokens whose row is not revoked.                 *)
  calls,           (* The refresh calls under way.                         *)
  exchangedBy,     (* History: the pages that exchanged each token.        *)
  signedOut        (* History: the tokens revoked by a logout.             *)

authVars == <<issued, valid, calls, exchangedBy, signedOut>>

(* A call is heard while the page that sent it waits for the answer; one   *)
(* that is not heard is forgotten when the server is done with it.         *)
Call == [page : Pages, token : Tokens, next : Tokens \cup {NoToken},
         phase : {"sent", "checked", "granted", "refused"}, heard : BOOLEAN]

NewCall(p, k) ==
  [page |-> p, token |-> k, next |-> NoToken, phase |-> "sent", heard |-> TRUE]

AuthTypeOK ==
  /\ issued \in 0..MaxTokens
  /\ valid \subseteq 1..issued
  /\ calls \subseteq Call
  /\ exchangedBy \in [Tokens -> SUBSET Pages]
  /\ signedOut \subseteq 1..issued

(* One token is left from an earlier visit.                                *)
AuthInit ==
  /\ issued = 1 /\ valid = {1} /\ calls = {} /\ signedOut = {}
  /\ exchangedBy = [k \in Tokens |-> {}]

Moved(c, d) == calls' = (calls \ {c}) \cup {d}

Ended(c, d) == calls' = (calls \ {c}) \cup (IF c.heard THEN {d} ELSE {})

(* refresh(): the SELECT finds the token unrevoked, or the call is refused. *)
RefreshRead(c) ==
  /\ c.phase = "sent"
  /\ IF c.token \in valid THEN Moved(c, [c EXCEPT !.phase = "checked"])
     ELSE Ended(c, [c EXCEPT !.phase = "refused"])
  /\ UNCHANGED <<issued, valid, exchangedBy, signedOut>>

(* refresh(): the token is revoked and the next one stored, in one commit. *)
RefreshCommit(c) ==
  /\ c.phase = "checked" /\ issued < MaxTokens
  /\ issued' = issued + 1
  /\ valid' = (valid \ {c.token}) \cup {issued'}
  /\ Ended(c, [c EXCEPT !.phase = "granted", !.next = issued'])
  /\ exchangedBy' = [exchangedBy EXCEPT ![c.token] = @ \cup {c.page}]
  /\ UNCHANGED signedOut

(* login(): a new token, whatever tokens the user has already.             *)
Issue ==
  /\ issued < MaxTokens
  /\ issued' = issued + 1
  /\ valid' = valid \cup {issued'}
  /\ UNCHANGED <<calls, exchangedBy, signedOut>>

(* logout(): revokes the token if it still is to be, and always succeeds.  *)
Revoke(k) ==
  /\ valid' = valid \ {k}
  /\ signedOut' = signedOut \cup (valid \cap {k})
  /\ UNCHANGED <<issued, calls, exchangedBy>>
=============================================================================
