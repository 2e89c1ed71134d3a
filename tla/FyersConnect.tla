---------------------------- MODULE FyersConnect ----------------------------
(***************************************************************************)
(* Connecting the Fyers account from the settings page                     *)
(* (lib/useFyersConnect.ts, shown by BrokerConnectPanel): a popup in which *)
(* the user logs in, and an interval that asks the server for the status   *)
(* until it is connected, the popup is closed or three minutes are over.   *)
(*                                                                         *)
(* The tick of the interval is asynchronous: while one waits for an answer *)
(* the next may begin, and each that finishes ends whatever connection is  *)
(* under way then.                                                         *)
(***************************************************************************)
EXTENDS Integers, Sequences, SequencesExt

CONSTANTS
  Unmounted,       (* The panel is not there.                              *)
  MaxReads         (* Bound on the questions for the status under way.     *)

VARIABLES
  hook,            (* The hook of the mounted panel, or Unmounted.         *)
  reads,           (* Its questions under way: why, and what is answered.  *)
  token            (* The server has a valid token of Fyers.               *)

fyersVars == <<hook, reads, token>>

Popups == {"none", "open", "closed"}

(* status is null, or connected or not; login, timers and disconnecting    *)
(* are what it has under way, held that pollTimer has a timer.             *)
Hooks ==
  [status : {"null", "on", "off"}, loading : BOOLEAN,
   phase : {"idle", "connecting"}, popup : Popups, login : Nat,
   timers : Nat, held : BOOLEAN, late : BOOLEAN, disconnecting : BOOLEAN]

Fresh ==
  [status |-> "null", loading |-> TRUE, phase |-> "idle", popup |-> "none",
   login |-> 0, timers |-> 0, held |-> FALSE, late |-> FALSE,
   disconnecting |-> FALSE]

Status == IF token THEN "on" ELSE "off"
Read(why) == [why |-> why, answer |-> Status]

FyersTypeOK ==
  /\ hook = Unmounted \/ hook \in Hooks
  /\ reads \in Seq([why : {"mount", "poll", "closed", "cleared"}, answer : {"on", "off"}])
  /\ Len(reads) <= MaxReads /\ token \in BOOLEAN
  /\ hook = Unmounted => reads = << >>

(* finishConnecting(), and stopPolling() with it: it clears the timer that *)
(* is held, which is the last one that was started.                        *)
Finished(h) ==
  [h EXCEPT !.phase = "idle", !.popup = "none", !.held = FALSE,
            !.timers = IF h.held THEN @ - 1 ELSE @]

(* The panel is mounted and asks; its going closes the popup and clears    *)
(* the timer.  What was under way then is heard by nobody; a login that is *)
(* answered late starts a timer whose first tick sees the popup closed.    *)
PanelMounts == hook' = Fresh /\ reads' = <<Read("mount")>> /\ UNCHANGED token
PanelGoes == hook' = Unmounted /\ reads' = << >> /\ UNCHANGED token

(* The row of the panel: what it says, and the button it has.              *)
Row ==
  IF hook = Unmounted THEN {}
  ELSE {IF hook.loading THEN "Checking" ELSE IF hook.status = "on" THEN "Connected"
        ELSE "Not connected",
        IF hook.status = "on"
        THEN IF hook.disconnecting THEN "Disconnecting" ELSE "Disconnect"
        ELSE IF hook.phase = "connecting" THEN "Waiting" ELSE "Connect"}

(* connect(): the button is there and enabled.  The popup may be blocked.  *)
Connect ==
  /\ "Connect" \in Row
  /\ hook' \in {[hook EXCEPT !.popup = "none"],
                [hook EXCEPT !.popup = "open", !.phase = "connecting", !.login = @ + 1]}
  /\ UNCHANGED <<reads, token>>

LoginAnswered ==
  /\ hook # Unmounted /\ hook.login > 0
  /\ hook' \in {[hook EXCEPT !.login = @ - 1, !.timers = @ + 1, !.held = TRUE, !.late = FALSE],
                Finished([hook EXCEPT !.login = @ - 1])}
  /\ UNCHANGED <<reads, token>>

(* The user, in the popup.                                                 *)
LogIn ==
  /\ hook # Unmounted /\ hook.popup = "open" /\ hook.login = 0
  /\ token' = TRUE /\ UNCHANGED <<hook, reads>>

ClosePopup ==
  /\ hook # Unmounted /\ hook.popup = "open"
  /\ hook' = [hook EXCEPT !.popup = "closed"] /\ UNCHANGED <<reads, token>>

(* Mutant: the deadline is forgotten.                                      *)
TickForever ==
  /\ hook # Unmounted /\ hook.timers > 0 /\ Len(reads) < MaxReads
  /\ reads' = Append(reads, Read(IF hook.popup = "closed" THEN "closed" ELSE "poll"))
  /\ UNCHANGED <<hook, token>>

(* A tick of a timer.                                                      *)
Tick ==
  /\ hook # Unmounted /\ hook.timers > 0
  /\ \/ /\ hook.popup = "closed" /\ Len(reads) < MaxReads
        /\ reads' = Append(reads, Read("closed")) /\ UNCHANGED hook
     \/ /\ hook.popup # "closed" /\ hook.late
        /\ hook' = Finished(hook) /\ UNCHANGED reads
     \/ /\ hook.popup # "closed" /\ ~hook.late /\ Len(reads) < MaxReads
        /\ reads' = Append(reads, Read("poll")) /\ UNCHANGED hook
  /\ UNCHANGED token

(* POLL_TIMEOUT_MS have passed.                                            *)
Deadline ==
  /\ hook # Unmounted /\ hook.timers > 0 /\ ~hook.late
  /\ hook' = [hook EXCEPT !.late = TRUE] /\ UNCHANGED <<reads, token>>

(* refreshStatus() returns, in whichever order; an error gives null.       *)
StatusComes(k) ==
  /\ hook # Unmounted /\ k \in DOMAIN reads /\ reads' = RemoveAt(reads, k)
  /\ \E s \in {reads[k].answer, "null"} :
       LET h == [hook EXCEPT !.status = s]
       IN  hook' = CASE reads[k].why = "mount"   -> [h EXCEPT !.loading = FALSE]
                     [] reads[k].why = "cleared" -> [h EXCEPT !.disconnecting = FALSE]
                     [] reads[k].why = "closed"  -> Finished(h)
                     [] reads[k].why = "poll"    -> IF s = "on" THEN Finished(h) ELSE h
  /\ UNCHANGED token

(* disconnect(): the token is cleared and the status asked for; or it      *)
(* fails.                                                                  *)
Disconnect ==
  /\ "Disconnect" \in Row
  /\ hook' = [hook EXCEPT !.disconnecting = TRUE]
  /\ UNCHANGED <<reads, token>>

Clearing == hook # Unmounted /\ hook.disconnecting /\ \A r \in ToSet(reads) : r.why # "cleared"

TokenCleared ==
  /\ Clearing /\ Len(reads) < MaxReads
  /\ token' = FALSE /\ reads' = Append(reads, [why |-> "cleared", answer |-> "off"])
  /\ UNCHANGED hook

(* Or its answer is lost, and the token cleared all the same.              *)
ClearFails ==
  /\ Clearing /\ hook' = [hook EXCEPT !.disconnecting = FALSE]
  /\ token' \in {token, FALSE} /\ UNCHANGED reads

(* What happens without a click in the panel.                              *)
FyersGoesOn ==
  \/ LoginAnswered \/ LogIn \/ ClosePopup \/ Tick \/ Deadline
  \/ \E k \in 1..MaxReads : StatusComes(k)
  \/ TokenCleared \/ ClearFails
=============================================================================
