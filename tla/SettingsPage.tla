---------------------------- MODULE SettingsPage ----------------------------
(***************************************************************************)
(* The settings page (components/settings) beside the server: the profile  *)
(* card with its editor, and the tabs, of which Global Settings edits the  *)
(* preferences and Broker Connect the Fyers account.  The preferences and  *)
(* the theme live in stores of the browser (lib/usePreferences.ts,         *)
(* lib/useTheme.ts), which an edit changes at once; the server is told     *)
(* after that, and the edit undone if it refuses.                          *)
(*                                                                         *)
(* A request is first sent, then done or failed at the server, then        *)
(* answered; requests overtake each other, and an answer may be lost.      *)
(***************************************************************************)
EXTENDS FyersConnect, FiniteSets

CONSTANTS
  Themes,          (* The themes; "dark" and "terminal" are the dark ones. *)
  Names,           (* What a field of the profile may be set to.           *)
  NoField,         (* No field is being edited.                            *)
  MaxClicks        (* Bound on what the user does with an effect.          *)

ASSUME SettingsAssumption ==
  /\ {"classic", "dark"} \subseteq Themes
  /\ Names # {}
  /\ MaxReads \in Nat \ {0} /\ MaxClicks \in Nat

VARIABLES
  tab,             (* The tab that is open.                                *)
  shown,           (* The preferences in the browser.                      *)
  light,           (* The last light theme, kept for the quick toggle.     *)
  row,             (* The preferences at the server.                       *)
  puts,            (* The requests to change them.                         *)
  user, userRow,   (* The profile, in the browser and at the server.       *)
  editor,          (* The field in the editor, and whether it is saving.   *)
  saves,           (* The requests to change the profile.                  *)
  unsure,          (* What browser and server may differ in for good.      *)
  clicks           (* What the user has done.                              *)

prefVars == <<shown, light, row, puts>>
profileVars == <<user, userRow, editor, saves>>
vars == <<fyersVars, tab, prefVars, profileVars, unsure, clicks>>

Prefs == {"tooltip", "scheme", "theme"}
Values(f) ==
  CASE f = "tooltip" -> {"on", "off"}
    [] f = "scheme"  -> {"classic", "inverted"}
    [] f = "theme"   -> Themes

Dark == {"dark", "terminal"}
Tabs == {"plans", "settings", "broker", "help"}
ProfileFields == {"name", "state"}
Users == [ProfileFields -> Names]
Stages == {"sent", "done", "failed"}

TypeOK ==
  /\ FyersTypeOK
  /\ tab \in Tabs /\ (hook = Unmounted <=> tab # "broker")
  /\ \A f \in Prefs : shown[f] \in Values(f) /\ row[f] \in Values(f)
  /\ light \in Themes \ Dark
  /\ \A k \in DOMAIN puts : puts[k].stage \in Stages /\ puts[k].value \in Values(puts[k].field)
  /\ user \in Users /\ userRow \in Users
  /\ editor.field \in ProfileFields \cup {NoField} /\ editor.saving \in BOOLEAN
  /\ \A k \in DOMAIN saves : saves[k].stage \in Stages
  /\ unsure \subseteq Prefs \cup {"profile"} /\ clicks \in 0..MaxClicks

(* The session was restored and the preferences applied from the server    *)
(* before the page is there (session.ts, LoginPage).                       *)
Init ==
  /\ hook = Unmounted /\ reads = << >> /\ token \in BOOLEAN
  /\ tab = "plans" /\ light = "classic"
  /\ row = [tooltip |-> "on", scheme |-> "classic", theme |-> "dark"] /\ shown = row
  /\ puts = << >> /\ saves = << >>
  /\ userRow = [f \in ProfileFields |-> CHOOSE n \in Names : TRUE] /\ user = userRow
  /\ editor = [field |-> NoField, saving |-> FALSE]
  /\ unsure = {} /\ clicks = 0

Click == clicks < MaxClicks /\ clicks' = clicks + 1

-----------------------------------------------------------------------------
(* The requests about a preference, those of them in a stage.              *)
About(f) == {k \in DOMAIN puts : puts[k].field = f}
In(stage, f) == {k \in About(f) : puts[k].stage = stage}

(* The code has no guard against these: a preference is edited while an    *)
(* edit of it is being undone, an edit is refused that a later one has     *)
(* replaced, and one reaches the server before an earlier one.             *)
Doubt(f, when) == unsure' = IF when THEN unsure \cup {f} ELSE unsure

(* setPreferences() and setTheme(): the store is changed and persisted; a  *)
(* light theme is remembered.                                              *)
Put(f, v) ==
  /\ shown' = [shown EXCEPT ![f] = v]
  /\ light' = IF f = "theme" /\ v \notin Dark THEN v ELSE light

(* persist() of GlobalSettingsPanel, onPick() of ThemeGrid: apply, send,   *)
(* and how to undo it.  The value that is shown is not picked again.       *)
Edit(f, v) ==
  /\ Click /\ tab = "settings" /\ v \in Values(f) /\ v # shown[f]
  /\ Put(f, v)
  /\ puts' = Append(puts, [field |-> f, value |-> v, undo |-> shown[f],
                           stage |-> "sent", heard |-> TRUE])
  /\ Doubt(f, In("failed", f) # {})
  /\ UNCHANGED <<fyersVars, tab, row, profileVars>>

(* toggleDark() of the navbar: the server is not told.                     *)
ToggleDark ==
  /\ Click
  /\ Put("theme", IF shown["theme"] \in Dark THEN light ELSE "dark")
  /\ unsure' = unsure \cup {"theme"}
  /\ UNCHANGED <<fyersVars, tab, row, puts, profileVars>>

(* upsert_preferences(): only the field that is sent changes.              *)
Upsert(k) ==
  /\ k \in DOMAIN puts /\ puts[k].stage = "sent"
  /\ LET f == puts[k].field
     IN  \/ /\ row' = [row EXCEPT ![f] = puts[k].value]
            /\ puts' = [puts EXCEPT ![k].stage = "done"]
            /\ Doubt(f, \E j \in In("sent", f) : j < k)
         \/ /\ puts' = [puts EXCEPT ![k].stage = "failed"] /\ UNCHANGED row
            /\ Doubt(f, \E j \in About(f) : k < j)
  /\ UNCHANGED <<fyersVars, tab, shown, light, profileVars, clicks>>

LoseAnswer(k) ==
  /\ k \in DOMAIN puts /\ puts[k].stage = "done"
  /\ puts' = [puts EXCEPT ![k].stage = "failed"]
  /\ unsure' = unsure \cup {puts[k].field}
  /\ UNCHANGED <<fyersVars, tab, shown, light, row, profileVars, clicks>>

(* Mutant: an edit that was refused stays.                                 *)
PutAnsweredAsIs(k) ==
  /\ k \in DOMAIN puts /\ puts[k].stage # "sent"
  /\ puts' = RemoveAt(puts, k)
  /\ UNCHANGED <<fyersVars, tab, shown, light, row, profileVars, unsure, clicks>>

PutAnswered(k) ==
  /\ k \in DOMAIN puts /\ puts[k].stage # "sent"
  /\ IF puts[k].stage = "failed" /\ puts[k].heard THEN Put(puts[k].field, puts[k].undo)
     ELSE UNCHANGED <<shown, light>>
  /\ puts' = RemoveAt(puts, k)
  /\ UNCHANGED <<fyersVars, tab, row, profileVars, unsure, clicks>>

-----------------------------------------------------------------------------
(* The editor of a field (EditFieldModal, ProfileCard).                    *)
OpenEditor(f) ==
  /\ Click /\ editor.field = NoField /\ editor' = [field |-> f, saving |-> FALSE]
  /\ UNCHANGED <<fyersVars, tab, prefVars, user, userRow, saves, unsure>>

(* Escape, the cross or the page behind it: also while it is saving.       *)
CloseEditor ==
  /\ editor.field # NoField /\ editor' = [field |-> NoField, saving |-> FALSE]
  /\ saves' = [k \in DOMAIN saves |-> [saves[k] EXCEPT !.open = FALSE]]
  /\ UNCHANGED <<fyersVars, tab, prefVars, user, userRow, unsure, clicks>>

Save(n) ==
  /\ editor.field # NoField /\ ~editor.saving
  /\ editor' = [editor EXCEPT !.saving = TRUE]
  /\ saves' = Append(saves, [field |-> editor.field, value |-> n, stage |-> "sent",
                             answer |-> user, open |-> TRUE, heard |-> TRUE])
  /\ UNCHANGED <<fyersVars, tab, prefVars, user, userRow, unsure, clicks>>

(* The server answers with the whole user; of two answers under way either *)
(* may come last.                                                          *)
UpdateProfile(k) ==
  /\ k \in DOMAIN saves /\ saves[k].stage = "sent"
  /\ \/ /\ userRow' = [userRow EXCEPT ![saves[k].field] = saves[k].value]
        /\ saves' = [saves EXCEPT ![k].stage = "done", ![k].answer = userRow']
        /\ Doubt("profile", \E j \in DOMAIN saves : saves[j].stage = "done")
     \/ /\ saves' = [saves EXCEPT ![k].stage = "failed"] /\ UNCHANGED <<userRow, unsure>>
  /\ UNCHANGED <<fyersVars, tab, prefVars, user, editor, clicks>>

LoseSaved(k) ==
  /\ k \in DOMAIN saves /\ saves[k].stage = "done"
  /\ saves' = [saves EXCEPT ![k].stage = "failed"]
  /\ unsure' = unsure \cup {"profile"}
  /\ UNCHANGED <<fyersVars, tab, prefVars, user, userRow, editor, clicks>>

(* A save that succeeds closes whatever editor is open; one that fails     *)
(* leaves its own as it was, to be tried again.                            *)
SaveAnswered(k) ==
  /\ k \in DOMAIN saves /\ saves[k].stage # "sent"
  /\ IF ~saves[k].heard THEN saves' = RemoveAt(saves, k) /\ UNCHANGED <<user, editor>>
     ELSE IF saves[k].stage = "done"
     THEN /\ user' = saves[k].answer /\ editor' = [field |-> NoField, saving |-> FALSE]
          /\ saves' = RemoveAt([j \in DOMAIN saves |-> [saves[j] EXCEPT !.open = FALSE]], k)
     ELSE /\ editor' = IF saves[k].open THEN [editor EXCEPT !.saving = FALSE] ELSE editor
          /\ saves' = RemoveAt(saves, k) /\ UNCHANGED user
  /\ UNCHANGED <<fyersVars, tab, prefVars, userRow, unsure, clicks>>

-----------------------------------------------------------------------------
(* SettingsTabs: the panel of the tab is mounted, the other is gone.       *)
OpenTab(t) ==
  /\ Click /\ t # tab /\ tab' = t
  /\ CASE t = "broker"   -> PanelMounts
       [] tab = "broker" -> PanelGoes
       [] OTHER          -> UNCHANGED fyersVars
  /\ UNCHANGED <<prefVars, profileVars, unsure>>

(* The page is loaded anew: applyServerPreferences() and getMe(), or what  *)
(* local storage has.  What was under way still reaches the server.        *)
Reload(ok) ==
  /\ Click /\ tab' = "plans" /\ hook' = Unmounted /\ reads' = << >>
  /\ editor' = [field |-> NoField, saving |-> FALSE]
  /\ shown' = IF ok THEN row ELSE shown
  /\ light' = IF ok /\ row["theme"] # shown["theme"] /\ row["theme"] \notin Dark
              THEN row["theme"] ELSE light
  /\ puts' = [k \in DOMAIN puts |-> [puts[k] EXCEPT !.heard = FALSE]]
  /\ user' = userRow
  /\ saves' = [k \in DOMAIN saves |-> [saves[k] EXCEPT !.open = FALSE, !.heard = FALSE]]
  /\ unsure' = (IF ok THEN {} ELSE unsure \ {"profile"})
                 \cup {puts[k].field : k \in DOMAIN puts}
                 \cup (IF saves = << >> THEN {} ELSE {"profile"})
  /\ UNCHANGED <<token, row, userRow>>

Next ==
  \/ \E f \in Prefs : \E v \in Values(f) : Edit(f, v)
  \/ ToggleDark
  \/ \E k \in 1..MaxClicks : Upsert(k) \/ LoseAnswer(k) \/ PutAnswered(k)
  \/ \E f \in ProfileFields : OpenEditor(f)
  \/ CloseEditor \/ \E n \in Names : Save(n)
  \/ \E k \in 1..MaxClicks : UpdateProfile(k) \/ LoseSaved(k) \/ SaveAnswered(k)
  \/ \E t \in Tabs : OpenTab(t)
  \/ \E ok \in BOOLEAN : Reload(ok)
  \/ (Click /\ (Connect \/ Disconnect) /\ UNCHANGED <<tab, prefVars, profileVars, unsure>>)
  \/ (FyersGoesOn /\ UNCHANGED <<tab, prefVars, profileVars, unsure, clicks>>)

(* The timer ticks and three minutes pass; a request is answered some time. *)
Keeps(A) == A /\ UNCHANGED <<tab, prefVars, profileVars, unsure, clicks>>

Spec ==
  /\ Init /\ [][Next]_vars
  /\ WF_vars(Keeps(LoginAnswered)) /\ WF_vars(Keeps(Tick))
  /\ WF_vars(Keeps(Deadline)) /\ WF_vars(Keeps(StatusComes(1)))

-----------------------------------------------------------------------------
(* When nothing of a preference, or of the profile, is under way any more, *)
(* the browser shows what the server has, whatever failed, in whichever    *)
(* order the answers came and whether or not the page was loaded anew.     *)
(* So it is after several edits of one field at once, unless one of them   *)
(* was overtaken, or was refused or undone while another was under way;    *)
(* what was toggled in the navbar only, or had its answer lost, may        *)
(* differ, too.                                                            *)
QuietAgreement ==
  /\ \A f \in Prefs \ unsure : About(f) # {} \/ shown[f] = row[f]
  /\ "profile" \in unsure \/ saves # << >> \/ user = userRow

(* Waiting for the broker ends: the user is connected, closes the popup or *)
(* leaves, or three minutes are over, even if a status question of an      *)
(* earlier connection is answered in between.                              *)
Waiting == hook # Unmounted /\ hook.phase = "connecting"
ConnectEnds == Waiting ~> ~Waiting
=============================================================================
