----------------------------- MODULE BrokerToken -----------------------------
(***************************************************************************)
(* The three copies of the Fyers access token: the process' memory and the *)
(* .env file (core/token_store.py) and the table broker_connections        *)
(* (brokers/connections.py), as api/v1/routers/fyers_auth.py writes them   *)
(* and the start-up of main.py reads them.                                 *)
(*                                                                         *)
(* Every set and every clear by the user is a choice; choices are numbered *)
(* and a token is named by the number of the choice that set it.  Handlers *)
(* run on one event loop: a step is what happens between two awaits.  The  *)
(* table is PostgreSQL at read committed, with a lock per updated row.     *)
(***************************************************************************)
EXTENDS Integers, Sequences, FiniteSets

CONSTANTS
  Requests,        (* Handlers that set a token: OAuth callback, POST.     *)
  EnvFile,         (* Whether there is a .env file to write to.            *)
  Clears,          (* Whether the user clears the token too.               *)
  Failures,        (* Whether the database may fail.                       *)
  MaxChoices,      (* Bound on the choices, for model checking.            *)
  MaxRestarts      (* Bound on the restarts, for model checking.           *)

ASSUME TokenAssumption ==
  /\ EnvFile \in BOOLEAN /\ Clears \in BOOLEAN /\ Failures \in BOOLEAN
  /\ MaxChoices \in Nat /\ MaxRestarts \in Nat

NoToken == 0

VARIABLES
  mem,             (* _store["access_token"]                               *)
  env,             (* FYERS_ACCESS_TOKEN in .env.                          *)
  rows,            (* The committed rows, with token and updated_at.       *)
  req,             (* Each handler: where it is, what it carries.          *)
  clock,           (* The last value of updated_at handed out.             *)
  latest,          (* History: the number of choices made.                 *)
  acked,           (* History: the latest set that was acknowledged.       *)
  cleared,         (* History: the latest clear.                           *)
  restarts

vars == <<mem, env, rows, req, clock, latest, acked, cleared, restarts>>

Idle == [pc |-> "idle", token |-> NoToken, row |-> 0, at |-> 0, alone |-> FALSE]

\* alone is history: no other handler ran since this one set its token.
Handler == [pc : {"idle", "find", "flush", "wait", "commit"}, token : Nat,
            row : Nat, at : Nat, alone : BOOLEAN]

Row == [token : Nat \ {NoToken}, at : Nat \ {0}]

TypeOK == /\ mem \in Nat /\ env \in Nat
          /\ rows \in Seq(Row)
          /\ req \in [Requests -> Handler]
          /\ clock \in Nat /\ restarts \in Nat
          /\ latest \in Nat /\ acked \in Nat /\ cleared \in Nat

Init == /\ mem = NoToken /\ env = NoToken
        /\ rows = <<>>
        /\ req = [r \in Requests |-> Idle]
        /\ clock = 0 /\ latest = 0 /\ acked = 0 /\ cleared = 0 /\ restarts = 0

\* Mutant: order_by(updated_at) without desc().
FindOldest(table) ==
  IF table = <<>> THEN 0
  ELSE CHOOSE i \in 1..Len(table) : \A j \in 1..Len(table) : table[i].at <= table[j].at

\* _find: the row with the latest updated_at, 0 if there is none.
Find(table) ==
  IF table = <<>> THEN 0
  ELSE CHOOSE i \in 1..Len(table) : \A j \in 1..Len(table) : table[j].at <= table[i].at

\* _write_token_to_env: nothing is written if the file does not exist.
WriteEnv(token) == env' = IF EnvFile THEN token ELSE env

\* set_access_token: the handler of a new token, up to its first await.
SetToken(r) ==
  /\ req[r].pc = "idle"
  /\ latest < MaxChoices
  /\ latest' = latest + 1
  /\ mem' = latest + 1
  /\ WriteEnv(latest + 1)
  /\ req' = [q \in Requests |->
               IF q = r THEN [Idle EXCEPT !.pc = "find", !.token = latest + 1,
                                !.alone = \A o \in Requests \ {r} : req[o].pc = "idle"]
               ELSE [req[q] EXCEPT !.alone = FALSE]]
  /\ UNCHANGED <<rows, clock, acked, cleared, restarts>>

\* save_broker_token looks for the row to update.
FindRow(r) ==
  /\ req[r].pc = "find"
  /\ req' = [req EXCEPT ![r].pc = "flush", ![r].row = Find(rows)]
  /\ UNCHANGED <<mem, env, rows, clock, latest, acked, cleared, restarts>>

\* db.flush: updated_at is set before the statement reaches the database.
Flush(r) ==
  /\ req[r].pc = "flush"
  /\ clock' = clock + 1
  /\ req' = [req EXCEPT ![r].pc = "wait", ![r].at = clock + 1]
  /\ UNCHANGED <<mem, env, rows, latest, acked, cleared, restarts>>

\* The statement runs: an UPDATE waits for the lock of its row, an INSERT does not.
Execute(r) ==
  /\ req[r].pc = "wait"
  /\ \/ req[r].row = 0
     \/ \A o \in Requests : ~(req[o].pc = "commit" /\ req[o].row = req[r].row)
  /\ req' = [req EXCEPT ![r].pc = "commit"]
  /\ UNCHANGED <<mem, env, rows, clock, latest, acked, cleared, restarts>>

Acknowledge(r) == /\ acked' = IF req[r].token > acked THEN req[r].token ELSE acked
                  /\ req' = [req EXCEPT ![r] = Idle]

Commit(r) ==
  /\ req[r].pc = "commit"
  /\ LET row == [token |-> req[r].token, at |-> req[r].at] IN
     rows' = IF req[r].row = 0 THEN Append(rows, row) ELSE [rows EXCEPT ![req[r].row] = row]
  /\ Acknowledge(r)
  /\ UNCHANGED <<mem, env, clock, latest, cleared, restarts>>

\* Any statement fails: the exception is swallowed and success is reported.
Fail(r) ==
  /\ Failures
  /\ req[r].pc \in {"find", "wait", "commit"}
  /\ Acknowledge(r)
  /\ UNCHANGED <<mem, env, rows, clock, latest, cleared, restarts>>

\* clear_fyers_token: memory and .env.
ClearToken ==
  /\ Clears
  /\ latest < MaxChoices
  /\ latest' = latest + 1
  /\ cleared' = latest + 1
  /\ mem' = NoToken
  /\ WriteEnv(NoToken)
  /\ UNCHANGED <<rows, req, clock, acked, restarts>>

\* What a start reads if the database can be reached: a row goes before .env.
Hydrated == IF rows = <<>> THEN env ELSE rows[Find(rows)].token

\* The process dies, with the handlers in it, and starts again.
Restart ==
  /\ restarts < MaxRestarts
  /\ restarts' = restarts + 1
  /\ req' = [r \in Requests |-> Idle]
  /\ mem' \in {Hydrated} \cup (IF Failures THEN {env} ELSE {})
  /\ UNCHANGED <<env, rows, clock, latest, acked, cleared>>

Save(r) == FindRow(r) \/ Flush(r) \/ Execute(r) \/ Commit(r) \/ Fail(r)

Next == (\E r \in Requests : SetToken(r) \/ Save(r)) \/ ClearToken \/ Restart

Spec == Init /\ [][Next]_vars

(***************************************************************************)
(* Properties.                                                             *)
(***************************************************************************)

\* A save that ran alone and committed is what a restart will use, whatever
\* races, failures and crashes came before it: the upsert heals the table.
LoneSaveSticks ==
  [][\A r \in Requests : Commit(r) /\ req[r].alone => Hydrated' = req[r].token]_vars

\* token_store.py lines 68-69, "So app restart doesn't lose the token": an
\* acknowledged set survives a restart, unless a later choice replaced it.
SetSurvivesRestart == Hydrated >= acked \/ cleared > acked

\* "Clear token (logout from Fyers)", fyers_auth.py lines 18-19: a token the
\* user has cleared is not used again.
ClearedStaysCleared == mem = NoToken \/ mem > cleared

\* connections.py line 93, "Upsert the (user_id, broker) connection": there is
\* one row for the implicit connection.
OneConnection == Len(rows) <= 1

(***************************************************************************)
(* The inductive invariant.  A handler that runs alone carries the latest  *)
(* stamp, later than that of every row.                                    *)
(***************************************************************************)
Stamped(r) == req[r].pc \in {"wait", "commit"}

HandlerInv ==
  \A r \in Requests : /\ req[r].pc # "idle" => req[r].token # NoToken
                      /\ req[r].row <= Len(rows)
                      /\ Stamped(r) => req[r].at \in 1..clock

StampInv == \A i \in 1..Len(rows) : rows[i].at <= clock

AloneInv ==
  \A r \in Requests : req[r].pc # "idle" /\ req[r].alone =>
    /\ \A o \in Requests \ {r} : req[o].pc = "idle"
    /\ Stamped(r) => \A i \in 1..Len(rows) : rows[i].at < req[r].at

IInv == TypeOK /\ HandlerInv /\ StampInv /\ AloneInv
=============================================================================
