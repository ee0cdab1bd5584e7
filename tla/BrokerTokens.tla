---------------------------- MODULE BrokerTokens ----------------------------
(***************************************************************************)
(* The way of the Schwab access token to the collectors.  The callback      *)
(* worker stores the record of a login in the key-value store; the auth     *)
(* worker answers every request for the runtime secrets with the token of   *)
(* that record, which it refreshes first when it nears its expiry; the      *)
(* secrets agent asks once per interval and keeps the token and its expiry  *)
(* in two files, which token_ready reads.                                  *)
(*                                                                         *)
(* A moment of expiry is held as the time LEFT until it.                    *)
(***************************************************************************)
EXTENDS Integers

CONSTANTS
  Life,      \* expires_in of an access token
  Window,    \* SCHWAB_REFRESH_WINDOW_MS
  Interval   \* CLOUDFLARE_SYNC_INTERVAL_SECONDS

TimesAssumption ==
  /\ Life \in Nat /\ Window \in Nat /\ Interval \in Nat
  /\ 0 < Interval /\ Interval < Window /\ Window < Life

VARIABLES
  kv,         \* the record of schwab/current-token
  req,        \* the request the agent waits for, and one it no longer waits for
  agent,      \* the step of the agent
  timer,      \* what is left of its sleep
  files,      \* SCHWAB_ACCESS_TOKEN and SCHWAB_ACCESS_TOKEN.expires_at
  calm,       \* from here on nothing fails and the login is renewed in time
  settled,    \* history: a synchronisation has been completed since
  raced,      \* history: a login fell between a refresh's read and its put
  regressed   \* history: a put has replaced a record by one that expires earlier

known == <<calm, settled, raced, regressed>>
vars  == <<kv, req, agent, timer, files, known>>

Requests == {"live", "late"}
Absent   == -1

\* access: left of access_expires_at; valid: refresh_expires_at lies ahead; latest: the
\* refresh token comes from the latest login.  No record at all reads like an expired one.
Records == [access : 0 .. Life, valid : BOOLEAN, latest : BOOLEAN]
Nothing == [access |-> 0, valid |-> FALSE, latest |-> TRUE]
Idle    == [pc |-> "idle", rec |-> Nothing]

TypeOK ==
  /\ kv \in Records
  /\ req \in [Requests -> [pc : {"idle", "asked", "refreshing", "granted", "valid", "refused"},
                           rec : Records]]
  /\ agent \in {"down", "expire", "unexpire", "ask", "wait", "write", "remove", "asleep"}
  /\ timer \in 0 .. Interval + 1
  /\ files \in [{"token", "expiry"} -> Absent .. Life]
  /\ calm \in BOOLEAN /\ settled \in BOOLEAN
  /\ raced \in BOOLEAN /\ regressed \in BOOLEAN

\* token_ready
Ready == files["token"] # Absent /\ files["expiry"] > 0

-----------------------------------------------------------------------------
(* resolveSchwabRuntimeToken: read the record, refresh it, put it back, answer. *)

RefreshDue(rec) == rec.access <= Window

ReadRecord(i) ==
  /\ req[i].pc = "asked"
  /\ req' = [req EXCEPT ![i] =
       IF ~kv.valid THEN [pc |-> "refused", rec |-> Nothing]
       ELSE IF RefreshDue(kv) THEN [pc |-> "refreshing", rec |-> kv]
       ELSE [pc |-> "valid", rec |-> kv]]
  /\ UNCHANGED <<kv, agent, timer, files, known>>

\* Schwab grants a new access token; the new record keeps the login's expiry.
Refresh(i) ==
  /\ req[i].pc = "refreshing"
  /\ req' = [req EXCEPT ![i] = [pc |-> "granted", rec |-> [req[i].rec EXCEPT !.access = Life]]]
  /\ UNCHANGED <<kv, agent, timer, files, known>>

\* The refresh fails, or the put after it: no token is answered, also when the stored
\* access token is still good.
RefreshRefused(i) ==
  /\ ~calm
  /\ req[i].pc \in {"refreshing", "granted"}
  /\ req' = [req EXCEPT ![i] = [pc |-> "refused", rec |-> Nothing]]
  /\ UNCHANGED <<kv, agent, timer, files, known>>

Put(rec) ==
  /\ kv' = rec
  /\ regressed' = (regressed \/ rec.access < kv.access)
  /\ UNCHANGED <<agent, timer, files, calm, settled, raced>>

StoreRefreshed(i) ==
  /\ req[i].pc = "granted"
  /\ req' = [req EXCEPT ![i].pc = "valid"]
  /\ Put(req[i].rec)

\* schwabCallback of the callback worker: somebody has logged in.
Login ==
  /\ kv' = [access |-> Life, valid |-> TRUE, latest |-> TRUE]
  /\ req' = [i \in Requests |->
               IF req[i].pc \in {"idle", "asked", "refused"} THEN req[i]
               ELSE [req[i] EXCEPT !.rec.latest = FALSE]]
  /\ raced' = (raced \/ \E i \in Requests : req[i].pc \in {"refreshing", "granted"})
  /\ UNCHANGED <<agent, timer, files, calm, settled, regressed>>

-----------------------------------------------------------------------------
(* The loop of the secrets agent. *)

Sleep(n) == agent' = "asleep" /\ timer' = n

\* The iteration before took up to one more unit.
Naps == {Interval, Interval + 1}

\* _expire_local_token removes the token, then the expiry.
ExpireLocal ==
  /\ agent = "expire"
  /\ IF files["expiry"] = 0
     THEN files' = [files EXCEPT !["token"] = Absent] /\ agent' = "unexpire"
     ELSE agent' = "ask" /\ UNCHANGED files
  /\ UNCHANGED <<kv, req, timer, known>>

ExpireLocalExpiry ==
  /\ agent = "unexpire"
  /\ files' = [files EXCEPT !["expiry"] = Absent]
  /\ agent' = "ask"
  /\ UNCHANGED <<kv, req, timer, known>>

Ask ==
  /\ agent = "ask"
  /\ agent' = "wait"
  /\ req' = [req EXCEPT !["live"] = [pc |-> "asked", rec |-> Nothing]]
  /\ UNCHANGED <<kv, timer, files, known>>

\* The two files of a token, in the order in which _render_bundle replaces them.
PairSwapped == <<"expiry", "token">>
Pair == <<"token", "expiry">>

TakeToken ==
  /\ agent = "wait" /\ req["live"].pc = "valid"
  /\ files' = [files EXCEPT ![Pair[1]] = req["live"].rec.access]
  /\ agent' = "write"
  /\ UNCHANGED <<kv, req, timer, known>>

TakeExpiry ==
  /\ agent = "write"
  /\ files' = [files EXCEPT ![Pair[2]] = req["live"].rec.access]
  /\ req' = [req EXCEPT !["live"] = Idle]
  /\ \E n \in Naps : Sleep(n)
  /\ settled' = calm
  /\ UNCHANGED <<kv, calm, raced, regressed>>

DropToken ==
  /\ agent = "wait" /\ req["live"].pc = "refused"
  /\ files' = [files EXCEPT !["token"] = Absent]
  /\ agent' = "remove"
  /\ UNCHANGED <<kv, req, timer, known>>

DropExpiry ==
  /\ agent = "remove"
  /\ files' = [files EXCEPT !["expiry"] = Absent]
  /\ req' = [req EXCEPT !["live"] = Idle]
  /\ \E n \in Naps : Sleep(n)
  /\ UNCHANGED <<kv, known>>

\* What becomes of a request nobody waits for: the worker never got it, it is over, or
\* it is still to run.  The model keeps one such request.
Abandoned ==
  {[req EXCEPT !["live"] = Idle]} \cup
    IF req["late"] = Idle /\ req["live"].pc \in {"asked", "refreshing", "granted"}
    THEN {[live |-> Idle, late |-> req["live"]]} ELSE {}

\* The request times out or fails, the answer is malformed, or an identity file is
\* missing: nothing is written and the agent sleeps.
GiveUp ==
  /\ ~calm
  /\ agent \in {"ask", "wait"}
  /\ req' \in Abandoned
  /\ \E n \in Naps : Sleep(n)
  /\ UNCHANGED <<kv, files, known>>

WakeUp ==
  /\ agent = "asleep" /\ timer = 0
  /\ agent' = "expire"
  /\ UNCHANGED <<kv, req, timer, files, known>>

\* An exception outside the loop's list, such as a failing unlink, also ends the agent;
\* a reboot empties the tmpfs.
Crash ==
  /\ ~calm /\ agent # "down"
  /\ agent' = "down" /\ timer' = 0
  /\ req' \in Abandoned
  /\ files' \in {files, [f \in {"token", "expiry"} |-> Absent]}
  /\ UNCHANGED <<kv, known>>

Restart ==
  /\ agent = "down"
  /\ agent' = "expire"
  /\ UNCHANGED <<kv, req, timer, files, known>>

-----------------------------------------------------------------------------
(* The world. *)

\* The answer to a request nobody waits for is discarded.
LateEnds ==
  /\ req["late"].pc \in {"valid", "refused"}
  /\ req' = [req EXCEPT !["late"] = Idle]
  /\ UNCHANGED <<kv, agent, timer, files, known>>

\* Seven days after a login, those of older logins before those of the latest one.
LoginExpires ==
  /\ ~calm
  /\ \E logins \in {{FALSE}, BOOLEAN} :
       LET Lapsed(rec) == [rec EXCEPT !.valid = rec.valid /\ rec.latest \notin logins]
       IN  /\ kv' = Lapsed(kv)
           /\ req' = [i \in Requests |-> [req[i] EXCEPT !.rec = Lapsed(req[i].rec)]]
  /\ <<kv, req>>' # <<kv, req>>
  /\ UNCHANGED <<agent, timer, files, known>>

Unclipped(n) == IF n # Absent THEN n - 1 ELSE n
Less(n) == IF n > 0 THEN n - 1 ELSE n

\* Time passes while the agent sleeps or is down; the time an iteration takes is in Naps.
Tick ==
  /\ (agent = "asleep" /\ timer > 0) \/ agent = "down"
  /\ kv' = [kv EXCEPT !.access = Less(@)]
  /\ req' = [i \in Requests |-> [req[i] EXCEPT !.rec.access = Less(@)]]
  /\ timer' = Less(timer)
  /\ files' = [f \in {"token", "expiry"} |-> Less(files[f])]
  /\ UNCHANGED <<agent, known>>

BecomeCalm ==
  /\ ~calm /\ kv.valid
  /\ \A i \in Requests : req[i].pc \in {"idle", "asked"}
  /\ calm' = TRUE
  /\ UNCHANGED <<kv, req, agent, timer, files, settled, raced, regressed>>

-----------------------------------------------------------------------------
Init ==
  /\ kv = Nothing
  /\ req = [i \in Requests |-> Idle]
  /\ agent = "down" /\ timer = 0
  /\ files = [f \in {"token", "expiry"} |-> Absent]
  /\ calm = FALSE /\ settled = FALSE
  /\ raced = FALSE /\ regressed = FALSE

Serve == \E i \in Requests :
  ReadRecord(i) \/ Refresh(i) \/ RefreshRefused(i) \/ StoreRefreshed(i)

Loop ==
  \/ ExpireLocal \/ ExpireLocalExpiry \/ Ask \/ TakeToken \/ TakeExpiry
  \/ DropToken \/ DropExpiry \/ GiveUp \/ WakeUp

\* The agent goes on, or docker restarts it.
Agent == Loop \/ Restart

Next ==
  \/ Serve \/ Agent \/ Login \/ Crash
  \/ LateEnds \/ LoginExpires \/ Tick \/ BecomeCalm

\* The worker answers, the agent takes its next step, time passes.
Fairness == WF_vars(Serve) /\ WF_vars(Agent) /\ WF_vars(Tick)

Spec == Init /\ [][Next]_vars /\ Fairness

-----------------------------------------------------------------------------
(* Properties. *)

\* What token_ready vouches for is usable: the token in the file has not expired, whatever
\* step the agent or the worker died at.  A late put of an older record is the exception.
ReadyIsUsable == Ready /\ ~regressed => files["token"] > 0

\* A login is never undone by a refresh token of an older one, unless it fell between a
\* request's read of the record and its put.
LoginKept == kv.latest \/ raced

\* upstox-auth-worker/src/index.ts:80 "Refresh well before expiry: the VPS secrets agent
\* polls every 60s, so a 60s window let collectors hold an expired token between polls":
\* while nothing fails the collectors are never without a token.
HeldWhenCalm == settled => Ready

\* Whatever has happened before, once nothing fails any more the collectors get a token and
\* keep one; calm never ends.
Reconnects == <>[](calm => Ready)

=============================================================================
