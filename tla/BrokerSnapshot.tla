--------------------------- MODULE BrokerSnapshot ---------------------------
(***************************************************************************)
(* The IBKR portfolio snapshot (us_portfolio_ibkr_snapshot.py --daemon):    *)
(* a run at each slot of a session, one unit per Gateway and dataset, each  *)
(* failing by itself.  Positions, account state and orders are photographs; *)
(* fills are asked for over the last Lookback and lost when no run has      *)
(* stored them by then.  One fill of one Gateway is followed.               *)
(*                                                                         *)
(* Time goes by in ticks of a day of DayLength; a run, which takes minutes, *)
(* is over within its tick.                                                *)
(***************************************************************************)
EXTENDS Integers

CONSTANTS
  DayLength,  \* ticks of a day
  AtTicks,    \* the slots of --at
  Lookback,   \* executions_lookback
  Stale,      \* LOCK_STALE_SECONDS_DEFAULT
  MaxClosed   \* bound on days without a session in a row

\* The daemon's defaults, two slots a day (06:00 and 16:30) and fills of the last 24 hours.
SnapshotAssumption ==
  /\ DayLength \in Nat \ {0} /\ AtTicks \subseteq 0 .. DayLength - 1
  /\ \E early, late \in AtTicks : early # late
  /\ Lookback \in Nat /\ DayLength <= Lookback
  /\ Stale \in Nat \ {0} /\ MaxClosed \in Nat

Modes    == <<"paper", "live">>
Datasets == <<"positions", "account_state", "executions", "open_orders">>
Status   == {"success", "partial", "failed"}

VARIABLES
  tick,     \* time of day
  session,  \* today is a session
  closed,   \* days without a session up to today
  fill,     \* the fill: its Gateway and its age, -1 while there is none to be stored
  lock,     \* age of the lock file, -1 if there is none
  proc,     \* the process: where it is, units ok and failed, and whether a slot is due
  row,      \* status of the last row of meta.ingestion_runs
  status,   \* meta.source_status of ibkr
  missed,   \* history: slots since the fill without a successful run
  shut      \* history: a day without a session since the fill

day   == <<tick, session, closed>>
fate  == <<missed, shut>>
vars  == <<day, fill, lock, proc, row, status, fate>>

Lost == Lookback + 1  \* the age at which no run asks for a fill any more
Absent == -1

Down == [pc |-> "down", mode |-> 1, dataset |-> 0, ok |-> FALSE, bad |-> FALSE,
         due |-> FALSE, stopping |-> FALSE]

TypeOK ==
  /\ tick \in 0 .. DayLength - 1
  /\ session \in BOOLEAN
  /\ closed \in 0 .. MaxClosed
  /\ fill \in [mode : 1 .. 2, age : Absent .. Lost]
  /\ lock \in Absent .. Stale
  /\ proc \in [pc : {"down", "start", "run", "report", "wait"}, mode : 1 .. 3,
               dataset : 0 .. 4, ok : BOOLEAN, bad : BOOLEAN, due : BOOLEAN,
               stopping : BOOLEAN]
  /\ row \in {"none", "running"} \cup Status
  /\ status \in {"none", "waiting", "ready", "incomplete", "error", "stopped"}
  /\ missed \in 0 .. 2
  /\ shut \in BOOLEAN

At(pc)   == proc.pc = pc
Alive    == ~At("down")
Untold   == fill.age # Absent
Forget   == fill' = [fill EXCEPT !.age = Absent] /\ missed' = 0 /\ shut' = FALSE
Count(n) == missed' = IF Untold /\ missed < 2 THEN missed + n ELSE missed

-----------------------------------------------------------------------------
(* The process and its lock file, which lies in the file system of the container. *)

\* main: acquire_lock refuses while the file is fresh, docker starts the process again and
\* again; an older file is stolen.  The first run comes at once (--run-on-start).
Start ==
  /\ At("down")
  /\ lock \in {Absent, Stale}
  /\ lock' = 0
  /\ proc' = [Down EXCEPT !.pc = "start"]
  /\ UNCHANGED <<day, fill, row, status, fate>>

\* SIGTERM sets a flag that the loop reads between runs.
Stop ==
  /\ Alive /\ ~proc.stopping
  /\ proc' = [proc EXCEPT !.stopping = TRUE]
  /\ UNCHANGED <<day, fill, lock, row, status, fate>>

\* run_daemon has left its loop: the lock file is deleted.
Exit ==
  /\ proc.stopping /\ (At("start") \/ At("wait"))
  /\ status' \in {"stopped", status}
  /\ lock' = Absent
  /\ proc' = Down
  /\ UNCHANGED <<day, fill, row, fate>>

\* The memory limit, or a stop that lasts longer than its grace period.
Kill ==
  /\ Alive
  /\ proc' = Down
  /\ UNCHANGED <<day, fill, lock, row, status, fate>>

\* A release creates the container again.
Recreate ==
  /\ At("down") /\ lock # Absent
  /\ lock' = Absent
  /\ UNCHANGED <<day, fill, proc, row, status, fate>>

-----------------------------------------------------------------------------
(* A run. *)

\* start_ingestion_run; if it raises the daemon notifies and goes on.
StartRun ==
  /\ ~proc.stopping
  /\ At("start") \/ (At("wait") /\ proc.due)
  /\ \/ /\ row' = "running"
        /\ proc' = [Down EXCEPT !.pc = "run"]
        /\ UNCHANGED missed
     \/ /\ proc' = [Down EXCEPT !.pc = "wait"]
        /\ Count(1)
        /\ UNCHANGED row
  /\ UNCHANGED <<day, fill, lock, status, shut>>

NextMode == [proc EXCEPT !.mode = @ + 1, !.dataset = 0]

\* collect: connect_with_retry to the Gateway of the mode, or one failed unit for it.
Connect ==
  /\ At("run") /\ proc.mode <= 2 /\ proc.dataset = 0
  /\ \/ proc' = [proc EXCEPT !.dataset = 1]
     \/ proc' = [NextMode EXCEPT !.bad = TRUE]
  /\ UNCHANGED <<day, fill, lock, row, status, fate>>

\* A fill is asked for if its time is not before the run's minus executions_lookback: one
\* made in the tick that lies exactly so far back may be on either side.
Asked == fill.age <= Lookback
MayBeOut == fill.age = Lookback

\* _snapshot_mode: capture, archive, decode, normalize and write one dataset.  A write may be
\* stored although it raises.
Dataset ==
  /\ At("run") /\ proc.mode <= 2 /\ proc.dataset > 0
  /\ \E ok \in BOOLEAN :
       LET done == IF ok THEN [proc EXCEPT !.ok = TRUE] ELSE [proc EXCEPT !.bad = TRUE]
           has  == /\ Datasets[proc.dataset] = "executions" /\ fill.mode = proc.mode
                   /\ Untold /\ Asked
       IN  /\ proc' = IF proc.dataset = 4 THEN [done EXCEPT !.mode = @ + 1, !.dataset = 0]
                      ELSE [done EXCEPT !.dataset = @ + 1]
           /\ \/ has /\ Forget
              \/ (~has \/ ~ok \/ MayBeOut) /\ UNCHANGED <<fill, fate>>
  /\ UNCHANGED <<day, lock, row, status>>

\* RunContext.status
AnyUnit   == IF proc.bad /\ ~proc.ok THEN "failed" ELSE "success"
RunStatus == IF ~proc.bad THEN "success" ELSE IF proc.ok THEN "partial" ELSE "failed"

\* finish_ingestion_run and, unless it raises, report.
FinishRun ==
  /\ At("run") /\ proc.mode = 3
  /\ \/ row' = RunStatus /\ proc' = [proc EXCEPT !.pc = "report"]
        /\ Count(IF RunStatus = "success" THEN 0 ELSE 1)
     \/ proc' = [Down EXCEPT !.pc = "wait", !.stopping = proc.stopping]
        /\ UNCHANGED row /\ Count(1)
  /\ UNCHANGED <<day, fill, lock, status, shut>>

\* STATUS_BY_RUN; a status that cannot be written is logged.
Report ==
  /\ At("report")
  /\ status' \in {status, CASE RunStatus = "success" -> "ready"
                            [] RunStatus = "partial" -> "incomplete"
                            [] OTHER                 -> "error"}
  /\ proc' = [Down EXCEPT !.pc = "wait", !.stopping = proc.stopping]
  /\ UNCHANGED <<day, fill, lock, row, fate>>

\* The loop comes round: next_scheduled_run, and the status of the source is overwritten.
Announce ==
  /\ At("wait") /\ ~proc.stopping /\ ~proc.due
  /\ status' = "waiting"
  /\ UNCHANGED <<day, fill, lock, proc, row, fate>>

-----------------------------------------------------------------------------
(* Time and trading. *)

\* A fill in the Gateway of mode m; later ones are like the one that is followed.
Trade ==
  /\ ~Untold
  /\ \E m \in 1 .. 2 : fill' = [mode |-> m, age |-> 0]
  /\ UNCHANGED <<day, lock, proc, row, status, fate>>

\* next_scheduled_run: the slots of a session are due, no others.
DueAt(t, open) == open /\ t \in AtTicks

\* The daemon takes a due snapshot, and a run ends, before time goes on.
Tick ==
  /\ At("down") \/ (At("wait") /\ ~proc.due)
  /\ ~proc.stopping
  /\ tick' = IF tick = DayLength - 1 THEN 0 ELSE tick + 1
  /\ IF tick' # 0 THEN UNCHANGED <<session, closed>>
     ELSE \/ session' = TRUE /\ closed' = 0
          \/ closed < MaxClosed /\ session' = FALSE /\ closed' = closed + 1
  /\ fill' = IF Untold /\ fill.age < Lost THEN [fill EXCEPT !.age = @ + 1] ELSE fill
  /\ lock' = IF lock \in 0 .. Stale - 1 THEN lock + 1 ELSE lock
  /\ proc' = [proc EXCEPT !.due = At("wait") /\ DueAt(tick', session')]
  /\ Count(IF At("down") /\ DueAt(tick', session') THEN 1 ELSE 0)
  /\ shut' = (shut \/ (Untold /\ ~session'))
  /\ UNCHANGED <<row, status>>

-----------------------------------------------------------------------------

Init ==
  /\ tick = 0 /\ session = TRUE /\ closed = 0
  /\ fill = [mode |-> 1, age |-> Absent]
  /\ lock = Absent
  /\ proc = Down
  /\ row = "none" /\ status = "none"
  /\ missed = 0 /\ shut = FALSE

Next ==
  \/ Start \/ Stop \/ Exit \/ Kill \/ Recreate
  \/ StartRun \/ Connect \/ Dataset \/ FinishRun \/ Report \/ Announce
  \/ Trade \/ Tick

Spec == Init /\ [][Next]_vars

-----------------------------------------------------------------------------
(* Properties. *)

\* A fill is lost only over a day without a session or after a slot without a successful
\* run: a run that calls itself successful has stored the executions of every Gateway
\* (sources/ibkr/provider.py collect, shared/ingest/provider.py RunContext.status).
LossHasACause == fill.age = Lost => shut \/ missed > 0

\* docs/operations/ibkr-gateway-setup.md:35 "Executions look back 24 hours, so one missed run
\* loses no fills."
OneMissLosesNone == fill.age = Lost => missed > 1

=============================================================================
