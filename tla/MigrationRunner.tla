-------------------------- MODULE MigrationRunner --------------------------
(***************************************************************************)
(* The ClickHouse v2 migration runner, scripts/migrate_clickhouse_v2.py:    *)
(* several operators may start `apply` at any time.  Every command sent to  *)
(* ClickHouse is a step of its own, so runs interleave and any command may  *)
(* fail, the process may die and the server may restart between two of     *)
(* them.                                                                   *)
(*                                                                         *)
(* The lock is a Memory table with at most one row that matters; the code   *)
(* never compares the owner in it.  `holder` and `stolen` are history:      *)
(* who created the current lock table, and whether a takeover ever dropped  *)
(* the table of a run that was still going.                                *)
(***************************************************************************)
EXTENDS Integers, FiniteSets

CONSTANTS
  Runners,       \* operators' apply processes
  None,          \* no runner: the holder when there is no lock table
  SchemaLast,    \* newest schema wave; wave 0 creates the journal
  BackfillLast,  \* newest backfill wave; the first is 1
  Statements,    \* SQL statements of a migration file
  MaxFaults      \* bound on failures, deaths and restarts

ASSUME WavesAssumption ==
  /\ SchemaLast \in Nat /\ BackfillLast \in Nat
  /\ Statements \in Nat /\ Statements >= 2
  /\ MaxFaults \in Nat
  /\ None \notin Runners

VARIABLES
  lock,       \* the lock table: absent, empty, or its row is fresh or older than the timeout
  holder,     \* history: the runner that created the lock table
  stolen,     \* history: a takeover dropped the lock table of a live run
  tables,     \* which of meta.schema_migrations and meta.migration_runs exist
  journal,    \* journal[m]: latest status of m in meta.schema_migrations
  sum,        \* sum[m]: the journalled checksum is the one of the edited file
  ran,        \* history: the statements of m that were executed, with their version
  edited,     \* migrations whose file was changed since the first run
  run,        \* run[r]: the apply command of runner r
  faults

vars == <<lock, holder, stolen, tables, journal, sum, ran, edited, run, faults>>

Phases == {"schema", "backfill"}
First(phase) == IF phase = "schema" THEN 0 ELSE 1
Last(phase) == IF phase = "schema" THEN SchemaLast ELSE BackfillLast
WavesOf(phase) == First(phase) .. Last(phase)
Migrations == ({"schema"} \X (0 .. SchemaLast)) \cup ({"backfill"} \X (1 .. BackfillLast))
Wave0 == <<"schema", 0>>

\* The steps of apply before the lock is created, and while it is this run's to release.
Outside == {"idle", "create", "peek", "drop", "recreate"}
Inside  == {"stamp", "load", "open", "apply", "sql", "mark", "unlock"}

Versions == BOOLEAN
Idle == [pc |-> "idle", phase |-> "schema", wave |-> 0, through |-> 0, step |-> 1,
         seen |-> {}, files |-> {}]

Runs == [pc : Outside \cup Inside, phase : Phases, wave : Nat, through : Nat,
         step : 1 .. Statements, seen : SUBSET Migrations, files : SUBSET Migrations]

TypeOK ==
  /\ lock \in {"absent", "empty", "fresh", "stale"}
  /\ holder \in Runners \cup {None}
  /\ stolen \in BOOLEAN
  /\ tables \in SUBSET {"journal", "runs"}
  /\ journal \in [Migrations -> {"none", "running", "failed", "succeeded"}]
  /\ sum \in [Migrations -> Versions]
  /\ ran \in [Migrations -> SUBSET ((1 .. Statements) \X Versions)]
  /\ edited \in SUBSET Migrations
  /\ run \in [Runners -> Runs]
  /\ \A r \in Runners : run[r].through \in WavesOf(run[r].phase)
  /\ faults \in 0 .. MaxFaults

-----------------------------------------------------------------------------
(* State of one run. *)

pc(r)      == run[r].pc
Current(r) == <<run[r].phase, run[r].wave>>
Version(r) == Current(r) \in run[r].files

Go(r, to)    == run' = [run EXCEPT ![r].pc = to]
Exit(r)      == run' = [run EXCEPT ![r] = Idle]
FinallyExit(r) == run' = [run EXCEPT ![r] = [Idle EXCEPT !.pc = "unlock"]]

\* Raised before the with block is entered: the lock is not released.
Refused(r) == Exit(r)

Fault == faults < MaxFaults /\ faults' = faults + 1

Locking   == <<lock, holder, stolen>>
Journals  == <<journal, sum>>
Database  == <<tables, journal, sum, ran>>

-----------------------------------------------------------------------------
(* migration_lock. *)

\* The files are read and the phase chosen; a backfill first passes the validation
\* gates, whose queries need the tables of wave 0.
Start(r) ==
  /\ pc(r) = "idle"
  /\ \E phase \in Phases : \E through \in WavesOf(phase) :
       /\ phase = "backfill" => (1 .. Statements) \subseteq {s[1] : s \in ran[Wave0]}
       /\ run' = [run EXCEPT ![r] = [Idle EXCEPT !.pc = "create", !.phase = phase,
                                       !.wave = First(phase), !.through = through,
                                       !.files = edited]]
  /\ UNCHANGED <<Locking, Database, edited, faults>>

\* CREATE TABLE of the lock, the first time or after a takeover's DROP.
CreateLock(r) ==
  /\ pc(r) \in {"create", "recreate"}
  /\ IF lock = "absent"
     THEN lock' = "empty" /\ holder' = r /\ Go(r, "stamp")
     ELSE /\ UNCHANGED <<lock, holder>>
          /\ IF pc(r) = "create" THEN Go(r, "peek") ELSE Refused(r)
  /\ UNCHANGED <<stolen, Database, edited, faults>>

Unexpired == {"fresh", "stale"}
Expired   == {"stale"}

\* The row of a lock that exists: no row or a young one is an error, and so is a table
\* dropped in between.
PeekLock(r) ==
  /\ pc(r) = "peek"
  /\ IF lock \in Expired THEN Go(r, "drop") ELSE Refused(r)
  /\ UNCHANGED <<Locking, Database, edited, faults>>

Alive(r) == pc(r) \in Inside

\* The takeover's DROP TABLE; it raises when the table is gone.
DropStale(r) ==
  /\ pc(r) = "drop"
  /\ IF lock = "absent"
     THEN Refused(r) /\ UNCHANGED Locking
     ELSE /\ stolen' = (stolen \/ \E other \in Runners : holder = other /\ Alive(other))
          /\ lock' = "absent"
          /\ holder' = None
          /\ Go(r, "recreate")
  /\ UNCHANGED <<Database, edited, faults>>

\* INSERT of the owner row into whatever lock table exists now.
StampLock(r) ==
  /\ pc(r) = "stamp"
  /\ IF lock = "absent"
     THEN Refused(r) /\ UNCHANGED lock
     ELSE /\ Go(r, "load")
          /\ lock' \in IF lock = "empty" THEN {"fresh"} ELSE {lock, "fresh"}
  /\ UNCHANGED <<holder, stolen, Database, edited, faults>>

\* The finally clause: DROP TABLE IF EXISTS, whoever holds the lock by now.
Unlock(r) ==
  /\ pc(r) = "unlock"
  /\ lock' = "absent"
  /\ holder' = None
  /\ Exit(r)
  /\ UNCHANGED <<stolen, Database, edited, faults>>

-----------------------------------------------------------------------------
(* command_apply and execute_migration, under the lock. *)

Journalled(m) == "journal" \in tables /\ journal[m] # "none"
Chosen(r) == {<<run[r].phase, w>> : w \in First(run[r].phase) .. run[r].through}

DriftedSuccess(r) == {m \in Chosen(r) : journal[m] = "succeeded" /\ sum[m] # (m \in run[r].files)}

\* Chosen files whose checksum differs from the journalled one, whatever the status.
Drifted(r) == {m \in Chosen(r) : Journalled(m) /\ sum[m] # (m \in run[r].files)}

\* load_journal and ensure_no_checksum_drift.
Load(r) ==
  /\ pc(r) = "load"
  /\ IF Drifted(r) # {}
     THEN FinallyExit(r)
     ELSE run' = [run EXCEPT ![r].pc = "open",
                             ![r].seen = {m \in Chosen(r) : journal[m] = "succeeded"}]
  /\ UNCHANGED <<Locking, Database, edited, faults>>

\* write_run "running" when the journal exists; it raises without meta.migration_runs.
OpenRun(r) ==
  /\ pc(r) = "open"
  /\ IF "journal" \in tables /\ "runs" \notin tables
     THEN FinallyExit(r)
     ELSE Go(r, "apply")
  /\ UNCHANGED <<Locking, Database, edited, faults>>

\* A migration that succeeded before is skipped, except in the backfill phase.
Skipped(r) == Current(r) \in run[r].seen /\ run[r].phase # "backfill"

\* write_journal, one row for the current migration.
WriteJournal(r, status) ==
  /\ journal' = [journal EXCEPT ![Current(r)] = status]
  /\ sum' = [sum EXCEPT ![Current(r)] = Version(r)]

\* Next of the chosen migrations: skip it, begin it, or finish the run.
NextMigration(r) ==
  /\ pc(r) = "apply"
  /\ \/ /\ run[r].wave > run[r].through
        /\ FinallyExit(r)
        /\ UNCHANGED Journals
     \/ /\ run[r].wave <= run[r].through /\ Skipped(r)
        /\ run' = [run EXCEPT ![r].wave = @ + 1]
        /\ UNCHANGED Journals
     \/ /\ run[r].wave <= run[r].through /\ ~Skipped(r)
        /\ Go(r, "sql")
        /\ IF "journal" \in tables THEN WriteJournal(r, "running") ELSE UNCHANGED Journals
  /\ UNCHANGED <<Locking, tables, ran, edited, faults>>

\* The tables wave 0 creates, in the order of its statements.
CreatedBy(m, step) ==
  IF m # Wave0 THEN {} ELSE IF step = 1 THEN {"journal"} ELSE {"runs"}

BeforeLast(step) == step >= Statements - 1
PastLast(step)   == step > Statements
AtLast(step)     == step = Statements

\* One SQL statement of the file.
Statement(r) ==
  /\ pc(r) = "sql"
  /\ ran' = [ran EXCEPT ![Current(r)] = @ \cup {<<run[r].step, Version(r)>>}]
  /\ tables' = tables \cup CreatedBy(Current(r), run[r].step)
  /\ IF AtLast(run[r].step) THEN run' = [run EXCEPT ![r].pc = "mark", ![r].step = 1]
     ELSE run' = [run EXCEPT ![r].step = @ + 1]
  /\ UNCHANGED <<Locking, Journals, edited, faults>>

\* write_journal "succeeded"; the run rows that follow hold nothing the runner reads back.
Mark(r) ==
  /\ pc(r) = "mark"
  /\ WriteJournal(r, "succeeded")
  /\ run' = [run EXCEPT ![r].pc = "apply", ![r].wave = @ + 1]
  /\ UNCHANGED <<Locking, tables, ran, edited, faults>>

-----------------------------------------------------------------------------
(* Failures. *)

\* A command raises before the with block, or DROP fails in the finally clause: the
\* process exits and the lock table stays as it is.
LockCommandFails(r) ==
  /\ pc(r) \in {"create", "peek", "drop", "recreate", "stamp", "unlock"}
  /\ Fault
  /\ IF pc(r) = "unlock" THEN Exit(r) ELSE Refused(r)
  /\ UNCHANGED <<Locking, Database, edited>>

GoOn(r) == run' = [run EXCEPT ![r].pc = "apply", ![r].wave = @ + 1, ![r].step = 1]

\* Where the loop goes on after a migration failed: nowhere.
AfterFailure(r) == FinallyExit(r)

\* A command raises under the lock.  Only a failing statement is journalled, if the
\* journal exists and can be written.
ApplyFails(r) ==
  /\ pc(r) \in {"load", "open", "apply", "sql", "mark"}
  /\ Fault
  /\ AfterFailure(r)
  /\ \/ pc(r) = "sql" /\ "journal" \in tables /\ WriteJournal(r, "failed")
     \/ UNCHANGED Journals
  /\ UNCHANGED <<Locking, tables, ran, edited>>

Crash(r) ==
  /\ pc(r) # "idle"
  /\ Fault
  /\ Exit(r)
  /\ UNCHANGED <<Locking, Database, edited>>

\* ClickHouse restarts: a Memory table keeps its definition and loses its rows.
ServerRestart ==
  /\ Fault
  /\ lock \in Unexpired
  /\ lock' = "empty"
  /\ UNCHANGED <<holder, stolen, Database, edited, run>>

\* The lock row grows older than the timeout, whether or not its run still goes.
LockAges ==
  /\ lock = "fresh"
  /\ lock' = "stale"
  /\ UNCHANGED <<holder, stolen, Database, edited, run, faults>>

\* "migration lock exists without an owner; inspect it manually": an operator who finds no
\* run going drops the table.
ClearLock ==
  /\ lock = "empty"
  /\ \A r \in Runners : ~Alive(r)
  /\ lock' = "absent"
  /\ holder' = None
  /\ UNCHANGED <<stolen, Database, edited, run, faults>>

\* Somebody changes a migration file that may have been journalled; at most one file.
Edit(m) ==
  /\ edited = {}
  /\ edited' = {m}
  /\ UNCHANGED <<Locking, Database, run, faults>>

-----------------------------------------------------------------------------
Init ==
  /\ lock = "absent"
  /\ holder = None
  /\ stolen = FALSE
  /\ tables = {}
  /\ journal = [m \in Migrations |-> "none"]
  /\ sum = [m \in Migrations |-> FALSE]
  /\ ran = [m \in Migrations |-> {}]
  /\ edited = {}
  /\ run = [r \in Runners |-> Idle]
  /\ faults = 0

\* What a run does when nothing fails.
Proceed(r) ==
  \/ CreateLock(r) \/ PeekLock(r) \/ DropStale(r) \/ StampLock(r) \/ Unlock(r)
  \/ Load(r) \/ OpenRun(r) \/ NextMigration(r) \/ Statement(r) \/ Mark(r)

Next ==
  \/ \E r \in Runners : Start(r) \/ Proceed(r)
  \/ \E r \in Runners : LockCommandFails(r) \/ ApplyFails(r) \/ Crash(r)
  \/ ServerRestart
  \/ LockAges
  \/ ClearLock
  \/ \E m \in Migrations : Edit(m)

Spec == Init /\ [][Next]_vars

\* An operator runs the whole schema phase again and again; runs proceed, time passes
\* and a lock without an owner is cleared by hand.
StartAll(r) ==
  /\ Start(r)
  /\ run'[r].phase = "schema" /\ run'[r].through = SchemaLast

Fairness ==
  /\ \A r \in Runners : WF_vars(Proceed(r)) /\ SF_vars(StartAll(r))
  /\ WF_vars(LockAges)
  /\ SF_vars(ClearLock)

FairSpec == Spec /\ Fairness

-----------------------------------------------------------------------------
(* Properties. *)

\* Two runs are under the lock at once only after a takeover dropped the lock of a run
\* that was still going (older than the timeout, or between two takeovers).
MutualExclusion ==
  ~stolen => \A r, s \in Runners : Alive(r) /\ Alive(s) => r = s

AllRan(m) == (1 .. Statements) \subseteq {s[1] : s \in ran[m]}

\* "succeeded" in the journal means that every statement of the journalled version of the
\* file was executed, whatever overlapped, failed or was retried.
SucceededApplied ==
  \A m \in Migrations :
    journal[m] = "succeeded" => \A k \in 1 .. Statements : <<k, sum[m]>> \in ran[m]

\* Forward only: no statement of a wave is executed before the earlier waves of its phase.
WavesInOrder ==
  \A m, n \in Migrations :
    m[1] = n[1] /\ m[2] < n[2] /\ ran[n] # {} => AllRan(m)

\* The checksum drift guard: unless two runs overlapped, the statements executed for a
\* migration all come from one version of its file.  Wave 0 runs before its journal exists.
OneVersion ==
  ~stolen => \A m \in Migrations \ {Wave0} : Cardinality({s[2] : s \in ran[m]}) <= 1

SchemaDone == \A w \in 0 .. SchemaLast : journal[<<"schema", w>>] = "succeeded"

\* What stops every later apply: a journal without the runs table, or a journalled
\* migration whose file was edited.
Wedged ==
  \/ "journal" \in tables /\ "runs" \notin tables
  \/ \E m \in Migrations : Journalled(m) /\ sum[m] # (m \in edited)

\* With apply retried and finitely many faults the schema is completed unless the runner
\* is wedged in one of these two ways.
DoneOrWedged == <>SchemaDone \/ <>[]Wedged

-----------------------------------------------------------------------------
(* What the runner implements: without locks, runs, files, faults and versions. *)

EarlierWaves(m) == {n \in Migrations : n[1] = m[1] /\ n[2] < m[2]}

Log == INSTANCE MigrationLog WITH
         Earlier  <- [m \in Migrations |-> EarlierWaves(m)],
         executed <- [m \in Migrations |-> {s[1] : s \in ran[m]}],
         recorded <- {m \in Migrations : journal[m] = "succeeded"}

\* migrate_clickhouse_v2.py:1 "Forward-only": every run of several operators, with its
\* takeovers, failures and restarts, is a behaviour of the forward-only log.
ImplementsLog == Log!Spec

=============================================================================
