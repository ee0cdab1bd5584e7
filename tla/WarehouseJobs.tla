---------------------------- MODULE WarehouseJobs ----------------------------
(***************************************************************************)
(* What writes to ClickHouse v2 beside the collectors: the nightly          *)
(* political job, the daemon that photographs the broker's portfolios, and  *)
(* the migration runner, here with one operator who retries.  Each has a    *)
(* lock of its own and no migration past wave 0 touches what the jobs       *)
(* write, so that a behaviour of all is a behaviour of each: the command is *)
(* chosen once and the others rest.                                        *)
(***************************************************************************)
EXTENDS PoliticalIngest

CONSTANTS Runners, None, SchemaLast, BackfillLast, Statements, MaxFaults,
          DayLength, AtTicks, Lookback, Stale, MaxClosed

VARIABLES
  command,
  lock, holder, stolen, tables, journal, sum, ran, edited, apply, faults,    \* MigrationRunner
  tick, session, closed, fill, lockfile, proc, row, shown, missed, shut      \* BrokerSnapshot

Migration == INSTANCE MigrationRunner WITH run <- apply
Snapshot  == INSTANCE BrokerSnapshot WITH lock <- lockfile, status <- shown

ASSUME DaemonAssumption == Snapshot!SnapshotAssumption

migrationVars == <<lock, holder, stolen, tables, journal, sum, ran, edited, apply, faults>>
snapshotVars  == <<tick, session, closed, fill, lockfile, proc, row, shown, missed, shut>>
allVars       == <<vars, migrationVars, snapshotVars, command>>

\* What the parser finds in a PDF is open only where the job runs.
JobsInit ==
  /\ Init /\ Migration!Init /\ Snapshot!Init
  /\ command \in {"political", "migrate", "snapshot"}
  /\ command # "political" => pdf = [f \in AllFilings |-> 0]

Political(A)  == command = "political" /\ A /\ UNCHANGED <<migrationVars, snapshotVars, command>>
Migrate(A)    == command = "migrate" /\ A /\ UNCHANGED <<vars, snapshotVars, command>>
Photograph(A) == command = "snapshot" /\ A /\ UNCHANGED <<vars, migrationVars, command>>

JobsNext == Political(Next) \/ Migrate(Migration!Next) \/ Photograph(Snapshot!Next)

\* The fairness of PoliticalIngest and of MigrationRunner.
JobsFairness ==
  /\ WF_allVars(Political(Job))
  /\ <>[][~Crash /\ (RunFails => Unparsed)]_vars
  /\ \A r \in Runners : /\ WF_allVars(Migrate(Migration!Proceed(r)))
                        /\ SF_allVars(Migrate(Migration!StartAll(r)))
  /\ WF_allVars(Migrate(Migration!LockAges))
  /\ SF_allVars(Migrate(Migration!ClearLock))

JobsSpec == JobsInit /\ [][JobsNext]_allVars /\ JobsFairness

-----------------------------------------------------------------------------
(* Properties. *)

\* What each job comes to.  A filing that stays in reach of the nightly run is stored, and counted
\* again after every reset (house_clerk/ingest.py); with apply retried and finitely many faults
\* the migration schema is completed, unless migrate_clickhouse_v2.py is wedged by a half created
\* journal or an edited file.
JobsSettle == ReachedIsStored /\ (command = "migrate" => Migration!DoneOrWedged)

\* A fill of the broker is lost only over a day without a session or after a slot without a
\* successful run: a run that calls itself successful has stored the fills of every Gateway
\* (sources/ibkr/provider.py collect, shared/ingest/provider.py RunContext.status).
LossHasACause == Snapshot!LossHasACause

=============================================================================
