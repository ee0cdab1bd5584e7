----------------------------- MODULE Migrations -----------------------------
(***************************************************************************)
(* The migrations of the two warehouses: the runner that applies the waves  *)
(* of ClickHouse v2, what the waves do to the tables and their rows, and    *)
(* the alembic chain of the legacy Postgres database.  The runner is        *)
(* checked for who may run what when, the waves for what they copy; the     *)
(* chain has a database of its own.  None shares state with another, so     *)
(* that a behaviour of all is a behaviour of each: one moves, the others    *)
(* rest.                                                                   *)
(***************************************************************************)
EXTENDS MigrationRunner

CONSTANTS MaxTime, Through, Stops

VARIABLES
  mover,                                                \* what moves
  made, lane, row, ref, maps, held, job, settled, now,  \* TargetWaves
  db, work, cmd, stage, counted, copied, wrote, since   \* LegacyMigrations

Waves == INSTANCE TargetWaves
Chain == INSTANCE LegacyMigrations

ASSUME StopsAssumption == Waves!WavesAssumption /\ Chain!MigrationsAssumption

wavesVars == <<made, lane, row, ref, maps, held, job, settled, now>>
chainVars == <<db, work, cmd, stage, counted, copied, wrote, since>>
allVars   == <<vars, wavesVars, chainVars, mover>>

\* Which statement is followed is open only where the waves move.
MigrationsInit ==
  /\ Init /\ Waves!Init /\ Chain!Init
  /\ mover \in {"runner", "waves", "chain"}
  /\ mover # "waves" => lane = CHOOSE s \in Waves!Loads : TRUE

Running(A) == mover = "runner" /\ A /\ UNCHANGED <<wavesVars, chainVars, mover>>
Filling(A)    == mover = "waves" /\ A /\ UNCHANGED <<vars, chainVars, mover>>
Revising(A)   == mover = "chain" /\ A /\ UNCHANGED <<vars, wavesVars, mover>>

MigrationsNext == Running(Next) \/ Filling(Waves!Next) \/ Revising(Chain!Next)

MigrationsSpec == MigrationsInit /\ [][MigrationsNext]_allVars

-----------------------------------------------------------------------------
(* Properties. *)

\* A backfill that has settled, in whatever order rows were written, rewritten, staged,
\* approved and half copied before, has left no legacy row behind and copied none twice.
BackfillComplete == Waves!BackfillComplete

\* docs/operations/clickhouse-v2-data-completion.md:87: repeating it then changes no row.
RerunSettles == Waves!RerunSettles

\* Upgrades and downgrades of the legacy database end in the schema of their revision
\* (migrations/versions), at the head that of storage/schemas.
SchemaFits == Chain!SchemaFits

\* They lose no row but those they say they purge or undo, and those that are written while
\* revisions 016 and 022 copy.
RowsKept == Chain!RowsKept

\* docs/architecture/database.md:57 sets the legacy database up by `alembic upgrade head`.
SetupWorks == Chain!SetupWorks

=============================================================================
