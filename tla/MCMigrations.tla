---------------------------- MODULE MCMigrations ----------------------------
(* The migration runner with two operators and two schema waves (its backfill phase
   is checked with the jobs, WarehouseJobs); three events around the statement of a backfill to
   wave 4 or 9; alembic commands between the first, the last and the revisions around those that
   move rows. *)
EXTENDS Migrations, TLC

Symmetry      == Permutations(Runners)
SomeRevisions == {0, 15, 16, 21, 23, 28}
=============================================================================
