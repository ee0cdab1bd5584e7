CONSTANTS
  Runners = {r1, r2}
  None = None
  SchemaLast = 1
  BackfillLast = 0
  Statements = 2
  MaxFaults = 1
  MaxTime = 3
  Through = {4, 9}
  Stops <- SomeRevisions
SPECIFICATION MigrationsSpec
SYMMETRY Symmetry
INVARIANTS
  MutualExclusion
  SucceededApplied
  OneVersion
  BackfillComplete
  SchemaFits
  RowsKept
PROPERTIES
  ImplementsLog
  RerunSettles
