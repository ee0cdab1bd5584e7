CONSTANTS
  Runners = {r1}
  None = None
  SchemaLast = 1
  BackfillLast = 1
  Statements = 2
  MaxFaults = 1
  MaxTime = 0
  Through = {4}
  Stops <- SomeRevisions
SPECIFICATION MigrationsSpec
INVARIANT SetupWorks
