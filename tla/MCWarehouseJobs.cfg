\* The political job over three filings, the first of an earlier year, one a night; one
\* operator who applies two schema waves and a backfill of two statements each; ticks of six
\* hours for the snapshots: slots in the morning and at the close, fills of the last 24 hours,
\* a lock of 12.
CONSTANTS
  Filings = 3
  OldYear = 1
  Limit = 1
  MaxTrades = 1
  Runners = {r1}
  None = None
  SchemaLast = 1
  BackfillLast = 1
  Statements = 2
  MaxFaults = 2
  DayLength = 4
  AtTicks = {1, 3}
  Lookback = 4
  Stale = 2
  MaxClosed = 1
SPECIFICATION JobsSpec
INVARIANTS
  CountBacked
  LossHasACause
PROPERTIES
  SuccessIsComplete
  JobsSettle
