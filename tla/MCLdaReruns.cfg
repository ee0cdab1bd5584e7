CONSTANTS
  Filings = {f1}
  DryRuns = FALSE
  MaxBreaks = 0
SPECIFICATION Spec
INVARIANT OneCopy
