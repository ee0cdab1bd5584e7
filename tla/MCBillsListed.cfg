CONSTANTS
  Bills = {b1, b2}
  Hearings = {h1}
  DryRuns = FALSE
  MaxBreaks = 0
SPECIFICATION Spec
PROPERTY BillsArrive
