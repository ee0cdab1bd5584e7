CONSTANTS
  Procs = {p1, p2}
  Stale = 2
  Daily <- DailySources
  Weekly <- WeeklySources
  HouseClerk = "house_clerk"
  Cooldown = 1
  MaxRetry = 2
  NumFilings = 2
  Tradeless = {1}
  Retention = 3
  Chunk = 1
  Symbols = {1, 2, 3}
  Unplaced = {3}
  Tier = 1
  Futures = {1, 2}
  Underlying <- UnderlyingOf
  Index = 0
SPECIFICATION CollectorsSpec
SYMMETRY Symmetry
CONSTRAINT Focus
INVARIANTS
  OneRun
  CooldownKept
  DoneIsStored
  HolesExplained
  SeriesKept
PROPERTY MarksKept
