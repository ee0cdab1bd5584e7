CONSTANTS
  Scripts = {p1, p2}
  Releases = {r1, r2}
  Legacy = Legacy
  None = None
  LegacyServices <- NoUniverse
  Trades = {t}
  Filings = {f}
  Legislator = l
  MaxRev = 3
  Rewritten = {t}
  Tables = 2
  MaxWrites = 2
SPECIFICATION CutoverSpec
SYMMETRY Symmetry
CONSTRAINT ThirdLate
INVARIANTS
  NoLegacyWriter
  CronAfterWrites
  CurrentVerified
  RestoredIsPrevious
  SuccessIsLoaded
  ExchangeHidesNothing
PROPERTY
  FactKept
