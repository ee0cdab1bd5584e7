CONSTANTS
  Readers = {a, b}
  Slots = 1
  None = None
  Ttl <- OneUnit
  Late = 1
  Rows = {1, 2, 3}
  Top = 2
  Limit = 1
  Series = {s1, s2}
  Close = 2
  Stale = 1
SPECIFICATION ApiSpec
INVARIANTS
  WalksComplete
  VerdictsHold
PROPERTIES
  OverviewIsRecent
  LoadIsDue
  RequestsEnd
