\* Two bills, so that a batch can hold one of them and the other can be introduced
\* after the list was read; one hearing.  Two PACs and a campaign committee, with
\* batches of two donations, so that a unit ends with the buffer part full.  Two
\* lobbying filings, so that one can be posted while the other is read.  Three keys,
\* so that one lies between the first and the last.  One unit of the token's time is the
\* polling interval, so a sleep takes one or two; the refresh window is the smallest that
\* covers the longest sleep, and a token outlives the window by two.
CONSTANTS
  Bills = {b1, b2}
  Hearings = {h1}
  DryRuns = TRUE
  MaxBreaks = 1
  Pacs = {p1, p2}
  Pccs = {c1}
  None = None
  Batch = 2
  MaxFaults = 1
  Filings = {f1, f2}
  Pool = 3
  Retries = 3
  Ttl = 2
  Life = 3
  Window = 2
  Interval = 1
SPECIFICATION ClientsSpec
CONSTRAINT OneKind
INVARIANTS
  BillsKept
  BatchAdmissible
  DoneIsStored
  DeferralIsDue
  AnswerIsRecent
  TokensKept
PROPERTIES
  ClientsRecover
