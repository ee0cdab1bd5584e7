\* Two overlapping invocations and two releases after a legacy deployment without universe-us.
CONSTANTS
  Scripts = {p1, p2}
  Releases = {r1, r2}
  Legacy = Legacy
  None = None
  LegacyServices = {"agent", "api", "ingest-india", "ingest-us"}
SPECIFICATION Spec
INVARIANT V2WritersMarked
