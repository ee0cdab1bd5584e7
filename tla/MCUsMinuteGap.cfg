CONSTANTS
  Retention = 3
  Week = 1
SPECIFICATION Spec
INVARIANT MinuteGapRetried
