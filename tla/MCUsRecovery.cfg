CONSTANTS
  Retention = 5
  Week = 1
SPECIFICATION Spec
CONSTRAINT FewInTrouble
INVARIANTS
  DailyNoSilentLoss
  CheckpointCovered
  DailyHeals
