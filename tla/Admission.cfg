CONSTANTS
  Tier <- Extremes
  Modes = {"none", "default", "full", "oracle"}
  NumGated = 6
  BaseSteps = 24
  MicroBatch = 16
  Deadline = 2640
  SimStep = 50
  SliceSize = 79
  HeadSize = 1895
  DefaultUplink = 500
  WarmupRounds = 1
  NumRounds = 9
  MaxRestarts = 1
  LeaseLimit = 6
SPECIFICATION Spec
INVARIANTS TypeOK RejectedForGood LeaseMeetsDeadline LeasesBounded
CHECK_DEADLOCK FALSE
