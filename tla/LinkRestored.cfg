CONSTANTS
  None = None
  Trace <- StartsOffline
  Modes = {"trace"}
  Tools = {}
  MaxTime = 3
  MaxSessions = 2
SPECIFICATION Spec
INVARIANTS RestoredMeansUnblocked
CHECK_DEADLOCK FALSE
