CONSTANTS
  ProbeLimit = 2
  IdleLimit = 3
  MaxStarts = 2
  MaxLives = 3
  None = None
  Trace <- OneOutage
  Modes = {"trace"}
  Tools = {"iptables"}
  MaxTime = 3
SPECIFICATION LinkedFairSpec
INVARIANTS LinkedTypeOK OutageBounded OfflineNeverReported OwnOutageSparesTransfers
PROPERTIES TasksNeedRegistration WorkerEnds StrandedForGood
CHECK_DEADLOCK FALSE
