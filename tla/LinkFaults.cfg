CONSTANTS
  None = None
  Trace <- Intermittent
  Modes = {"fixed", "trace", "repeated", "random"}
  Tools = {"iptables", "tc"}
  MaxTime = 7
  MaxSessions = 2
SPECIFICATION FairSpec
INVARIANTS SlotIsCurrent LinkFollowsSlot
PROPERTIES RepeatedPlaysOnce FailedApplyIsFinal LinkComesBack
CHECK_DEADLOCK FALSE
