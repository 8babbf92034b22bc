CONSTANTS
  w1 = w1
  w2 = w2
  None = None
  Worker = {w1, w2}
  Client = {0, 1}
  Owns <- OwnsOverlap
  NumRounds = 2
  ClientsPerRound = 2
  ReserveWeak = TRUE
  Weak = {0}
  Dropped = {1}
  DiscardLate = FALSE
  MaxRetries = 1
  MaxRestarts = 0
SPECIFICATION FairSpec
INVARIANTS TaskHandedOnce ReceivedMatchesCompleted
PROPERTIES LedgerSpec TrainingTerminates
CHECK_DEADLOCK FALSE
