CONSTANTS
  w1 = w1
  w2 = w2
  None = None
  Worker = {w1}
  Client = {0}
  Owns <- OwnsAll
  NumRounds = 2
  ClientsPerRound = 1
  ReserveWeak = FALSE
  Weak = {}
  Dropped = {}
  DiscardLate = TRUE
  MaxRetries = 2
  MaxRestarts = 1
SPECIFICATION Spec
INVARIANTS PendingUnique AckedKept FreshBase
CHECK_DEADLOCK FALSE
