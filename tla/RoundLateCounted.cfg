CONSTANTS
  w1 = w1
  w2 = w2
  None = None
  Worker = {w1}
  Client = {0}
  Owns <- OwnsAll
  NumRounds = 2
  ClientsPerRound = 1
  ReserveWeak = FALSE
  Weak = {}
  Dropped = {}
  DiscardLate = TRUE
  MaxRetries = 2
  MaxRestarts = 0
SPECIFICATION Spec
INVARIANTS LateUpdatesDiscarded
CHECK_DEADLOCK FALSE
