CONSTANTS
  None = None
  Torn = Torn
  w1 = w1
  w2 = w2
  Worker = {w1, w2}
  NumRounds = 3
  SaveEvery = 2
  MaxStarts = 2
SYMMETRY Interchangeable
SPECIFICATION RestartSpec
INVARIANTS RestartTypeOK RoundsCountOnce FeedbackCovers CheckpointKept CheckpointKeepsUp FreshBaseOfLife
CHECK_DEADLOCK FALSE
