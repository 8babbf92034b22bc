CONSTANTS
  Slice = {s1, s2, s3}
  Front <- FirstHalf
  s1 = s1
  s2 = s2
  a = a
  b = b
  Client = {a, b}
  Slow = {b}
  MaxSlices <- Quota
  WarmupRounds = 1
  NumRounds = 6
SYMMETRY Interchangeable
SPECIFICATION Spec
INVARIANTS TypeOK CoverageBalanced StarvationBounded
CHECK_DEADLOCK FALSE
