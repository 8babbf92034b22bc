CONSTANTS
  Slice = {s1, s2}
  Client = {a, b, c, d}
  LowResource = {a, b, c}
  Report <- Reported
  MaxClients = 3
  MinFocus = 1
  RBase = 1
  RMax = 2
  Target = 8
  FairTarget = 4
  MaxBacklog = 50
  Ceiling = 10
  Variants <- MethodAndAblations
  NumRounds = 3
  RedundantLimit = 1
SYMMETRY Interchangeable
SPECIFICATION Spec
INVARIANTS TypeOK NothingLeftOver ExcessIsReserved WeakNotShutOut RedundantIsRecent
CHECK_DEADLOCK FALSE
