CONSTANTS
  q0 = q0
  q2 = q2
  head = head
  w1 = w1
  None = None
  Param = {q0, q2, head}
  Head = {head}
  LayerOf <- TwoLayers
  Bundles = {2}
  Coarse = {head}
  Grid = 2
  Worker = {w1}
  Client = {0, 1}
  Moves = {1, 2}
  Examples = {1, 2}
  NumRounds = 2
SPECIFICATION Spec
INVARIANTS TypeOK AverageOfModels FeedbackIsTruth
CHECK_DEADLOCK FALSE
