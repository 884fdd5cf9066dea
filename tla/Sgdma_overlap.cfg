CONSTANTS
  ProgramChains = {p1, p2}
  CallbackChains = {c1}
  ArraySize = 2
  Lengths = {1}
  FifoDepth = 2
  Overlap = TRUE
SPECIFICATION FairSpec
PROPERTIES StartsOnlyWhenIdle
