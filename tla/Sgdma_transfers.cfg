CONSTANTS
  ProgramChains = {p1, p2}
  CallbackChains = {c1}
  ArraySize = 4
  Lengths = {1, 3}
  FifoDepth = 2
  Overlap = FALSE
SPECIFICATION FairSpec
INVARIANTS ToldWhenWhole
PROPERTIES StartsOnlyWhenIdle Answered
