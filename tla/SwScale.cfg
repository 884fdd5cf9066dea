CONSTANTS
  Regions <- MCRegions
  Scales  <- MCScales
SPECIFICATION SwSpec
INVARIANTS NoStrayWrite ScalesCorrectly
CHECK_DEADLOCK FALSE
