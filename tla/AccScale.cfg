CONSTANTS
  CountMod = 16
  MaxWidth = 4
  Widths  <- MCWidths
  Heights <- MCHeights
  Settings <- CSR
  MaxFrames = 2
SPECIFICATION FairSpec
INVARIANTS OffersDueWord NeverStuck ScalerInv FrameEndsClean
PROPERTIES RestartsOnlyAtEnd ImplementsScaler FrameCompletes
