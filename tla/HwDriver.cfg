SPECIFICATION FairSpec
CONSTANTS
  BufferSize = 3
  Jobs <- MCJobs
  MaxJobs = 2
  LengthMod = 16
INVARIANTS ResultComplete NoWordPastFrame TransfersInBounds DescriptorsFit QuietOutsideTransfer NeverBusy DataInv
PROPERTIES CallReturns ImplementsService
