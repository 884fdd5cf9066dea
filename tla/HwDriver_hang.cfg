SPECIFICATION FairSpec
CONSTANTS
  BufferSize = 3
  Jobs <- MCEmpty
  MaxJobs = 1
  LengthMod = 16
PROPERTIES WaitEnds
