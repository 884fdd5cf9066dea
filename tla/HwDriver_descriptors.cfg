SPECIFICATION Spec
CONSTANTS
  BufferSize = 3
  Jobs <- MCSequences
  MaxJobs = 3
  LengthMod = 16
INVARIANTS DescriptorsAllocated
