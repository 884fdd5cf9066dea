SPECIFICATION FairSpec
CONSTANTS
  BufferSize = 2
  IntLimit = 32
  Commands <- MCCommands
  Files <- MCFiles
INVARIANTS PartInside BufferMatchesPart ImagesOnHeap SavesScaledImage
PROPERTIES CommandEnds
