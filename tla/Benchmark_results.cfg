SPECIFICATION FairSpec
CONSTANTS
  BufferSize = 2
  IntLimit = 74
  BENCH_CASES = 8
  TEST_CASES = 1
  TEST_REPEATS = 2
  Sizes <- MCSizes
  Sections <- MCSections
  HalfMod = 4
  Durations <- MCDurations
INVARIANTS TestsFit AllMatch TimesRight
PROPERTIES BenchmarkEnds
