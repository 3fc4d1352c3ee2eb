SPECIFICATION FairPaceSpec
CONSTANTS
  RamDepth = 9
  HalfWord = 16
  RateMod = 4
  TailBytes = 5
  Lens = {6, 7}
  Highs = {0, 1}
  Lows = {0, 5}
  Rates = {0, 2}
  LatFlags = {FALSE}
  Numbers = {}
  MaxTests = 2
  Traffic = TRUE
  MidGap = FALSE
  SlowReset = TRUE
INVARIANTS
  RdNeverFinishesFirst
  PacedReplay
  HeadsApart
  TestLength
  ReadyForTest
PROPERTIES
  FramedOutput
  ImplementsGenerator
  TestCompletes
