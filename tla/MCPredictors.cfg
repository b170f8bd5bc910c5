SPECIFICATION Spec
CONSTANTS
  Caller = {c1, c2}
  Name = {m1, m2, empty}
  NoName = empty
  Lengths = {0, 3, 4, 9}
  Times = {0, 1000, 2000}
  KB = 4
  maxPromptLength = 2
  defaultTTFT = 500
  None = None
  DefaultData = DefaultData
  MaxRecords = 3
  Batches = {1, 2, 3}
  Threshes <- MCThreshes
  MaxParams = 2
  MaxTrained = 3
INVARIANTS
  ExactUnlessOverlapped
  MatchWithinRecorded
  SegmentsApart
SYMMETRY Symmetric
CHECK_DEADLOCK FALSE
