SPECIFICATION IndexSpec
CONSTANTS
  Text <- Texts
  AskedSize = {1, 3, 9}
  AskedOverlap = {0, 1, 7}
  MinSize = 2
  MaxSize = 4
  MaxTokens = 8
  Setting <- Settings
  Column = 2
  MaxBatch = 2
CHECK_DEADLOCK FALSE
INVARIANTS
  ChunksFollowText
  ChunksAreBounded
