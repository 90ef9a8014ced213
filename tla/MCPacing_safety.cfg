\* Two players, one of whom chats; both intervals are of two ticks.
CONSTANTS
  p1 = p1
  p2 = p2
  Players <- TwoPlayers
  Talkers <- OnlyP1
  Interval = 2
  Every = 2
  Burst = 1
  Refill = 2
  MaxScore = 1
  MaxTick = 4
SPECIFICATION Spec
INVARIANTS
  BoardFresh
  SnapshotAge
  RateBound
CHECK_DEADLOCK FALSE
