\* An input is buffered when its player drops.
CONSTANTS
  p1 = p1
  p2 = p2
  p3 = p3
  c1 = c1
  c2 = c2
  c3 = c3
  None = None
  Players <- TwoPlayers
  Conns <- TwoConns
  InboxCap = 1
  OutCap = 1
  Grace = 2
  MatchTimer = 3
  PvE = FALSE
  ClientFrames <- InputOnly
  Revocable <- Nobody
  Stoppable = FALSE
SPECIFICATION Safety
PROPERTY
  GraceAppliesNoInput
CHECK_DEADLOCK FALSE
