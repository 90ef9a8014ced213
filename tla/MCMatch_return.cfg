\* Nobody joins, or whoever did has left, when the warmup timer ends the match.
CONSTANTS
  p1 = p1
  p2 = p2
  p3 = p3
  c1 = c1
  c2 = c2
  c3 = c3
  None = None
  Players <- TwoPlayers
  Conns <- TwoConns
  InboxCap = 1
  OutCap = 1
  Grace = 1
  MatchTimer = 2
  PvE = TRUE
  ClientFrames <- InputOnly
  Revocable <- Nobody
  Stoppable = FALSE
SPECIFICATION Spec
PROPERTY
  RunReturns
