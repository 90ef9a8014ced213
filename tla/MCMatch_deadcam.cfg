\* A player loses its seat to a full channel in the tick that eliminates it.
CONSTANTS
  p1 = p1
  p2 = p2
  p3 = p3
  c1 = c1
  c2 = c2
  c3 = c3
  None = None
  Players <- ThreePlayers
  Conns <- ThreeConns
  InboxCap = 1
  OutCap = 1
  Grace = 1
  MatchTimer = 2
  PvE = FALSE
  ClientFrames <- InputOnly
  Revocable <- Nobody
  Stoppable = FALSE
SPECIFICATION Safety
INVARIANT
  DeadSendNoInput
SYMMETRY FullSymmetry
