\* Three players, so that the match goes on without one of them.
CONSTANTS
  p1 = p1
  p2 = p2
  p3 = p3
  c1 = c1
  c2 = c2
  c3 = c3
  None = None
  Players <- ThreePlayers
  Conns <- ThreeConns
  InboxCap = 1
  OutCap = 1
  Grace = 1
  MatchTimer = 2
  PvE = FALSE
  ClientFrames <- InputPing
  Revocable <- Nobody
  Stoppable = FALSE
SPECIFICATION Safety
INVARIANTS
  ContendersRemain
  DeadCamFiltersInput
SYMMETRY FullSymmetry
