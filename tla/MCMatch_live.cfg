\* Fair behaviours: joins, drops and reconnects racing StopAll and the match's end.
CONSTANTS
  p1 = p1
  p2 = p2
  p3 = p3
  c1 = c1
  c2 = c2
  c3 = c3
  None = None
  Players <- TwoPlayers
  Conns <- TwoConns
  InboxCap = 1
  OutCap = 1
  Grace = 1
  MatchTimer = 2
  PvE = TRUE
  ClientFrames <- InputOnly
  Revocable <- OnlyP1
  Stoppable = TRUE
SPECIFICATION Spec
PROPERTIES
  JoinAnswered
  MatchEventuallyEnds
  ConnsTornDown
