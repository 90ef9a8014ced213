\* Two players, three connections, inputs and chat; either player may be kicked.
CONSTANTS
  p1 = p1
  p2 = p2
  p3 = p3
  c1 = c1
  c2 = c2
  c3 = c3
  None = None
  Players <- TwoPlayers
  Conns <- ThreeConns
  InboxCap = 2
  OutCap = 1
  Grace = 2
  MatchTimer = 3
  PvE = FALSE
  ClientFrames <- InputChat
  Revocable <- Both
  Stoppable = FALSE
SPECIFICATION Safety
INVARIANTS
  TypeOK
  CountMatchesSlots
  NoSendOnClosed
  NoConnAbandoned
  GraceConsistent
  EndReleasesAll
PROPERTIES
  SeatsSpec
SYMMETRY DuelSymmetry
