\* Two matches, of which one at a time, two lobby sessions, an inbox of one.
CONSTANTS
  Matches = {m1, m2}
  Conns = {c1, c2}
  MaxMatches = 1
  InboxCap = 1
  Orders <- BothOrders
SPECIFICATION Spec
INVARIANTS
  HostingTypeOK
  GaugeCounts
PROPERTIES
  RoomCloses
  ShutdownReturns
  CensusSpec
CHECK_DEADLOCK FALSE
