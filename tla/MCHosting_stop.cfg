\* A session connects while main stops the lobby.
CONSTANTS
  Matches = {m1, m2}
  Conns = {c1, c2}
  MaxMatches = 1
  InboxCap = 1
  Orders <- MainOnly
SPECIFICATION Spec
INVARIANTS
  NoSendOnClosedOut
CHECK_DEADLOCK FALSE
