\* A session that does not read says hello.
CONSTANTS
  s1 = s1
  s2 = s2
  s3 = s3
  r1 = r1
  r2 = r2
  None = None
  Sessions <- TwoSessions
  Rooms <- OneRoom
  OutCap = 2
  MaxMembers = 2
SPECIFICATION Safety
INVARIANTS
  NoPanic
SYMMETRY FullSymmetry
