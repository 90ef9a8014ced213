\* Three members, one of whom does not read.
CONSTANTS
  s1 = s1
  s2 = s2
  s3 = s3
  r1 = r1
  r2 = r2
  None = None
  Sessions <- ThreeSessions
  Rooms <- OneRoom
  OutCap = 2
  MaxMembers = 3
SPECIFICATION Safety
INVARIANTS
  ChatReachesMembers
SYMMETRY FullSymmetry
