\* Three sessions in two rooms of two places.
CONSTANTS
  s1 = s1
  s2 = s2
  s3 = s3
  r1 = r1
  r2 = r2
  None = None
  Sessions <- ThreeSessions
  Rooms <- TwoRooms
  OutCap = 2
  MaxMembers = 2
SPECIFICATION Safety
INVARIANTS
  LobbyTypeOK
  Membership
  ViewsFresh
  TokensHaveMatch
  PlacesAreTaken
PROPERTIES
  StartedStays
SYMMETRY FullSymmetry
