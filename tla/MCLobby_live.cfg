\* Two sessions in a room, under fairness.
CONSTANTS
  s1 = s1
  s2 = s2
  s3 = s3
  r1 = r1
  r2 = r2
  None = None
  Sessions <- TwoSessions
  Rooms <- OneRoom
  OutCap = 3
  MaxMembers = 2
SPECIFICATION Spec
PROPERTIES
  Resynced
  StartedRoomGoes
  EmptyRoomGoes
