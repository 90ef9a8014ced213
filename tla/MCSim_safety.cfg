\* Two players, a generator and its snipe, two shots in the air.
CONSTANTS
  Players <- TwoPlayers
  Generators <- OneGenerator
  FirstID = 4
  MaxID = 9
  StartLives = 2
  GeneratorHP = 1
  MaxEntities = 6
  MaxInFlight = 2
  MaxSnipes = 1
  FireCooldown = 2
  SnipeCooldown = 1
  Lifetime = 1
  RespawnTimer = 1
  PlayerInvuln = 1
  SnipeInvuln = 0
  LagComp = 2
  Interp = 1
  Owts = {0, 2}
  MaxTick = 5
SPECIFICATION Spec
INVARIANTS
  SimTypeOK
  RespawnsAhead
  KillsCountOnce
  RewindsExact
PROPERTIES
  StopsOnlyOnIDs
  InvulnerableLives
  CooldownKept
  EliminatedStaysOut
CHECK_DEADLOCK FALSE
