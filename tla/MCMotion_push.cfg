\* Two snipes beside the generator: one pushes the other into it.
CONSTANTS
  p1 = p1
  Players <- One
  Snipes <- Pair
  Tile = 2
  Walls <- Border
  SpawnTiles <- Spawn
  GenTile <- Middle
  PlayerHalf = 2
  SnipeHalf = 1
  GenHalf = 2
  PlayerVelocities <- Walks
  SnipeVelocities <- Walks
  MaxBodies = 2
SPECIFICATION Spec
INVARIANTS
  SnipesOffGenerator
CHECK_DEADLOCK FALSE
