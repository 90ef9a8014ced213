\* One player and two snipes in a chamber with a generator; two subtiles a tile.
CONSTANTS
  p1 = p1
  Players <- One
  Snipes <- Pair
  Tile = 2
  Walls <- Border
  SpawnTiles <- Spawn
  GenTile <- Middle
  PlayerHalf = 2
  SnipeHalf = 1
  GenHalf = 2
  PlayerVelocities <- Walks
  SnipeVelocities <- Walks
  MaxBodies = 2
SPECIFICATION Spec
INVARIANTS
  PlayersClear
  SnipesOutOfWalls
PROPERTIES
  PlayersGlide
