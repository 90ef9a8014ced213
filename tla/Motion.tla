------------------------------- MODULE Motion -------------------------------
(***************************************************************************)
(* Where bodies are.  Players and snipes are boxes that slide along walls  *)
(* and around a generator, one axis after the other; snipes that overlap   *)
(* are pushed apart; a generator emits snipes and the dead come back where *)
(* there is room.                                                          *)
(*                                                                         *)
(* Generators stand two maze cells apart, so that a body meets one at a    *)
(* time: there is one here.  What moves a body, the input of a player and  *)
(* the state of a snipe's mind, is a free choice of a velocity.            *)
(***************************************************************************)
EXTENDS Integers, FiniteSets

CONSTANTS
  Players, Snipes,                     \* snipes are numbered in the order of their IDs
  Tile,                                \* subtilePerTile
  Walls, SpawnTiles,                   \* tiles of the maze
  GenTile,
  PlayerHalf, SnipeHalf, GenHalf,      \* half extents
  PlayerVelocities, SnipeVelocities,   \* what velocityFor yields
  MaxBodies                            \* bound: the players and snipes about at once

VARIABLES
  players, snipes,   \* positions
  standing,          \* whether the generator stands
  phase,             \* the pass of Tick to come, "idle" between ticks
  todo               \* the pairs of snipes the weak block has yet to look at

vars == <<players, snipes, standing, phase, todo>>

Axes == {1, 2}
Out  == [a \in Axes |-> 0]             \* not in the slab: a corner of the border wall
Abs(n) == IF n < 0 THEN -n ELSE n
Centre(t) == [a \in Axes |-> t[a] * Tile + Tile \div 2]
Gen  == Centre(GenTile)

Speeds == {Abs(v[a]) : v \in PlayerVelocities, a \in Axes}

(* Speeds are below a tile, or a body would tunnel through a wall, and a   *)
(* snipe spans two columns at most, or a wall would fit between corners.   *)
ASSUME MotionAssumption ==
  /\ Tile \in Nat \ {0} /\ Snipes \subseteq Nat
  /\ PlayerHalf \in Nat \ {0} /\ SnipeHalf \in Nat \ {0} /\ GenHalf \in Nat \ {0}
  /\ 2 * SnipeHalf <= Tile + 1 /\ PlayerVelocities # {}
  /\ \A t \in Walls \cup SpawnTiles \cup {GenTile}, a \in Axes : t[a] \in Int
  /\ \A v \in PlayerVelocities \cup SnipeVelocities, a \in Axes :
       v[a] \in Int /\ Abs(v[a]) < Tile
  /\ \E w \in Walls : \A a \in Axes : w[a] = 0
  /\ GenTile \notin Walls \cup SpawnTiles

-----------------------------------------------------------------------------
(* Boxes.                                                                  *)

Overlaps(p, h, q, k) ==
  \A a \in Axes : p[a] - h < q[a] + k /\ q[a] - k < p[a] + h

Span(c, h) == ((c - h) \div Tile) .. ((c + h - 1) \div Tile)

HitsWall(p, h) == \E w \in Walls : \A a \in Axes : w[a] \in Span(p[a], h)

(* What the code asks of a snipe: whether one of its corners is in a wall. *)
aabbHitsWall(p, h) ==
  \E w \in Walls : \A a \in Axes : w[a] \in {(p[a] - h) \div Tile, (p[a] + h - 1) \div Tile}

HitsGen(p, h) == standing /\ Overlaps(p, h, Gen, GenHalf)

(* Mutation: only the tile straight ahead is looked at. *)
BlockedAhead(p, a, line, h) == \E w \in Walls : w[a] = line /\ w[3 - a] \in Span(p[3 - a], 1)
Blocked(p, a, line, h) == \E w \in Walls : w[a] = line /\ w[3 - a] \in Span(p[3 - a], h)

(* A step along one axis stops at the wall its leading edge would enter.   *)
Stepped(p, a, v, h) ==
  LET line == (p[a] + v + (IF v > 0 THEN h ELSE -h)) \div Tile
  IN [p EXCEPT ![a] = IF ~Blocked(p, a, line, h) THEN @ + v
                      ELSE IF v > 0 THEN line * Tile - h - 1
                      ELSE (line + 1) * Tile + h]

(* Mutation: the body is put on the far side of the generator. *)
ClearedFar(p, a, v, h) ==
  IF ~HitsGen(p, h) THEN p
  ELSE [p EXCEPT ![a] = IF v > 0 THEN Gen[a] + GenHalf + h + 1 ELSE Gen[a] - GenHalf - h - 1]
(* It is then put back to the side of the generator it comes from.         *)
Cleared(p, a, v, h) ==
  IF ~HitsGen(p, h) THEN p
  ELSE [p EXCEPT ![a] = IF v > 0 THEN Gen[a] - GenHalf - h - 1 ELSE Gen[a] + GenHalf + h + 1]

Along(p, a, v, h) == IF v = 0 THEN p ELSE Cleared(Stepped(p, a, v, h), a, v, h)

moveAndSlide(p, v, h) == Along(Along(p, 1, v[1], h), 2, v[2], h)

-----------------------------------------------------------------------------
(* What the maze leaves room for.  No body just fits between two walls or  *)
(* between a wall and the generator: a corridor is three bodies wide and   *)
(* generators and spawns stand in the middle of a cell.                    *)

Between(i, j, k) == (j <= i /\ i <= k) \/ (k <= i /\ i <= j)

NoExactFit(h) ==
  \A s, t \in Walls, a \in Axes :
    /\ (t[a] - s[a] - 1) * Tile = 2 * h
    /\ (Abs(t[3 - a] - s[3 - a]) - 1) * Tile < 2 * h - 1
    => \E u \in Walls : s[a] < u[a] /\ u[a] < t[a] /\ Between(u[3 - a], s[3 - a], t[3 - a])

ASSUME MazeAssumption ==
  /\ NoExactFit(PlayerHalf) /\ NoExactFit(SnipeHalf)
  /\ \A a \in Axes : /\ (Gen[a] + GenHalf + 2 * PlayerHalf) % Tile # 0
                     /\ (Gen[a] - GenHalf - 2 * PlayerHalf) % Tile # 0
  /\ \A w \in Walls : \E a \in Axes :
       \/ (w[a] + 1) * Tile <= Gen[a] - GenHalf - 2 * SnipeHalf - 1
       \/ w[a] * Tile >= Gen[a] + GenHalf + 2 * SnipeHalf + 1
  /\ \A t \in SpawnTiles : /\ ~HitsWall(Centre(t), PlayerHalf)
                           /\ ~Overlaps(Centre(t), PlayerHalf, Gen, GenHalf)

-----------------------------------------------------------------------------
Init ==
  /\ players \in [Players -> {Centre(t) : t \in SpawnTiles}]
  /\ \A p, q \in Players : p # q => players[p] # players[q]
  /\ snipes = [s \in Snipes |-> Out]
  /\ standing = TRUE /\ phase = "idle" /\ todo = {}

(* Players move, then snipes: only walls and the generator stop them.      *)
MovePlayers ==
  /\ phase = "idle"
  /\ \E v \in [{p \in Players : players[p] # Out} -> PlayerVelocities] :
       players' = [p \in Players |->
         IF players[p] = Out THEN Out ELSE moveAndSlide(players[p], v[p], PlayerHalf)]
  /\ phase' = "snipes"
  /\ UNCHANGED <<snipes, standing, todo>>

MoveSnipes ==
  /\ phase = "snipes"
  /\ \E v \in [{s \in Snipes : snipes[s] # Out} -> SnipeVelocities] :
       snipes' = [s \in Snipes |->
         IF snipes[s] = Out THEN Out ELSE moveAndSlide(snipes[s], v[s], SnipeHalf)]
  /\ phase' = "block" /\ todo' = {pair \in Snipes \X Snipes : pair[2] < pair[1]}
  /\ UNCHANGED <<players, standing>>

-----------------------------------------------------------------------------
(* Of two snipes that overlap the one with the higher ID is put beside the *)
(* other, unless there is a wall.                                          *)

(* Mutation: it is put there whatever is there. *)
PushedAnyway(at, hi, lo) ==
  LET a == IF Abs(at[hi][1] - at[lo][1]) >= Abs(at[hi][2] - at[lo][2]) THEN 1 ELSE 2
      away == IF at[hi][a] > at[lo][a] THEN 2 * SnipeHalf + 1 ELSE -(2 * SnipeHalf + 1)
  IN IF Out \in {at[hi], at[lo]} \/ ~Overlaps(at[hi], SnipeHalf, at[lo], SnipeHalf)
     THEN at ELSE [at EXCEPT ![hi][a] = at[lo][a] + away]
Pushed(at, hi, lo) ==
  LET a == IF Abs(at[hi][1] - at[lo][1]) >= Abs(at[hi][2] - at[lo][2]) THEN 1 ELSE 2
      away == IF at[hi][a] > at[lo][a] THEN 2 * SnipeHalf + 1 ELSE -(2 * SnipeHalf + 1)
      beside == [at[hi] EXCEPT ![a] = at[lo][a] + away]
  IN IF \/ Out \in {at[hi], at[lo]}
        \/ ~Overlaps(at[hi], SnipeHalf, at[lo], SnipeHalf)
        \/ aabbHitsWall(beside, SnipeHalf)
     THEN at ELSE [at EXCEPT ![hi] = beside]

(* Each snipe is held against those with lower IDs, both in order of ID.   *)
WeakBlock(hi, lo) ==
  /\ phase = "block" /\ <<hi, lo>> \in todo
  /\ \A pair \in todo : hi < pair[1] \/ (hi = pair[1] /\ lo <= pair[2])
  /\ snipes' = Pushed(snipes, hi, lo)
  /\ todo' = todo \ {<<hi, lo>>}
  /\ UNCHANGED <<players, standing, phase>>

-----------------------------------------------------------------------------
(* Room for a body.                                                        *)

Clear(p, h, ps, ss) ==
  /\ ~HitsGen(p, h)
  /\ \A q \in Players : ps[q] # Out => ~Overlaps(p, h, ps[q], PlayerHalf)
  /\ \A s \in Snipes : ss[s] # Out => ~Overlaps(p, h, ss[s], SnipeHalf)

EmitDist == (GenHalf + SnipeHalf) \div Tile + 1

Slots ==
  {u \in {<<GenTile[1] + i, GenTile[2] + j>> : i, j \in {-EmitDist, 0, EmitDist}} :
     /\ u \notin Walls \cup SpawnTiles \cup {GenTile}
     /\ Clear(Centre(u), SnipeHalf, players, snipes)
     /\ ~aabbHitsWall(Centre(u), SnipeHalf)}

About(ps, ss) == Cardinality({p \in Players : ps[p] # Out}) + Cardinality({s \in Snipes : ss[s] # Out})

(* A new snipe has a higher ID than every other.                           *)
Emit(s) ==
  /\ phase = "block" /\ todo = {} /\ standing
  /\ \A t \in Snipes : t >= s => snipes[t] = Out
  /\ \E u \in Slots : snipes' = [snipes EXCEPT ![s] = Centre(u)]
  /\ About(players, snipes') <= MaxBodies
  /\ phase' = "shots"
  /\ UNCHANGED <<players, standing, todo>>

(* The timer of the generator, the cap and the order of the slots are left *)
(* open.                                                                   *)
EmitNot ==
  /\ phase = "block" /\ todo = {}
  /\ phase' = "shots"
  /\ UNCHANGED <<players, snipes, standing, todo>>

(* Who is hit in a tick is left open, but one body at most; a player that  *)
(* was hit is back in a later tick, where no body is in the way.           *)
EndTick ==
  /\ phase = "shots"
  /\ \E shot \in SUBSET Players, hit \in SUBSET Snipes, falls \in BOOLEAN :
       LET left == [p \in Players |-> IF p \in shot THEN Out ELSE players[p]]
       IN /\ Cardinality(shot) + Cardinality(hit) <= IF falls THEN 0 ELSE 1
          /\ standing' = (standing /\ ~falls)
          /\ snipes' = [s \in Snipes |-> IF s \in hit THEN Out ELSE snipes[s]]
          /\ \/ players' = left
             \/ \E p \in Players, t \in SpawnTiles :
                  /\ players[p] = Out /\ Clear(Centre(t), PlayerHalf, left, snipes')
                  /\ players' = [left EXCEPT ![p] = Centre(t)]
          /\ About(players', snipes') <= MaxBodies
  /\ phase' = "idle"
  /\ UNCHANGED todo

Next ==
  \/ MovePlayers \/ MoveSnipes
  \/ \E hi, lo \in Snipes : WeakBlock(hi, lo)
  \/ EmitNot
  \/ \E s \in Snipes : Emit(s)
  \/ EndTick

Spec == Init /\ [][Next]_vars

-----------------------------------------------------------------------------
(* No player is ever in a wall or in the generator, whichever way it slid  *)
(* along them and wherever it came back.                                   *)
PlayersClear ==
  \A p \in Players : players[p] # Out =>
    ~HitsWall(players[p], PlayerHalf) /\ ~HitsGen(players[p], PlayerHalf)

(* No snipe is ever in a wall, however snipes push each other.             *)
SnipesOutOfWalls ==
  \A s \in Snipes : snipes[s] # Out => ~HitsWall(snipes[s], SnipeHalf)

(* No player goes further in a tick than its fastest velocity: sliding,    *)
(* stopping at walls and being held off the generator never carry it away. *)
Glides(before, after) ==
  before # Out /\ after # Out =>
    \A a \in Axes : \E s \in Speeds : Abs(after[a] - before[a]) <= s
PlayersGlide == [][\A p \in Players : Glides(players[p], players'[p])]_vars

(* SPEC.md 250: the solid generator makes it that "a snipe cannot          *)
(* literally overlap it".  A push puts one there: it looks for walls only. *)
SnipesOffGenerator == \A s \in Snipes : ~HitsGen(snipes[s], SnipeHalf)
=============================================================================
