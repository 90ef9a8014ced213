---------------------------- MODULE MotionProofs ----------------------------
(***************************************************************************)
(* Proofs about Motion, for every maze, generator, body and velocity that  *)
(* its assumptions allow.                                                  *)
(***************************************************************************)
EXTENDS Motion, TLAPS

-----------------------------------------------------------------------------
(* Columns of tiles.  From(u) is the first subtile of column u.            *)

From(u) == u * Tile

LEMMA TileType == Tile \in Int /\ Tile > 0
  BY MotionAssumption, SMT

LEMMA FromType == ASSUME NEW u \in Int PROVE From(u) \in Int
  BY TileType, SMT DEF From

(* The column of a subtile is the one it lies in.                          *)
LEMMA ColumnOf ==
  ASSUME NEW n \in Int
  PROVE  /\ n \div Tile \in Int
         /\ From(n \div Tile) <= n
         /\ n < From(n \div Tile) + Tile
  BY TileType, SMT DEF From

(* Columns do not overlap.                                                 *)
LEMMA ColumnOrder ==
  ASSUME NEW u \in Int, NEW w \in Int, u < w
  PROVE  From(u) + Tile <= From(w)
<1>1. (u + 1) * Tile <= w * Tile
  BY TileType, SMT
<1> QED BY <1>1, TileType, SMT DEF From

LEMMA ColumnDistance ==
  ASSUME NEW u \in Int, NEW w \in Int
  PROVE  (w - u - 1) * Tile = From(w) - From(u) - Tile
  BY TileType, SMT DEF From

(* A multiple of the size of a tile is where a column begins.              *)
LEMMA ColumnStart ==
  ASSUME NEW u \in Int
  PROVE  From(u) % Tile = 0
  BY TileType, SMT DEF From

(* Column u meets the interval of half extent h around c.                  *)
Meets(c, h, u) == From(u) < c + h /\ c - h < From(u) + Tile

LEMMA SpanMeets ==
  ASSUME NEW c \in Int, NEW h \in Int, NEW u \in Int
  PROVE  u \in Span(c, h) <=> Meets(c, h, u)
<1> DEFINE lo == (c - h) \div Tile  hi == (c + h - 1) \div Tile
<1>1. /\ lo \in Int /\ From(lo) \in Int /\ From(lo) <= c - h /\ c - h < From(lo) + Tile
      /\ hi \in Int /\ From(hi) \in Int /\ From(hi) <= c + h - 1 /\ c + h - 1 < From(hi) + Tile
  BY ColumnOf, FromType
<1>2. From(u) \in Int /\ Tile \in Int /\ Tile > 0
  BY FromType, TileType
<1>3. u \in Span(c, h) <=> lo <= u /\ u <= hi
  BY <1>1, SMT DEF Span
<1> HIDE DEF lo, hi
<1>4. (u < lo => From(u) + Tile <= From(lo)) /\ (lo < u => From(lo) + Tile <= From(u))
  BY <1>1, ColumnOrder
<1>5. (u < hi => From(u) + Tile <= From(hi)) /\ (hi < u => From(hi) + Tile <= From(u))
  BY <1>1, ColumnOrder
<1>6. (lo <= u /\ u <= hi) <=> (From(u) < c + h /\ c - h < From(u) + Tile)
  <2>1. CASE u < lo
    BY <2>1, <1>1, <1>2, <1>4, SMT
  <2>2. CASE hi < u
    BY <2>2, <1>1, <1>2, <1>5, SMT
  <2>3. CASE lo <= u /\ u <= hi
    <3>1. From(lo) <= From(u) /\ From(u) <= From(hi)
      BY <2>3, <1>1, <1>2, <1>4, <1>5, SMT
    <3> QED BY <2>3, <3>1, <1>1, <1>2, SMT
  <2> QED BY <2>1, <2>2, <2>3, <1>1, SMT
<1> QED BY <1>3, <1>6 DEF Meets

Point == [Axes -> Int]

LEMMA WallPlace ==
  ASSUME NEW w \in Walls, NEW a \in Axes
  PROVE  w[a] \in Int
  BY MotionAssumption

LEMMA HitsWallMeets ==
  ASSUME NEW p \in Point, NEW h \in Int
  PROVE  HitsWall(p, h) <=> \E w \in Walls : \A a \in Axes : Meets(p[a], h, w[a])
<1>1. \A w \in Walls, a \in Axes : w[a] \in Span(p[a], h) <=> Meets(p[a], h, w[a])
  BY WallPlace, SpanMeets DEF Point
<1> QED BY <1>1 DEF HitsWall

-----------------------------------------------------------------------------
(* One axis, from x to x + v.  The leading edge enters column l.           *)

(* What the body meets where it gets to it meets where it was, or it is in *)
(* the column its leading edge enters.                                     *)
LEMMA MeetsAhead ==
  ASSUME NEW x \in Int, NEW v \in Int, NEW h \in Int, NEW u \in Int,
         0 < v, v < Tile, u # (x + v + h) \div Tile,
         Meets(x + v, h, u)
  PROVE  Meets(x, h, u)
<1> DEFINE l == (x + v + h) \div Tile
<1>1. /\ l \in Int /\ From(l) \in Int
      /\ From(l) <= x + v + h /\ x + v + h < From(l) + Tile
  BY ColumnOf, FromType
<1>2. From(u) \in Int /\ Tile \in Int
  BY FromType, TileType
<1> HIDE DEF l
<1>3. (u < l => From(u) + Tile <= From(l)) /\ (l < u => From(l) + Tile <= From(u))
  BY <1>1, ColumnOrder
<1>4. u # l
  BY DEF l
<1> QED BY <1>1, <1>2, <1>3, <1>4, SMT DEF Meets

LEMMA MeetsBack ==
  ASSUME NEW x \in Int, NEW v \in Int, NEW h \in Int, NEW u \in Int,
         v < 0, -Tile < v, u # (x + v - h) \div Tile,
         Meets(x + v, h, u)
  PROVE  Meets(x, h, u)
<1> DEFINE l == (x + v - h) \div Tile
<1>1. /\ l \in Int /\ From(l) \in Int
      /\ From(l) <= x + v - h /\ x + v - h < From(l) + Tile
  BY ColumnOf, FromType
<1>2. From(u) \in Int /\ Tile \in Int
  BY FromType, TileType
<1> HIDE DEF l
<1>3. (u < l => From(u) + Tile <= From(l)) /\ (l < u => From(l) + Tile <= From(u))
  BY <1>1, ColumnOrder
<1>4. u # l
  BY DEF l
<1> QED BY <1>1, <1>2, <1>3, <1>4, SMT DEF Meets

(* A body that does not meet column l stops before it; going forward it    *)
(* stops a subtile short, which may be a subtile behind where it was.      *)
LEMMA StopsAhead ==
  ASSUME NEW x \in Int, NEW v \in Int, NEW h \in Int,
         0 < v, v < Tile, 0 < h, ~Meets(x, h, (x + v + h) \div Tile)
  PROVE  LET l == (x + v + h) \div Tile
         IN /\ From(l) \in Int
            /\ x + h <= From(l) /\ From(l) <= x + v + h
            /\ \A u \in Int : Meets(From(l) - h - 1, h, u) =>
                 \/ Meets(x, h, u)
                 \/ u < l /\ From(u) + Tile = x - h /\ From(l) = x + h
<1> DEFINE l == (x + v + h) \div Tile
<1>1. /\ l \in Int /\ From(l) \in Int
      /\ From(l) <= x + v + h /\ x + v + h < From(l) + Tile
  BY ColumnOf, FromType
<1>2. Tile \in Int
  BY TileType
<1>3. ~Meets(x, h, l)
  OBVIOUS
<1> HIDE DEF l
<1>4. x + h <= From(l)
  BY <1>1, <1>2, <1>3, SMT DEF Meets
<1>5. ASSUME NEW u \in Int, Meets(From(l) - h - 1, h, u), ~Meets(x, h, u)
      PROVE  u < l /\ From(u) + Tile = x - h /\ From(l) = x + h
  <2>1. From(u) \in Int /\ (l < u => From(l) + Tile <= From(u)) /\ (u < l => From(u) + Tile <= From(l))
    BY <1>1, FromType, ColumnOrder
  <2>2. From(u) < From(l) - 1 /\ From(l) - 2 * h - 1 < From(u) + Tile
    BY <1>5, <1>1, <1>2, <2>1, SMT DEF Meets
  <2>3. u < l
    BY <2>1, <2>2, <1>1, <1>2, SMT
  <2>4. x - h >= From(u) + Tile
    BY <1>5, <1>1, <1>2, <2>1, <2>3, SMT DEF Meets
  <2> QED BY <2>1, <2>2, <2>3, <2>4, <1>1, <1>2, <1>4, SMT
<1> QED BY <1>1, <1>4, <1>5 DEF l

LEMMA StopsBack ==
  ASSUME NEW x \in Int, NEW v \in Int, NEW h \in Int,
         v < 0, -Tile < v, 0 < h, ~Meets(x, h, (x + v - h) \div Tile)
  PROVE  LET l == (x + v - h) \div Tile
         IN /\ From(l + 1) \in Int
            /\ From(l + 1) <= x - h /\ x + v - h < From(l + 1)
            /\ \A u \in Int : Meets(From(l + 1) + h, h, u) => Meets(x, h, u)
<1> DEFINE l == (x + v - h) \div Tile
<1>1. /\ l \in Int /\ From(l) \in Int
      /\ From(l) <= x + v - h /\ x + v - h < From(l) + Tile
  BY ColumnOf, FromType
<1>2. Tile \in Int
  BY TileType
<1>3. ~Meets(x, h, l)
  OBVIOUS
<1> HIDE DEF l
<1>4. From(l + 1) = From(l) + Tile
  BY <1>1, <1>2, SMT DEF From
<1>5. From(l) + Tile <= x - h
  BY <1>1, <1>2, <1>3, SMT DEF Meets
<1>6. ASSUME NEW u \in Int, Meets(From(l + 1) + h, h, u)
      PROVE  Meets(x, h, u)
  <2>1. From(u) \in Int /\ (l < u => From(l) + Tile <= From(u)) /\ (u < l => From(u) + Tile <= From(l))
    BY <1>1, FromType, ColumnOrder
  <2>2. From(u) < From(l) + Tile + 2 * h /\ From(l) < From(u)
    BY <1>6, <1>1, <1>2, <1>4, <2>1, SMT DEF Meets
  <2>3. From(l) + Tile <= From(u)
    BY <2>1, <2>2, <1>1, <1>2, SMT
  <2> QED BY <2>1, <2>2, <2>3, <1>1, <1>2, <1>5, SMT DEF Meets
<1>7. From(l + 1) \in Int /\ From(l + 1) <= x - h /\ x + v - h < From(l + 1)
  BY <1>1, <1>2, <1>4, <1>5, SMT
<1> QED BY <1>6, <1>7 DEF l

-----------------------------------------------------------------------------
(* Two axes.                                                               *)

(* The columns that a body meets have no gaps and are close.               *)
LEMMA MeetsBetween ==
  ASSUME NEW c \in Int, NEW h \in Int, NEW i \in Int, NEW j \in Int, NEW k \in Int,
         Meets(c, h, j), Meets(c, h, k), Between(i, j, k)
  PROVE  Meets(c, h, i)
<1>1. From(i) \in Int /\ From(j) \in Int /\ From(k) \in Int /\ Tile \in Int /\ Tile > 0
  BY FromType, TileType
<1>2. /\ i < j => From(i) + Tile <= From(j)
      /\ j < i => From(j) + Tile <= From(i)
      /\ i < k => From(i) + Tile <= From(k)
      /\ k < i => From(k) + Tile <= From(i)
  BY ColumnOrder
<1> QED BY <1>1, <1>2, SMT DEF Meets, Between

LEMMA MeetsClose ==
  ASSUME NEW c \in Int, NEW h \in Int, NEW s \in Int, NEW t \in Int,
         0 < h, Meets(c, h, s), Meets(c, h, t)
  PROVE  (Abs(t - s) - 1) * Tile < 2 * h - 1
<1>1. From(s) \in Int /\ From(t) \in Int /\ Tile \in Int
  BY FromType, TileType
<1>2. (t - s - 1) * Tile = From(t) - From(s) - Tile /\ (s - t - 1) * Tile = From(s) - From(t) - Tile
  BY ColumnDistance
<1>3. (t - s - 1) * Tile < 2 * h - 1 /\ (s - t - 1) * Tile < 2 * h - 1
  BY <1>1, <1>2, SMT DEF Meets
<1>4. CASE t - s < 0
  <2>1. Abs(t - s) - 1 = s - t - 1
    BY <1>4, SMT DEF Abs
  <2> QED BY <1>3, <2>1
<1>5. CASE ~(t - s < 0)
  <2>1. Abs(t - s) - 1 = t - s - 1
    BY <1>5, SMT DEF Abs
  <2> QED BY <1>3, <2>1
<1> QED BY <1>4, <1>5

LEMMA OtherAxis ==
  ASSUME NEW a \in Axes
  PROVE  a \in Int /\ 3 - a \in Axes /\ 3 - a # a /\ 3 - (3 - a) = a /\ Axes = {a, 3 - a}
  BY SMT DEF Axes

LEMMA FreeOfWalls ==
  ASSUME NEW p \in Point, NEW h \in Int, NEW a \in Axes
  PROVE  ~HitsWall(p, h) <=>
           \A w \in Walls : ~(Meets(p[a], h, w[a]) /\ Meets(p[3 - a], h, w[3 - a]))
<1>1. Axes = {a, 3 - a}
  BY OtherAxis
<1>2. HitsWall(p, h) <=> \E w \in Walls : \A b \in Axes : Meets(p[b], h, w[b])
  BY HitsWallMeets
<1> QED BY <1>1, <1>2

LEMMA BlockedMeets ==
  ASSUME NEW p \in Point, NEW h \in Int, NEW a \in Axes, NEW l \in Int
  PROVE  Blocked(p, a, l, h) <=> \E w \in Walls : w[a] = l /\ Meets(p[3 - a], h, w[3 - a])
<1>1. 3 - a \in Axes /\ p[3 - a] \in Int
  BY OtherAxis DEF Point
<1>2. \A w \in Walls : w[3 - a] \in Span(p[3 - a], h) <=> Meets(p[3 - a], h, w[3 - a])
  BY <1>1, WallPlace, SpanMeets
<1> QED BY <1>2 DEF Blocked

(* Where a step along axis a leads: x on this axis, the same on the other. *)
LEMMA PutAt ==
  ASSUME NEW p \in Point, NEW a \in Axes, NEW x \in Int
  PROVE  /\ [p EXCEPT ![a] = x] \in Point
         /\ [p EXCEPT ![a] = x][a] = x
         /\ [p EXCEPT ![a] = x][3 - a] = p[3 - a]
<1>1. 3 - a \in Axes /\ 3 - a # a
  BY OtherAxis
<1> QED BY <1>1, SMT DEF Point

(* A wall that stops a body and a wall behind it leave more room than the  *)
(* body takes.                                                             *)
LEMMA NoSnugFit ==
  ASSUME NEW p \in Point, NEW h \in Int, NEW a \in Axes, 0 < h,
         NoExactFit(h), ~HitsWall(p, h), NEW s \in Walls, NEW t \in Walls,
         Meets(p[3 - a], h, s[3 - a]), Meets(p[3 - a], h, t[3 - a]),
         From(s[a]) + Tile = p[a] - h, From(t[a]) = p[a] + h
  PROVE  FALSE
<1> DEFINE b == 3 - a
<1>1. /\ b \in Axes /\ p[a] \in Int /\ p[b] \in Int
      /\ s[a] \in Int /\ s[b] \in Int /\ t[a] \in Int /\ t[b] \in Int
  BY OtherAxis, WallPlace DEF Point
<1>2. From(s[a]) \in Int /\ From(t[a]) \in Int /\ Tile \in Int
  BY <1>1, FromType, TileType
<1>3. (t[a] - s[a] - 1) * Tile = 2 * h
  <2>1. (t[a] - s[a] - 1) * Tile = From(t[a]) - From(s[a]) - Tile
    BY <1>1, ColumnDistance
  <2> QED BY <2>1, <1>1, <1>2, SMT
<1>4. (Abs(t[b] - s[b]) - 1) * Tile < 2 * h - 1
  BY <1>1, MeetsClose
<1>5. PICK u \in Walls : s[a] < u[a] /\ u[a] < t[a] /\ Between(u[b], s[b], t[b])
  BY <1>3, <1>4 DEF NoExactFit
<1>6. u[a] \in Int /\ u[b] \in Int /\ From(u[a]) \in Int
  BY <1>1, WallPlace, FromType
<1>7. Meets(p[b], h, u[b])
  BY <1>1, <1>5, <1>6, MeetsBetween
<1>8. From(s[a]) + Tile <= From(u[a]) /\ From(u[a]) + Tile <= From(t[a])
  BY <1>1, <1>5, <1>6, ColumnOrder
<1>9. Meets(p[a], h, u[a])
  BY <1>1, <1>2, <1>6, <1>8, TileType, SMT DEF Meets
<1> QED BY <1>7, <1>9, FreeOfWalls

-----------------------------------------------------------------------------
(* A step of Stepped, forward and back.                                    *)

LEMMA SteppedAhead ==
  ASSUME NEW p \in Point, NEW h \in Int, NEW a \in Axes, NEW v \in Int,
         0 < h, 0 < v, v < Tile, NoExactFit(h), ~HitsWall(p, h)
  PROVE  \E x \in Int :
           /\ Stepped(p, a, v, h) = [p EXCEPT ![a] = x]
           /\ p[a] - 1 <= x /\ x <= p[a] + v
           /\ x = p[a] - 1 => \E l \in Int : p[a] + h = From(l)
           /\ ~HitsWall([p EXCEPT ![a] = x], h)
<1> DEFINE l == (p[a] + v + h) \div Tile
           b == 3 - a
<1>1. b \in Axes /\ p[a] \in Int /\ p[b] \in Int /\ l \in Int
  BY OtherAxis, ColumnOf DEF Point
<1>2. l = (p[a] + v + (IF v > 0 THEN h ELSE -h)) \div Tile
  BY SMT
<1>3. Blocked(p, a, l, h) <=> \E w \in Walls : w[a] = l /\ Meets(p[b], h, w[b])
  BY <1>1, BlockedMeets
<1>4. \A w \in Walls : ~(Meets(p[a], h, w[a]) /\ Meets(p[b], h, w[b]))
  BY FreeOfWalls
<1>5. CASE ~Blocked(p, a, l, h)
  <2> DEFINE x == p[a] + v  q == [p EXCEPT ![a] = x]
  <2>1. Stepped(p, a, v, h) = q
    BY <1>2, <1>5 DEF Stepped
  <2>2. x \in Int /\ p[a] - 1 <= x /\ x <= p[a] + v /\ x # p[a] - 1
    BY <1>1, SMT
  <2>3. q \in Point /\ q[a] = x /\ q[b] = p[b]
    BY <2>2, PutAt
  <2>4. \A w \in Walls : ~(Meets(x, h, w[a]) /\ Meets(p[b], h, w[b]))
    <3> SUFFICES ASSUME NEW w \in Walls, Meets(x, h, w[a]), Meets(p[b], h, w[b])
                 PROVE  FALSE
      OBVIOUS
    <3>1. w[a] # l
      BY <1>3, <1>5
    <3>2. Meets(p[a], h, w[a])
      BY <3>1, <1>1, WallPlace, MeetsAhead
    <3> QED BY <3>2, <1>4
  <2> HIDE DEF q
  <2>5. ~HitsWall(q, h)
    BY <2>3, <2>4, FreeOfWalls
  <2> QED BY <2>1, <2>2, <2>5 DEF q
<1>6. CASE Blocked(p, a, l, h)
  <2> DEFINE x == From(l) - h - 1  q == [p EXCEPT ![a] = x]
  <2>1. Stepped(p, a, v, h) = q
    BY <1>2, <1>6 DEF Stepped, From
  <2>2. PICK t \in Walls : t[a] = l /\ Meets(p[b], h, t[b])
    BY <1>3, <1>6
  <2>3. ~Meets(p[a], h, l)
    BY <1>4, <2>2
  <2>4. /\ From(l) \in Int /\ p[a] + h <= From(l) /\ From(l) <= p[a] + v + h
        /\ \A u \in Int : Meets(x, h, u) =>
             \/ Meets(p[a], h, u)
             \/ u < l /\ From(u) + Tile = p[a] - h /\ From(l) = p[a] + h
    BY <1>1, <2>3, StopsAhead
  <2>5. x \in Int /\ p[a] - 1 <= x /\ x <= p[a] + v
    BY <1>1, <2>4, SMT
  <2>6. x = p[a] - 1 => p[a] + h = From(l)
    BY <1>1, <2>4, SMT
  <2>7. q \in Point /\ q[a] = x /\ q[b] = p[b]
    BY <2>5, PutAt
  <2>8. \A w \in Walls : ~(Meets(x, h, w[a]) /\ Meets(p[b], h, w[b]))
    <3> SUFFICES ASSUME NEW w \in Walls, Meets(x, h, w[a]), Meets(p[b], h, w[b])
                 PROVE  FALSE
      OBVIOUS
    <3>1. ~Meets(p[a], h, w[a])
      BY <1>4
    <3>2. From(w[a]) + Tile = p[a] - h /\ From(t[a]) = p[a] + h
      BY <3>1, <2>2, <2>4, WallPlace
    <3> QED BY <3>2, <2>2, NoSnugFit
  <2> HIDE DEF q
  <2>9. ~HitsWall(q, h)
    BY <2>7, <2>8, FreeOfWalls
  <2> QED BY <1>1, <2>1, <2>5, <2>6, <2>9 DEF q
<1> QED BY <1>5, <1>6

LEMMA SteppedBack ==
  ASSUME NEW p \in Point, NEW h \in Int, NEW a \in Axes, NEW v \in Int,
         0 < h, v < 0, -Tile < v, ~HitsWall(p, h)
  PROVE  \E x \in Int :
           /\ Stepped(p, a, v, h) = [p EXCEPT ![a] = x]
           /\ p[a] + v <= x /\ x <= p[a]
           /\ ~HitsWall([p EXCEPT ![a] = x], h)
<1> DEFINE l == (p[a] + v - h) \div Tile
           b == 3 - a
<1>1. b \in Axes /\ p[a] \in Int /\ p[b] \in Int /\ l \in Int
  BY OtherAxis, ColumnOf DEF Point
<1>2. l = (p[a] + v + (IF v > 0 THEN h ELSE -h)) \div Tile
  BY <1>1, SMT
<1>3. Blocked(p, a, l, h) <=> \E w \in Walls : w[a] = l /\ Meets(p[b], h, w[b])
  BY <1>1, BlockedMeets
<1>4. \A w \in Walls : ~(Meets(p[a], h, w[a]) /\ Meets(p[b], h, w[b]))
  BY FreeOfWalls
<1>5. CASE ~Blocked(p, a, l, h)
  <2> DEFINE x == p[a] + v  q == [p EXCEPT ![a] = x]
  <2>1. Stepped(p, a, v, h) = q
    BY <1>2, <1>5 DEF Stepped
  <2>2. x \in Int /\ p[a] + v <= x /\ x <= p[a]
    BY <1>1, SMT
  <2>3. q \in Point /\ q[a] = x /\ q[b] = p[b]
    BY <2>2, PutAt
  <2>4. \A w \in Walls : ~(Meets(x, h, w[a]) /\ Meets(p[b], h, w[b]))
    <3> SUFFICES ASSUME NEW w \in Walls, Meets(x, h, w[a]), Meets(p[b], h, w[b])
                 PROVE  FALSE
      OBVIOUS
    <3>1. w[a] # l
      BY <1>3, <1>5
    <3>2. Meets(p[a], h, w[a])
      BY <3>1, <1>1, WallPlace, MeetsBack
    <3> QED BY <3>2, <1>4
  <2> HIDE DEF q
  <2>5. ~HitsWall(q, h)
    BY <2>3, <2>4, FreeOfWalls
  <2> QED BY <2>1, <2>2, <2>5 DEF q
<1>6. CASE Blocked(p, a, l, h)
  <2> DEFINE x == From(l + 1) + h  q == [p EXCEPT ![a] = x]
  <2>1. Stepped(p, a, v, h) = q
    <3>1. ~(v > 0)
      BY SMT
    <3> QED BY <3>1, <1>2, <1>6 DEF Stepped, From
  <2>2. PICK t \in Walls : t[a] = l /\ Meets(p[b], h, t[b])
    BY <1>3, <1>6
  <2>3. ~Meets(p[a], h, l)
    BY <1>4, <2>2
  <2>4. /\ From(l + 1) \in Int /\ From(l + 1) <= p[a] - h /\ p[a] + v - h < From(l + 1)
        /\ \A u \in Int : Meets(x, h, u) => Meets(p[a], h, u)
    BY <1>1, <2>3, StopsBack
  <2>5. x \in Int /\ p[a] + v <= x /\ x <= p[a]
    BY <1>1, <2>4, SMT
  <2>6. q \in Point /\ q[a] = x /\ q[b] = p[b]
    BY <2>5, PutAt
  <2>7. \A w \in Walls : ~(Meets(x, h, w[a]) /\ Meets(p[b], h, w[b]))
    BY <1>4, <2>4, WallPlace
  <2> HIDE DEF q
  <2>8. ~HitsWall(q, h)
    BY <2>6, <2>7, FreeOfWalls
  <2> QED BY <2>1, <2>5, <2>8 DEF q
<1> QED BY <1>5, <1>6

-----------------------------------------------------------------------------
(* The generator.                                                          *)

LEMMA Halves ==
  /\ PlayerHalf \in Int /\ 0 < PlayerHalf
  /\ SnipeHalf \in Int /\ 0 < SnipeHalf /\ 2 * SnipeHalf <= Tile + 1
  /\ GenHalf \in Int /\ 0 < GenHalf
  BY MotionAssumption, SMT

LEMMA CentreType ==
  ASSUME NEW t, \A a \in Axes : t[a] \in Int
  PROVE  Centre(t) \in Point
<1>1. Tile \div 2 \in Int
  BY TileType, SMT
<1>2. \A a \in Axes : t[a] * Tile + Tile \div 2 \in Int
  BY <1>1, TileType, SMT
<1> QED BY <1>2 DEF Centre, Point

LEMMA GenType == Gen \in Point
  BY MotionAssumption, CentreType DEF Gen

(* On axis a the generator is where a body around x is.                    *)
Faces(x, h, a) == x - h < Gen[a] + GenHalf /\ Gen[a] - GenHalf < x + h

LEMMA OverlapsGen ==
  ASSUME NEW p \in Point, NEW h \in Int, NEW a \in Axes
  PROVE  Overlaps(p, h, Gen, GenHalf) <=> Faces(p[a], h, a) /\ Faces(p[3 - a], h, 3 - a)
<1>1. Axes = {a, 3 - a}
  BY OtherAxis
<1>2. Overlaps(p, h, Gen, GenHalf) <=> \A b \in Axes : Faces(p[b], h, b)
  BY DEF Overlaps, Faces
<1> QED BY <1>1, <1>2

(* A player that touches a side of the generator does not end with the     *)
(* edge of a column on its far side.                                       *)
LEMMA GenSides ==
  ASSUME NEW a \in Axes, NEW l \in Int
  PROVE  /\ From(l) # Gen[a] + GenHalf + 2 * PlayerHalf
         /\ From(l) # Gen[a] - GenHalf - 2 * PlayerHalf
<1>1. From(l) % Tile = 0
  BY ColumnStart
<1> QED BY <1>1, MazeAssumption

(* A body between two places less than a tile apart meets no column that   *)
(* it meets at neither.                                                    *)
LEMMA MeetsOnTheWay ==
  ASSUME NEW x \in Int, NEW y \in Int, NEW c \in Int, NEW h \in Int, NEW u \in Int,
         0 < h, x <= c, c <= y, y - x < Tile, Meets(c, h, u)
  PROVE  Meets(x, h, u) \/ Meets(y, h, u)
  BY FromType, TileType, SMT DEF Meets

(* Put back from the generator, a player is where it passed or a subtile   *)
(* behind where it was, in both cases in no column it was not in.          *)
LEMMA PutBackAhead ==
  ASSUME NEW x \in Int, NEW y \in Int, NEW v \in Int, NEW a \in Axes,
         0 < v, v < Tile, x - 1 <= y, y <= x + v,
         y = x - 1 => \E l \in Int : x + PlayerHalf = From(l),
         ~Faces(x, PlayerHalf, a), Faces(y, PlayerHalf, a)
  PROVE  LET c == Gen[a] - GenHalf - PlayerHalf - 1
         IN /\ c \in Int /\ x - 1 <= c /\ c <= x + v
            /\ ~Faces(c, PlayerHalf, a)
            /\ \A u \in Int : Meets(c, PlayerHalf, u) =>
                 Meets(x, PlayerHalf, u) \/ Meets(y, PlayerHalf, u)
<1> DEFINE c == Gen[a] - GenHalf - PlayerHalf - 1
<1>1. Gen[a] \in Int /\ GenHalf \in Int /\ PlayerHalf \in Int /\ 0 < PlayerHalf /\ 0 < GenHalf
  BY GenType, Halves DEF Point
<1>2. x + PlayerHalf <= Gen[a] - GenHalf
  <2>1. SUFFICES ASSUME x + PlayerHalf > Gen[a] - GenHalf
                 PROVE  FALSE
    BY <1>1, SMT
  <2>2. Gen[a] + GenHalf <= x - PlayerHalf
    BY <1>1, <2>1, SMT DEF Faces
  <2>3. y = x - 1 /\ x - PlayerHalf = Gen[a] + GenHalf
    BY <1>1, <2>2, SMT DEF Faces
  <2>4. PICK l \in Int : x + PlayerHalf = From(l)
    BY <2>3
  <2>5. From(l) = Gen[a] + GenHalf + 2 * PlayerHalf
    BY <1>1, <2>3, <2>4, SMT
  <2> QED BY <2>5, GenSides
<1>3. c \in Int /\ x - 1 <= c /\ c < y /\ ~Faces(c, PlayerHalf, a)
  BY <1>1, <1>2, SMT DEF Faces
<1> HIDE DEF c
<1>4. ASSUME NEW u \in Int, Meets(c, PlayerHalf, u)
      PROVE  Meets(x, PlayerHalf, u) \/ Meets(y, PlayerHalf, u)
  <2>1. CASE x <= c
    <3>1. y - x < Tile
      BY TileType, SMT
    <3>2. c <= y
      BY <1>3, SMT
    <3> QED BY <1>1, <1>3, <1>4, <2>1, <3>1, <3>2, MeetsOnTheWay
  <2>2. CASE c = x - 1
    <3> SUFFICES ASSUME ~Meets(x, PlayerHalf, u)
                 PROVE  FALSE
      OBVIOUS
    <3>1. From(u) \in Int /\ From(u + 1) \in Int /\ From(u + 1) = From(u) + Tile
      <4>1. u + 1 \in Int
        BY SMT
      <4> QED BY <4>1, FromType, TileType, SMT DEF From
    <3>2. From(u + 1) = x - PlayerHalf
      BY <1>1, <1>4, <2>2, <3>1, TileType, SMT DEF Meets
    <3>3. x + PlayerHalf = Gen[a] - GenHalf
      BY <1>1, <1>2, <2>2, SMT DEF c
    <3>4. From(u + 1) = Gen[a] - GenHalf - 2 * PlayerHalf
      BY <1>1, <3>2, <3>3, SMT
    <3>5. u + 1 \in Int
      BY SMT
    <3> QED BY <3>4, <3>5, GenSides
  <2> QED BY <1>3, <2>1, <2>2, SMT
<1>5. c <= x + v
  BY <1>3, SMT
<1> QED BY <1>3, <1>4, <1>5 DEF c

LEMMA PutBackBack ==
  ASSUME NEW x \in Int, NEW y \in Int, NEW v \in Int, NEW a \in Axes,
         v < 0, -Tile < v, x + v <= y, y <= x,
         ~Faces(x, PlayerHalf, a), Faces(y, PlayerHalf, a)
  PROVE  LET c == Gen[a] + GenHalf + PlayerHalf + 1
         IN /\ c \in Int /\ x + v <= c /\ c <= x + 1
            /\ ~Faces(c, PlayerHalf, a)
            /\ \A u \in Int : Meets(c, PlayerHalf, u) =>
                 Meets(x, PlayerHalf, u) \/ Meets(y, PlayerHalf, u)
<1> DEFINE c == Gen[a] + GenHalf + PlayerHalf + 1
<1>1. Gen[a] \in Int /\ GenHalf \in Int /\ PlayerHalf \in Int /\ 0 < PlayerHalf /\ 0 < GenHalf
  BY GenType, Halves DEF Point
<1>2. Gen[a] + GenHalf <= x - PlayerHalf
  BY <1>1, SMT DEF Faces
<1>3. c \in Int /\ y < c /\ c <= x + 1 /\ ~Faces(c, PlayerHalf, a)
  BY <1>1, <1>2, SMT DEF Faces
<1> HIDE DEF c
<1>4. ASSUME NEW u \in Int, Meets(c, PlayerHalf, u)
      PROVE  Meets(x, PlayerHalf, u) \/ Meets(y, PlayerHalf, u)
  <2>1. CASE c <= x
    <3>1. x - y < Tile
      BY TileType, SMT
    <3>2. y <= c
      BY <1>3, SMT
    <3> QED BY <1>1, <1>3, <1>4, <2>1, <3>1, <3>2, MeetsOnTheWay
  <2>2. CASE c = x + 1
    <3> SUFFICES ASSUME ~Meets(x, PlayerHalf, u)
                 PROVE  FALSE
      OBVIOUS
    <3>1. From(u) \in Int
      BY FromType
    <3>2. From(u) = x + PlayerHalf
      BY <1>1, <1>4, <2>2, <3>1, TileType, SMT DEF Meets
    <3>3. x - PlayerHalf = Gen[a] + GenHalf
      BY <1>1, <1>2, <2>2, SMT DEF c
    <3>4. From(u) = Gen[a] + GenHalf + 2 * PlayerHalf
      BY <1>1, <3>2, <3>3, SMT
    <3> QED BY <3>4, GenSides
  <2> QED BY <1>3, <2>1, <2>2, SMT
<1>5. x + v <= c
  BY <1>3, SMT
<1> QED BY <1>3, <1>4, <1>5 DEF c

-----------------------------------------------------------------------------
(* A slide of a player, one axis and then the other.                       *)

ClearOf(p) == ~HitsWall(p, PlayerHalf) /\ ~HitsGen(p, PlayerHalf)

LEMMA AbsFacts ==
  ASSUME NEW m \in Int, NEW n \in Int
  PROVE  /\ Abs(n) \in Int /\ 0 <= Abs(n)
         /\ n > 0 => Abs(n) = n
         /\ n < 0 => Abs(n) = -n
         /\ Abs(n) < Tile => n < Tile /\ -Tile < n
         /\ m <= Abs(n) /\ -m <= Abs(n) => Abs(m) <= Abs(n)
  BY TileType, SMT DEF Abs

LEMMA PutAgain ==
  ASSUME NEW p \in Point, NEW a \in Axes, NEW x \in Int, NEW y \in Int
  PROVE  [[p EXCEPT ![a] = y] EXCEPT ![a] = x] = [p EXCEPT ![a] = x]
<1> DEFINE q == [p EXCEPT ![a] = y]
<1>1. DOMAIN p = Axes /\ DOMAIN q = Axes
  BY DEF Point
<1>2. \A b \in Axes : b # a => q[b] = p[b]
  BY <1>1
<1> HIDE DEF q
<1>3. [q EXCEPT ![a] = x] = [b \in Axes |-> IF b = a THEN x ELSE q[b]]
  BY <1>1
<1>4. [p EXCEPT ![a] = x] = [b \in Axes |-> IF b = a THEN x ELSE p[b]]
  BY <1>1
<1> QED BY <1>2, <1>3, <1>4 DEF q

(* What was clear of walls along the way is clear of walls.                *)
LEMMA FreeOnTheWay ==
  ASSUME NEW p \in Point, NEW q \in Point, NEW r \in Point, NEW h \in Int, NEW a \in Axes,
         q[3 - a] = p[3 - a], r[3 - a] = p[3 - a],
         ~HitsWall(p, h), ~HitsWall(q, h),
         \A u \in Int : Meets(r[a], h, u) => Meets(p[a], h, u) \/ Meets(q[a], h, u)
  PROVE  ~HitsWall(r, h)
<1>1. \A w \in Walls : ~(Meets(p[a], h, w[a]) /\ Meets(p[3 - a], h, w[3 - a]))
  BY FreeOfWalls
<1>2. \A w \in Walls : ~(Meets(q[a], h, w[a]) /\ Meets(q[3 - a], h, w[3 - a]))
  BY FreeOfWalls
<1>3. \A w \in Walls : ~(Meets(r[a], h, w[a]) /\ Meets(r[3 - a], h, w[3 - a]))
  BY <1>1, <1>2, WallPlace
<1> QED BY <1>3, FreeOfWalls

(* Whether a body on the way faces the generator is decided on axis a.     *)
LEMMA HitsGenOnTheWay ==
  ASSUME NEW p \in Point, NEW h \in Int, NEW a \in Axes, NEW x \in Int
  PROVE  HitsGen([p EXCEPT ![a] = x], h) <=>
           standing /\ Faces(x, h, a) /\ Faces(p[3 - a], h, 3 - a)
<1> DEFINE q == [p EXCEPT ![a] = x]
<1>1. q \in Point /\ q[a] = x /\ q[3 - a] = p[3 - a]
  BY PutAt
<1> HIDE DEF q
<1>2. HitsGen(q, h) <=> standing /\ Faces(x, h, a) /\ Faces(p[3 - a], h, 3 - a)
  BY <1>1, OverlapsGen DEF HitsGen
<1> QED BY <1>2 DEF q

LEMMA AlongClear ==
  ASSUME NEW p \in Point, NEW a \in Axes, NEW v \in Int, Abs(v) < Tile, ClearOf(p)
  PROVE  \E x \in Int :
           /\ Along(p, a, v, PlayerHalf) = [p EXCEPT ![a] = x]
           /\ Abs(x - p[a]) <= Abs(v)
           /\ ClearOf([p EXCEPT ![a] = x])
<1> DEFINE h == PlayerHalf
           b == 3 - a
           To(x) == [p EXCEPT ![a] = x]
<1>1. /\ p[a] \in Int /\ p[b] \in Int /\ b \in Axes
      /\ h \in Int /\ 0 < h /\ NoExactFit(h)
      /\ v < Tile /\ -Tile < v
  BY OtherAxis, Halves, MazeAssumption, AbsFacts DEF Point
<1>2. ~HitsWall(p, h) /\ ~HitsGen(p, h)
  BY DEF ClearOf
<1>3. standing /\ Faces(p[b], h, b) => ~Faces(p[a], h, a)
  BY <1>1, <1>2, OverlapsGen DEF HitsGen
<1>4. \A x \in Int : HitsGen(To(x), h) <=> standing /\ Faces(x, h, a) /\ Faces(p[b], h, b)
  BY <1>1, HitsGenOnTheWay
<1>5. \A x \in Int : To(x) \in Point /\ To(x)[a] = x /\ To(x)[b] = p[b]
  BY PutAt
<1> HIDE DEF h
<1>6. CASE v = 0
  <2>1. Along(p, a, v, h) = To(p[a])
    BY <1>6 DEF Along, Point
  <2>2. To(p[a]) = p
    BY DEF Point
  <2>3. Abs(p[a] - p[a]) <= Abs(v)
    BY <1>1, <1>6, SMT DEF Abs
  <2> QED BY <1>1, <1>2, <2>1, <2>2, <2>3 DEF ClearOf, h
<1>7. CASE v > 0
  <2>1. PICK y \in Int :
          /\ Stepped(p, a, v, h) = To(y)
          /\ p[a] - 1 <= y /\ y <= p[a] + v
          /\ y = p[a] - 1 => \E l \in Int : p[a] + h = From(l)
          /\ ~HitsWall(To(y), h)
    BY <1>1, <1>2, <1>7, SteppedAhead
  <2>2. Along(p, a, v, h) = Cleared(To(y), a, v, h)
    BY <1>7, <2>1 DEF Along
  <2>3. CASE ~HitsGen(To(y), h)
    <3>1. Cleared(To(y), a, v, h) = To(y)
      BY <2>3 DEF Cleared
    <3>2. Abs(y - p[a]) <= Abs(v)
      BY <1>1, <1>7, <2>1, SMT DEF Abs
    <3> QED BY <2>1, <2>2, <2>3, <3>1, <3>2 DEF ClearOf, h
  <2>4. CASE HitsGen(To(y), h)
    <3> DEFINE c == Gen[a] - GenHalf - h - 1
    <3>1. standing /\ Faces(y, h, a) /\ Faces(p[b], h, b)
      BY <1>4, <2>4
    <3>2. /\ c \in Int /\ p[a] - 1 <= c /\ c <= p[a] + v
          /\ ~Faces(c, h, a)
          /\ \A u \in Int : Meets(c, h, u) => Meets(p[a], h, u) \/ Meets(y, h, u)
      BY <1>1, <1>3, <1>7, <2>1, <3>1, PutBackAhead DEF h
    <3>3. Cleared(To(y), a, v, h) = [To(y) EXCEPT ![a] = c]
      BY <1>7, <2>4 DEF Cleared
    <3> HIDE DEF c
    <3>4. [To(y) EXCEPT ![a] = c] = To(c)
      BY <3>2, PutAgain
    <3>5. Abs(c - p[a]) <= Abs(v)
      BY <1>1, <1>7, <3>2, SMT DEF Abs
    <3>6. ~HitsWall(To(c), h)
      <4>1. /\ To(y) \in Point /\ To(y)[a] = y /\ To(y)[b] = p[b]
            /\ To(c) \in Point /\ To(c)[a] = c /\ To(c)[b] = p[b]
        BY <1>5, <3>2
      <4>2. \A u \in Int : Meets(To(c)[a], h, u) => Meets(p[a], h, u) \/ Meets(To(y)[a], h, u)
        BY <3>2, <4>1
      <4>3. ~HitsWall(To(y), h)
        BY <2>1
      <4> HIDE DEF To
      <4> QED BY <1>1, <1>2, <4>1, <4>2, <4>3, FreeOnTheWay
    <3>7. ~HitsGen(To(c), h)
      BY <1>4, <3>2
    <3>8. Along(p, a, v, h) = To(c) /\ ClearOf(To(c))
      BY <2>2, <3>3, <3>4, <3>6, <3>7 DEF ClearOf, h
    <3>9. c \in Int
      BY <3>2
    <3> QED BY <3>5, <3>8, <3>9 DEF h
  <2> QED BY <2>3, <2>4
<1>8. CASE v < 0
  <2>1. PICK y \in Int :
          /\ Stepped(p, a, v, h) = To(y)
          /\ p[a] + v <= y /\ y <= p[a]
          /\ ~HitsWall(To(y), h)
    BY <1>1, <1>2, <1>8, SteppedBack
  <2>2. Along(p, a, v, h) = Cleared(To(y), a, v, h)
    BY <1>8, <2>1 DEF Along
  <2>3. CASE ~HitsGen(To(y), h)
    <3>1. Cleared(To(y), a, v, h) = To(y)
      BY <2>3 DEF Cleared
    <3>2. Abs(y - p[a]) <= Abs(v)
      BY <1>1, <1>8, <2>1, SMT DEF Abs
    <3> QED BY <2>1, <2>2, <2>3, <3>1, <3>2 DEF ClearOf, h
  <2>4. CASE HitsGen(To(y), h)
    <3> DEFINE c == Gen[a] + GenHalf + h + 1
    <3>1. standing /\ Faces(y, h, a) /\ Faces(p[b], h, b)
      BY <1>4, <2>4
    <3>2. /\ c \in Int /\ p[a] + v <= c /\ c <= p[a] + 1
          /\ ~Faces(c, h, a)
          /\ \A u \in Int : Meets(c, h, u) => Meets(p[a], h, u) \/ Meets(y, h, u)
      BY <1>1, <1>3, <1>8, <2>1, <3>1, PutBackBack DEF h
    <3>3. Cleared(To(y), a, v, h) = [To(y) EXCEPT ![a] = c]
      <4>1. ~(v > 0)
        BY <1>8, SMT
      <4> QED BY <4>1, <2>4 DEF Cleared
    <3> HIDE DEF c
    <3>4. [To(y) EXCEPT ![a] = c] = To(c)
      BY <3>2, PutAgain
    <3>5. Abs(c - p[a]) <= Abs(v)
      BY <1>1, <1>8, <3>2, SMT DEF Abs
    <3>6. ~HitsWall(To(c), h)
      <4>1. /\ To(y) \in Point /\ To(y)[a] = y /\ To(y)[b] = p[b]
            /\ To(c) \in Point /\ To(c)[a] = c /\ To(c)[b] = p[b]
        BY <1>5, <3>2
      <4>2. \A u \in Int : Meets(To(c)[a], h, u) => Meets(p[a], h, u) \/ Meets(To(y)[a], h, u)
        BY <3>2, <4>1
      <4>3. ~HitsWall(To(y), h)
        BY <2>1
      <4> HIDE DEF To
      <4> QED BY <1>1, <1>2, <4>1, <4>2, <4>3, FreeOnTheWay
    <3>7. ~HitsGen(To(c), h)
      BY <1>4, <3>2
    <3>8. Along(p, a, v, h) = To(c) /\ ClearOf(To(c))
      BY <2>2, <3>3, <3>4, <3>6, <3>7 DEF ClearOf, h
    <3>9. c \in Int
      BY <3>2
    <3> QED BY <3>5, <3>8, <3>9 DEF h
  <2> QED BY <2>3, <2>4
<1>9. v = 0 \/ v > 0 \/ v < 0
  BY SMT
<1> QED BY <1>6, <1>7, <1>8, <1>9

LEMMA SlidePlayer ==
  ASSUME NEW p \in Point, NEW v \in PlayerVelocities, ClearOf(p)
  PROVE  /\ moveAndSlide(p, v, PlayerHalf) \in Point
         /\ ClearOf(moveAndSlide(p, v, PlayerHalf))
         /\ \A a \in Axes : Abs(moveAndSlide(p, v, PlayerHalf)[a] - p[a]) <= Abs(v[a])
<1> DEFINE q == Along(p, 1, v[1], PlayerHalf)
           r == Along(q, 2, v[2], PlayerHalf)
<1>1. /\ 1 \in Axes /\ 2 \in Axes /\ 3 - 1 = 2 /\ 3 - 2 = 1
      /\ \A a \in Axes : a = 1 \/ a = 2
  BY SMT DEF Axes
<1>2. /\ v[1] \in Int /\ Abs(v[1]) < Tile
      /\ v[2] \in Int /\ Abs(v[2]) < Tile
  BY <1>1, MotionAssumption
<1>3. PICK x \in Int :
        /\ q = [p EXCEPT ![1] = x]
        /\ Abs(x - p[1]) <= Abs(v[1])
        /\ ClearOf([p EXCEPT ![1] = x])
  BY <1>1, <1>2, AlongClear
<1>4. q \in Point /\ q[1] = x /\ q[2] = p[2] /\ ClearOf(q)
  BY <1>1, <1>3, PutAt
<1> HIDE DEF q
<1>5. PICK y \in Int :
        /\ r = [q EXCEPT ![2] = y]
        /\ Abs(y - q[2]) <= Abs(v[2])
        /\ ClearOf([q EXCEPT ![2] = y])
  BY <1>1, <1>2, <1>4, AlongClear
<1>6. r \in Point /\ r[2] = y /\ r[1] = q[1] /\ ClearOf(r)
  BY <1>1, <1>4, <1>5, PutAt
<1>7. moveAndSlide(p, v, PlayerHalf) = r
  BY DEF moveAndSlide, q
<1> HIDE DEF r
<1>8. Abs(r[1] - p[1]) <= Abs(v[1]) /\ Abs(r[2] - p[2]) <= Abs(v[2])
  BY <1>3, <1>4, <1>5, <1>6
<1> QED BY <1>1, <1>6, <1>7, <1>8

-----------------------------------------------------------------------------
(* A slide of a snipe.  It may have been pushed into the generator: where  *)
(* it is put then there is room all around.                                *)

LEMMA RoomAroundGen ==
  ASSUME NEW r \in Point, NEW a \in Axes, Faces(r[3 - a], SnipeHalf, 3 - a),
         \/ r[a] = Gen[a] - GenHalf - SnipeHalf - 1
         \/ r[a] = Gen[a] + GenHalf + SnipeHalf + 1
  PROVE  ~HitsWall(r, SnipeHalf)
<1> DEFINE h == SnipeHalf
           room == GenHalf + 2 * h + 1
<1>1. /\ h \in Int /\ 0 < h /\ GenHalf \in Int /\ 0 < GenHalf
      /\ \A b \in Axes : Gen[b] \in Int /\ r[b] \in Int
  BY GenType, Halves DEF Point
<1>2. \A b \in Axes : b = a \/ b = 3 - a
  BY OtherAxis
<1>3. 3 - a \in Axes
  BY OtherAxis
<1>4. \A b \in Axes : Gen[b] - room <= r[b] - h /\ r[b] + h <= Gen[b] + room
  <2>1. Gen[a] - room <= r[a] - h /\ r[a] + h <= Gen[a] + room
    BY <1>1, SMT
  <2>2. Gen[3 - a] - room <= r[3 - a] - h /\ r[3 - a] + h <= Gen[3 - a] + room
    BY <1>1, <1>3, SMT DEF Faces
  <2> QED BY <1>2, <2>1, <2>2
<1>5. \A w \in Walls : \E b \in Axes : ~Meets(r[b], h, w[b])
  <2> TAKE w \in Walls
  <2>1. PICK b \in Axes :
          \/ (w[b] + 1) * Tile <= Gen[b] - GenHalf - 2 * h - 1
          \/ w[b] * Tile >= Gen[b] + GenHalf + 2 * h + 1
    BY MazeAssumption
  <2>2. w[b] \in Int
    BY WallPlace
  <2>3. (w[b] + 1) * Tile = From(w[b]) + Tile /\ w[b] * Tile = From(w[b])
    BY <2>2, TileType, SMT DEF From
  <2>4. From(w[b]) \in Int /\ Tile \in Int
    BY <2>2, FromType, TileType
  <2>5. \/ From(w[b]) + Tile <= Gen[b] - room
        \/ From(w[b]) >= Gen[b] + room
    BY <1>1, <2>1, <2>3, <2>4, SMT
  <2>6. ~Meets(r[b], h, w[b])
    BY <1>1, <1>4, <2>4, <2>5, SMT DEF Meets
  <2> QED BY <2>6
<1> QED BY <1>1, <1>5, HitsWallMeets

LEMMA AlongFree ==
  ASSUME NEW p \in Point, NEW a \in Axes, NEW v \in Int, Abs(v) < Tile,
         ~HitsWall(p, SnipeHalf)
  PROVE  /\ Along(p, a, v, SnipeHalf) \in Point
         /\ ~HitsWall(Along(p, a, v, SnipeHalf), SnipeHalf)
<1> DEFINE h == SnipeHalf
           q == Stepped(p, a, v, h)
<1>1. /\ h \in Int /\ 0 < h /\ NoExactFit(h)
      /\ v < Tile /\ -Tile < v
  BY Halves, MazeAssumption, AbsFacts
<1>2. CASE v = 0
  BY <1>2 DEF Along
<1>3. CASE v # 0
  <2>1. q \in Point /\ ~HitsWall(q, h)
    <3>1. CASE v > 0
      <4>1. PICK x \in Int : q = [p EXCEPT ![a] = x] /\ ~HitsWall([p EXCEPT ![a] = x], h)
        BY <1>1, <3>1, SteppedAhead
      <4>2. [p EXCEPT ![a] = x] \in Point
        BY PutAt
      <4> HIDE DEF q
      <4> QED BY <4>1, <4>2
    <3>2. CASE v < 0
      <4>1. PICK x \in Int : q = [p EXCEPT ![a] = x] /\ ~HitsWall([p EXCEPT ![a] = x], h)
        BY <1>1, <3>2, SteppedBack
      <4>2. [p EXCEPT ![a] = x] \in Point
        BY PutAt
      <4> HIDE DEF q
      <4> QED BY <4>1, <4>2
    <3>3. v > 0 \/ v < 0
      BY <1>3, SMT
    <3> QED BY <3>1, <3>2, <3>3
  <2>2. Along(p, a, v, h) = Cleared(q, a, v, h)
    BY <1>3 DEF Along
  <2> HIDE DEF q, h
  <2>3. CASE ~HitsGen(q, h)
    BY <2>1, <2>2, <2>3 DEF Cleared, h
  <2>4. CASE HitsGen(q, h)
    <3> DEFINE c == IF v > 0 THEN Gen[a] - GenHalf - h - 1 ELSE Gen[a] + GenHalf + h + 1
               r == [q EXCEPT ![a] = c]
    <3>1. Cleared(q, a, v, h) = r
      BY <2>4 DEF Cleared
    <3>2. c \in Int /\ (c = Gen[a] - GenHalf - h - 1 \/ c = Gen[a] + GenHalf + h + 1)
      <4>1. Gen[a] \in Int /\ GenHalf \in Int
        BY GenType, Halves DEF Point
      <4> QED BY <1>1, <4>1, SMT
    <3>3. Faces(q[3 - a], h, 3 - a)
      BY <1>1, <2>1, <2>4, OverlapsGen DEF HitsGen
    <3> HIDE DEF c
    <3>4. r \in Point /\ r[a] = c /\ r[3 - a] = q[3 - a]
      BY <2>1, <3>2, PutAt
    <3> HIDE DEF r
    <3>5. ~HitsWall(r, h)
      BY <3>2, <3>3, <3>4, RoomAroundGen DEF h
    <3> QED BY <2>2, <3>1, <3>4, <3>5 DEF h
  <2> QED BY <2>3, <2>4
<1> QED BY <1>2, <1>3

LEMMA SlideSnipe ==
  ASSUME NEW p \in Point, NEW v \in SnipeVelocities, ~HitsWall(p, SnipeHalf)
  PROVE  /\ moveAndSlide(p, v, SnipeHalf) \in Point
         /\ ~HitsWall(moveAndSlide(p, v, SnipeHalf), SnipeHalf)
<1> DEFINE q == Along(p, 1, v[1], SnipeHalf)
<1>1. 1 \in Axes /\ 2 \in Axes
  BY DEF Axes
<1>2. /\ v[1] \in Int /\ Abs(v[1]) < Tile
      /\ v[2] \in Int /\ Abs(v[2]) < Tile
  BY <1>1, MotionAssumption
<1>3. q \in Point /\ ~HitsWall(q, SnipeHalf)
  BY <1>1, <1>2, AlongFree
<1>4. moveAndSlide(p, v, SnipeHalf) = Along(q, 2, v[2], SnipeHalf)
  BY DEF moveAndSlide
<1> HIDE DEF q
<1> QED BY <1>1, <1>2, <1>3, <1>4, AlongFree

-----------------------------------------------------------------------------
(* The state.  The inductive invariant: places are places, and nobody is   *)
(* where it must not be.                                                   *)

MotionType ==
  /\ players \in [Players -> Point] /\ snipes \in [Snipes -> Point]
  /\ standing \in BOOLEAN
  /\ todo \subseteq Snipes \X Snipes

MotionInv == MotionType /\ PlayersClear /\ SnipesOutOfWalls

(* The four corners of a snipe tell whether it is in a wall.               *)
LEMMA CornersTell ==
  ASSUME NEW p \in Point, ~aabbHitsWall(p, SnipeHalf)
  PROVE  ~HitsWall(p, SnipeHalf)
<1> SUFFICES ASSUME NEW w \in Walls, \A a \in Axes : w[a] \in Span(p[a], SnipeHalf)
             PROVE  \A a \in Axes :
                      w[a] \in {(p[a] - SnipeHalf) \div Tile, (p[a] + SnipeHalf - 1) \div Tile}
  BY DEF HitsWall, aabbHitsWall
<1> TAKE a \in Axes
<1> DEFINE h == SnipeHalf
           lo == (p[a] - h) \div Tile
           hi == (p[a] + h - 1) \div Tile
<1>1. p[a] \in Int /\ h \in Int /\ 0 < h /\ 2 * h <= Tile + 1 /\ Tile \in Int
  BY Halves, TileType DEF Point
<1>2. p[a] - h \in Int /\ p[a] + h - 1 \in Int
  BY <1>1, SMT
<1>3. /\ lo \in Int /\ From(lo) \in Int /\ p[a] - h < From(lo) + Tile
      /\ hi \in Int /\ From(hi) \in Int /\ From(hi) <= p[a] + h - 1
  BY <1>2, ColumnOf, FromType
<1>4. w[a] \in Int /\ lo <= w[a] /\ w[a] <= hi
  BY <1>3, WallPlace, SMT DEF Span
<1> HIDE DEF lo, hi, h
<1>5. hi <= lo + 1
  <2> SUFFICES ASSUME lo + 1 < hi
               PROVE  FALSE
    BY <1>3, SMT
  <2>1. lo + 1 \in Int /\ From(lo + 1) = From(lo) + Tile
    BY <1>1, <1>3, SMT DEF From
  <2>2. From(lo + 1) + Tile <= From(hi)
    BY <1>3, <2>1, ColumnOrder
  <2> QED BY <1>1, <1>3, <2>1, <2>2, SMT
<1>6. w[a] = lo \/ w[a] = hi
  BY <1>3, <1>4, <1>5, SMT
<1> QED BY <1>6 DEF lo, hi, h

LEMMA SpawnClear ==
  ASSUME NEW t \in SpawnTiles
  PROVE  /\ Centre(t) \in Point
         /\ ~HitsWall(Centre(t), PlayerHalf)
         /\ ~Overlaps(Centre(t), PlayerHalf, Gen, GenHalf)
<1>1. \A a \in Axes : t[a] \in Int
  BY MotionAssumption
<1> QED BY <1>1, CentreType, MazeAssumption

LEMMA SlotFree ==
  ASSUME NEW u \in Slots
  PROVE  Centre(u) \in Point /\ ~HitsWall(Centre(u), SnipeHalf)
<1>1. EmitDist \in Int
  BY Halves, TileType, SMT DEF EmitDist
<1>2. PICK i \in {-EmitDist, 0, EmitDist}, j \in {-EmitDist, 0, EmitDist} :
        u = <<GenTile[1] + i, GenTile[2] + j>>
  BY DEF Slots
<1>3. GenTile[1] \in Int /\ GenTile[2] \in Int
  <2>1. 1 \in Axes /\ 2 \in Axes
    BY DEF Axes
  <2> QED BY <2>1, MotionAssumption
<1>4. i \in Int /\ j \in Int
  BY <1>1, <1>2, SMT
<1>5. \A a \in Axes : u[a] \in Int
  BY <1>2, <1>3, <1>4, SMT DEF Axes
<1>6. Centre(u) \in Point
  BY <1>5, CentreType
<1>7. ~aabbHitsWall(Centre(u), SnipeHalf)
  BY DEF Slots
<1> QED BY <1>6, <1>7, CornersTell

LEMMA OutType == Out \in Point
  BY DEF Out, Point

LEMMA MotionInit == Init => MotionInv
<1> SUFFICES ASSUME Init
             PROVE  MotionInv
  OBVIOUS
<1>1. \A p \in Players : \E t \in SpawnTiles : players[p] = Centre(t)
  BY DEF Init
<1>2. \A p \in Players : /\ players[p] \in Point
                         /\ ~HitsWall(players[p], PlayerHalf)
                         /\ ~HitsGen(players[p], PlayerHalf)
  BY <1>1, SpawnClear DEF HitsGen
<1>3. players \in [Players -> Point]
  BY <1>2 DEF Init
<1>4. snipes \in [Snipes -> Point] /\ \A s \in Snipes : snipes[s] = Out
  BY OutType DEF Init
<1>5. standing \in BOOLEAN /\ todo \subseteq Snipes \X Snipes
  BY DEF Init
<1> QED BY <1>2, <1>3, <1>4, <1>5 DEF MotionInv, MotionType, PlayersClear, SnipesOutOfWalls

-----------------------------------------------------------------------------
(* What each action does to one body.                                      *)

LEMMA PlayersMove ==
  ASSUME MotionInv, MovePlayers
  PROVE  /\ players' \in [Players -> Point]
         /\ \A p \in Players : players[p] = Out => players'[p] = Out
         /\ \A p \in Players : players[p] # Out =>
              /\ ClearOf(players'[p])
              /\ \E v \in PlayerVelocities :
                   \A a \in Axes : Abs(players'[p][a] - players[p][a]) <= Abs(v[a])
<1>1. PICK v \in [{p \in Players : players[p] # Out} -> PlayerVelocities] :
        players' = [p \in Players |->
          IF players[p] = Out THEN Out ELSE moveAndSlide(players[p], v[p], PlayerHalf)]
  BY DEF MovePlayers
<1>2. ASSUME NEW p \in Players, players[p] # Out
      PROVE  /\ players'[p] \in Point /\ ClearOf(players'[p])
             /\ \E u \in PlayerVelocities :
                  \A a \in Axes : Abs(players'[p][a] - players[p][a]) <= Abs(u[a])
  <2>1. v[p] \in PlayerVelocities
    BY <1>2
  <2>2. players[p] \in Point /\ ClearOf(players[p])
    BY <1>2 DEF MotionInv, MotionType, PlayersClear, ClearOf
  <2>3. players'[p] = moveAndSlide(players[p], v[p], PlayerHalf)
    BY <1>1, <1>2
  <2> QED BY <2>1, <2>2, <2>3, SlidePlayer
<1>3. \A p \in Players : players[p] = Out => players'[p] = Out
  BY <1>1
<1>4. \A p \in Players : players'[p] \in Point
  BY <1>2, <1>3, OutType
<1>5. players' \in [Players -> Point]
  BY <1>1, <1>4
<1> QED BY <1>2, <1>3, <1>5

LEMMA SnipesMove ==
  ASSUME MotionInv, MoveSnipes
  PROVE  /\ snipes' \in [Snipes -> Point]
         /\ \A s \in Snipes : snipes'[s] # Out => ~HitsWall(snipes'[s], SnipeHalf)
<1>1. PICK v \in [{s \in Snipes : snipes[s] # Out} -> SnipeVelocities] :
        snipes' = [s \in Snipes |->
          IF snipes[s] = Out THEN Out ELSE moveAndSlide(snipes[s], v[s], SnipeHalf)]
  BY DEF MoveSnipes
<1>2. ASSUME NEW s \in Snipes, snipes[s] # Out
      PROVE  snipes'[s] \in Point /\ ~HitsWall(snipes'[s], SnipeHalf)
  <2>1. v[s] \in SnipeVelocities
    BY <1>2
  <2>2. ~HitsWall(snipes[s], SnipeHalf)
    BY <1>2 DEF MotionInv, SnipesOutOfWalls
  <2>3. snipes[s] \in Point
    BY DEF MotionInv, MotionType
  <2>4. snipes'[s] = moveAndSlide(snipes[s], v[s], SnipeHalf)
    BY <1>1, <1>2
  <2> QED BY <2>1, <2>2, <2>3, <2>4, SlideSnipe
<1>3. \A s \in Snipes : snipes[s] = Out => snipes'[s] = Out
  BY <1>1
<1>4. \A s \in Snipes : snipes'[s] \in Point
  BY <1>2, <1>3, OutType
<1>5. snipes' \in [Snipes -> Point]
  BY <1>1, <1>4
<1> QED BY <1>2, <1>3, <1>5

LEMMA PushKeepsOut ==
  ASSUME MotionInv, NEW hi \in Snipes, NEW lo \in Snipes
  PROVE  /\ Pushed(snipes, hi, lo) \in [Snipes -> Point]
         /\ \A s \in Snipes : Pushed(snipes, hi, lo)[s] # Out =>
              ~HitsWall(Pushed(snipes, hi, lo)[s], SnipeHalf)
<1> DEFINE a == IF Abs(snipes[hi][1] - snipes[lo][1]) >= Abs(snipes[hi][2] - snipes[lo][2])
                THEN 1 ELSE 2
           away == IF snipes[hi][a] > snipes[lo][a]
                   THEN 2 * SnipeHalf + 1 ELSE -(2 * SnipeHalf + 1)
           beside == [snipes[hi] EXCEPT ![a] = snipes[lo][a] + away]
<1>1. /\ snipes \in [Snipes -> Point]
      /\ \A s \in Snipes : snipes[s] # Out => ~HitsWall(snipes[s], SnipeHalf)
  BY DEF MotionInv, MotionType, SnipesOutOfWalls
<1>2. a \in Axes
  BY DEF Axes
<1>3. away \in Int
  BY Halves, SMT
<1>4. Pushed(snipes, hi, lo) =
        IF \/ Out \in {snipes[hi], snipes[lo]}
           \/ ~Overlaps(snipes[hi], SnipeHalf, snipes[lo], SnipeHalf)
           \/ aabbHitsWall(beside, SnipeHalf)
        THEN snipes ELSE [snipes EXCEPT ![hi] = beside]
  BY DEF Pushed
<1> HIDE DEF a, away
<1>5. beside \in Point
  <2>1. snipes[hi] \in Point /\ snipes[lo] \in Point
    BY <1>1
  <2>2. snipes[lo][a] + away \in Int
    BY <1>2, <1>3, <2>1, SMT DEF Point
  <2> QED BY <1>2, <2>1, <2>2, PutAt
<1> HIDE DEF beside
<1>6. CASE Pushed(snipes, hi, lo) = snipes
  BY <1>1, <1>6
<1>7. CASE ~aabbHitsWall(beside, SnipeHalf) /\ Pushed(snipes, hi, lo) = [snipes EXCEPT ![hi] = beside]
  <2>1. ~HitsWall(beside, SnipeHalf)
    BY <1>5, <1>7, CornersTell
  <2> QED BY <1>1, <1>5, <1>7, <2>1
<1> QED BY <1>4, <1>6, <1>7

LEMMA TickEnds ==
  ASSUME MotionInv, EndTick
  PROVE  /\ players' \in [Players -> Point]
         /\ \A p \in Players : players'[p] # Out =>
              ClearOf(players'[p]) /\ (players[p] # Out => players'[p] = players[p])
         /\ snipes' \in [Snipes -> Point]
         /\ \A s \in Snipes : snipes'[s] = Out \/ snipes'[s] = snipes[s]
         /\ standing' \in BOOLEAN /\ (standing' => standing)
<1>1. PICK shot \in SUBSET Players, hit \in SUBSET Snipes, falls \in BOOLEAN :
        LET left == [p \in Players |-> IF p \in shot THEN Out ELSE players[p]]
        IN /\ standing' = (standing /\ ~falls)
           /\ snipes' = [s \in Snipes |-> IF s \in hit THEN Out ELSE snipes[s]]
           /\ \/ players' = left
              \/ \E p \in Players, t \in SpawnTiles :
                   /\ players[p] = Out /\ Clear(Centre(t), PlayerHalf, left, snipes')
                   /\ players' = [left EXCEPT ![p] = Centre(t)]
  BY DEF EndTick
<1> DEFINE left == [p \in Players |-> IF p \in shot THEN Out ELSE players[p]]
<1>2. /\ players \in [Players -> Point] /\ snipes \in [Snipes -> Point] /\ standing \in BOOLEAN
      /\ \A p \in Players : players[p] # Out => ClearOf(players[p])
  BY DEF MotionInv, MotionType, PlayersClear, ClearOf
<1>3. /\ left \in [Players -> Point]
      /\ \A p \in Players : left[p] = Out \/ left[p] = players[p]
  BY <1>2, OutType
<1>4. /\ snipes' \in [Snipes -> Point]
      /\ \A s \in Snipes : snipes'[s] = Out \/ snipes'[s] = snipes[s]
  BY <1>1, <1>2, OutType
<1>5. standing' \in BOOLEAN /\ (standing' => standing)
  BY <1>1, <1>2
<1>6. \/ players' = left
      \/ \E p \in Players, t \in SpawnTiles :
           /\ players[p] = Out /\ Clear(Centre(t), PlayerHalf, left, snipes')
           /\ players' = [left EXCEPT ![p] = Centre(t)]
  BY <1>1
<1> HIDE DEF left
<1>7. CASE players' = left
  <2>1. \A p \in Players : players'[p] # Out => players'[p] = players[p] /\ players[p] # Out
    BY <1>3, <1>7
  <2> QED BY <1>2, <1>3, <1>4, <1>5, <1>7, <2>1
<1>8. ASSUME NEW p \in Players, NEW t \in SpawnTiles, players[p] = Out,
             Clear(Centre(t), PlayerHalf, left, snipes'),
             players' = [left EXCEPT ![p] = Centre(t)]
      PROVE  /\ players' \in [Players -> Point]
             /\ \A q \in Players : players'[q] # Out =>
                  ClearOf(players'[q]) /\ (players[q] # Out => players'[q] = players[q])
  <2>1. Centre(t) \in Point /\ ClearOf(Centre(t))
    BY <1>8, SpawnClear DEF ClearOf, HitsGen
  <2>2. players' \in [Players -> Point]
    BY <1>3, <1>8, <2>1
  <2>3. players'[p] = Centre(t)
    BY <1>3, <1>8
  <2>4. \A q \in Players : q # p => players'[q] = left[q]
    BY <1>3, <1>8
  <2>5. \A q \in Players : q # p /\ players'[q] # Out =>
          players'[q] = players[q] /\ players[q] # Out
    BY <1>3, <2>4
  <2>6. \A q \in Players : players'[q] # Out =>
          ClearOf(players'[q]) /\ (players[q] # Out => players'[q] = players[q])
    BY <1>2, <1>8, <2>1, <2>3, <2>5
  <2> QED BY <2>2, <2>6
<1> QED BY <1>4, <1>5, <1>6, <1>7, <1>8

-----------------------------------------------------------------------------
(* Every step.                                                             *)

LEMMA PlayersStay ==
  ASSUME MotionInv, UNCHANGED <<players, standing>>
  PROVE  PlayersClear'
  BY DEF MotionInv, PlayersClear, HitsGen

LEMMA SnipesStay ==
  ASSUME MotionInv, UNCHANGED snipes
  PROVE  SnipesOutOfWalls'
  BY DEF MotionInv, SnipesOutOfWalls

LEMMA MotionStep == MotionInv /\ [Next]_vars => MotionInv'
<1> SUFFICES ASSUME MotionInv, [Next]_vars
             PROVE  MotionInv'
  OBVIOUS
<1>1. MotionType
  BY DEF MotionInv
<1>2. ASSUME MovePlayers
      PROVE  MotionInv'
  <2>1. MotionType'
    BY <1>1, <1>2, PlayersMove DEF MovePlayers, MotionType
  <2>2. PlayersClear'
    <3>1. standing' = standing
      BY <1>2 DEF MovePlayers
    <3>2. \A p \in Players : players'[p] # Out => ClearOf(players'[p])
      BY <1>2, PlayersMove
    <3> QED BY <3>1, <3>2 DEF ClearOf, PlayersClear, HitsGen
  <2>3. SnipesOutOfWalls'
    BY <1>2, SnipesStay DEF MovePlayers
  <2> QED BY <2>1, <2>2, <2>3 DEF MotionInv
<1>3. ASSUME MoveSnipes
      PROVE  MotionInv'
  <2>1. MotionType'
    BY <1>1, <1>3, SnipesMove DEF MoveSnipes, MotionType
  <2>2. PlayersClear'
    BY <1>3, PlayersStay DEF MoveSnipes
  <2>3. SnipesOutOfWalls'
    BY <1>3, SnipesMove DEF SnipesOutOfWalls
  <2> QED BY <2>1, <2>2, <2>3 DEF MotionInv
<1>4. ASSUME NEW hi \in Snipes, NEW lo \in Snipes, WeakBlock(hi, lo)
      PROVE  MotionInv'
  <2>1. snipes' = Pushed(snipes, hi, lo)
    BY <1>4 DEF WeakBlock
  <2>2. MotionType'
    BY <1>1, <1>4, <2>1, PushKeepsOut DEF WeakBlock, MotionType
  <2>3. PlayersClear'
    BY <1>4, PlayersStay DEF WeakBlock
  <2>4. SnipesOutOfWalls'
    BY <2>1, PushKeepsOut DEF SnipesOutOfWalls
  <2> QED BY <2>2, <2>3, <2>4 DEF MotionInv
<1>5. ASSUME EmitNot
      PROVE  MotionInv'
  <2>1. MotionType'
    BY <1>1, <1>5 DEF EmitNot, MotionType
  <2> QED BY <1>5, <2>1, PlayersStay, SnipesStay DEF EmitNot, MotionInv
<1>6. ASSUME NEW s \in Snipes, Emit(s)
      PROVE  MotionInv'
  <2>1. PICK u \in Slots : snipes' = [snipes EXCEPT ![s] = Centre(u)]
    BY <1>6 DEF Emit
  <2>2. Centre(u) \in Point /\ ~HitsWall(Centre(u), SnipeHalf)
    BY SlotFree
  <2>3. MotionType'
    BY <1>1, <1>6, <2>1, <2>2 DEF Emit, MotionType
  <2>4. PlayersClear'
    BY <1>6, PlayersStay DEF Emit
  <2>5. SnipesOutOfWalls'
    <3>1. snipes'[s] = Centre(u) /\ \A t \in Snipes : t # s => snipes'[t] = snipes[t]
      BY <1>1, <2>1 DEF MotionType
    <3> QED BY <2>2, <3>1 DEF MotionInv, SnipesOutOfWalls
  <2> QED BY <2>3, <2>4, <2>5 DEF MotionInv
<1>7. ASSUME EndTick
      PROVE  MotionInv'
  <2>1. MotionType'
    BY <1>1, <1>7, TickEnds DEF EndTick, MotionType
  <2>2. PlayersClear'
    <3>1. \A p \in Players : players'[p] # Out => ClearOf(players'[p])
      BY <1>7, TickEnds
    <3>2. standing' => standing
      BY <1>7, TickEnds
    <3> QED BY <3>1, <3>2 DEF ClearOf, PlayersClear, HitsGen
  <2>3. SnipesOutOfWalls'
    <3>1. \A s \in Snipes : snipes'[s] = Out \/ snipes'[s] = snipes[s]
      BY <1>7, TickEnds
    <3> QED BY <3>1 DEF MotionInv, SnipesOutOfWalls
  <2> QED BY <2>1, <2>2, <2>3 DEF MotionInv
<1>8. CASE UNCHANGED vars
  <2>1. UNCHANGED <<players, standing>> /\ UNCHANGED snipes /\ UNCHANGED todo
    BY <1>8 DEF vars
  <2>2. MotionType'
    BY <1>1, <2>1 DEF MotionType
  <2> QED BY <2>1, <2>2, PlayersStay, SnipesStay DEF MotionInv
<1> QED BY <1>2, <1>3, <1>4, <1>5, <1>6, <1>7, <1>8 DEF Next

(* Wherever bodies slide, are pushed, come out of the generator or come    *)
(* back, the inductive invariant holds: moveAndSlide,                      *)
(* applySnipeWeakBlock, findEmissionSlot and tileFreeForPlayerAABB.        *)
THEOREM MotionCorrect == Spec => []MotionInv
  BY MotionInit, MotionStep, PTL DEF Spec

(* No player is ever in a wall or in the generator.                        *)
THEOREM PlayersClearCorrect == Spec => []PlayersClear
<1>1. MotionInv => PlayersClear
  BY DEF MotionInv
<1> QED BY <1>1, MotionCorrect, PTL

(* No snipe is ever in a wall, though the corners are all the code asks.   *)
THEOREM SnipesOutOfWallsCorrect == Spec => []SnipesOutOfWalls
<1>1. MotionInv => SnipesOutOfWalls
  BY DEF MotionInv
<1> QED BY <1>1, MotionCorrect, PTL

(* No step carries a player further than its velocity along an axis.       *)
LEMMA GlideStep ==
  ASSUME MotionInv, [Next]_vars
  PROVE  \A p \in Players : Glides(players[p], players'[p])
<1>1. PICK v0 : v0 \in PlayerVelocities
  BY MotionAssumption
<1>2. \A v \in PlayerVelocities, a \in Axes : v[a] \in Int /\ Abs(v[a]) \in Speeds
  BY MotionAssumption DEF Speeds
<1>3. ASSUME NEW p \in Players, players'[p] = players[p]
      PROVE  Glides(players[p], players'[p])
  <2>1. ASSUME NEW a \in Axes
        PROVE  \E s \in Speeds : Abs(players'[p][a] - players[p][a]) <= s
    <3>1. players[p][a] \in Int
      BY DEF MotionInv, MotionType, Point
    <3>2. Abs(players'[p][a] - players[p][a]) = 0
      BY <1>3, <3>1, SMT DEF Abs
    <3>3. 0 <= Abs(v0[a]) /\ Abs(v0[a]) \in Speeds
      BY <1>1, <1>2, AbsFacts
    <3> QED BY <3>2, <3>3
  <2> QED BY <2>1 DEF Glides
<1>4. CASE MovePlayers
  <2> SUFFICES ASSUME NEW p \in Players, players[p] # Out
               PROVE  \A a \in Axes : \E s \in Speeds : Abs(players'[p][a] - players[p][a]) <= s
    BY DEF Glides
  <2>1. PICK v \in PlayerVelocities :
          \A a \in Axes : Abs(players'[p][a] - players[p][a]) <= Abs(v[a])
    BY <1>4, PlayersMove
  <2> QED BY <1>2, <2>1
<1>5. CASE EndTick
  <2>1. \A p \in Players : players'[p] # Out /\ players[p] # Out => players'[p] = players[p]
    BY <1>5, TickEnds
  <2> QED BY <1>3, <2>1 DEF Glides
<1>6. CASE UNCHANGED players
  BY <1>3, <1>6
<1>7. MovePlayers \/ EndTick \/ UNCHANGED players
  BY DEF Next, vars, MoveSnipes, WeakBlock, EmitNot, Emit
<1> QED BY <1>4, <1>5, <1>6, <1>7

(* Sliding along walls, stopping at them and being put back from the       *)
(* generator never carry a player further than its fastest velocity.       *)
THEOREM PlayersGlideCorrect == Spec => PlayersGlide
<1>1. MotionInv /\ [Next]_vars => [\A p \in Players : Glides(players[p], players'[p])]_vars
  BY GlideStep
<1> QED BY <1>1, MotionCorrect, PTL DEF Spec, PlayersGlide
=============================================================================
