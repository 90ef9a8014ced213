---------------------------- MODULE LobbyProofs ----------------------------
(* The safety properties of Lobby, for any sessions and rooms. *)
EXTENDS Lobby, FiniteSetTheorems, TLAPS

-----------------------------------------------------------------------------
(* What Without returns.                                                   *)

(* The elements of a finite set of numbers are numbered from the least.    *)
LEMMA Numbering ==
  ASSUME NEW K \in SUBSET Nat, IsFiniteSet(K)
  PROVE  /\ \A i \in K : Cardinality({k \in K : k <= i}) \in 1..Cardinality(K)
         /\ \A i, j \in K : Cardinality({k \in K : k <= i}) = Cardinality({k \in K : k <= j}) => i = j
         /\ \A n \in 1..Cardinality(K) : \E i \in K : Cardinality({k \in K : k <= i}) = n
<1> DEFINE upto(i) == {k \in K : k <= i}
           f == [i \in K |-> Cardinality(upto(i))]
<1>1. Cardinality(K) \in Nat
  BY FS_CardinalityType
<1>2. \A i \in K : IsFiniteSet(upto(i)) /\ Cardinality(upto(i)) \in 1..Cardinality(K)
  <2> TAKE i \in K
  <2>1. IsFiniteSet(upto(i)) /\ Cardinality(upto(i)) <= Cardinality(K)
    BY FS_Subset, upto(i) \in SUBSET K
  <2>2. Cardinality(upto(i)) \in Nat
    BY <2>1, FS_CardinalityType
  <2>3. i \in upto(i)
    OBVIOUS
  <2>4. Cardinality(upto(i)) # 0
    BY <2>1, <2>3, FS_EmptySet
  <2> HIDE DEF upto
  <2> QED  BY <1>1, <2>1, <2>2, <2>4
<1>3. \A i, j \in K : i < j => Cardinality(upto(i)) # Cardinality(upto(j))
  <2> SUFFICES ASSUME NEW i \in K, NEW j \in K, i < j
               PROVE  Cardinality(upto(i)) # Cardinality(upto(j))
    OBVIOUS
  <2>1. i \in Nat /\ j \in Nat /\ \A k \in K : k \in Nat
    OBVIOUS
  <2>2. upto(i) \in SUBSET upto(j)
    <3>1. \A k \in K : k <= i => k <= j
      BY <2>1
    <3> QED  BY <3>1
  <2>3. j \in upto(j) /\ j \notin upto(i)
    BY <2>1
  <2>4. IsFiniteSet(upto(j))
    BY <1>2
  <2> HIDE DEF upto
  <2> QED  BY <2>2, <2>3, <2>4, FS_Subset
<1>4. f \in Injection(K, 1..Cardinality(K))
  <2>1. f \in [K -> 1..Cardinality(K)]
    BY <1>2
  <2>2. \A i, j \in K : i # j => i < j \/ j < i
    OBVIOUS
  <2>3. \A i, j \in K : f[i] = f[j] => i = j
    <3> HIDE DEF upto
    <3> QED  BY <1>3, <2>2
  <2> HIDE DEF f
  <2> QED  BY <2>1, <2>3 DEF Injection, IsInjective
<1>5. IsFiniteSet(1..Cardinality(K)) /\ Cardinality(1..Cardinality(K)) = Cardinality(K)
  BY <1>1, FS_Interval
<1>6. f \in Surjection(K, 1..Cardinality(K))
  <2> HIDE DEF f
  <2> QED  BY <1>4, <1>5, FS_Injection
<1>7. \A n \in 1..Cardinality(K) : \E i \in K : f[i] = n
  <2> HIDE DEF f
  <2> QED  BY <1>6 DEF Surjection
<1>8. \A i, j \in K : Cardinality(upto(i)) = Cardinality(upto(j)) => i = j
  <2>1. \A i, j \in K : i # j => i < j \/ j < i
    OBVIOUS
  <2> HIDE DEF upto
  <2> QED  BY <1>3, <2>1
<1>9. \A n \in 1..Cardinality(K) : \E i \in K : Cardinality(upto(i)) = n
  <2> HIDE DEF upto
  <2> QED  BY <1>7
<1> QED  BY <1>2, <1>8, <1>9

(* What the sequence w keeps of q when it loses the elements of D.         *)
Shortened(w, q, D) ==
  /\ Len(w) <= Len(q) /\ (q = <<>> => w = <<>>)
  /\ {w[i] : i \in DOMAIN w} = {q[i] : i \in DOMAIN q} \ D
  /\ (\A i, j \in DOMAIN q : q[i] = q[j] => i = j) => \A i, j \in DOMAIN w : w[i] = w[j] => i = j

(* Without loses exactly the elements of D and repeats nothing.            *)
LEMMA WithoutProperties ==
  ASSUME NEW S, NEW q \in Seq(S), NEW D
  PROVE  Without(q, D) \in Seq(S) /\ Shortened(Without(q, D), q, D)
<1> DEFINE K == {i \in DOMAIN q : q[i] \notin D}
           C == Cardinality(K)
           num(i) == Cardinality({k \in K : k <= i})
           at(n) == CHOOSE i \in K : num(i) = n
           w == Without(q, D)
<1>1. K \in SUBSET (1..Len(q)) /\ K \in SUBSET Nat
  OBVIOUS
<1>2. IsFiniteSet(K) /\ C \in Nat /\ C <= Len(q)
  <2>1. IsFiniteSet(1..Len(q)) /\ Cardinality(1..Len(q)) = Len(q)
    <3>1. Len(q) \in Nat
      OBVIOUS
    <3> QED  BY <3>1, FS_Interval
  <2> HIDE DEF K
  <2> QED  BY <1>1, <2>1, FS_Subset, FS_CardinalityType
<1>3. /\ \A i \in K : num(i) \in 1..C
      /\ \A i, j \in K : num(i) = num(j) => i = j
      /\ \A n \in 1..C : \E i \in K : num(i) = n
  <2> HIDE DEF K
  <2> QED  BY <1>1, <1>2, Numbering
<1>4. w = [n \in 1..C |-> q[at(n)]]
  BY DEF Without
<1>5. \A n \in 1..C : at(n) \in K /\ num(at(n)) = n
  <2> HIDE DEF K, num
  <2> QED  BY <1>3
<1>6. \A i \in K : at(num(i)) = i
  <2> HIDE DEF K, num, at
  <2> QED  BY <1>3, <1>5
<1>7. w \in Seq(S) /\ Len(w) = C /\ DOMAIN w = 1..C
  <2>1. \A n \in 1..C : q[at(n)] \in S
    <3>1. \A i \in K : q[i] \in S
      OBVIOUS
    <3> HIDE DEF K, C, at
    <3> QED  BY <1>5, <3>1
  <2>2. w \in [1..C -> S]
    <3> HIDE DEF at, C, w
    <3> QED  BY <1>4, <2>1
  <2> HIDE DEF at, C, w
  <2> QED  BY <1>2, <2>2
<1>8. \A n \in DOMAIN w : w[n] = q[at(n)]
  <2> HIDE DEF at, C, w
  <2> QED  BY <1>4
<1>9. {w[n] : n \in DOMAIN w} = {q[i] : i \in DOMAIN q} \ D
  <2>1. \A n \in DOMAIN w : w[n] \in {q[i] : i \in DOMAIN q} \ D
    <3>1. \A i \in K : i \in DOMAIN q /\ q[i] \notin D
      OBVIOUS
    <3> HIDE DEF K, C, at, w
    <3> QED  BY <1>5, <1>7, <1>8, <3>1
  <2>2. \A i \in DOMAIN q : q[i] \notin D => \E n \in DOMAIN w : w[n] = q[i]
    <3> SUFFICES ASSUME NEW i \in DOMAIN q, q[i] \notin D
                 PROVE  \E n \in DOMAIN w : w[n] = q[i]
      OBVIOUS
    <3>1. i \in K
      OBVIOUS
    <3> HIDE DEF K, C, at, w, num
    <3> QED  BY <1>3, <1>6, <1>7, <1>8, <3>1
  <2> HIDE DEF w
  <2> QED  BY <2>1, <2>2
<1>10. ASSUME \A i, j \in DOMAIN q : q[i] = q[j] => i = j
       PROVE  \A i, j \in DOMAIN w : w[i] = w[j] => i = j
  <2>1. \A i \in K : i \in DOMAIN q
    OBVIOUS
  <2> HIDE DEF K, C, at, w, num
  <2> QED  BY <1>5, <1>7, <1>8, <1>10, <2>1
<1>11. ASSUME q = <<>> PROVE w = <<>>
  <2>1. Len(w) = 0
    <3> HIDE DEF C, w
    <3> QED  BY <1>2, <1>7, <1>11
  <2> HIDE DEF C, w
  <2> QED  BY <1>7, <2>1
<1> HIDE DEF C, w
<1>12. Len(w) <= Len(q)
  BY <1>2, <1>7
<1>13. Shortened(w, q, D)
  BY <1>9, <1>10, <1>11, <1>12 DEF Shortened
<1> QED  BY <1>7, <1>13 DEF w
-----------------------------------------------------------------------------
(* Leaving and dropping.                                                   *)

(* The lobby v that Vacate leaves, in its parts.                           *)
VacateParts(v, l, D, R) ==
  /\ v \in LobbyState
  /\ \A r \in Rooms : v.members[r] = IF r \in R THEN Without(l.members[r], D) ELSE l.members[r]
  /\ \A s \in Sessions : v.room[s] = IF s \in D THEN None ELSE l.room[s]
  /\ \A r \in Rooms : v.host[r] # l.host[r] => r \in R /\ l.host[r] \in D /\ l.room[l.host[r]] = r
  /\ v.session = l.session /\ v.stage = l.stage /\ v.tokens = l.tokens /\ v.crashed = l.crashed
  /\ v.greeted = l.greeted /\ v.view = l.view /\ v.dirty = l.dirty

LEMMA VacateType ==
  ASSUME NEW l \in LobbyState, NEW D \in SUBSET Sessions, NEW R \in SUBSET Rooms
  PROVE  VacateParts(Vacate(l, D, R), l, D, R)
<1> DEFINE v == Vacate(l, D, R)
<1>1. \A r \in Rooms : l.members[r] \in Seq(Sessions)
  BY DEF LobbyState
<1>2. \A r \in Rooms : Without(l.members[r], D) \in Seq(Sessions)
  BY <1>1, WithoutProperties
<1>3. [r \in Rooms |-> IF r \in R THEN Without(l.members[r], D) ELSE l.members[r]] \in [Rooms -> Seq(Sessions)]
  BY <1>1, <1>2
<1>4. [s \in Sessions |-> IF s \in D THEN None ELSE l.room[s]] \in [Sessions -> Rooms \cup {None}]
  BY DEF LobbyState
<1>5. [r \in Rooms |-> LET rest == Without(l.members[r], D)
                       IN  IF r \in R /\ l.host[r] \in D /\ l.room[l.host[r]] = r /\ rest # <<>>
                             THEN Head(rest) ELSE l.host[r]] \in [Rooms -> Sessions \cup {None}]
  <2>1. \A r \in Rooms : Without(l.members[r], D) # <<>> => Head(Without(l.members[r], D)) \in Sessions
    BY <1>2
  <2>2. \A r \in Rooms : l.host[r] \in Sessions \cup {None}
    BY DEF LobbyState
  <2> QED  BY <2>1, <2>2
<1>6. v \in LobbyState
  BY <1>3, <1>4, <1>5 DEF LobbyState, Vacate
<1> QED  BY <1>6 DEF LobbyState, Vacate, VacateParts

(* The rooms of v are those of l, without the members D in the rooms R.     *)
VacatedRooms(v, l, D, R) ==
  \A r \in Rooms : v.members[r] = IF r \in R THEN Without(l.members[r], D) ELSE l.members[r]

(* Leaving repeats nobody and fills nothing.                               *)
LEMMA VacatedRoom ==
  ASSUME NEW l \in LobbyState, Seated(l), NEW v, NEW D, NEW R, VacatedRooms(v, l, D, R),
         NEW r \in Rooms
  PROVE  /\ \A i, j \in DOMAIN v.members[r] : v.members[r][i] = v.members[r][j] => i = j
         /\ Len(v.members[r]) <= MaxMembers
         /\ l.members[r] = <<>> => v.members[r] = <<>>
         /\ InRoom(v, r) = IF r \in R THEN InRoom(l, r) \ D ELSE InRoom(l, r)
<1>1. \A i, j \in DOMAIN l.members[r] : l.members[r][i] = l.members[r][j] => i = j
  BY DEF Seated
<1>2. Len(l.members[r]) <= MaxMembers
  BY DEF Seated
<1>3. MaxMembers \in Nat
  BY LobbyAssumption
<1>4. CASE r \notin R
  <2>1. v.members[r] = l.members[r]
    BY <1>4 DEF VacatedRooms
  <2> QED  BY <1>1, <1>2, <1>4, <2>1 DEF InRoom
<1>5. CASE r \in R
  <2>1. v.members[r] = Without(l.members[r], D)
    BY <1>5 DEF VacatedRooms
  <2> DEFINE q == l.members[r]
             w == Without(q, D)
  <2>2. q \in Seq(Sessions)
    BY DEF LobbyState
  <2>3. w \in Seq(Sessions) /\ Shortened(w, q, D)
    BY <2>2, WithoutProperties
  <2>4. w \in Seq(Sessions) /\ Len(w) <= Len(q)
    BY <2>3 DEF Shortened
  <2>5. Len(w) <= MaxMembers
    <3>1. Len(w) \in Nat /\ Len(q) \in Nat /\ Len(q) <= MaxMembers
      BY <1>2, <2>2, <2>3 DEF Shortened
    <3> HIDE DEF w, q
    <3> QED  BY <1>3, <2>4, <3>1
  <2>6. InRoom(v, r) = InRoom(l, r) \ D
    BY <2>1, <2>3 DEF InRoom, Shortened
  <2> QED  BY <1>1, <1>5, <2>1, <2>3, <2>5, <2>6 DEF Shortened
<1> QED  BY <1>4, <1>5

(* Who leaves the room it names leaves no trace.                           *)
LEMMA VacateSeated ==
  ASSUME NEW l \in LobbyState, Seated(l), NEW D \in SUBSET Sessions, NEW R \in SUBSET Rooms,
         \A s \in D \cap Live(l) : l.room[s] \in R \cup {None}
  PROVE  /\ Vacate(l, D, R) \in LobbyState /\ Seated(Vacate(l, D, R))
         /\ Vacate(l, D, R).stage = l.stage /\ Vacate(l, D, R).tokens = l.tokens
         /\ Vacate(l, D, R).crashed = l.crashed
         /\ \A r \in Rooms : InRoom(Vacate(l, D, R), r) =
                               IF r \in R THEN InRoom(l, r) \ D ELSE InRoom(l, r)
         /\ Placed(l) => Placed(Vacate(l, D, R))
<1> DEFINE v == Vacate(l, D, R)
<1>1. VacateParts(v, l, D, R)
  BY VacateType
<1> HIDE DEF v
<1>2. VacatedRooms(v, l, D, R)
  BY <1>1 DEF VacateParts, VacatedRooms
<1>3. Live(v) = Live(l) /\ Existing(v) = Existing(l)
  BY <1>1 DEF VacateParts, Live, Existing
<1>4. ASSUME NEW r \in Rooms
      PROVE  /\ \A i, j \in DOMAIN v.members[r] : v.members[r][i] = v.members[r][j] => i = j
             /\ Len(v.members[r]) <= MaxMembers
             /\ l.members[r] = <<>> => v.members[r] = <<>>
             /\ InRoom(v, r) = IF r \in R THEN InRoom(l, r) \ D ELSE InRoom(l, r)
  BY <1>2, VacatedRoom
<1>5. \A r \in Rooms : r \notin Existing(v) => v.members[r] = <<>>
  BY <1>3, <1>4 DEF Seated
<1>6. \A s \in Sessions : v.room[s] # None => s \in Live(v)
  BY <1>1, <1>3 DEF VacateParts, Seated
<1>7. ASSUME NEW s \in Live(v), NEW r \in Rooms PROVE v.room[s] = r <=> s \in InRoom(v, r)
  <2>1. s \in Live(l) /\ s \in Sessions /\ r # None
    BY <1>3, LobbyAssumption DEF Live
  <2>2. l.room[s] = r <=> s \in InRoom(l, r)
    BY <2>1 DEF Seated
  <2>3. v.room[s] = IF s \in D THEN None ELSE l.room[s]
    BY <1>1, <2>1 DEF VacateParts
  <2>4. InRoom(v, r) = IF r \in R THEN InRoom(l, r) \ D ELSE InRoom(l, r)
    BY <1>4
  <2>5. s \in D => l.room[s] \in R \cup {None}
    BY <2>1
  <2> QED  BY <2>1, <2>2, <2>3, <2>4, <2>5
<1>8. \A r \in Rooms : \A s \in InRoom(v, r) : v.session[s] # "new"
  BY <1>1, <1>4 DEF VacateParts, Seated
<1>9. Seated(v)
  BY <1>4, <1>5, <1>6, <1>7, <1>8 DEF Seated
<1>10. ASSUME Placed(l), NEW r \in Rooms, l.stage[r] = "open", NEW s \in InRoom(v, r) \ Live(v)
       PROVE  s = v.host[r]
  <2>1. s = l.host[r] /\ s \notin Live(l) /\ r # None
    BY <1>3, <1>4, <1>10, LobbyAssumption DEF Placed
  <2>2. s \in D => l.room[s] # r
    BY <2>1 DEF Seated
  <2> QED  BY <1>1, <2>1, <2>2 DEF VacateParts
<1>11. Placed(l) => Placed(v)
  BY <1>1, <1>10 DEF Placed, VacateParts
<1> QED  BY <1>1, <1>4, <1>9, <1>11 DEF v, VacateParts

(* The lobby n that Remove leaves, in its parts.                           *)
RemoveParts(n, l, D) ==
  /\ n \in LobbyState
  /\ n.members = l.members /\ n.stage = l.stage /\ n.host = l.host
  /\ n.tokens = l.tokens /\ n.dirty = l.dirty /\ n.crashed = l.crashed
  /\ n.greeted = l.greeted \ D /\ Live(n) = Live(l) \ D
  /\ \A s \in Sessions : n.room[s] = IF s \in D THEN None ELSE l.room[s]
  /\ \A s \in Sessions : n.session[s] = IF s \in D THEN "gone" ELSE l.session[s]
  /\ \A s \in Sessions \ D : n.view[s] = l.view[s]

LEMMA RemoveType ==
  ASSUME NEW l \in LobbyState, NEW D \in SUBSET Sessions
  PROVE  RemoveParts(Remove(l, D), l, D)
<1> DEFINE n == Remove(l, D)
<1>1. Absent \in Descriptor
  BY DEF Absent, Descriptor
<1>2. OutCap \in Nat
  BY LobbyAssumption
<1>3. [s \in Sessions |-> IF s \in D THEN 0 ELSE l.queue[s]] \in [Sessions -> 0..OutCap]
  BY <1>2 DEF LobbyState
<1>4. [s \in Sessions |-> IF s \in D THEN [r \in Rooms |-> Absent] ELSE l.view[s]]
        \in [Sessions -> [Rooms -> Descriptor]]
  BY <1>1 DEF LobbyState
<1>5. [s \in Sessions |-> IF s \in D THEN "gone" ELSE l.session[s]] \in [Sessions -> {"new", "live", "gone"}]
  BY DEF LobbyState
<1>6. [s \in Sessions |-> IF s \in D THEN None ELSE l.room[s]] \in [Sessions -> Rooms \cup {None}]
  BY DEF LobbyState
<1>7. n \in LobbyState
  BY <1>3, <1>4, <1>5, <1>6 DEF LobbyState, Remove
<1>8. /\ n.members = l.members /\ n.stage = l.stage /\ n.host = l.host
      /\ n.tokens = l.tokens /\ n.dirty = l.dirty /\ n.crashed = l.crashed /\ n.greeted = l.greeted \ D
      /\ n.room = [s \in Sessions |-> IF s \in D THEN None ELSE l.room[s]]
      /\ n.session = [s \in Sessions |-> IF s \in D THEN "gone" ELSE l.session[s]]
      /\ n.view = [s \in Sessions |-> IF s \in D THEN [r \in Rooms |-> Absent] ELSE l.view[s]]
  BY DEF LobbyState, Remove
<1> HIDE DEF n
<1>9. Live(n) = Live(l) \ D
  BY <1>8 DEF Live
<1> QED  BY <1>7, <1>8, <1>9 DEF RemoveParts, n

-----------------------------------------------------------------------------
(* Sending.                                                                *)

(* The lobby n that dropping the sessions D leaves, in its parts.          *)
DropParts(n, l, D) ==
  /\ n \in LobbyState
  /\ n.stage = l.stage /\ n.tokens = l.tokens /\ n.crashed = l.crashed
  /\ n.greeted = l.greeted \ D /\ Live(n) = Live(l) \ D
  /\ VacatedRooms(n, l, D, OpenRoomsOf(l, D))
  /\ \A r \in Rooms : n.host[r] # l.host[r] => r \in OpenRoomsOf(l, D) /\ l.room[l.host[r]] = r
  /\ \A s \in Sessions : n.room[s] = IF s \in D THEN None ELSE l.room[s]
  /\ \A s \in Sessions : n.session[s] = IF s \in D THEN "gone" ELSE l.session[s]
  /\ \A s \in Sessions \ D : n.view[s] = l.view[s]
  /\ ~n.dirty => ~l.dirty /\ OpenRoomsOf(l, D) = {}

LEMMA DropType ==
  ASSUME NEW l \in LobbyState, NEW D \in SUBSET Sessions
  PROVE  DropParts(Drop(l, D), l, D)
<1> DEFINE R == OpenRoomsOf(l, D)
           v == Vacate(l, D, R)
           x == [v EXCEPT !.dirty = @ \/ R # {}]
           d == Drop(l, D)
<1>1. R \in SUBSET Rooms
  BY DEF OpenRoomsOf
<1>2. VacateParts(v, l, D, R)
  <2> HIDE DEF R
  <2> QED  BY <1>1, VacateType
<1> HIDE DEF v
<1>3. v \in LobbyState
  BY <1>2 DEF VacateParts
<1>4. /\ x \in LobbyState
      /\ x.members = v.members /\ x.room = v.room /\ x.session = v.session /\ x.stage = v.stage
      /\ x.host = v.host /\ x.tokens = v.tokens /\ x.crashed = v.crashed
      /\ x.greeted = v.greeted /\ x.view = v.view
  <2>1. (v.dirty \/ R # {}) \in BOOLEAN
    OBVIOUS
  <2> HIDE DEF R
  <2> QED  BY <1>3, <2>1 DEF LobbyState
<1>5. ~x.dirty => ~v.dirty /\ R = {}
  <2>1. x.dirty = (v.dirty \/ R # {})
    BY <1>3 DEF LobbyState
  <2> QED  BY <2>1, Zenon
<1>6. d = Remove(x, D)
  BY DEF Drop, v
<1> HIDE DEF x, d, R
<1>7. RemoveParts(d, x, D)
  BY <1>4, <1>6, RemoveType
<1>8. Live(x) = Live(l)
  BY <1>2, <1>4 DEF Live, VacateParts
<1>9. VacatedRooms(d, l, D, R)
  BY <1>2, <1>4, <1>7 DEF VacatedRooms, VacateParts, RemoveParts
<1>10. \A r \in Rooms : d.host[r] # l.host[r] => r \in R /\ l.room[l.host[r]] = r
  BY <1>2, <1>4, <1>7 DEF VacateParts, RemoveParts
<1>11. \A s \in Sessions : d.room[s] = IF s \in D THEN None ELSE l.room[s]
  BY <1>2, <1>4, <1>7 DEF VacateParts, RemoveParts
<1>12. /\ \A s \in Sessions : d.session[s] = IF s \in D THEN "gone" ELSE l.session[s]
       /\ \A s \in Sessions \ D : d.view[s] = l.view[s]
  BY <1>2, <1>4, <1>7 DEF VacateParts, RemoveParts
<1>13. ~d.dirty => ~l.dirty /\ R = {}
  BY <1>2, <1>5, <1>7 DEF VacateParts, RemoveParts
<1>14. /\ d \in LobbyState
       /\ d.stage = l.stage /\ d.tokens = l.tokens /\ d.crashed = l.crashed
       /\ d.greeted = l.greeted \ D /\ Live(d) = Live(l) \ D
  BY <1>2, <1>4, <1>7, <1>8 DEF VacateParts, RemoveParts
<1> QED  BY <1>9, <1>10, <1>11, <1>12, <1>13, <1>14 DEF DropParts, R, d

(* The lobby m is what frames, and the drops they cause, make of l.        *)
Sent(l, m) ==
  /\ m \in LobbyState /\ Seated(m)
  /\ Live(m) \subseteq Live(l)
  /\ m.stage = l.stage /\ m.tokens = l.tokens /\ m.crashed = l.crashed
  /\ \A r \in Rooms : /\ InRoom(m, r) \subseteq InRoom(l, r)
                      /\ l.members[r] = <<>> => m.members[r] = <<>>
                      /\ l.stage[r] # "open" => m.members[r] = l.members[r] /\ m.host[r] = l.host[r]
  /\ Placed(l) => Placed(m)

(* A forced drop frees the places in open rooms, and only those.           *)
LEMMA DropSeated ==
  ASSUME NEW l \in LobbyState, Seated(l), NEW D \in SUBSET Live(l)
  PROVE  Sent(l, Drop(l, D)) /\ Live(Drop(l, D)) = Live(l) \ D
<1> DEFINE R == OpenRoomsOf(l, D)
           d == Drop(l, D)
<1>1. D \in SUBSET Sessions
  BY DEF Live
<1>2. DropParts(d, l, D)
  BY <1>1, DropType
<1> HIDE DEF d
<1>3. \A r \in Rooms : InRoom(l, r) \in SUBSET Sessions
  BY DEF LobbyState, InRoom
<1>4. Existing(d) = Existing(l)
  BY <1>2 DEF Existing, DropParts
<1>5. ASSUME NEW r \in Rooms
      PROVE  /\ \A i, j \in DOMAIN d.members[r] : d.members[r][i] = d.members[r][j] => i = j
             /\ Len(d.members[r]) <= MaxMembers
             /\ l.members[r] = <<>> => d.members[r] = <<>>
             /\ InRoom(d, r) = IF r \in R THEN InRoom(l, r) \ D ELSE InRoom(l, r)
  <2>1. VacatedRooms(d, l, D, R)
    BY <1>2 DEF DropParts
  <2> HIDE DEF R
  <2> QED  BY <2>1, VacatedRoom
<1>6. \A r \in Rooms : r \notin Existing(d) => d.members[r] = <<>>
  BY <1>4, <1>5 DEF Seated
<1>7. \A s \in Sessions : d.room[s] # None => s \in Live(d)
  BY <1>2 DEF Seated, DropParts
<1>8. ASSUME NEW s \in Live(d), NEW r \in Rooms PROVE d.room[s] = r <=> s \in InRoom(d, r)
  <2>1. s \in Live(l) /\ s \notin D /\ s \in Sessions
    BY <1>2 DEF Live, DropParts
  <2>2. l.room[s] = r <=> s \in InRoom(l, r)
    BY <2>1 DEF Seated
  <2>3. d.room[s] = l.room[s]
    BY <1>2, <2>1 DEF DropParts
  <2>4. s \in InRoom(d, r) <=> s \in InRoom(l, r)
    BY <1>5, <2>1
  <2> QED  BY <2>2, <2>3, <2>4
<1>9. \A r \in Rooms : InRoom(d, r) \subseteq InRoom(l, r)
  BY <1>5
<1>10. \A r \in Rooms : \A s \in InRoom(d, r) : d.session[s] # "new"
  BY <1>2, <1>3, <1>9 DEF DropParts, Seated
<1>11. Seated(d)
  BY <1>5, <1>6, <1>7, <1>8, <1>10 DEF Seated
<1>12. ASSUME NEW r \in Rooms, l.stage[r] # "open"
       PROVE  d.members[r] = l.members[r] /\ d.host[r] = l.host[r]
  BY <1>2, <1>12 DEF DropParts, VacatedRooms, OpenRoomsOf
<1>13. ASSUME Placed(l), NEW r \in Rooms, l.stage[r] = "open", NEW s \in InRoom(d, r) \ Live(d)
       PROVE  s = d.host[r]
  <2>1. s \notin D
    <3>1. s \in D => l.room[s] = r
      BY <1>9, <1>13 DEF Seated
    <3>2. s \in D => r \in R
      BY <1>13, <3>1 DEF OpenRoomsOf
    <3> QED  BY <1>5, <1>13, <3>2
  <2>2. s \in InRoom(l, r) /\ s \notin Live(l) /\ s \in Sessions /\ r # None
    BY <1>2, <1>3, <1>9, <1>13, <2>1, LobbyAssumption DEF DropParts
  <2>3. s = l.host[r] /\ l.room[s] # r
    BY <1>13, <2>2 DEF Placed, Seated
  <2> QED  BY <1>2, <2>3 DEF DropParts
<1>14. Placed(l) => Placed(d)
  BY <1>2, <1>13 DEF Placed, DropParts
<1>15. \A r \in Rooms : l.members[r] = <<>> => d.members[r] = <<>>
  BY <1>5
<1> QED  BY <1>2, <1>9, <1>11, <1>12, <1>14, <1>15 DEF d, Sent, DropParts

(* The lobby x with one more frame in the channels of S, in its parts.     *)
QueuedParts(x, l, S, news) ==
  /\ x \in LobbyState
  /\ x.members = l.members /\ x.room = l.room /\ x.session = l.session /\ x.stage = l.stage
  /\ x.host = l.host /\ x.tokens = l.tokens /\ x.crashed = l.crashed
  /\ x.greeted = l.greeted /\ x.dirty = l.dirty
  /\ \A s \in Sessions, r \in Rooms :
       x.view[s][r] = IF s \in S /\ r \in DOMAIN news THEN news[r] ELSE l.view[s][r]

LEMMA QueuedType ==
  ASSUME NEW l \in LobbyState, NEW S, \A s \in S : s \in Sessions /\ l.queue[s] # OutCap,
         NEW news, \A r \in DOMAIN news : news[r] \in Descriptor
  PROVE  QueuedParts(Queued(l, S, news), l, S, news)
<1> DEFINE told(v) == [r \in Rooms |-> IF r \in DOMAIN news THEN news[r] ELSE v[r]]
           queue == [s \in Sessions |-> IF s \in S THEN l.queue[s] + 1 ELSE l.queue[s]]
           view == [s \in Sessions |-> IF s \in S THEN told(l.view[s]) ELSE l.view[s]]
           x == Queued(l, S, news)
<1>1. queue \in [Sessions -> 0..OutCap]
  <2>1. OutCap \in Nat /\ \A s \in Sessions : l.queue[s] \in 0..OutCap
    BY LobbyAssumption DEF LobbyState
  <2> QED  BY <2>1
<1>2. view \in [Sessions -> [Rooms -> Descriptor]]
  <2>1. \A s \in Sessions : l.view[s] \in [Rooms -> Descriptor]
    BY DEF LobbyState
  <2>2. \A s \in Sessions : told(l.view[s]) \in [Rooms -> Descriptor]
    BY <2>1
  <2> HIDE DEF told
  <2> QED  BY <2>1, <2>2
<1>3. \A s \in Sessions, r \in Rooms :
        view[s][r] = IF s \in S /\ r \in DOMAIN news THEN news[r] ELSE l.view[s][r]
  OBVIOUS
<1>4. x = [l EXCEPT !.queue = queue, !.view = view]
  BY DEF Queued
<1> HIDE DEF queue, view, x
<1>5. /\ x \in LobbyState
      /\ x.members = l.members /\ x.room = l.room /\ x.session = l.session /\ x.stage = l.stage
      /\ x.host = l.host /\ x.tokens = l.tokens /\ x.crashed = l.crashed
      /\ x.greeted = l.greeted /\ x.dirty = l.dirty /\ x.view = view
  BY <1>1, <1>2, <1>4 DEF LobbyState
<1> QED  BY <1>3, <1>5 DEF QueuedParts, x

(* Whom a frame would overflow is dropped, and nobody else.                *)
LEMMA SendSeated ==
  ASSUME NEW l \in LobbyState, Seated(l), NEW S,
         NEW news, \A r \in DOMAIN news : news[r] \in Descriptor
  PROVE  Sent(l, Send(l, S, news)) /\ Live(l) \ S \subseteq Live(Send(l, S, news))
<1> DEFINE full == Full(l, S)
           fits == (S \cap Live(l)) \ full
           x == Queued(l, fits, news)
<1>1. \A s \in fits : s \in Sessions /\ l.queue[s] # OutCap
  BY DEF Full, Live
<1>2. QueuedParts(x, l, fits, news)
  <2> HIDE DEF fits
  <2> QED  BY <1>1, QueuedType
<1>3. full \in SUBSET Live(l) /\ full \subseteq S
  BY DEF Full
<1>4. Send(l, S, news) = Drop(x, full)
  BY DEF Send
<1> HIDE DEF x, full
<1>5. Live(x) = Live(l) /\ Seated(x) /\ \A r \in Rooms : InRoom(x, r) = InRoom(l, r)
  BY <1>2 DEF QueuedParts, Live, Seated, Existing, InRoom
<1>6. Placed(l) => Placed(x)
  BY <1>2, <1>5 DEF QueuedParts, Placed
<1>7. Sent(x, Drop(x, full)) /\ Live(Drop(x, full)) = Live(x) \ full
  BY <1>2, <1>3, <1>5, DropSeated DEF QueuedParts
<1>8. Sent(l, Drop(x, full))
  BY <1>2, <1>5, <1>6, <1>7 DEF Sent, QueuedParts
<1> QED  BY <1>3, <1>4, <1>5, <1>7, <1>8

LEMMA SentTwice ==
  ASSUME NEW l, NEW m, NEW n, Sent(l, m), Sent(m, n)
  PROVE  Sent(l, n)
<1>1. \A r \in Rooms : l.stage[r] # "open" => n.members[r] = l.members[r]
  BY DEF Sent
<1> QED  BY <1>1 DEF Sent

(* What the room list and its delta say is well formed.                    *)
LEMMA NewsType ==
  ASSUME NEW l \in LobbyState
  PROVE  /\ \A q \in Rooms : Describe(l, q) \in Descriptor
         /\ \A r \in Rooms : Listing(l)[r] \in Descriptor
         /\ DOMAIN Listing(l) = Rooms
         /\ \A r \in Rooms : DOMAIN Delta(l, r) = {r} /\ Delta(l, r)[r] \in Descriptor
         /\ DOMAIN NoNews = {}
<1>1. \A q \in Rooms : Describe(l, q) \in Descriptor
  <2> TAKE q \in Rooms
  <2>1. l.members[q] \in Seq(Sessions) /\ l.stage[q] \in {"new", "open", "starting", "gone"}
    BY DEF LobbyState
  <2>2. Len(l.members[q]) \in Nat
    BY <2>1
  <2> QED  BY <2>1, <2>2 DEF Describe, Descriptor, Existing, Absent
<1> QED  BY <1>1 DEF Listing, Delta, NoNews

LEMMA BroadcastSeated ==
  ASSUME NEW l \in LobbyState, Seated(l), NEW k \in LobbyState, NEW r \in Rooms
  PROVE  /\ Sent(l, Broadcast(l, Listing(k))) /\ Sent(l, Broadcast(l, Delta(k, r)))
         /\ \A S : Sent(l, Send(l, S, NoNews)) /\ Sent(l, Send(l, S, Listing(k)))
<1>1. /\ \A q \in DOMAIN Listing(k) : Listing(k)[q] \in Descriptor
      /\ \A q \in DOMAIN Delta(k, r) : Delta(k, r)[q] \in Descriptor
      /\ \A q \in DOMAIN NoNews : NoNews[q] \in Descriptor
  BY NewsType
<1>2. \A S : /\ Sent(l, Send(l, S, NoNews)) /\ Sent(l, Send(l, S, Listing(k)))
             /\ Sent(l, Send(l, S, Delta(k, r)))
  <2> TAKE S
  <2>1. Sent(l, Send(l, S, NoNews))
    BY <1>1, SendSeated
  <2>2. Sent(l, Send(l, S, Listing(k)))
    BY <1>1, SendSeated
  <2>3. Sent(l, Send(l, S, Delta(k, r)))
    BY <1>1, SendSeated
  <2> QED  BY <2>1, <2>2, <2>3
<1> QED  BY <1>2 DEF Broadcast

LEMMA AnnounceSeated ==
  ASSUME NEW l \in LobbyState, Seated(l), NEW r \in Rooms
  PROVE  Sent(l, AnnounceRoom(l, r))
<1> DEFINE listed == Broadcast(l, Listing(l))
<1>1. Sent(l, listed)
  BY BroadcastSeated
<1>2. listed \in LobbyState /\ Seated(listed)
  BY <1>1 DEF Sent
<1> HIDE DEF listed
<1>3. Sent(listed, Broadcast(listed, Delta(listed, r)))
  BY <1>2, BroadcastSeated
<1> QED  BY <1>1, <1>3, SentTwice DEF AnnounceRoom, listed
-----------------------------------------------------------------------------
(* Steps of the actor that start no match and end none.                    *)

(* The lobby m goes on from l: no token is new, no started room ends.      *)
Continues(l, m) ==
  /\ m \in LobbyState /\ Seated(m) /\ (Placed(l) => Placed(m))
  /\ \A r \in Rooms : /\ m.tokens[r] \subseteq l.tokens[r]
                      /\ l.stage[r] = "starting" =>
                           m.stage[r] = "starting" /\ InRoom(m, r) \subseteq InRoom(l, r)

LEMMA SentContinues ==
  ASSUME NEW l, NEW m, NEW n, Continues(l, m), Sent(m, n)
  PROVE  Continues(l, n)
BY DEF Sent, Continues

LEMMA ContinuesItself ==
  ASSUME NEW l \in LobbyState, Seated(l)
  PROVE  Continues(l, l)
BY DEF Continues

(* Only the rooms, the members and the sessions matter to Seated.          *)
LEMMA SeatedAlike ==
  ASSUME NEW l, NEW m, Seated(l), m.members = l.members, m.room = l.room,
         m.session = l.session, Existing(m) = Existing(l)
  PROVE  Seated(m) /\ \A r : InRoom(m, r) = InRoom(l, r)
BY DEF Seated, Live, InRoom

(* Who stays a member of an open room stays one of a live session.         *)
LEMMA PlacedAlike ==
  ASSUME NEW l, NEW m, Placed(l), Live(l) \subseteq Live(m),
         \A r \in Rooms : m.stage[r] = "open" =>
           l.stage[r] = "open" /\ InRoom(m, r) \subseteq InRoom(l, r) /\ m.host[r] = l.host[r]
  PROVE  Placed(m)
BY DEF Placed

(* The sessions that go have left the open rooms before.                   *)
LEMMA RemoveContinues ==
  ASSUME NEW k, NEW l, Continues(k, l), NEW D \in SUBSET Sessions,
         \A s \in D, r \in Rooms : l.stage[r] = "open" => s \notin InRoom(l, r)
  PROVE  Continues(k, Remove(l, D))
<1> DEFINE m == Remove(l, D)
<1>1. l \in LobbyState /\ Seated(l)
  BY DEF Continues
<1>2. RemoveParts(m, l, D)
  BY <1>1, RemoveType
<1> HIDE DEF m
<1>3. /\ m \in LobbyState /\ m.members = l.members /\ m.stage = l.stage /\ m.tokens = l.tokens
      /\ Live(m) = Live(l) \ D /\ m.host = l.host
      /\ \A s \in Sessions : m.room[s] = IF s \in D THEN None ELSE l.room[s]
      /\ \A s \in Sessions : m.session[s] = IF s \in D THEN "gone" ELSE l.session[s]
  BY <1>2 DEF RemoveParts
<1>4. (\A r \in Rooms : InRoom(m, r) = InRoom(l, r)) /\ Existing(m) = Existing(l)
  BY <1>3 DEF InRoom, Existing
<1>5. \A s \in Sessions : m.room[s] # None => s \in Live(m)
  BY <1>1, <1>3 DEF Seated
<1>6. \A s \in Live(m), r \in Rooms : m.room[s] = r <=> s \in InRoom(m, r)
  <2>1. \A s \in Live(m) : s \in Live(l) /\ s \in Sessions /\ s \notin D
    BY <1>3 DEF Live
  <2> QED  BY <1>1, <1>3, <1>4, <2>1 DEF Seated
<1>7. Seated(m)
  <2>1. \A r \in Rooms :
          /\ \A i, j \in DOMAIN m.members[r] : m.members[r][i] = m.members[r][j] => i = j
          /\ Len(m.members[r]) <= MaxMembers
          /\ r \notin Existing(m) => m.members[r] = <<>>
    BY <1>1, <1>3, <1>4 DEF Seated
  <2>2. \A r \in Rooms : \A s \in InRoom(m, r) : m.session[s] # "new"
    <3>1. \A r \in Rooms : \A s \in InRoom(l, r) : s \in Sessions /\ l.session[s] # "new"
      BY <1>1 DEF InRoom, Seated, LobbyState
    <3> QED  BY <1>3, <1>4, <3>1
  <2> QED  BY <1>5, <1>6, <2>1, <2>2 DEF Seated
<1>8. Placed(l) => Placed(m)
  BY <1>3, <1>4 DEF Placed
<1> QED  BY <1>3, <1>4, <1>7, <1>8 DEF m, Continues

LEMMA DisconnectedContinues ==
  ASSUME NEW l \in LobbyState, Seated(l), NEW s \in Live(l)
  PROVE  Continues(l, Disconnected(l, s))
<1> DEFINE r == l.room[s]
           v == Vacate(l, {s}, {r})
           a == AnnounceRoom(v, r)
<1>1. {s} \in SUBSET Sessions
  BY DEF Live
<1>2. CASE r \in Rooms /\ l.stage[r] = "open"
  <2>1. /\ v \in LobbyState /\ Seated(v) /\ v.stage = l.stage /\ v.tokens = l.tokens
        /\ \A q \in Rooms : InRoom(v, q) = IF q \in {r} THEN InRoom(l, q) \ {s} ELSE InRoom(l, q)
        /\ Placed(l) => Placed(v)
    <3>1. {r} \in SUBSET Rooms /\ \A x \in {s} \cap Live(l) : l.room[x] \in {r} \cup {None}
      BY <1>2
    <3> HIDE DEF r
    <3> QED  BY <1>1, <3>1, VacateSeated
  <2>2. Sent(v, a)
    <3> HIDE DEF v, r
    <3> QED  BY <1>2, <2>1, AnnounceSeated
  <2> HIDE DEF v, a
  <2>3. Continues(l, v)
    BY <2>1 DEF Continues
  <2>4. ASSUME NEW q \in Rooms, a.stage[q] = "open" PROVE s \notin InRoom(a, q)
    <3>1. s \in InRoom(l, q) => q = r
      BY DEF Seated
    <3> HIDE DEF r
    <3>2. s \notin InRoom(v, q)
      BY <2>1, <3>1
    <3> QED  BY <2>2, <3>2 DEF Sent
  <2>5. Continues(l, a)
    BY <2>2, <2>3, SentContinues
  <2>6. Continues(l, Remove(a, {s}))
    BY <1>1, <2>4, <2>5, RemoveContinues
  <2> QED  BY <1>2, <2>6 DEF Disconnected, a, v
<1>3. CASE ~(r \in Rooms /\ l.stage[r] = "open")
  <2>1. \A q \in Rooms : l.stage[q] = "open" => s \notin InRoom(l, q)
    BY <1>3 DEF Seated
  <2>2. Continues(l, l)
    BY ContinuesItself
  <2>3. Continues(l, Remove(l, {s}))
    BY <1>1, <2>1, <2>2, RemoveContinues
  <2> QED  BY <1>3, <2>3 DEF Disconnected
<1> QED  BY <1>2, <1>3
-----------------------------------------------------------------------------
(* The inductive invariant, and what every step does.                      *)

LobbyInv == LobbyTypeOK /\ Membership /\ TokensHaveMatch /\ PlacesAreTaken

Advance == LobbyInv' /\ StartedKept

LEMMA ContinuesAdvance ==
  ASSUME LobbyTypeOK', TokensHaveMatch, PlacesAreTaken, match' = match, Continues(lobby, lobby')
  PROVE  Advance
<1>1. Membership'
  BY DEF Continues, Membership
<1>2. TokensHaveMatch'
  BY DEF Continues, TokensHaveMatch
<1>3. StartedKept
  BY DEF Continues, StartedKept
<1>4. PlacesAreTaken'
  BY DEF Continues, PlacesAreTaken
<1> QED  BY <1>1, <1>2, <1>3, <1>4 DEF Advance, LobbyInv

(* A handler that changes nothing but the lobby.                           *)
LEMMA ReturnAdvance ==
  ASSUME LobbyInv, Handling, NEW m, Return(m), UNCHANGED <<match, relay>>, Continues(lobby, m)
  PROVE  Advance
<1>1. lobby' = m /\ pc' \in {"select", "flush"} /\ pc = "select"
  BY DEF Return, Handling
<1>2. LobbyTypeOK'
  BY <1>1 DEF LobbyInv, LobbyTypeOK, Continues
<1> QED  BY <1>1, <1>2, ContinuesAdvance DEF LobbyInv

LEMMA InvParts ==
  ASSUME LobbyInv
  PROVE  lobby \in LobbyState /\ Seated(lobby) /\ Continues(lobby, lobby)
BY ContinuesItself DEF LobbyInv, LobbyTypeOK, Membership

LEMMA ConnectAdvance ==
  ASSUME LobbyInv, NEW s \in Sessions, Connect(s)
  PROVE  Advance
<1> DEFINE m == [lobby EXCEPT !.session[s] = "live"]
<1>1. lobby \in LobbyState /\ Seated(lobby)
  BY InvParts
<1>2. /\ m \in LobbyState /\ m.members = lobby.members /\ m.room = lobby.room
      /\ m.stage = lobby.stage /\ m.tokens = lobby.tokens /\ m.host = lobby.host
      /\ m.session = [lobby.session EXCEPT ![s] = "live"]
  BY <1>1 DEF LobbyState
<1>3. lobby.session[s] = "new" /\ s \notin Live(lobby)
  BY DEF Connect, Live
<1>4. Handling /\ Return(m) /\ UNCHANGED <<match, relay>>
  BY DEF Connect
<1> HIDE DEF m
<1>5. Live(m) = Live(lobby) \cup {s}
  BY <1>1, <1>2 DEF Live, LobbyState
<1>6. (\A r \in Rooms : InRoom(m, r) = InRoom(lobby, r)) /\ Existing(m) = Existing(lobby)
  BY <1>2 DEF InRoom, Existing
<1>7. \A r \in Rooms : s \notin InRoom(m, r) /\ m.room[s] # r
  BY <1>1, <1>2, <1>3, <1>6, LobbyAssumption DEF Seated
<1>8. \A r \in Rooms : \A x \in InRoom(m, r) : m.session[x] # "new"
  BY <1>1, <1>2, <1>6 DEF Seated, LobbyState
<1>9. \A r \in Rooms :
        /\ \A i, j \in DOMAIN m.members[r] : m.members[r][i] = m.members[r][j] => i = j
        /\ Len(m.members[r]) <= MaxMembers
        /\ r \notin Existing(m) => m.members[r] = <<>>
  BY <1>1, <1>2, <1>6 DEF Seated
<1>10. \A x \in Sessions : m.room[x] # None => x \in Live(m)
  BY <1>1, <1>2, <1>5 DEF Seated
<1>11. \A x \in Live(m), r \in Rooms : m.room[x] = r <=> x \in InRoom(m, r)
  BY <1>1, <1>2, <1>5, <1>6, <1>7 DEF Seated
<1>12. Seated(m)
  BY <1>8, <1>9, <1>10, <1>11 DEF Seated
<1>13. Placed(lobby) => Placed(m)
  BY <1>2, <1>5, <1>6, PlacedAlike
<1>14. Continues(lobby, m)
  BY <1>2, <1>6, <1>12, <1>13 DEF Continues
<1> QED  BY <1>4, <1>14, ReturnAdvance

(* A change that no room, member, session or token sees.                   *)
LEMMA SameContinues ==
  ASSUME NEW k, NEW l, NEW m, Continues(k, l), m \in LobbyState, m.members = l.members,
         m.room = l.room, m.session = l.session, m.stage = l.stage, m.host = l.host,
         \A r \in Rooms : m.tokens[r] \subseteq l.tokens[r]
  PROVE  Continues(k, m)
<1>1. Seated(l) /\ Existing(m) = Existing(l)
  BY DEF Continues, Existing
<1>2. Seated(m) /\ \A r : InRoom(m, r) = InRoom(l, r)
  BY <1>1, SeatedAlike
<1>3. Placed(l) => Placed(m)
  BY <1>2 DEF Placed, Live
<1> QED  BY <1>2, <1>3 DEF Continues

LEMMA HelloAdvance ==
  ASSUME LobbyInv, NEW s \in Sessions, Hello(s)
  PROVE  Advance
<1> DEFINE g == [lobby EXCEPT !.greeted = @ \cup {s}]
           w == Send(g, {s}, NoNews)
           m == IF s \in Live(w) THEN Send(w, {s}, Listing(w)) ELSE [w EXCEPT !.crashed = TRUE]
<1>1. lobby \in LobbyState /\ Seated(lobby) /\ Continues(lobby, lobby)
  BY InvParts
<1>2. /\ g \in LobbyState /\ g.members = lobby.members /\ g.room = lobby.room
      /\ g.session = lobby.session /\ g.stage = lobby.stage /\ g.tokens = lobby.tokens
      /\ g.host = lobby.host
  BY <1>1 DEF LobbyState
<1>3. Handling /\ Return(m) /\ UNCHANGED <<match, relay>>
  BY DEF Hello
<1> HIDE DEF g
<1>4. Continues(lobby, g)
  BY <1>1, <1>2, SameContinues
<1>5. g \in LobbyState /\ Seated(g)
  BY <1>4 DEF Continues
<1>6. Sent(g, w)
  <2>1. \A r \in DOMAIN NoNews : NoNews[r] \in Descriptor
    BY DEF NoNews
  <2> QED  BY <1>5, <2>1, SendSeated
<1> HIDE DEF w
<1>7. Continues(lobby, w) /\ w \in LobbyState /\ Seated(w)
  BY <1>4, <1>6, SentContinues DEF Sent
<1>8. CASE s \in Live(w)
  <2>1. Sent(w, Send(w, {s}, Listing(w)))
    <3>1. \A r \in DOMAIN Listing(w) : Listing(w)[r] \in Descriptor
      BY <1>7, NewsType
    <3> QED  BY <1>7, <3>1, SendSeated
  <2> QED  BY <1>3, <1>7, <1>8, <2>1, SentContinues, ReturnAdvance
<1>9. CASE s \notin Live(w)
  <2> DEFINE c == [w EXCEPT !.crashed = TRUE]
  <2>1. /\ c \in LobbyState /\ c.members = w.members /\ c.room = w.room
        /\ c.session = w.session /\ c.stage = w.stage /\ c.tokens = w.tokens
        /\ c.host = w.host
    BY <1>7 DEF LobbyState
  <2> HIDE DEF c
  <2>2. Continues(lobby, c)
    BY <1>7, <2>1, SameContinues
  <2> QED  BY <1>3, <1>9, <2>2, ReturnAdvance DEF c
<1> QED  BY <1>8, <1>9

LEMMA RejectAdvance ==
  ASSUME LobbyInv, NEW s \in Sessions, Reject(s)
  PROVE  Advance
<1>1. lobby \in LobbyState /\ Seated(lobby) /\ Continues(lobby, lobby)
  BY InvParts
<1>2. \A r \in DOMAIN NoNews : NoNews[r] \in Descriptor
  BY DEF NoNews
<1>3. Sent(lobby, Send(lobby, {s}, NoNews))
  BY <1>1, <1>2, SendSeated
<1> QED  BY <1>1, <1>3, SentContinues, ReturnAdvance DEF Reject

LEMMA VersionCloseAdvance ==
  ASSUME LobbyInv, NEW s \in Sessions, VersionClose(s)
  PROVE  Advance
<1>1. lobby \in LobbyState /\ Seated(lobby) /\ Continues(lobby, lobby)
  BY InvParts
<1>2. {s} \in SUBSET Live(lobby)
  BY DEF VersionClose
<1>3. Sent(lobby, Drop(lobby, {s}))
  BY <1>1, <1>2, DropSeated
<1> QED  BY <1>1, <1>3, SentContinues, ReturnAdvance DEF VersionClose

LEMMA DisconnectAdvance ==
  ASSUME LobbyInv, NEW s \in Sessions, Disconnect(s)
  PROVE  Advance
<1>1. lobby \in LobbyState /\ Seated(lobby) /\ s \in Live(lobby)
  BY InvParts DEF Disconnect
<1>2. Continues(lobby, Disconnected(lobby, s))
  BY <1>1, DisconnectedContinues
<1> QED  BY <1>2, ReturnAdvance DEF Disconnect

LEMMA LeaveRoomAdvance ==
  ASSUME LobbyInv, NEW s \in Sessions, LeaveRoom(s)
  PROVE  Advance
<1> DEFINE r == lobby.room[s]
           v == Vacate(lobby, {s}, {r})
<1>1. lobby \in LobbyState /\ Seated(lobby) /\ s \in Live(lobby)
  BY InvParts DEF LeaveRoom
<1>2. r \in Rooms
  BY <1>1 DEF LeaveRoom, LobbyState
<1>3. Handling /\ Return(AnnounceRoom(v, r)) /\ UNCHANGED <<match, relay>>
  BY DEF LeaveRoom
<1>4. {s} \in SUBSET Sessions /\ {r} \in SUBSET Rooms
      /\ \A x \in {s} \cap Live(lobby) : lobby.room[x] \in {r} \cup {None}
  BY <1>2
<1> HIDE DEF r
<1>5. /\ v \in LobbyState /\ Seated(v) /\ v.stage = lobby.stage /\ v.tokens = lobby.tokens
      /\ \A q \in Rooms : InRoom(v, q) = IF q \in {r} THEN InRoom(lobby, q) \ {s} ELSE InRoom(lobby, q)
      /\ Placed(lobby) => Placed(v)
  BY <1>1, <1>4, VacateSeated
<1> HIDE DEF v
<1>6. Continues(lobby, v)
  BY <1>5 DEF Continues
<1>7. Sent(v, AnnounceRoom(v, r))
  BY <1>2, <1>5, AnnounceSeated
<1> QED  BY <1>3, <1>6, <1>7, SentContinues, ReturnAdvance

(* In the lobby m the session s has taken the next place of r in l.        *)
Enters(l, m, s, r) ==
  /\ s \in Live(l) /\ l.room[s] = None /\ Len(l.members[r]) < MaxMembers
  /\ m.session = l.session /\ Existing(m) = Existing(l) \cup {r}
  /\ \A q \in Rooms : m.members[q] = IF q = r THEN Append(l.members[r], s) ELSE l.members[q]
  /\ \A x \in Sessions : m.room[x] = IF x = s THEN r ELSE l.room[x]

(* Who has no room takes a place of its own.                               *)
LEMMA EnterSeated ==
  ASSUME NEW l \in LobbyState, Seated(l), NEW m, NEW s, NEW r \in Rooms, Enters(l, m, s, r)
  PROVE  /\ Seated(m) /\ \A q \in Rooms \ {r} : InRoom(m, q) = InRoom(l, q)
         /\ InRoom(m, r) = InRoom(l, r) \cup {s}
<1> USE DEF Enters
<1> DEFINE old == l.members[r]
           new == Append(old, s)
<1>1. /\ s \in Sessions /\ l.members \in [Rooms -> Seq(Sessions)]
      /\ l.room \in [Sessions -> Rooms \cup {None}] /\ None \notin Rooms
  BY LobbyAssumption DEF LobbyState, Live
<1>2. old \in Seq(Sessions) /\ Len(old) \in Nat
  BY <1>1
<1>3. \A q \in Rooms : s \notin InRoom(l, q)
  BY <1>1 DEF Seated
<1>4. \A q \in Rooms : m.members[q] = IF q = r THEN new ELSE l.members[q]
  OBVIOUS
<1>5. \A q \in Rooms \ {r} : InRoom(m, q) = InRoom(l, q)
  BY <1>4 DEF InRoom
<1>6. Len(new) = Len(old) + 1 /\ DOMAIN new = 1..(Len(old) + 1)
      /\ new[Len(old) + 1] = s /\ \A i \in DOMAIN old : new[i] = old[i]
  BY <1>1, <1>2
<1>7. DOMAIN old = 1..Len(old)
  BY <1>2
<1>8. InRoom(m, r) = InRoom(l, r) \cup {s}
  <2>1. \A x : x \in {new[i] : i \in DOMAIN new} <=> x \in {old[i] : i \in DOMAIN old} \cup {s}
    <3> HIDE DEF new, old
    <3>1. \A i \in DOMAIN new : i \in DOMAIN old \/ i = Len(old) + 1
      BY <1>2, <1>6, <1>7
    <3>2. Len(old) + 1 \in DOMAIN new /\ \A i \in DOMAIN old : i \in DOMAIN new
      BY <1>2, <1>6, <1>7
    <3> QED  BY <1>6, <3>1, <3>2
  <2>2. InRoom(l, r) = {old[i] : i \in DOMAIN old}
    BY DEF InRoom
  <2> HIDE DEF new, old
  <2>3. InRoom(m, r) = {new[i] : i \in DOMAIN new}
    BY <1>4 DEF InRoom
  <2> QED  BY <2>1, <2>2, <2>3
<1>9. \A i, j \in DOMAIN new : new[i] = new[j] => i = j
  <2>1. \A i, j \in DOMAIN old : old[i] = old[j] => i = j
    BY DEF Seated
  <2>2. \A i \in DOMAIN old : old[i] # s
    BY <1>3 DEF InRoom
  <2> HIDE DEF new, old
  <2>3. \A i \in DOMAIN new : i \in DOMAIN old \/ i = Len(old) + 1
    BY <1>2, <1>6, <1>7
  <2> QED  BY <1>6, <2>1, <2>2, <2>3
<1>10. Len(new) <= MaxMembers
  BY <1>2, <1>6, LobbyAssumption
<1> HIDE DEF new
<1>11. \A q \in Rooms :
         /\ \A i, j \in DOMAIN m.members[q] : m.members[q][i] = m.members[q][j] => i = j
         /\ Len(m.members[q]) <= MaxMembers
         /\ q \notin Existing(m) => m.members[q] = <<>>
  BY <1>4, <1>9, <1>10 DEF Seated
<1>12. \A q \in Rooms : \A x \in InRoom(m, q) : m.session[x] # "new"
  BY <1>5, <1>8 DEF Seated, Live
<1>13. \A x \in Sessions : m.room[x] # None => x \in Live(m)
  BY <1>1 DEF Seated, Live
<1>14. \A x \in Live(m), q \in Rooms : m.room[x] = q <=> x \in InRoom(m, q)
  <2> SUFFICES ASSUME NEW x \in Live(m), NEW q \in Rooms
               PROVE  m.room[x] = q <=> x \in InRoom(m, q)
    OBVIOUS
  <2>1. x \in Live(l) /\ x \in Sessions
    BY DEF Live
  <2>2. l.room[x] = q <=> x \in InRoom(l, q)
    BY <2>1 DEF Seated
  <2>3. m.room[x] = IF x = s THEN r ELSE l.room[x]
    BY <1>1, <2>1
  <2>4. q # r => InRoom(m, q) = InRoom(l, q)
    BY <1>5
  <2>5. q = r => InRoom(m, q) = InRoom(l, q) \cup {s}
    BY <1>8
  <2>6. x = s => x \notin InRoom(l, q)
    BY <1>3
  <2> QED  BY <2>2, <2>3, <2>4, <2>5, <2>6
<1> QED  BY <1>5, <1>8, <1>11, <1>12, <1>13, <1>14 DEF Seated

LEMMA CreatedSeated ==
  ASSUME NEW l \in LobbyState, Seated(l), NEW s \in Live(l), l.room[s] = None,
         NEW r \in Rooms, l.stage[r] = "new"
  PROVE  /\ Created(l, s, r) \in LobbyState /\ Seated(Created(l, s, r))
         /\ Created(l, s, r).tokens = l.tokens /\ Created(l, s, r).session = l.session
         /\ Created(l, s, r).greeted = l.greeted /\ Created(l, s, r).view = l.view
         /\ Created(l, s, r).dirty = l.dirty
         /\ Placed(l) => Placed(Created(l, s, r))
         /\ \A q \in Rooms \ {r} : /\ InRoom(Created(l, s, r), q) = InRoom(l, q)
                                   /\ Created(l, s, r).members[q] = l.members[q]
                                   /\ Created(l, s, r).stage[q] = l.stage[q]
<1> DEFINE m == Created(l, s, r)
<1>1. s \in Sessions /\ l.members[r] = <<>>
  BY DEF Live, Seated, Existing
<1>2. /\ m \in LobbyState /\ m.members = [l.members EXCEPT ![r] = <<s>>]
      /\ m.room = [l.room EXCEPT ![s] = r] /\ m.session = l.session
      /\ m.stage = [l.stage EXCEPT ![r] = "open"] /\ m.tokens = l.tokens
      /\ m.greeted = l.greeted /\ m.view = l.view /\ m.dirty = l.dirty
      /\ m.host = [l.host EXCEPT ![r] = s]
  <2>1. <<s>> \in Seq(Sessions)
    BY <1>1
  <2> QED  BY <1>1, <2>1 DEF Created, LobbyState
<1> HIDE DEF m
<1>3. /\ \A q \in Rooms : m.stage[q] = IF q = r THEN "open" ELSE l.stage[q]
      /\ \A q \in Rooms \ {r} : m.members[q] = l.members[q]
  BY <1>2 DEF LobbyState
<1>4. Existing(m) = Existing(l) \cup {r}
  BY <1>3 DEF Existing
<1>5. /\ \A q \in Rooms : m.members[q] = IF q = r THEN Append(l.members[r], s) ELSE l.members[q]
      /\ \A x \in Sessions : m.room[x] = IF x = s THEN r ELSE l.room[x]
      /\ Len(l.members[r]) < MaxMembers
  <2>1. Append(<<>>, s) = <<s>> /\ Len(<<>>) = 0 /\ MaxMembers \in 2..8
    BY LobbyAssumption
  <2> QED  BY <1>1, <1>2, <2>1 DEF LobbyState
<1>6. Enters(l, m, s, r)
  BY <1>2, <1>4, <1>5 DEF Enters
<1>7. /\ Seated(m) /\ \A q \in Rooms \ {r} : InRoom(m, q) = InRoom(l, q)
      /\ InRoom(m, r) = InRoom(l, r) \cup {s}
  BY <1>6, EnterSeated
<1>8. Placed(l) => Placed(m)
  <2>1. InRoom(m, r) = {s} /\ Live(m) = Live(l)
    BY <1>1, <1>2, <1>7 DEF InRoom, Live
  <2>2. \A q \in Rooms \ {r} : m.host[q] = l.host[q]
    BY <1>2 DEF LobbyState
  <2> QED  BY <1>3, <1>7, <2>1, <2>2 DEF Placed
<1> QED  BY <1>2, <1>3, <1>7, <1>8 DEF m

LEMMA CreateRoomAdvance ==
  ASSUME LobbyInv, NEW s \in Sessions, NEW r \in Rooms, CreateRoom(s, r)
  PROVE  Advance
<1> DEFINE made == Created(lobby, s, r)
           listed == Send(made, {s}, Listing(made))
           m == Broadcast(listed, Delta(listed, r))
<1>1. lobby \in LobbyState /\ Seated(lobby)
  BY InvParts
<1>2. s \in Live(lobby) /\ lobby.room[s] = None /\ lobby.stage[r] = "new"
  BY DEF CreateRoom
<1>3. Handling /\ Return(m) /\ UNCHANGED <<match, relay>>
  BY DEF CreateRoom
<1>4. /\ made \in LobbyState /\ Seated(made) /\ made.tokens = lobby.tokens
      /\ Placed(lobby) => Placed(made)
      /\ \A q \in Rooms \ {r} : /\ InRoom(made, q) = InRoom(lobby, q)
                                /\ made.stage[q] = lobby.stage[q]
  BY <1>1, <1>2, CreatedSeated
<1> HIDE DEF made
<1>5. Continues(lobby, made)
  BY <1>2, <1>4 DEF Continues
<1>6. Sent(made, listed)
  BY <1>4, BroadcastSeated
<1>7. listed \in LobbyState /\ Seated(listed)
  BY <1>6 DEF Sent
<1> HIDE DEF listed
<1>8. Sent(listed, m)
  BY <1>7, BroadcastSeated
<1> HIDE DEF m
<1> QED  BY <1>3, <1>5, <1>6, <1>8, SentContinues, ReturnAdvance

LEMMA JoinedSeated ==
  ASSUME NEW l \in LobbyState, Seated(l), NEW s \in Live(l), l.room[s] = None,
         NEW r \in Rooms, Accepts(l, r)
  PROVE  /\ Joined(l, s, r) \in LobbyState /\ Seated(Joined(l, s, r))
         /\ Joined(l, s, r).stage = l.stage /\ Joined(l, s, r).tokens = l.tokens
         /\ Joined(l, s, r).greeted = l.greeted /\ Joined(l, s, r).session = l.session
         /\ Placed(l) => Placed(Joined(l, s, r))
         /\ \A q \in Rooms \ {r} : InRoom(Joined(l, s, r), q) = InRoom(l, q)
<1> DEFINE m == Joined(l, s, r)
<1>1. s \in Sessions /\ l.stage[r] = "open" /\ Len(l.members[r]) < MaxMembers
  BY DEF Live, Accepts
<1>2. /\ m \in LobbyState /\ m.members = [l.members EXCEPT ![r] = Append(l.members[r], s)]
      /\ m.room = [l.room EXCEPT ![s] = r] /\ m.session = l.session
      /\ m.stage = l.stage /\ m.tokens = l.tokens /\ m.greeted = l.greeted /\ m.host = l.host
  <2>1. Append(l.members[r], s) \in Seq(Sessions)
    BY <1>1 DEF LobbyState
  <2> QED  BY <1>1, <2>1 DEF Joined, LobbyState
<1> HIDE DEF m
<1>3. /\ \A q \in Rooms : m.members[q] = IF q = r THEN Append(l.members[r], s) ELSE l.members[q]
      /\ \A x \in Sessions : m.room[x] = IF x = s THEN r ELSE l.room[x]
  BY <1>1, <1>2 DEF LobbyState
<1>4. Existing(m) = Existing(l) \cup {r}
  BY <1>1, <1>2 DEF Existing
<1>5. Enters(l, m, s, r)
  BY <1>1, <1>2, <1>3, <1>4 DEF Enters
<1>6. /\ Seated(m) /\ \A q \in Rooms \ {r} : InRoom(m, q) = InRoom(l, q)
      /\ InRoom(m, r) = InRoom(l, r) \cup {s}
  BY <1>5, EnterSeated
<1>7. Live(m) = Live(l)
  BY <1>2 DEF Live
<1>8. Placed(l) => Placed(m)
  BY <1>1, <1>2, <1>6, <1>7 DEF Placed
<1> QED  BY <1>2, <1>6, <1>8 DEF m

LEMMA JoinRoomAdvance ==
  ASSUME LobbyInv, NEW s \in Sessions, NEW r \in Rooms, JoinRoom(s, r)
  PROVE  Advance
<1> DEFINE j == Joined(lobby, s, r)
<1>1. lobby \in LobbyState /\ Seated(lobby)
  BY InvParts
<1>2. s \in Live(lobby) /\ lobby.room[s] = None /\ Accepts(lobby, r) /\ lobby.stage[r] = "open"
  BY DEF JoinRoom, Accepts
<1>3. Handling /\ Return(AnnounceRoom(j, r)) /\ UNCHANGED <<match, relay>>
  BY DEF JoinRoom
<1>4. /\ j \in LobbyState /\ Seated(j) /\ j.stage = lobby.stage /\ j.tokens = lobby.tokens
      /\ Placed(lobby) => Placed(j)
      /\ \A q \in Rooms \ {r} : InRoom(j, q) = InRoom(lobby, q)
  BY <1>1, <1>2, JoinedSeated
<1> HIDE DEF j
<1>5. Continues(lobby, j)
  BY <1>2, <1>4 DEF Continues
<1>6. Sent(j, AnnounceRoom(j, r))
  BY <1>4, AnnounceSeated
<1> QED  BY <1>3, <1>5, <1>6, SentContinues, ReturnAdvance

LEMMA StartingSeated ==
  ASSUME NEW l \in LobbyState, Seated(l), NEW r \in Rooms, l.stage[r] = "open"
  PROVE  /\ Starting(l, r) \in LobbyState /\ Seated(Starting(l, r))
         /\ Starting(l, r).members = l.members /\ Starting(l, r).session = l.session
         /\ Starting(l, r).room = l.room /\ Starting(l, r).host = l.host
         /\ Placed(l) => Placed(Starting(l, r))
         /\ Starting(l, r).greeted = l.greeted /\ Starting(l, r).view = l.view
         /\ Starting(l, r).dirty = l.dirty
         /\ \A q \in Rooms :
              /\ InRoom(Starting(l, r), q) = InRoom(l, q)
              /\ Starting(l, r).stage[q] = IF q = r THEN "starting" ELSE l.stage[q]
              /\ q # r => Starting(l, r).tokens[q] = l.tokens[q]
<1> DEFINE m == Starting(l, r)
<1>1. InRoom(l, r) \in SUBSET Sessions
  BY DEF InRoom, LobbyState
<1>2. /\ m \in LobbyState /\ m.members = l.members /\ m.room = l.room /\ m.session = l.session
      /\ m.stage = [l.stage EXCEPT ![r] = "starting"]
      /\ m.tokens = [l.tokens EXCEPT ![r] = InRoom(l, r)]
      /\ m.greeted = l.greeted /\ m.view = l.view /\ m.dirty = l.dirty /\ m.host = l.host
  BY <1>1 DEF LobbyState, Starting
<1> HIDE DEF m
<1>3. \A q \in Rooms : /\ m.stage[q] = IF q = r THEN "starting" ELSE l.stage[q]
                       /\ q # r => m.tokens[q] = l.tokens[q]
  BY <1>2 DEF LobbyState
<1>4. Existing(m) = Existing(l)
  BY <1>3 DEF Existing
<1>5. Seated(m) /\ \A q : InRoom(m, q) = InRoom(l, q)
  BY <1>2, <1>4, SeatedAlike
<1>6. Placed(l) => Placed(m)
  <2>1. Live(m) = Live(l)
    BY <1>2 DEF Live
  <2> QED  BY <1>2, <1>3, <1>5, <2>1, PlacedAlike
<1> QED  BY <1>2, <1>3, <1>5, <1>6 DEF m

LEMMA StartMatchAdvance ==
  ASSUME LobbyInv, NEW s \in Sessions, NEW r \in Rooms, StartMatch(s, r)
  PROVE  Advance
<1> DEFINE b == Starting(lobby, r)
           told == Send(b, InRoom(lobby, r), NoNews)
           m == Broadcast(told, Listing(told))
<1>1. lobby \in LobbyState /\ Seated(lobby)
  BY InvParts
<1>2. lobby.stage[r] = "open" /\ Return(m) /\ relay' = relay /\ pc = "select"
      /\ match' = [match EXCEPT ![r] = "running"]
  BY DEF StartMatch, MayStart, Handling
<1>3. /\ b \in LobbyState /\ Seated(b) /\ b.session = lobby.session /\ b.host = lobby.host
      /\ Placed(lobby) => Placed(b)
      /\ \A q \in Rooms : /\ InRoom(b, q) = InRoom(lobby, q)
                          /\ b.stage[q] = IF q = r THEN "starting" ELSE lobby.stage[q]
                          /\ q # r => b.tokens[q] = lobby.tokens[q]
  BY <1>1, <1>2, StartingSeated
<1> HIDE DEF b
<1>4. Sent(b, told)
  BY <1>3, BroadcastSeated
<1>5. told \in LobbyState /\ Seated(told)
  BY <1>4 DEF Sent
<1> HIDE DEF told
<1>6. Sent(told, m)
  BY <1>5, BroadcastSeated
<1> HIDE DEF m
<1>7. Sent(b, m) /\ lobby' = m /\ pc' \in {"select", "flush"}
  BY <1>2, <1>4, <1>6, SentTwice DEF Return
<1>8. match' \in [Rooms -> {"none", "running", "over", "reported"}]
      /\ match'[r] = "running" /\ \A q \in Rooms : q # r => match'[q] = match[q]
  BY <1>2 DEF LobbyInv, LobbyTypeOK
<1>9. LobbyTypeOK' /\ Membership'
  BY <1>2, <1>7, <1>8 DEF LobbyInv, LobbyTypeOK, Membership, Sent
<1>10. TokensHaveMatch'
  BY <1>3, <1>7, <1>8 DEF LobbyInv, TokensHaveMatch, Sent
<1>11. StartedKept
  BY <1>2, <1>3, <1>7 DEF StartedKept, Sent
<1>12. PlacesAreTaken'
  BY <1>3, <1>7 DEF LobbyInv, PlacesAreTaken, Sent
<1> QED  BY <1>9, <1>10, <1>11, <1>12 DEF Advance, LobbyInv

LEMMA StartFailsAdvance ==
  ASSUME LobbyInv, NEW s \in Sessions, NEW r \in Rooms, StartFails(s, r)
  PROVE  Advance
<1> DEFINE b == Starting(lobby, r)
           told == Send(b, {s}, NoNews)
           m == [told EXCEPT !.stage[r] = "open", !.tokens[r] = {}]
<1>1. lobby \in LobbyState /\ Seated(lobby)
  BY InvParts
<1>2. /\ lobby.stage[r] = "open" /\ lobby.host[r] = s
      /\ Handling /\ Return(m) /\ UNCHANGED <<match, relay>>
  BY DEF StartFails, MayStart
<1>3. /\ b \in LobbyState /\ Seated(b) /\ b.session = lobby.session /\ b.host = lobby.host
      /\ Placed(lobby) => Placed(b)
      /\ \A q \in Rooms : /\ InRoom(b, q) = InRoom(lobby, q)
                          /\ b.stage[q] = IF q = r THEN "starting" ELSE lobby.stage[q]
                          /\ q # r => b.tokens[q] = lobby.tokens[q]
  BY <1>1, <1>2, StartingSeated
<1> HIDE DEF b
<1>4. Sent(b, told) /\ Live(b) \ {s} \subseteq Live(told)
  <2>1. \A q \in DOMAIN NoNews : NoNews[q] \in Descriptor
    BY DEF NoNews
  <2> QED  BY <1>3, <2>1, SendSeated
<1>5. told \in LobbyState /\ Seated(told)
  BY <1>4 DEF Sent
<1> HIDE DEF told
<1>6. /\ m \in LobbyState /\ m.members = told.members /\ m.room = told.room
      /\ m.session = told.session /\ m.stage = [told.stage EXCEPT ![r] = "open"]
      /\ m.tokens = [told.tokens EXCEPT ![r] = {}] /\ m.host = told.host
  BY <1>5 DEF LobbyState
<1> HIDE DEF m
<1>7. \A q \in Rooms : /\ m.stage[q] = lobby.stage[q]
                       /\ m.tokens[q] \subseteq lobby.tokens[q]
  <2>1. \A q \in Rooms : told.stage[q] = b.stage[q] /\ told.tokens[q] = b.tokens[q]
    BY <1>4 DEF Sent
  <2> QED  BY <1>2, <1>3, <1>5, <1>6, <2>1 DEF LobbyState
<1>8. Existing(m) = Existing(told)
  <2>1. \A q \in Rooms : told.stage[q] = b.stage[q]
    BY <1>4 DEF Sent
  <2> QED  BY <1>2, <1>3, <1>7, <2>1 DEF Existing
<1>9. Seated(m) /\ \A q : InRoom(m, q) = InRoom(told, q)
  BY <1>5, <1>6, <1>8, SeatedAlike
<1>10. Live(m) = Live(told) /\ Live(b) = Live(lobby)
  BY <1>3, <1>6 DEF Live
<1>11. ASSUME Placed(lobby), NEW q \in Rooms, lobby.stage[q] = "open"
       PROVE  InRoom(m, q) \ Live(m) \subseteq {m.host[q]}
  <2>1. CASE q = r
    <3>1. told.members[r] = b.members[r] /\ told.host[r] = s
      BY <1>2, <1>3, <1>4 DEF Sent
    <3>2. InRoom(m, r) = InRoom(lobby, r)
      <4>1. InRoom(told, r) = InRoom(b, r)
        BY <3>1 DEF InRoom
      <4> QED  BY <1>3, <1>9, <4>1
    <3> QED  BY <1>2, <1>4, <1>6, <1>10, <1>11, <2>1, <3>1, <3>2 DEF Placed
  <2>2. CASE q # r
    BY <1>3, <1>4, <1>6, <1>9, <1>10, <1>11, <2>2 DEF Placed, Sent
  <2> QED  BY <2>1, <2>2
<1>12. Placed(lobby) => Placed(m)
  BY <1>7, <1>11 DEF Placed
<1>13. Continues(lobby, m)
  BY <1>3, <1>4, <1>6, <1>7, <1>9, <1>12 DEF Continues, Sent
<1> QED  BY <1>2, <1>13, ReturnAdvance

LEMMA KickAdvance ==
  ASSUME LobbyInv, NEW s \in Sessions, NEW t \in Sessions, NEW r \in Rooms, Kick(s, t, r)
  PROVE  Advance
<1> DEFINE told == Send(lobby, {t}, NoNews)
           v == Vacate(told, {t}, {r})
           left == AnnounceRoom(v, r)
           m == [left EXCEPT !.tokens = [q \in Rooms |-> @[q] \ {t}]]
<1>1. lobby \in LobbyState /\ Seated(lobby)
  BY InvParts
<1>2. /\ Handling /\ Return(m) /\ UNCHANGED <<match, relay>>
      /\ t \in Live(lobby) /\ lobby.room[t] = r
  BY DEF Kick
<1>3. Sent(lobby, told)
  BY <1>1, BroadcastSeated
<1>4. told \in LobbyState /\ Seated(told)
  BY <1>3 DEF Sent
<1> HIDE DEF told
<1>5. \A x \in {t} \cap Live(told) : told.room[x] \in {r} \cup {None}
  <2> SUFFICES ASSUME t \in Live(told), told.room[t] # None PROVE told.room[t] = r
    OBVIOUS
  <2>1. told.room[t] \in Rooms
    BY <1>4 DEF LobbyState
  <2>2. t \in InRoom(told, told.room[t])
    BY <1>4, <2>1 DEF Seated
  <2>3. t \in InRoom(lobby, told.room[t])
    BY <1>3, <2>1, <2>2 DEF Sent
  <2>4. lobby.room[t] = told.room[t]
    BY <1>1, <1>2, <2>1, <2>3 DEF Seated
  <2> QED  BY <1>2, <2>4
<1>6. {t} \in SUBSET Sessions /\ {r} \in SUBSET Rooms
  OBVIOUS
<1>7. /\ v \in LobbyState /\ Seated(v) /\ v.stage = told.stage /\ v.tokens = told.tokens
      /\ \A q \in Rooms : InRoom(v, q) = IF q \in {r} THEN InRoom(told, q) \ {t} ELSE InRoom(told, q)
      /\ Placed(told) => Placed(v)
  BY <1>4, <1>5, <1>6, VacateSeated
<1> HIDE DEF v
<1>8. Continues(lobby, v)
  <2>1. \A q \in Rooms : lobby.tokens[q] = v.tokens[q] /\ lobby.stage[q] = v.stage[q]
                          /\ InRoom(v, q) \subseteq InRoom(lobby, q)
    BY <1>3, <1>7 DEF Sent
  <2>2. Placed(lobby) => Placed(v)
    BY <1>3, <1>7 DEF Sent
  <2> QED  BY <1>7, <2>1, <2>2 DEF Continues
<1>9. Sent(v, left)
  BY <1>7, AnnounceSeated
<1> HIDE DEF left
<1>10. Continues(lobby, left)
  BY <1>8, <1>9, SentContinues
<1>11. left \in LobbyState
  BY <1>9 DEF Sent
<1>12. /\ m \in LobbyState /\ m.members = left.members /\ m.room = left.room
       /\ m.session = left.session /\ m.stage = left.stage
       /\ m.tokens = [q \in Rooms |-> left.tokens[q] \ {t}] /\ m.host = left.host
  <2>1. [q \in Rooms |-> left.tokens[q] \ {t}] \in [Rooms -> SUBSET Sessions]
    BY <1>11 DEF LobbyState
  <2> QED  BY <1>11, <2>1 DEF LobbyState
<1> HIDE DEF m
<1>13. \A q \in Rooms : m.tokens[q] \subseteq left.tokens[q]
  BY <1>12
<1>14. Continues(lobby, m)
  BY <1>10, <1>12, <1>13, SameContinues
<1> QED  BY <1>2, <1>14, ReturnAdvance

(* A step of Run outside a handler.                                        *)
LEMMA LoopAdvance ==
  ASSUME LobbyInv, Continues(lobby, lobby'), UNCHANGED <<match, relay>>, relay = NoRelay,
         pc' \in {"select", "expire", "sweep", "flush"}
  PROVE  Advance
<1>1. LobbyTypeOK'
  BY DEF LobbyInv, LobbyTypeOK, Continues
<1> QED  BY <1>1, ContinuesAdvance DEF LobbyInv

LEMMA ChatAdvance ==
  ASSUME LobbyInv, NEW s \in Sessions, Chat(s)
  PROVE  Advance
<1>1. lobby \in LobbyState /\ lobby' = lobby /\ Continues(lobby, lobby') /\ match' = match
  BY InvParts DEF Chat
<1>2. lobby.room[s] \in Rooms /\ None \notin Rooms
  BY <1>1, LobbyAssumption DEF Chat, LobbyState
<1>3. lobby.members[lobby.room[s]] \in Seq(Sessions)
  BY <1>1, <1>2 DEF LobbyState
<1>4. relay' \in Relay /\ relay'.room \in Rooms
  BY <1>2, <1>3 DEF Chat, Relay
<1>5. relay' # NoRelay
  BY <1>2, <1>4 DEF NoRelay
<1>6. LobbyTypeOK'
  BY <1>1, <1>4, <1>5 DEF LobbyInv, LobbyTypeOK, Chat
<1> QED  BY <1>1, <1>6, ContinuesAdvance DEF LobbyInv

LEMMA RelayLineAdvance ==
  ASSUME LobbyInv, RelayLine
  PROVE  Advance
<1> DEFINE s == relay.line[relay.at]
           sent == Send(lobby, {s}, NoNews)
           old == lobby.members[relay.room]
           new == sent.members[relay.room]
           heard == [relay.heard EXCEPT ![s] = IF s \in Live(sent) THEN @ + 1 ELSE @]
           line == IF new = old THEN relay.line
                   ELSE new \o SubSeq(relay.line, Len(old), Len(relay.line))
<1>1. lobby \in LobbyState /\ Seated(lobby) /\ Continues(lobby, lobby)
  BY InvParts
<1>2. /\ pc = "relay" /\ relay.at <= Len(relay.line) /\ lobby' = sent /\ match' = match
      /\ pc' = pc /\ relay' = [relay EXCEPT !.at = @ + 1, !.heard = heard, !.line = line]
  BY DEF RelayLine
<1>3. relay \in Relay
  BY <1>2 DEF LobbyInv, LobbyTypeOK
<1>4. /\ relay.room \in Rooms /\ relay.line \in Seq(Sessions) /\ relay.at \in Nat \ {0}
      /\ relay.heard \in [Sessions -> Nat]
  BY <1>3 DEF Relay
<1>5. s \in Sessions
  BY <1>2, <1>4
<1>6. Sent(lobby, sent)
  BY <1>1, <1>4, BroadcastSeated
<1>7. sent \in LobbyState
  BY <1>6 DEF Sent
<1>8. old \in Seq(Sessions) /\ new \in Seq(Sessions)
  BY <1>1, <1>4, <1>7 DEF LobbyState
<1>9. old = <<>> => new = <<>>
  BY <1>4, <1>6 DEF Sent
<1> HIDE DEF sent, s, old, new
<1>10. heard \in [Sessions -> Nat]
  BY <1>4, <1>5
<1>11. line \in Seq(Sessions)
  <2>1. CASE new = old
    BY <1>4, <2>1
  <2>2. CASE new # old
    <3>1. Len(old) \in Nat \ {0} /\ Len(relay.line) \in Nat
      BY <1>4, <1>8, <1>9, <2>2
    <3>2. SubSeq(relay.line, Len(old), Len(relay.line)) \in Seq(Sessions)
      BY <1>4, <3>1
    <3> QED  BY <1>8, <2>2, <3>2
  <2> QED  BY <2>1, <2>2
<1> HIDE DEF heard, line
<1>12. relay' \in Relay
  <2>1. relay.at + 1 \in Nat \ {0}
    BY <1>4
  <2> QED  BY <1>2, <1>3, <1>10, <1>11, <2>1 DEF Relay
<1>13. relay' # NoRelay
  <2>1. relay'.room \in Rooms /\ None \notin Rooms
    BY <1>12, LobbyAssumption DEF Relay
  <2> QED  BY <2>1 DEF NoRelay
<1>14. LobbyTypeOK'
  BY <1>2, <1>7, <1>12, <1>13 DEF LobbyInv, LobbyTypeOK
<1>15. Continues(lobby, lobby')
  BY <1>1, <1>2, <1>6, SentContinues
<1> QED  BY <1>2, <1>14, <1>15, ContinuesAdvance DEF LobbyInv

LEMMA RelayDoneAdvance ==
  ASSUME LobbyInv, RelayDone
  PROVE  Advance
<1>1. Continues(lobby, lobby') /\ match' = match /\ relay' = NoRelay
      /\ pc' \in {"select", "flush"} /\ lobby' = lobby
  BY InvParts DEF RelayDone, Return
<1>2. LobbyTypeOK'
  BY <1>1 DEF LobbyInv, LobbyTypeOK
<1> QED  BY <1>1, <1>2, ContinuesAdvance DEF LobbyInv

LEMMA MatchEndedAdvance ==
  ASSUME LobbyInv, NEW r \in Rooms, MatchEnded(r)
  PROVE  Advance
<1> DEFINE c == Closed(lobby, r)
           freed == IF lobby.stage[r] = "starting" THEN c ELSE lobby
           m == Broadcast(freed, Listing(freed))
<1>1. lobby \in LobbyState /\ Seated(lobby)
  BY InvParts
<1>2. /\ match[r] = "over" /\ Return(m) /\ relay' = relay /\ pc = "select"
      /\ match' = [match EXCEPT ![r] = "reported"]
  BY DEF MatchEnded, Handling
<1>3. /\ c \in LobbyState /\ c.members = [lobby.members EXCEPT ![r] = <<>>]
      /\ c.stage = [lobby.stage EXCEPT ![r] = "gone"] /\ c.session = lobby.session
      /\ c.tokens = lobby.tokens /\ c.host = [lobby.host EXCEPT ![r] = None]
      /\ c.room = [s \in Sessions |-> IF s \in InRoom(lobby, r) THEN None ELSE lobby.room[s]]
  <2>1. [s \in Sessions |-> IF s \in InRoom(lobby, r) THEN None ELSE lobby.room[s]]
          \in [Sessions -> Rooms \cup {None}]
    BY <1>1 DEF LobbyState
  <2>2. <<>> \in Seq(Sessions)
    OBVIOUS
  <2> QED  BY <1>1, <2>1, <2>2 DEF LobbyState, Closed
<1> HIDE DEF c
<1>4. \A q \in Rooms : /\ c.members[q] = IF q = r THEN <<>> ELSE lobby.members[q]
                       /\ c.stage[q] = IF q = r THEN "gone" ELSE lobby.stage[q]
  BY <1>1, <1>3 DEF LobbyState
<1>5. \A q \in Rooms : InRoom(c, q) = IF q = r THEN {} ELSE InRoom(lobby, q)
  BY <1>4 DEF InRoom
<1>6. Live(c) = Live(lobby) /\ \A q \in Rooms : q \in Existing(c) <=> q # r /\ q \in Existing(lobby)
  BY <1>3, <1>4 DEF Live, Existing
<1>7. Seated(c)
  <2>1. \A q \in Rooms :
          /\ \A i, j \in DOMAIN c.members[q] : c.members[q][i] = c.members[q][j] => i = j
          /\ Len(c.members[q]) <= MaxMembers
          /\ q \notin Existing(c) => c.members[q] = <<>>
    <3> TAKE q \in Rooms
    <3>1. CASE q = r
      <4>1. c.members[q] = <<>> /\ Len(<<>>) = 0 /\ MaxMembers \in 2..8
        BY <1>4, <3>1, LobbyAssumption
      <4> QED  BY <4>1
    <3>2. CASE q # r
      BY <1>1, <1>4, <1>6, <3>2 DEF Seated
    <3> QED  BY <3>1, <3>2
  <2>2. \A q \in Rooms : \A s \in InRoom(c, q) : c.session[s] # "new"
    BY <1>1, <1>3, <1>5 DEF Seated
  <2>3. \A s \in Sessions : c.room[s] # None => s \in Live(c)
    BY <1>1, <1>3, <1>6 DEF Seated
  <2>4. \A s \in Live(c), q \in Rooms : c.room[s] = q <=> s \in InRoom(c, q)
    <3> SUFFICES ASSUME NEW s \in Live(c), NEW q \in Rooms
                 PROVE  c.room[s] = q <=> s \in InRoom(c, q)
      OBVIOUS
    <3>1. s \in Live(lobby) /\ s \in Sessions /\ q # None /\ r # None
      BY <1>6, LobbyAssumption DEF Live
    <3>2. c.room[s] = IF s \in InRoom(lobby, r) THEN None ELSE lobby.room[s]
      BY <1>3, <3>1
    <3>3. /\ lobby.room[s] = q <=> s \in InRoom(lobby, q)
          /\ lobby.room[s] = r <=> s \in InRoom(lobby, r)
      BY <1>1, <3>1 DEF Seated
    <3> QED  BY <1>5, <3>1, <3>2, <3>3
  <2> QED  BY <2>1, <2>2, <2>3, <2>4 DEF Seated
<1>8. Placed(lobby) => Placed(c)
  <2>1. \A q \in Rooms : q # r => c.host[q] = lobby.host[q]
    BY <1>1, <1>3 DEF LobbyState
  <2> QED  BY <1>4, <1>5, <1>6, <2>1, PlacedAlike
<1>9. /\ freed \in LobbyState /\ Seated(freed) /\ freed.tokens = lobby.tokens
      /\ Placed(lobby) => Placed(freed)
      /\ \A q \in Rooms : q # r => /\ freed.stage[q] = lobby.stage[q]
                                   /\ InRoom(freed, q) = InRoom(lobby, q)
      /\ lobby.stage[r] = "starting" => freed.stage[r] = "gone"
  BY <1>1, <1>3, <1>4, <1>5, <1>7, <1>8
<1> HIDE DEF freed
<1>10. Sent(freed, m)
  BY <1>9, BroadcastSeated
<1> HIDE DEF m
<1>11. lobby' = m /\ pc' \in {"select", "flush"}
  BY <1>2 DEF Return
<1>12. match' \in [Rooms -> {"none", "running", "over", "reported"}]
       /\ \A q \in Rooms : match[q] # "none" => match'[q] # "none"
  BY <1>2 DEF LobbyInv, LobbyTypeOK
<1>13. LobbyTypeOK' /\ Membership'
  BY <1>2, <1>10, <1>11, <1>12 DEF LobbyInv, LobbyTypeOK, Membership, Sent
<1>14. TokensHaveMatch'
  BY <1>9, <1>10, <1>11, <1>12 DEF LobbyInv, TokensHaveMatch, Sent
<1>15. StartedKept
  <2> SUFFICES ASSUME NEW q \in Rooms, lobby.stage[q] = "starting"
               PROVE  \/ lobby'.stage[q] = "starting" /\ InRoom(lobby', q) \subseteq InRoom(lobby, q)
                      \/ lobby'.stage[q] = "gone" /\ match[q] = "over"
    BY DEF StartedKept
  <2> QED  BY <1>2, <1>9, <1>10, <1>11 DEF Sent
<1>16. PlacesAreTaken'
  BY <1>9, <1>10, <1>11 DEF LobbyInv, PlacesAreTaken, Sent
<1> QED  BY <1>13, <1>14, <1>15, <1>16 DEF Advance, LobbyInv

LEMMA MatchOverAdvance ==
  ASSUME LobbyInv, NEW r \in Rooms, MatchOver(r)
  PROVE  Advance
<1>1. lobby' = lobby /\ pc' = pc /\ relay' = relay /\ match' = [match EXCEPT ![r] = "over"]
      /\ match[r] = "running"
  BY DEF MatchOver
<1>2. match' \in [Rooms -> {"none", "running", "over", "reported"}]
      /\ \A q \in Rooms : match[q] # "none" => match'[q] # "none"
  BY <1>1 DEF LobbyInv, LobbyTypeOK
<1>3. LobbyTypeOK' /\ Membership'
  BY <1>1, <1>2 DEF LobbyInv, LobbyTypeOK, Membership
<1>4. TokensHaveMatch'
  BY <1>1, <1>2 DEF LobbyInv, TokensHaveMatch
<1>5. StartedKept
  BY <1>1 DEF StartedKept
<1>6. PlacesAreTaken'
  BY <1>1 DEF LobbyInv, PlacesAreTaken
<1> QED  BY <1>3, <1>4, <1>5, <1>6 DEF Advance, LobbyInv

LEMMA SweepRoomAdvance ==
  ASSUME LobbyInv, NEW r \in Rooms, SweepRoom(r)
  PROVE  Advance
<1> DEFINE swept == [lobby EXCEPT !.stage[r] = "gone", !.host[r] = None]
           m == Broadcast(swept, Delta(swept, r))
<1>1. lobby \in LobbyState /\ Seated(lobby)
  BY InvParts
<1>2. /\ lobby.members[r] = <<>> /\ lobby' = m /\ pc' = pc /\ match' = match /\ relay' = relay
      /\ pc = "sweep"
  BY DEF SweepRoom
<1>3. /\ swept \in LobbyState /\ swept.members = lobby.members /\ swept.room = lobby.room
      /\ swept.session = lobby.session /\ swept.tokens = lobby.tokens
      /\ swept.stage = [lobby.stage EXCEPT ![r] = "gone"]
      /\ swept.host = [lobby.host EXCEPT ![r] = None]
  BY <1>1 DEF LobbyState
<1> HIDE DEF swept
<1>4. \A q \in Rooms : /\ swept.stage[q] = IF q = r THEN "gone" ELSE lobby.stage[q]
                       /\ InRoom(swept, q) = InRoom(lobby, q)
  BY <1>1, <1>3 DEF LobbyState, InRoom
<1>5. Live(swept) = Live(lobby)
  BY <1>3 DEF Live
<1>6. \A q \in Rooms : q \notin Existing(swept) => swept.members[q] = <<>>
  BY <1>1, <1>2, <1>3, <1>4 DEF Existing, Seated
<1>7. Seated(swept)
  BY <1>1, <1>3, <1>4, <1>5, <1>6 DEF Seated
<1>8. Sent(swept, m)
  BY <1>3, <1>7, BroadcastSeated
<1> HIDE DEF m
<1>9. LobbyTypeOK' /\ Membership'
  BY <1>2, <1>8 DEF LobbyInv, LobbyTypeOK, Membership, Sent
<1>10. TokensHaveMatch'
  BY <1>2, <1>3, <1>8 DEF LobbyInv, TokensHaveMatch, Sent
<1>11. StartedKept
  BY <1>2, <1>4, <1>8 DEF StartedKept, Sent
<1>12. Placed(lobby) => Placed(swept)
  <2>1. \A q \in Rooms : q # r => swept.host[q] = lobby.host[q]
    BY <1>1, <1>3 DEF LobbyState
  <2> QED  BY <1>4, <1>5, <2>1, PlacedAlike
<1>13. PlacesAreTaken'
  BY <1>2, <1>8, <1>12 DEF LobbyInv, PlacesAreTaken, Sent
<1> QED  BY <1>9, <1>10, <1>11, <1>13 DEF Advance, LobbyInv

LEMMA JanitorAdvance ==
  ASSUME LobbyInv, Janitor
  PROVE  Advance
<1>1. lobby \in LobbyState /\ Continues(lobby, lobby)
  BY InvParts
<1>2. PICK expired \in SUBSET {r \in Rooms : lobby.tokens[r] # {}} :
        lobby' = [lobby EXCEPT !.tokens = [r \in Rooms |-> IF r \in expired THEN {} ELSE @[r]]]
  BY DEF Janitor
<1>3. pc' = "expire" /\ UNCHANGED <<match, relay>> /\ relay = NoRelay
  BY DEF Janitor, Handling, LobbyInv, LobbyTypeOK
<1>4. [r \in Rooms |-> IF r \in expired THEN {} ELSE lobby.tokens[r]] \in [Rooms -> SUBSET Sessions]
  BY <1>1 DEF LobbyState
<1>5. /\ lobby' \in LobbyState /\ lobby'.members = lobby.members /\ lobby'.room = lobby.room
      /\ lobby'.session = lobby.session /\ lobby'.stage = lobby.stage /\ lobby'.host = lobby.host
      /\ lobby'.tokens = [r \in Rooms |-> IF r \in expired THEN {} ELSE lobby.tokens[r]]
  BY <1>1, <1>2, <1>4 DEF LobbyState
<1>6. \A r \in Rooms : lobby'.tokens[r] \subseteq lobby.tokens[r]
  BY <1>5
<1>7. Continues(lobby, lobby')
  BY <1>1, <1>5, <1>6, SameContinues
<1> QED  BY <1>3, <1>7, LoopAdvance

LEMMA ExpireIdleAdvance ==
  ASSUME LobbyInv, NEW s \in Sessions, ExpireIdle(s)
  PROVE  Advance
<1>1. Continues(lobby, lobby')
  BY InvParts, DisconnectedContinues DEF ExpireIdle
<1>2. pc' = "expire" /\ UNCHANGED <<match, relay>> /\ relay = NoRelay
  BY DEF ExpireIdle, LobbyInv, LobbyTypeOK
<1> QED  BY <1>1, <1>2, LoopAdvance

LEMMA FlushAdvance ==
  ASSUME LobbyInv, Flush
  PROVE  Advance
<1> DEFINE clean == [lobby EXCEPT !.dirty = FALSE]
           m == Broadcast(clean, Listing(lobby))
<1>1. lobby \in LobbyState /\ Continues(lobby, lobby)
  BY InvParts
<1>2. lobby' = m /\ pc' \in {"flush", "select"} /\ UNCHANGED <<match, relay>> /\ relay = NoRelay
  BY DEF Flush, LobbyInv, LobbyTypeOK
<1>3. /\ clean \in LobbyState /\ clean.members = lobby.members /\ clean.room = lobby.room
      /\ clean.session = lobby.session /\ clean.stage = lobby.stage /\ clean.tokens = lobby.tokens
      /\ clean.host = lobby.host
  BY <1>1 DEF LobbyState
<1> HIDE DEF clean
<1>4. Continues(lobby, clean)
  BY <1>1, <1>3, SameContinues
<1>5. Sent(clean, m)
  <2>1. \A r \in DOMAIN Listing(lobby) : Listing(lobby)[r] \in Descriptor
    BY <1>1, NewsType
  <2>2. clean \in LobbyState /\ Seated(clean)
    BY <1>4 DEF Continues
  <2> QED  BY <2>1, <2>2, SendSeated DEF Broadcast
<1> HIDE DEF m
<1>6. Continues(lobby, lobby')
  BY <1>2, <1>4, <1>5, SentContinues
<1> QED  BY <1>2, <1>6, LoopAdvance

LEMMA WriterSendAdvance ==
  ASSUME LobbyInv, NEW s \in Sessions, WriterSend(s)
  PROVE  Advance
<1>1. lobby \in LobbyState /\ Continues(lobby, lobby)
  BY InvParts
<1>2. lobby' = [lobby EXCEPT !.queue[s] = @ - 1] /\ UNCHANGED <<match, pc, relay>>
      /\ lobby.queue[s] > 0
  BY DEF WriterSend
<1>3. lobby.queue[s] - 1 \in 0..OutCap
  <2>1. lobby.queue[s] \in 0..OutCap /\ OutCap \in Nat
    BY <1>1, LobbyAssumption DEF LobbyState
  <2> QED  BY <1>2, <2>1
<1>4. /\ lobby' \in LobbyState /\ lobby'.members = lobby.members /\ lobby'.room = lobby.room
      /\ lobby'.session = lobby.session /\ lobby'.stage = lobby.stage /\ lobby'.host = lobby.host
      /\ lobby'.tokens = lobby.tokens
  BY <1>1, <1>2, <1>3 DEF LobbyState
<1>5. Continues(lobby, lobby')
  BY <1>1, <1>4, SameContinues
<1>6. LobbyTypeOK'
  BY <1>2, <1>4 DEF LobbyInv, LobbyTypeOK
<1> QED  BY <1>2, <1>5, <1>6, ContinuesAdvance DEF LobbyInv

(* Stuttering, the steps from one loop to the next, and the dead process.  *)
LEMMA SameLobbyAdvance ==
  ASSUME LobbyInv, UNCHANGED vars \/ BeginSweep \/ EndSweep
  PROVE  Advance
<1>1. lobby' = lobby /\ match' = match /\ relay' = relay /\ Continues(lobby, lobby')
  BY InvParts DEF vars, BeginSweep, EndSweep
<1>2. LobbyTypeOK'
  BY <1>1 DEF LobbyInv, LobbyTypeOK, vars, BeginSweep, EndSweep
<1> QED  BY <1>1, <1>2, ContinuesAdvance DEF LobbyInv

-----------------------------------------------------------------------------
(* The theorems.                                                           *)

LEMMA InitInv ==
  ASSUME Init
  PROVE  LobbyInv
<1>1. OutCap \in Nat /\ MaxMembers \in Nat
  BY LobbyAssumption
<1>2. <<>> \in Seq(Sessions) /\ Len(<<>>) = 0 /\ DOMAIN <<>> = {}
  OBVIOUS
<1>3. Absent \in Descriptor
  BY DEF Absent, Descriptor
<1>4. lobby \in LobbyState
  BY <1>1, <1>2, <1>3 DEF Init, LobbyState
<1>5. LobbyTypeOK
  BY <1>4 DEF Init, LobbyTypeOK
<1>6. \A r \in Rooms : lobby.members[r] = <<>> /\ lobby.tokens[r] = {}
  BY DEF Init
<1>7. Live(lobby) = {} /\ \A s \in Sessions : lobby.room[s] = None
  BY DEF Init, Live
<1>8. \A r \in Rooms : InRoom(lobby, r) = {}
  BY <1>2, <1>6 DEF InRoom
<1>9. Seated(lobby)
  BY <1>1, <1>2, <1>6, <1>7, <1>8 DEF Seated
<1>10. PlacesAreTaken
  BY <1>8 DEF PlacesAreTaken, Placed
<1> QED  BY <1>5, <1>6, <1>9, <1>10 DEF LobbyInv, Membership, TokensHaveMatch

LEMMA NextAdvance ==
  ASSUME LobbyInv, [Next]_vars
  PROVE  Advance
<1>1. CASE Handle
  BY <1>1, ConnectAdvance, HelloAdvance, RejectAdvance, VersionCloseAdvance, LeaveRoomAdvance,
     ChatAdvance, DisconnectAdvance, CreateRoomAdvance, JoinRoomAdvance, StartMatchAdvance,
     StartFailsAdvance, KickAdvance, MatchEndedAdvance DEF Handle
<1>2. CASE Loop
  BY <1>2, RelayLineAdvance, RelayDoneAdvance, SameLobbyAdvance, FlushAdvance,
     ExpireIdleAdvance, SweepRoomAdvance DEF Loop
<1>3. CASE Janitor
  BY <1>3, JanitorAdvance
<1>4. CASE Terminated \/ UNCHANGED vars
  BY <1>4, SameLobbyAdvance DEF Terminated
<1>5. CASE \E s \in Sessions : WriterSend(s)
  BY <1>5, WriterSendAdvance
<1>6. CASE \E r \in Rooms : MatchOver(r)
  BY <1>6, MatchOverAdvance
<1> QED  BY <1>1, <1>2, <1>3, <1>4, <1>5, <1>6 DEF Next

THEOREM LobbyInvariant == Safety => []LobbyInv
<1>1. Init => LobbyInv
  BY InitInv
<1>2. LobbyInv /\ [Next]_vars => LobbyInv'
  BY NextAdvance DEF Advance
<1> QED  BY <1>1, <1>2, PTL DEF Safety

(* Types, and with them the bound on every session's channel.              *)
THEOREM LobbyTypeCorrect == Safety => []LobbyTypeOK
<1>1. LobbyInv => LobbyTypeOK
  BY DEF LobbyInv
<1> QED  BY <1>1, LobbyInvariant, PTL

(* However many sessions are dropped in the middle of a handler's frames,  *)
(* places and sessions agree.                                              *)
THEOREM MembershipCorrect == Safety => []Membership
<1>1. LobbyInv => Membership
  BY DEF LobbyInv
<1> QED  BY <1>1, LobbyInvariant, PTL

(* A failed start leaves no token behind.                                  *)
THEOREM TokensCorrect == Safety => []TokensHaveMatch
<1>1. LobbyInv => TokensHaveMatch
  BY DEF LobbyInv
<1> QED  BY <1>1, LobbyInvariant, PTL

(* Whoever goes leaves the open room it was a member of, but for the host  *)
(* that a failed start drops.                                              *)
THEOREM PlacesCorrect == Safety => []PlacesAreTaken
<1>1. LobbyInv => PlacesAreTaken
  BY DEF LobbyInv
<1> QED  BY <1>1, LobbyInvariant, PTL

(* The room of a started match is left alone until its match is over or    *)
(* the janitor finds it empty.                                             *)
THEOREM StartedCorrect == Safety => StartedStays
<1>1. LobbyInv /\ [Next]_vars => [StartedKept]_vars
  BY NextAdvance DEF Advance
<1> QED  BY <1>1, LobbyInvariant, PTL DEF Safety, StartedStays
-----------------------------------------------------------------------------
(* What the sessions were told.                                            *)

(* Only live sessions have said hello, and unless a resync is due they     *)
(* were told of each room, r excepted, what it is.                         *)
FreshBut(l, r) ==
  /\ l.greeted \subseteq Live(l)
  /\ ~l.dirty => \A s \in l.greeted : \A q \in Rooms \ {r} : l.view[s][q] = Describe(l, q)

Fresh(l) ==
  /\ l.greeted \subseteq Live(l)
  /\ ~l.dirty => \A s \in l.greeted : \A q \in Rooms : l.view[s][q] = Describe(l, q)

(* Rooms that are the same are described the same.                         *)
LEMMA DescribeAlike ==
  ASSUME NEW l, NEW m, NEW q \in Rooms, m.members[q] = l.members[q], m.stage[q] = l.stage[q]
  PROVE  Describe(m, q) = Describe(l, q)
BY DEF Describe, Existing

(* The lobby n has sent the news to the sessions S.                        *)
SendParts(n, l, S, news) ==
  /\ n.greeted \subseteq l.greeted \cap Live(n)
  /\ n.stage = l.stage
  /\ ~n.dirty => ~l.dirty /\ \A r \in Rooms : n.members[r] = l.members[r]
  /\ \A s \in n.greeted, r \in Rooms :
       n.view[s][r] = IF s \in S /\ r \in DOMAIN news THEN news[r] ELSE l.view[s][r]

LEMMA SendNews ==
  ASSUME NEW l \in LobbyState, l.greeted \subseteq Live(l), NEW S,
         NEW news, \A r \in DOMAIN news : news[r] \in Descriptor
  PROVE  SendParts(Send(l, S, news), l, S, news)
<1> DEFINE full == Full(l, S)
           fits == (S \cap Live(l)) \ full
           x == Queued(l, fits, news)
           n == Send(l, S, news)
<1>1. \A s \in fits : s \in Sessions /\ l.queue[s] # OutCap
  BY DEF Full, Live
<1>2. QueuedParts(x, l, fits, news)
  <2> HIDE DEF fits
  <2> QED  BY <1>1, QueuedType
<1>3. n = Drop(x, full)
  BY DEF Send
<1>4. full \in SUBSET Sessions
  BY DEF Full, Live
<1> HIDE DEF x, n, full
<1>5. x \in LobbyState /\ Live(x) = Live(l)
  BY <1>2 DEF QueuedParts, Live
<1>6. DropParts(n, x, full)
  BY <1>3, <1>4, <1>5, DropType
<1>7. n.greeted \subseteq l.greeted \cap Live(n) /\ n.stage = l.stage
  BY <1>2, <1>5, <1>6 DEF DropParts, QueuedParts
<1>8. ASSUME ~n.dirty PROVE ~l.dirty /\ \A r \in Rooms : n.members[r] = l.members[r]
  BY <1>2, <1>6, <1>8 DEF DropParts, QueuedParts, VacatedRooms
<1>9. ASSUME NEW s \in n.greeted, NEW r \in Rooms
      PROVE  n.view[s][r] = IF s \in S /\ r \in DOMAIN news THEN news[r] ELSE l.view[s][r]
  <2>1. s \in Sessions \ full /\ s \in Live(l)
    BY <1>5, <1>6, <1>7 DEF DropParts, Live
  <2>2. s \in fits <=> s \in S
    BY <2>1
  <2>3. n.view[s] = x.view[s]
    BY <1>6, <2>1 DEF DropParts
  <2> HIDE DEF fits
  <2> QED  BY <1>2, <2>1, <2>2, <2>3 DEF QueuedParts
<1> QED  BY <1>7, <1>8, <1>9 DEF SendParts, n

(* A frame without news leaves what was told as fresh as it was.           *)
LEMMA QuietFresh ==
  ASSUME NEW l \in LobbyState, NEW r, FreshBut(l, r), NEW S
  PROVE  FreshBut(Send(l, S, NoNews), r)
<1> DEFINE n == Send(l, S, NoNews)
<1>1. SendParts(n, l, S, NoNews)
  <2>1. l.greeted \subseteq Live(l) /\ \A q \in DOMAIN NoNews : NoNews[q] \in Descriptor
    BY DEF FreshBut, NoNews
  <2> QED  BY <2>1, SendNews
<1> HIDE DEF n
<1>2. n.greeted \subseteq Live(n) /\ n.greeted \subseteq l.greeted
  BY <1>1 DEF SendParts
<1>3. ASSUME ~n.dirty, NEW s \in n.greeted, NEW q \in Rooms \ {r}
      PROVE  n.view[s][q] = Describe(n, q)
  <2>1. n.view[s][q] = l.view[s][q]
    BY <1>1 DEF SendParts, NoNews
  <2>2. l.view[s][q] = Describe(l, q)
    BY <1>1, <1>2, <1>3 DEF SendParts, FreshBut
  <2>3. Describe(n, q) = Describe(l, q)
    BY <1>1, <1>3, DescribeAlike DEF SendParts
  <2> QED  BY <2>1, <2>2, <2>3
<1> QED  BY <1>2, <1>3 DEF FreshBut, n

(* The room list leaves it as fresh as it was, wherever it is sent.        *)
LEMMA ListFresh ==
  ASSUME NEW l \in LobbyState, NEW r, FreshBut(l, r), NEW S
  PROVE  FreshBut(Send(l, S, Listing(l)), r)
<1> DEFINE n == Send(l, S, Listing(l))
<1>1. SendParts(n, l, S, Listing(l))
  <2>1. l.greeted \subseteq Live(l) /\ \A q \in DOMAIN Listing(l) : Listing(l)[q] \in Descriptor
    BY NewsType DEF FreshBut
  <2> QED  BY <2>1, SendNews
<1> HIDE DEF n
<1>2. n.greeted \subseteq Live(n) /\ n.greeted \subseteq l.greeted
  BY <1>1 DEF SendParts
<1>3. ASSUME ~n.dirty, NEW s \in n.greeted, NEW q \in Rooms \ {r}
      PROVE  n.view[s][q] = Describe(n, q)
  <2>1. n.view[s][q] = Listing(l)[q] \/ n.view[s][q] = l.view[s][q]
    BY <1>1 DEF SendParts
  <2>2. l.view[s][q] = Describe(l, q) /\ Listing(l)[q] = Describe(l, q)
    BY <1>1, <1>2, <1>3 DEF SendParts, FreshBut, Listing
  <2>3. Describe(n, q) = Describe(l, q)
    BY <1>1, <1>3, DescribeAlike DEF SendParts
  <2> QED  BY <2>1, <2>2, <2>3
<1> QED  BY <1>2, <1>3 DEF FreshBut, n

(* Sent to everybody, the list is news of every room.                      *)
LEMMA BroadcastFresh ==
  ASSUME NEW l \in LobbyState, l.greeted \subseteq Live(l)
  PROVE  Fresh(Broadcast(l, Listing(l)))
<1> DEFINE n == Broadcast(l, Listing(l))
<1>1. SendParts(n, l, Live(l), Listing(l))
  <2>1. \A q \in DOMAIN Listing(l) : Listing(l)[q] \in Descriptor
    BY NewsType
  <2> QED  BY <2>1, SendNews DEF Broadcast
<1> HIDE DEF n
<1>2. n.greeted \subseteq Live(n) /\ n.greeted \subseteq Live(l)
  BY <1>1 DEF SendParts
<1>3. ASSUME ~n.dirty, NEW s \in n.greeted, NEW q \in Rooms
      PROVE  n.view[s][q] = Describe(n, q)
  <2>1. n.view[s][q] = Listing(l)[q]
    BY <1>1, <1>2, NewsType DEF SendParts
  <2>2. Listing(l)[q] = Describe(l, q)
    BY DEF Listing
  <2>3. Describe(n, q) = Describe(l, q)
    BY <1>1, <1>3, DescribeAlike DEF SendParts
  <2> QED  BY <2>1, <2>2, <2>3
<1> QED  BY <1>2, <1>3 DEF Fresh, n

(* The delta is news of its room, whoever it makes the actor drop.         *)
LEMMA DeltaFresh ==
  ASSUME NEW l \in LobbyState, NEW r \in Rooms, FreshBut(l, r)
  PROVE  Fresh(Broadcast(l, Delta(l, r)))
<1> DEFINE n == Broadcast(l, Delta(l, r))
<1>1. SendParts(n, l, Live(l), Delta(l, r))
  <2>1. l.greeted \subseteq Live(l) /\ \A q \in DOMAIN Delta(l, r) : Delta(l, r)[q] \in Descriptor
    BY NewsType DEF FreshBut
  <2> QED  BY <2>1, SendNews DEF Broadcast
<1> HIDE DEF n
<1>2. n.greeted \subseteq Live(n) /\ n.greeted \subseteq Live(l) /\ n.greeted \subseteq l.greeted
  BY <1>1 DEF SendParts, FreshBut
<1>3. ASSUME ~n.dirty, NEW s \in n.greeted, NEW q \in Rooms
      PROVE  n.view[s][q] = Describe(n, q)
  <2>1. n.view[s][q] = IF q = r THEN Delta(l, r)[q] ELSE l.view[s][q]
    BY <1>1, <1>2, NewsType DEF SendParts
  <2>2. q = r => Delta(l, r)[q] = Describe(l, q)
    BY DEF Delta
  <2>3. q # r => l.view[s][q] = Describe(l, q)
    BY <1>1, <1>2, <1>3 DEF SendParts, FreshBut
  <2>4. Describe(n, q) = Describe(l, q)
    BY <1>1, <1>3, DescribeAlike DEF SendParts
  <2> QED  BY <2>1, <2>2, <2>3, <2>4
<1> QED  BY <1>2, <1>3 DEF Fresh, n

LEMMA AnnounceFresh ==
  ASSUME NEW l \in LobbyState, Seated(l), l.greeted \subseteq Live(l), NEW r \in Rooms
  PROVE  Fresh(AnnounceRoom(l, r))
<1> DEFINE listed == Broadcast(l, Listing(l))
<1>1. Fresh(listed)
  BY BroadcastFresh
<1>2. listed \in LobbyState
  BY BroadcastSeated DEF Sent
<1> HIDE DEF listed
<1>3. FreshBut(listed, r)
  BY <1>1 DEF Fresh, FreshBut
<1> QED  BY <1>2, <1>3, DeltaFresh DEF AnnounceRoom, listed

(* A change that neither sessions nor rooms nor views see.                 *)
LEMMA SameFresh ==
  ASSUME NEW l, NEW m, Fresh(l), m.greeted = l.greeted, m.session = l.session,
         m.members = l.members, m.stage = l.stage, m.view = l.view, m.dirty = l.dirty
  PROVE  Fresh(m)
<1>1. Live(m) = Live(l)
  BY DEF Live
<1>2. \A q \in Rooms : Describe(m, q) = Describe(l, q)
  BY DescribeAlike
<1> QED  BY <1>1, <1>2 DEF Fresh

LEMMA FreshButNone ==
  ASSUME NEW l
  PROVE  Fresh(l) <=> FreshBut(l, None)
BY LobbyAssumption, Rooms \ {None} = Rooms DEF Fresh, FreshBut

LEMMA QuietAllFresh ==
  ASSUME NEW l \in LobbyState, Fresh(l), NEW S
  PROVE  Fresh(Send(l, S, NoNews))
BY FreshButNone, QuietFresh

LEMMA DropFresh ==
  ASSUME NEW l \in LobbyState, Fresh(l), NEW D \in SUBSET Live(l)
  PROVE  Fresh(Drop(l, D))
<1> DEFINE n == Drop(l, D)
<1>1. DropParts(n, l, D)
  <2>1. D \in SUBSET Sessions
    BY DEF Live
  <2> QED  BY <2>1, DropType
<1> HIDE DEF n
<1>2. n.greeted \subseteq Live(n) /\ n.greeted \subseteq l.greeted
  BY <1>1 DEF DropParts, Fresh
<1>3. ASSUME ~n.dirty, NEW s \in n.greeted, NEW q \in Rooms PROVE n.view[s][q] = Describe(n, q)
  <2>1. s \in Sessions \ D
    BY <1>1 DEF DropParts, Fresh, Live
  <2>2. n.view[s] = l.view[s] /\ l.view[s][q] = Describe(l, q)
    BY <1>1, <1>2, <1>3, <2>1 DEF DropParts, Fresh
  <2>3. Describe(n, q) = Describe(l, q)
    BY <1>1, <1>3, DescribeAlike DEF DropParts, VacatedRooms
  <2> QED  BY <2>2, <2>3
<1> QED  BY <1>2, <1>3 DEF Fresh, n

LEMMA RemoveFresh ==
  ASSUME NEW l \in LobbyState, Fresh(l), NEW D \in SUBSET Sessions
  PROVE  Fresh(Remove(l, D))
<1> DEFINE n == Remove(l, D)
<1>1. RemoveParts(n, l, D)
  BY RemoveType
<1> HIDE DEF n
<1>2. /\ n.greeted = l.greeted \ D /\ n.members = l.members /\ n.stage = l.stage /\ n.dirty = l.dirty
      /\ \A s \in Sessions \ D : n.view[s] = l.view[s]
  BY <1>1 DEF RemoveParts
<1>3. Live(n) = Live(l) \ D
  BY <1>1 DEF RemoveParts
<1>4. n.greeted \subseteq Live(n) /\ \A s \in n.greeted : s \in l.greeted /\ s \in Sessions \ D
  BY <1>2, <1>3 DEF Fresh, Live
<1>5. \A q \in Rooms : Describe(n, q) = Describe(l, q)
  BY <1>2, DescribeAlike
<1> QED  BY <1>2, <1>4, <1>5 DEF Fresh, n

LEMMA DisconnectedFresh ==
  ASSUME NEW l \in LobbyState, Seated(l), Fresh(l), NEW s \in Live(l)
  PROVE  Fresh(Disconnected(l, s))
<1> DEFINE r == l.room[s]
           v == Vacate(l, {s}, {r})
           a == AnnounceRoom(v, r)
<1>1. {s} \in SUBSET Sessions
  BY DEF Live
<1>2. CASE r \in Rooms /\ l.stage[r] = "open"
  <2>1. {r} \in SUBSET Rooms /\ \A x \in {s} \cap Live(l) : l.room[x] \in {r} \cup {None}
    BY <1>2
  <2> HIDE DEF r
  <2>2. VacateParts(v, l, {s}, {r})
    BY <1>1, <2>1, VacateType
  <2>3. v \in LobbyState /\ Seated(v)
    BY <1>1, <2>1, VacateSeated
  <2> HIDE DEF v
  <2>4. v.greeted = l.greeted /\ Live(v) = Live(l)
    BY <2>2 DEF VacateParts, Live
  <2>5. Fresh(a)
    BY <1>2, <2>3, <2>4, AnnounceFresh DEF Fresh
  <2>6. a \in LobbyState
    BY <1>2, <2>3, AnnounceSeated DEF Sent
  <2> HIDE DEF a
  <2>7. Fresh(Remove(a, {s}))
    BY <1>1, <2>5, <2>6, RemoveFresh
  <2> QED  BY <1>2, <2>7 DEF Disconnected, a, v, r
<1>3. CASE ~(r \in Rooms /\ l.stage[r] = "open")
  <2>1. Fresh(Remove(l, {s}))
    BY <1>1, RemoveFresh
  <2> QED  BY <1>3, <2>1 DEF Disconnected
<1> QED  BY <1>2, <1>3

LEMMA HelloFresh ==
  ASSUME LobbyInv, Fresh(lobby), NEW s \in Sessions, Hello(s)
  PROVE  Fresh(lobby')
<1> DEFINE g == [lobby EXCEPT !.greeted = @ \cup {s}]
           w == Send(g, {s}, NoNews)
           m == Send(w, {s}, Listing(w))
<1>1. lobby \in LobbyState /\ Seated(lobby)
  BY InvParts
<1>2. /\ g \in LobbyState /\ g.members = lobby.members /\ g.stage = lobby.stage /\ g.room = lobby.room
      /\ g.session = lobby.session /\ g.greeted = lobby.greeted \cup {s}
      /\ g.view = lobby.view /\ g.dirty = lobby.dirty
  BY <1>1 DEF LobbyState
<1>3. lobby' = IF s \in Live(w) THEN m ELSE [w EXCEPT !.crashed = TRUE]
  BY DEF Hello, Return
<1>4. s \in Live(lobby)
  BY DEF Hello
<1> HIDE DEF g
<1>5. g.greeted \subseteq Live(g) /\ Existing(g) = Existing(lobby)
  BY <1>2, <1>4 DEF Fresh, Live, Existing
<1>6. SendParts(w, g, {s}, NoNews)
  <2>1. \A q \in DOMAIN NoNews : NoNews[q] \in Descriptor
    BY DEF NoNews
  <2> QED  BY <1>2, <1>5, <2>1, SendNews
<1>7. w \in LobbyState
  <2>1. Seated(g)
    BY <1>1, <1>2, <1>5, SeatedAlike
  <2>2. \A q \in DOMAIN NoNews : NoNews[q] \in Descriptor
    BY DEF NoNews
  <2> QED  BY <1>2, <2>1, <2>2, SendSeated DEF Sent
<1> HIDE DEF w
<1>8. /\ w.greeted \subseteq Live(w) /\ w.greeted \subseteq lobby.greeted \cup {s}
      /\ ~w.dirty => /\ ~lobby.dirty
                     /\ \A q \in Rooms : Describe(w, q) = Describe(lobby, q)
                     /\ \A x \in w.greeted, q \in Rooms : w.view[x][q] = lobby.view[x][q]
  <2>1. ~w.dirty => \A q \in Rooms : w.members[q] = lobby.members[q] /\ w.stage[q] = lobby.stage[q]
    BY <1>2, <1>6 DEF SendParts
  <2>2. ~w.dirty => \A q \in Rooms : Describe(w, q) = Describe(lobby, q)
    BY <2>1, DescribeAlike
  <2>3. \A x \in w.greeted, q \in Rooms : w.view[x][q] = lobby.view[x][q]
    BY <1>2, <1>6 DEF SendParts, NoNews
  <2> QED  BY <1>2, <1>6, <2>2, <2>3 DEF SendParts
<1>9. CASE s \in Live(w)
  <2>1. SendParts(m, w, {s}, Listing(w))
    BY <1>7, <1>8, NewsType, SendNews
  <2> HIDE DEF m
  <2>2. m.greeted \subseteq Live(m) /\ m.greeted \subseteq w.greeted
    BY <2>1 DEF SendParts
  <2>3. ASSUME ~m.dirty, NEW x \in m.greeted, NEW q \in Rooms PROVE m.view[x][q] = Describe(m, q)
    <3>1. Describe(m, q) = Describe(w, q) /\ ~w.dirty
      BY <2>1, <2>3, DescribeAlike DEF SendParts
    <3>2. CASE x = s
      BY <2>1, <3>1, <3>2, NewsType DEF SendParts, Listing
    <3>3. CASE x # s
      <4>1. m.view[x][q] = w.view[x][q]
        BY <2>1, <3>3 DEF SendParts
      <4>2. w.view[x][q] = lobby.view[x][q] /\ lobby.view[x][q] = Describe(lobby, q)
        BY <1>8, <2>2, <3>1, <3>3 DEF Fresh
      <4> QED  BY <1>8, <3>1, <4>1, <4>2
    <3> QED  BY <3>2, <3>3
  <2> QED  BY <1>3, <1>9, <2>2, <2>3 DEF Fresh
<1>10. CASE s \notin Live(w)
  <2> DEFINE c == [w EXCEPT !.crashed = TRUE]
  <2>1. /\ c.greeted = w.greeted /\ c.session = w.session /\ c.members = w.members
        /\ c.stage = w.stage /\ c.view = w.view /\ c.dirty = w.dirty
    BY <1>7 DEF LobbyState
  <2> HIDE DEF c
  <2>2. Fresh(w)
    <3>1. \A x \in w.greeted : x \in lobby.greeted
      BY <1>8, <1>10
    <3> QED  BY <1>8, <3>1 DEF Fresh
  <2>3. Fresh(c)
    BY <2>1, <2>2, SameFresh
  <2> QED  BY <1>3, <1>10, <2>3 DEF c
<1> QED  BY <1>9, <1>10

(* Every step leaves the sessions' views fresh.                            *)
LEMMA NextFresh ==
  ASSUME LobbyInv, Fresh(lobby), [Next]_vars
  PROVE  Fresh(lobby')
<1>1. lobby \in LobbyState /\ Seated(lobby) /\ lobby.greeted \subseteq Live(lobby)
  BY InvParts DEF Fresh
<1>2. ASSUME NEW s \in Sessions, Connect(s) PROVE Fresh(lobby')
  <2> DEFINE m == [lobby EXCEPT !.session[s] = "live"]
  <2>1. lobby' = m
    BY <1>2 DEF Connect, Return
  <2>2. /\ m.session = [lobby.session EXCEPT ![s] = "live"] /\ m.greeted = lobby.greeted
        /\ m.members = lobby.members /\ m.stage = lobby.stage /\ m.view = lobby.view
        /\ m.dirty = lobby.dirty
    BY <1>1 DEF LobbyState
  <2> HIDE DEF m
  <2>3. Live(lobby) \subseteq Live(m)
    BY <1>1, <2>2 DEF Live, LobbyState
  <2>4. \A q \in Rooms : Describe(m, q) = Describe(lobby, q)
    BY <2>2, DescribeAlike
  <2> QED  BY <1>1, <2>1, <2>2, <2>3, <2>4 DEF Fresh
<1>3. ASSUME NEW s \in Sessions, Reject(s) PROVE Fresh(lobby')
  BY <1>1, <1>3, QuietAllFresh DEF Reject, Return
<1>4. ASSUME NEW s \in Sessions, VersionClose(s) PROVE Fresh(lobby')
  <2>1. {s} \in SUBSET Live(lobby)
    BY <1>4 DEF VersionClose
  <2> QED  BY <1>1, <1>4, <2>1, DropFresh DEF VersionClose, Return
<1>5. ASSUME NEW s \in Sessions, NEW r \in Rooms, CreateRoom(s, r) PROVE Fresh(lobby')
  <2> DEFINE made == Created(lobby, s, r)
             listed == Send(made, {s}, Listing(made))
  <2>1. lobby' = Broadcast(listed, Delta(listed, r))
    BY <1>5 DEF CreateRoom, Return
  <2>2. s \in Live(lobby) /\ lobby.room[s] = None /\ lobby.stage[r] = "new"
    BY <1>5 DEF CreateRoom
  <2>3. /\ made \in LobbyState /\ Seated(made) /\ made.session = lobby.session
        /\ made.greeted = lobby.greeted /\ made.view = lobby.view /\ made.dirty = lobby.dirty
        /\ \A q \in Rooms \ {r} : /\ made.members[q] = lobby.members[q]
                                  /\ made.stage[q] = lobby.stage[q]
    BY <1>1, <2>2, CreatedSeated
  <2> HIDE DEF made
  <2>4. \A q \in Rooms \ {r} : Describe(made, q) = Describe(lobby, q)
    BY <2>3, DescribeAlike
  <2>5. FreshBut(made, r)
    BY <2>3, <2>4 DEF Fresh, FreshBut, Live
  <2>6. FreshBut(listed, r)
    BY <2>3, <2>5, ListFresh
  <2>7. listed \in LobbyState
    BY <2>3, BroadcastSeated DEF Sent
  <2> HIDE DEF listed
  <2> QED  BY <2>1, <2>6, <2>7, DeltaFresh
<1>6. ASSUME NEW s \in Sessions, NEW r \in Rooms, JoinRoom(s, r) PROVE Fresh(lobby')
  <2> DEFINE j == Joined(lobby, s, r)
  <2>1. lobby' = AnnounceRoom(j, r)
    BY <1>6 DEF JoinRoom, Return
  <2>2. s \in Live(lobby) /\ lobby.room[s] = None /\ Accepts(lobby, r)
    BY <1>6 DEF JoinRoom
  <2>3. j \in LobbyState /\ Seated(j) /\ j.session = lobby.session /\ j.greeted = lobby.greeted
    BY <1>1, <2>2, JoinedSeated
  <2> HIDE DEF j
  <2>4. j.greeted \subseteq Live(j)
    BY <1>1, <2>3 DEF Live
  <2> QED  BY <2>1, <2>3, <2>4, AnnounceFresh
<1>7. ASSUME NEW s \in Sessions, LeaveRoom(s) PROVE Fresh(lobby')
  <2> DEFINE r == lobby.room[s]
             v == Vacate(lobby, {s}, {r})
  <2>1. lobby' = AnnounceRoom(v, r) /\ r \in Rooms
    BY <1>1, <1>7 DEF LeaveRoom, Return, LobbyState
  <2>2. {s} \in SUBSET Sessions /\ {r} \in SUBSET Rooms
        /\ \A x \in {s} \cap Live(lobby) : lobby.room[x] \in {r} \cup {None}
    BY <2>1
  <2>3. v.greeted = lobby.greeted
    BY <1>1 DEF Vacate, LobbyState
  <2> HIDE DEF r
  <2>4. VacateParts(v, lobby, {s}, {r}) /\ v \in LobbyState /\ Seated(v)
    BY <1>1, <2>2, VacateType, VacateSeated
  <2> HIDE DEF v
  <2>5. v.greeted \subseteq Live(v)
    BY <1>1, <2>3, <2>4 DEF VacateParts, Live
  <2> QED  BY <2>1, <2>4, <2>5, AnnounceFresh
<1>8. ASSUME NEW s \in Sessions, Chat(s) PROVE Fresh(lobby')
  BY <1>8 DEF Chat
<1>9. ASSUME NEW s \in Sessions, Disconnect(s) PROVE Fresh(lobby')
  BY <1>1, <1>9, DisconnectedFresh DEF Disconnect, Return
<1>10. ASSUME NEW s \in Sessions, NEW r \in Rooms, StartMatch(s, r) PROVE Fresh(lobby')
  <2> DEFINE b == Starting(lobby, r)
             told == Send(b, InRoom(lobby, r), NoNews)
  <2>1. lobby' = Broadcast(told, Listing(told)) /\ lobby.stage[r] = "open"
    BY <1>10 DEF StartMatch, MayStart, Return
  <2>2. b \in LobbyState /\ Seated(b) /\ b.greeted = lobby.greeted /\ b.session = lobby.session
    BY <1>1, <2>1, StartingSeated
  <2> HIDE DEF b
  <2>3. b.greeted \subseteq Live(b)
    BY <1>1, <2>2 DEF Live
  <2>4. SendParts(told, b, InRoom(lobby, r), NoNews)
    <3>1. \A q \in DOMAIN NoNews : NoNews[q] \in Descriptor
      BY DEF NoNews
    <3> QED  BY <2>2, <2>3, <3>1, SendNews
  <2>5. told \in LobbyState
    BY <2>2, BroadcastSeated DEF Sent
  <2> HIDE DEF told
  <2>6. told.greeted \subseteq Live(told)
    BY <2>4 DEF SendParts
  <2> QED  BY <2>1, <2>5, <2>6, BroadcastFresh
<1>11. ASSUME NEW s \in Sessions, NEW r \in Rooms, StartFails(s, r) PROVE Fresh(lobby')
  <2> DEFINE b == Starting(lobby, r)
             told == Send(b, {s}, NoNews)
             m == [told EXCEPT !.stage[r] = "open", !.tokens[r] = {}]
  <2>1. lobby' = m /\ lobby.stage[r] = "open"
    BY <1>11 DEF StartFails, MayStart, Return
  <2>2. /\ b \in LobbyState /\ Seated(b) /\ b.greeted = lobby.greeted /\ b.session = lobby.session
        /\ b.members = lobby.members /\ b.view = lobby.view /\ b.dirty = lobby.dirty
        /\ \A q \in Rooms : b.stage[q] = IF q = r THEN "starting" ELSE lobby.stage[q]
    BY <1>1, <2>1, StartingSeated
  <2> HIDE DEF b
  <2>3. b.greeted \subseteq Live(b)
    BY <1>1, <2>2 DEF Live
  <2>4. SendParts(told, b, {s}, NoNews)
    <3>1. \A q \in DOMAIN NoNews : NoNews[q] \in Descriptor
      BY DEF NoNews
    <3> QED  BY <2>2, <2>3, <3>1, SendNews
  <2>5. told \in LobbyState
    BY <2>2, BroadcastSeated DEF Sent
  <2> HIDE DEF told
  <2>6. /\ m.stage = [told.stage EXCEPT ![r] = "open"] /\ m.members = told.members
        /\ m.session = told.session /\ m.greeted = told.greeted /\ m.view = told.view
        /\ m.dirty = told.dirty
    BY <2>5 DEF LobbyState
  <2> HIDE DEF m
  <2>7. m.greeted \subseteq Live(m) /\ m.greeted \subseteq lobby.greeted
    BY <2>2, <2>4, <2>6 DEF SendParts, Live
  <2>8. \A q \in Rooms : m.stage[q] = lobby.stage[q]
    BY <2>1, <2>2, <2>4, <2>5, <2>6 DEF SendParts, LobbyState
  <2>9. ASSUME ~m.dirty, NEW x \in m.greeted, NEW q \in Rooms PROVE m.view[x][q] = Describe(m, q)
    <3>1. ~lobby.dirty /\ m.members[q] = lobby.members[q]
      BY <2>2, <2>4, <2>6, <2>9 DEF SendParts
    <3>2. Describe(m, q) = Describe(lobby, q)
      BY <2>8, <3>1, DescribeAlike
    <3>3. m.view[x][q] = lobby.view[x][q]
      BY <2>2, <2>4, <2>6, <2>9 DEF SendParts, NoNews
    <3>4. lobby.view[x][q] = Describe(lobby, q)
      BY <2>7, <2>9, <3>1 DEF Fresh
    <3> QED  BY <3>2, <3>3, <3>4
  <2> QED  BY <2>1, <2>7, <2>9 DEF Fresh
<1>12. ASSUME NEW s \in Sessions, NEW t \in Sessions, NEW r \in Rooms, Kick(s, t, r)
       PROVE  Fresh(lobby')
  <2> DEFINE told == Send(lobby, {t}, NoNews)
             v == Vacate(told, {t}, {r})
             left == AnnounceRoom(v, r)
             m == [left EXCEPT !.tokens = [q \in Rooms |-> @[q] \ {t}]]
  <2>1. lobby' = m /\ lobby.room[t] = r
    BY <1>12 DEF Kick, Return
  <2>2. Fresh(told)
    BY <1>1, QuietAllFresh
  <2>3. Sent(lobby, told)
    BY <1>1, BroadcastSeated
  <2>4. told \in LobbyState /\ Seated(told)
    BY <2>3 DEF Sent
  <2> HIDE DEF told
  <2>5. \A x \in {t} \cap Live(told) : told.room[x] \in {r} \cup {None}
    <3> SUFFICES ASSUME t \in Live(told), told.room[t] # None PROVE told.room[t] = r
      OBVIOUS
    <3>1. told.room[t] \in Rooms /\ t \in Live(lobby)
      BY <2>3, <2>4 DEF LobbyState, Sent
    <3>2. t \in InRoom(told, told.room[t])
      BY <2>4, <3>1 DEF Seated
    <3>3. t \in InRoom(lobby, told.room[t])
      BY <2>3, <3>1, <3>2 DEF Sent
    <3> QED  BY <1>1, <2>1, <3>1, <3>3 DEF Seated
  <2>6. {t} \in SUBSET Sessions /\ {r} \in SUBSET Rooms
    OBVIOUS
  <2>7. v.greeted = told.greeted
    BY <2>4 DEF Vacate, LobbyState
  <2>8. VacateParts(v, told, {t}, {r}) /\ v \in LobbyState /\ Seated(v)
    BY <2>4, <2>5, <2>6, VacateType, VacateSeated
  <2> HIDE DEF v
  <2>9. v.greeted \subseteq Live(v)
    BY <2>2, <2>7, <2>8 DEF VacateParts, Live, Fresh
  <2>10. Fresh(left) /\ left \in LobbyState
    BY <2>8, <2>9, AnnounceFresh, AnnounceSeated DEF Sent
  <2> HIDE DEF left
  <2>11. /\ m.greeted = left.greeted /\ m.session = left.session /\ m.members = left.members
         /\ m.stage = left.stage /\ m.view = left.view /\ m.dirty = left.dirty
    BY <2>10 DEF LobbyState
  <2> HIDE DEF m
  <2>12. Fresh(m)
    BY <2>10, <2>11, SameFresh
  <2> QED  BY <2>1, <2>12
<1>13. ASSUME NEW r \in Rooms, MatchEnded(r) PROVE Fresh(lobby')
  <2> DEFINE freed == IF lobby.stage[r] = "starting" THEN Closed(lobby, r) ELSE lobby
  <2>1. lobby' = Broadcast(freed, Listing(freed))
    BY <1>13 DEF MatchEnded, Return
  <2>2. freed \in LobbyState /\ freed.session = lobby.session /\ freed.greeted = lobby.greeted
    <3>1. [s \in Sessions |-> IF s \in InRoom(lobby, r) THEN None ELSE lobby.room[s]]
            \in [Sessions -> Rooms \cup {None}]
      BY <1>1 DEF LobbyState
    <3>2. <<>> \in Seq(Sessions)
      OBVIOUS
    <3>3. /\ Closed(lobby, r) \in LobbyState /\ Closed(lobby, r).session = lobby.session
          /\ Closed(lobby, r).greeted = lobby.greeted
      BY <1>1, <3>1, <3>2 DEF LobbyState, Closed
    <3> QED  BY <1>1, <3>3
  <2> HIDE DEF freed
  <2>3. freed.greeted \subseteq Live(freed)
    BY <1>1, <2>2 DEF Live
  <2> QED  BY <2>1, <2>2, <2>3, BroadcastFresh
<1>14. CASE Handle
  BY <1>2, <1>3, <1>4, <1>5, <1>6, <1>7, <1>8, <1>9, <1>10, <1>11, <1>12, <1>13, <1>14, HelloFresh
     DEF Handle
<1>15. ASSUME Janitor PROVE Fresh(lobby')
  <2>1. /\ lobby'.greeted = lobby.greeted /\ lobby'.session = lobby.session
        /\ lobby'.members = lobby.members /\ lobby'.stage = lobby.stage
        /\ lobby'.view = lobby.view /\ lobby'.dirty = lobby.dirty
    BY <1>1, <1>15 DEF Janitor, LobbyState
  <2> QED  BY <2>1, SameFresh
<1>16. ASSUME RelayLine PROVE Fresh(lobby')
  BY <1>1, <1>16, QuietAllFresh DEF RelayLine
<1>17. ASSUME RelayDone \/ BeginSweep \/ EndSweep PROVE Fresh(lobby')
  BY <1>17 DEF RelayDone, BeginSweep, EndSweep, Return
<1>18. ASSUME Flush PROVE Fresh(lobby')
  <2> DEFINE clean == [lobby EXCEPT !.dirty = FALSE]
  <2>1. lobby' = Broadcast(clean, Listing(lobby))
    BY <1>18 DEF Flush
  <2>2. /\ clean \in LobbyState /\ clean.greeted = lobby.greeted /\ clean.session = lobby.session
        /\ clean.members = lobby.members /\ clean.stage = lobby.stage
    BY <1>1 DEF LobbyState
  <2> HIDE DEF clean
  <2>3. Listing(clean) = Listing(lobby)
    BY <2>2, DescribeAlike DEF Listing
  <2>4. clean.greeted \subseteq Live(clean)
    BY <1>1, <2>2 DEF Live
  <2> QED  BY <2>1, <2>2, <2>3, <2>4, BroadcastFresh
<1>19. ASSUME NEW s \in Sessions, ExpireIdle(s) PROVE Fresh(lobby')
  BY <1>1, <1>19, DisconnectedFresh DEF ExpireIdle
<1>20. ASSUME NEW r \in Rooms, SweepRoom(r) PROVE Fresh(lobby')
  <2> DEFINE swept == [lobby EXCEPT !.stage[r] = "gone", !.host[r] = None]
  <2>1. lobby' = Broadcast(swept, Delta(swept, r))
    BY <1>20 DEF SweepRoom
  <2>2. /\ swept \in LobbyState /\ swept.stage = [lobby.stage EXCEPT ![r] = "gone"]
        /\ swept.members = lobby.members /\ swept.session = lobby.session
        /\ swept.greeted = lobby.greeted /\ swept.view = lobby.view /\ swept.dirty = lobby.dirty
    BY <1>1 DEF LobbyState
  <2> HIDE DEF swept
  <2>3. \A q \in Rooms \ {r} : Describe(swept, q) = Describe(lobby, q)
    <3>1. \A q \in Rooms \ {r} : swept.stage[q] = lobby.stage[q]
      BY <1>1, <2>2 DEF LobbyState
    <3> QED  BY <2>2, <3>1, DescribeAlike
  <2>4. FreshBut(swept, r)
    BY <2>2, <2>3 DEF Fresh, FreshBut, Live
  <2> QED  BY <2>1, <2>2, <2>4, DeltaFresh
<1>21. CASE Loop
  BY <1>16, <1>17, <1>18, <1>19, <1>20, <1>21 DEF Loop
<1>22. ASSUME NEW s \in Sessions, WriterSend(s) PROVE Fresh(lobby')
  <2>1. /\ lobby'.greeted = lobby.greeted /\ lobby'.session = lobby.session
        /\ lobby'.members = lobby.members /\ lobby'.stage = lobby.stage
        /\ lobby'.view = lobby.view /\ lobby'.dirty = lobby.dirty
    BY <1>1, <1>22 DEF WriterSend, LobbyState
  <2> QED  BY <2>1, SameFresh
<1>23. ASSUME NEW r \in Rooms, MatchOver(r) PROVE Fresh(lobby')
  BY <1>23 DEF MatchOver
<1>24. ASSUME Terminated \/ UNCHANGED vars PROVE Fresh(lobby')
  BY <1>24 DEF Terminated, vars
<1> QED  BY <1>14, <1>15, <1>21, <1>22, <1>23, <1>24 DEF Next

-----------------------------------------------------------------------------
(* No session that has said hello is left with a stale room list: whatever *)
(* order the drops of a fan-out come in, a resync is due if it is.         *)
THEOREM ViewsCorrect == Safety => []ViewsFresh
<1>1. Init => LobbyInv /\ Fresh(lobby)
  <2>1. Init => lobby.greeted = {}
    BY DEF Init
  <2> QED  BY <2>1, InitInv DEF Fresh
<1>2. LobbyInv /\ Fresh(lobby) /\ [Next]_vars => LobbyInv' /\ Fresh(lobby)'
  <2>1. Fresh(lobby)' <=> Fresh(lobby')
    BY DEF Fresh, Live, Describe, Existing, Absent
  <2> QED  BY <2>1, NextAdvance, NextFresh DEF Advance
<1>3. LobbyInv /\ Fresh(lobby) => ViewsFresh
  <2> SUFFICES ASSUME LobbyInv, Fresh(lobby), ~lobby.dirty, NEW s \in lobby.greeted
               PROVE  lobby.view[s] = Listing(lobby)
    BY DEF ViewsFresh
  <2>1. lobby.view[s] \in [Rooms -> Descriptor]
    BY InvParts DEF Fresh, Live, LobbyState
  <2>2. \A q \in Rooms : lobby.view[s][q] = Describe(lobby, q)
    BY DEF Fresh
  <2> QED  BY <2>1, <2>2 DEF Listing
<1> QED  BY <1>1, <1>2, <1>3, PTL DEF Safety
=============================================================================
