----------------------------- MODULE SimProofs -----------------------------
(***************************************************************************)
(* The simulation for any players, generators, caps, timers and windows:   *)
(* the lives, respawns, rewinds, shots and caps of module Sim.             *)
(***************************************************************************)
EXTENDS Sim, FiniteSetTheorems, WellFoundedInduction, TLAPS

LEMMA DownType ==
  \A m \in Nat : \A n \in 0 .. m : Down(n) \in 0 .. m /\ (n > 0 => Down(n) = n - 1)
BY DEF Down

(* An index of the ring stays in the ring.                                 *)
LEMMA Wraps ==
  /\ Depth \in Nat \ {0}
  /\ \A i \in 0 .. LagComp : i % Depth = i /\ (i + Depth) % Depth = i
<1>1. Depth \in Nat \ {0} /\ Depth = LagComp + 1 /\ LagComp \in Nat
  BY SimAssumption DEF Depth
<1>2. \A d \in Nat \ {0}, i \in Nat : i < d => i % d = i /\ (i + d) % d = i
  OBVIOUS
<1> QED BY <1>1, <1>2

LEMMA EntityInType ==
  \A k \in Kinds, n \in Nat, b \in BOOLEAN : Entity(k, n, b) \in EntityType
BY DEF Entity, EntityType, Kinds

LEMMA WrittenType ==
  ASSUME NEW h \in RingType, NEW s \in SampleType
  PROVE  Written(h, s) \in RingType
<1> DEFINE next == IF h.count = 0 THEN 0 ELSE (h.head + 1) % Depth
<1>1. h.head \in 0 .. LagComp /\ h.count \in 0 .. Depth /\ h.samples \in [0 .. LagComp -> SampleType]
  BY DEF RingType
<1>2. next \in 0 .. LagComp
  <2>1. \A d \in Nat \ {0}, i \in Nat : i % d \in 0 .. (d - 1)
    OBVIOUS
  <2>2. (h.head + 1) % Depth \in 0 .. LagComp
    <3>1. h.head + 1 \in Nat
      BY <1>1, SimAssumption
    <3>2. (h.head + 1) % Depth \in 0 .. (Depth - 1)
      BY <2>1, <3>1, Wraps
    <3>3. Depth - 1 = LagComp
      BY SimAssumption DEF Depth
    <3> QED BY <3>2, <3>3
  <2>3. 0 \in 0 .. LagComp
    BY SimAssumption
  <2> QED BY <2>2, <2>3
<1>3. (IF h.count < Depth THEN h.count + 1 ELSE h.count) \in 0 .. Depth
  <2>1. \A d \in Nat : \A c \in 0 .. d : (IF c < d THEN c + 1 ELSE c) \in 0 .. d
    OBVIOUS
  <2> QED BY <1>1, <2>1, Wraps
<1>4. [h.samples EXCEPT ![next] = s] \in [0 .. LagComp -> SampleType]
  BY <1>1, <1>2
<1> QED BY <1>2, <1>3, <1>4 DEF Written, RingType

LEMMA RingConstants == EmptyRing \in RingType /\ NoSample \in SampleType
<1>1. NoSample \in SampleType
  BY DEF NoSample, SampleType, Kinds
<1>2. 0 \in 0 .. LagComp /\ 0 \in 0 .. Depth
  BY SimAssumption, Wraps
<1> QED BY <1>1, <1>2 DEF EmptyRing, RingType

LEMMA NewShotType ==
  ASSUME SimTypeOK, NEW e \in ID, NEW by \in Nat, NEW owt \in Owts, NewShot(e, by, owt)
  PROVE  /\ slab' \in [ID -> EntityType]
         /\ shot' \in [ID -> [shooter : Nat, owt : Owts, life : 0 .. Lifetime]]
<1>1. Entity("projectile", 1, FALSE) \in EntityType
  BY EntityInType DEF Kinds
<1>2. [shooter |-> by, owt |-> owt, life |-> Lifetime]
         \in [shooter : Nat, owt : Owts, life : 0 .. Lifetime]
  BY SimAssumption
<1> QED BY <1>1, <1>2 DEF SimTypeOK, NewShot

LEMMA KillType ==
  ASSUME SimTypeOK, NEW e \in ID, NEW by
  PROVE  KillEntity(e, by) \in [Players -> RecordType]
<1> USE DEF RecordType
<1>1. record \in [Players -> RecordType] /\ tick \in Nat
  BY DEF SimTypeOK
<1>2. Reward(slab[e].kind) \in Int
  BY DEF Reward
<1>3. AwardKill(by, slab[e].kind) \in [Players -> RecordType]
  <2>1. CASE by \in Players /\ record[by].known
    <3>1. [record[by] EXCEPT !.score = @ + Reward(slab[e].kind)] \in RecordType
      BY <1>1, <1>2, <2>1
    <3>2. AwardKill(by, slab[e].kind)
            = [record EXCEPT ![by] = [record[by] EXCEPT !.score = @ + Reward(slab[e].kind)]]
      BY <1>1, <2>1 DEF AwardKill
    <3> QED BY <1>1, <3>1, <3>2
  <2>2. CASE ~(by \in Players /\ record[by].known)
    BY <1>1, <2>2 DEF AwardKill
  <2> QED BY <2>1, <2>2
<1>4. ASSUME NEW r \in RecordType PROVE Died(r) \in RecordType
  <2>1. Down(r.lives) \in 0 .. StartLives
    BY DownType, SimAssumption
  <2>2. r.score - DeathPenalty \in Int /\ tick + RespawnTimer \in Nat /\ 0 \in 0 .. FireCooldown
    BY <1>1, SimAssumption DEF DeathPenalty
  <2>3. (r.eliminated \/ Down(r.lives) = 0) \in BOOLEAN
    BY Zenon
  <2> QED BY <2>1, <2>2, <2>3 DEF Died
<1> QED BY <1>3, <1>4 DEF KillEntity


-----------------------------------------------------------------------------
(* Types.                                                                  *)

LEMMA InitType == Init => SimTypeOK
<1> SUFFICES ASSUME Init PROVE SimTypeOK
  OBVIOUS
<1>1. slab \in [ID -> EntityType]
  <2>1. Free \in EntityType
    BY DEF Free, EntityType
  <2>2. Entity("player", 1, TRUE) \in EntityType /\ Entity("generator", GeneratorHP, FALSE) \in EntityType
    BY EntityInType, SimAssumption DEF Kinds
  <2> QED BY <2>1, <2>2 DEF Init
<1>2. record \in [Players -> RecordType]
  <2>1. [Unknown EXCEPT !.known = TRUE, !.lives = StartLives, !.invulnUntil = PlayerInvuln]
          \in RecordType
    <3>1. Unknown \in RecordType
      BY SimAssumption DEF Unknown, RecordType
    <3>2. StartLives \in 0 .. StartLives /\ PlayerInvuln \in Nat
      BY SimAssumption
    <3>3. \A r \in RecordType : \A n \in 0 .. StartLives, u \in Nat :
            [r EXCEPT !.known = TRUE, !.lives = n, !.invulnUntil = u] \in RecordType
      BY DEF RecordType
    <3> QED BY <3>1, <3>2, <3>3
  <2> QED BY <2>1 DEF Init
<1>3. NoShot \in [shooter : Nat, owt : Owts, life : 0 .. Lifetime]
  BY SimAssumption DEF NoShot
<1>4. NoSnipe \in [born : Nat, cooldown : 0 .. SnipeCooldown]
  BY SimAssumption DEF NoSnipe
<1>5. nextID \in FirstID .. MaxID
  BY SimAssumption DEF Init
<1>6. spawned \in [ID -> Nat] /\ lastShot \in [Players -> Int]
  BY DEF Init
<1>7. /\ shot \in [ID -> [shooter : Nat, owt : Owts, life : 0 .. Lifetime]]
      /\ snipe \in [ID -> [born : Nat, cooldown : 0 .. SnipeCooldown]]
      /\ ring \in [ID -> RingType]
  BY <1>3, <1>4, RingConstants DEF Init
<1>8. /\ tick \in Nat /\ quiesced \in BOOLEAN /\ todo \subseteq ID
      /\ phase \in {"idle", "snipes", "generators", "projectiles", "fire", "respawn", "failed"}
  BY DEF Init
<1> QED BY <1>1, <1>2, <1>5, <1>6, <1>7, <1>8 DEF SimTypeOK

LEMMA TypeStep ==
  ASSUME SimTypeOK, [Next]_vars
  PROVE  SimTypeOK'
<1> USE DEF SimTypeOK
<1>0. /\ tick \in Nat /\ nextID \in FirstID .. MaxID /\ FirstID \in Nat \ {0} /\ MaxID \in Nat
      /\ nextID \in ID /\ Players \subseteq ID
  BY SimAssumption DEF ID
<1>1. CASE BeginTick
  <2>1. record' \in [Players -> RecordType]
    <3>1. \A p \in Players : [record[p] EXCEPT !.cooldown = Down(@)] \in RecordType
      BY DownType, SimAssumption DEF RecordType
    <3> QED BY <1>1, <3>1 DEF BeginTick
  <2> QED BY <1>0, <1>1, <2>1 DEF BeginTick, Living
<1>2. CASE Quiesce
  BY <1>2 DEF Quiesce, world
<1>3. CASE SnipesDone
  BY <1>3 DEF SnipesDone, world, Living
<1>4. CASE WriteHistory
  <2>1. \A e \in ID : Written(ring[e], Sample(tick, e)) \in RingType
    <3>1. \A e \in ID : Sample(tick, e) \in SampleType
      BY <1>0 DEF Sample, SampleType, EntityType
    <3> QED BY <3>1, WrittenType
  <2>2. ring' \in [ID -> RingType]
    BY <1>4, <2>1, RingConstants DEF WriteHistory
  <2> QED BY <1>4, <2>2 DEF WriteHistory, OfKind
<1>5. CASE AgeProjectiles
  <2>1. slab' \in [ID -> EntityType]
    BY <1>5 DEF AgeProjectiles, Free, EntityType
  <2>2. shot' \in [ID -> [shooter : Nat, owt : Owts, life : 0 .. Lifetime]]
    <3>1. \A e \in ID : [shot[e] EXCEPT !.life = Down(@)]
                           \in [shooter : Nat, owt : Owts, life : 0 .. Lifetime]
      BY DownType, SimAssumption
    <3>2. NoShot \in [shooter : Nat, owt : Owts, life : 0 .. Lifetime]
      BY SimAssumption DEF NoShot
    <3> QED BY <1>5, <3>1, <3>2 DEF AgeProjectiles
  <2> QED BY <1>5, <2>1, <2>2 DEF AgeProjectiles, Living
<1>6. CASE EndTick
  <2>1. slab' \in [ID -> EntityType]
    BY <1>6 DEF EndTick, Free, EntityType
  <2>2. record' \in [Players -> RecordType]
    BY <1>6 DEF EndTick, RecordType
  <2>3. snipe' \in [ID -> [born : Nat, cooldown : 0 .. SnipeCooldown]]
    BY <1>6, SimAssumption DEF EndTick, NoSnipe
  <2> QED BY <1>6, <2>1, <2>2, <2>3 DEF EndTick
<1>7. ASSUME NEW e \in todo, SnipeIdles(e) PROVE SimTypeOK'
  <2>1. snipe' \in [ID -> [born : Nat, cooldown : 0 .. SnipeCooldown]]
    <3>1. [snipe[e] EXCEPT !.cooldown = Down(@)] \in [born : Nat, cooldown : 0 .. SnipeCooldown]
      BY DownType, SimAssumption
    <3>2. snipe' = [snipe EXCEPT ![e] = [snipe[e] EXCEPT !.cooldown = Down(@)]]
      BY <1>7 DEF SnipeIdles
    <3> QED BY <3>1, <3>2
  <2>2. slab' \in [ID -> EntityType]
    BY <1>7 DEF SnipeIdles, EntityType
  <2> QED BY <1>7, <2>1, <2>2 DEF SnipeIdles
<1>8. ASSUME NEW e \in todo, SnipeFires(e) PROVE SimTypeOK'
  <2>1. e \in Nat
    BY SimAssumption DEF ID
  <2>2. snipe' \in [ID -> [born : Nat, cooldown : 0 .. SnipeCooldown]]
    <3>1. \A n \in 0 .. SnipeCooldown :
            [snipe[e] EXCEPT !.cooldown = n] \in [born : Nat, cooldown : 0 .. SnipeCooldown]
      OBVIOUS
    <3>2. \E n \in 0 .. SnipeCooldown : snipe' = [snipe EXCEPT ![e] = [snipe[e] EXCEPT !.cooldown = n]]
      BY <1>8, SimAssumption DEF SnipeFires
    <3> QED BY <3>1, <3>2
  <2>3. CASE HasID
    <3>1. NewShot(nextID, e, 0) /\ nextID' = nextID + 1 /\ quiesced' = quiesced
      BY <1>8, <2>3 DEF SnipeFires
    <3>2. nextID' \in FirstID .. MaxID
      BY <1>0, <2>3, <3>1 DEF HasID
    <3>3. /\ slab' \in [ID -> EntityType]
          /\ shot' \in [ID -> [shooter : Nat, owt : Owts, life : 0 .. Lifetime]]
      BY <1>0, <2>1, <3>1, NewShotType, SimAssumption
    <3> QED BY <1>8, <2>2, <3>1, <3>2, <3>3 DEF SnipeFires
  <2>4. CASE ~HasID
    BY <1>8, <2>2, <2>4 DEF SnipeFires
  <2> QED BY <2>3, <2>4
<1>9. ASSUME NEW g \in todo, GeneratorWaits(g) PROVE SimTypeOK'
  BY <1>9 DEF GeneratorWaits, world
<1>10. ASSUME NEW g \in todo, GeneratorEmits(g) PROVE SimTypeOK'
  <2>1. nextID' \in FirstID .. MaxID
    BY <1>0, <1>10 DEF GeneratorEmits, HasID
  <2>2. slab' \in [ID -> EntityType]
    <3>1. Entity("snipe", 1, TRUE) \in EntityType
      BY EntityInType DEF Kinds
    <3> QED BY <1>10, <3>1 DEF GeneratorEmits
  <2>3. snipe' \in [ID -> [born : Nat, cooldown : 0 .. SnipeCooldown]]
    <3>1. [born |-> tick, cooldown |-> 0] \in [born : Nat, cooldown : 0 .. SnipeCooldown]
      BY <1>0, SimAssumption
    <3> QED BY <1>0, <1>10, <3>1 DEF GeneratorEmits
  <2>4. spawned' \in [ID -> Nat]
    <3>1. spawned' = [spawned EXCEPT ![nextID] = spawned[nextID] + 1] \/ spawned' = spawned
      BY <1>10 DEF GeneratorEmits
    <3>2. spawned \in [ID -> Nat] /\ spawned[nextID] + 1 \in Nat
      BY <1>0
    <3> HIDE DEF SimTypeOK
    <3> QED BY <3>1, <3>2
  <2> QED BY <1>10, <2>1, <2>2, <2>3, <2>4 DEF GeneratorEmits
<1>11. ASSUME NEW p \in todo, FliesOn(p) \/ HoldsFire(p) PROVE SimTypeOK'
  BY <1>11 DEF FliesOn, HoldsFire, world
<1>12. ASSUME NEW p \in todo, HitsWall(p) PROVE SimTypeOK'
  <2>1. NoShot \in [shooter : Nat, owt : Owts, life : 0 .. Lifetime]
    BY SimAssumption DEF NoShot
  <2> QED BY <1>12, <2>1 DEF HitsWall, Free, EntityType
<1>13. ASSUME NEW p \in todo, NEW e \in ID, Hits(p, e) PROVE SimTypeOK'
  <2>1. shot' \in [ID -> [shooter : Nat, owt : Owts, life : 0 .. Lifetime]]
    BY <1>13, SimAssumption DEF Hits, NoShot
  <2>2. record' \in [Players -> RecordType]
    BY <1>13, KillType DEF Hits
  <2>3. slab' \in [ID -> EntityType]
    <3>1. Dies(e) \in BOOLEAN /\ (slab[e].invuln /\ ~Dies(e)) \in BOOLEAN
      BY DEF Dies
    <3>2. Hurts(e) => slab[e].hp - 1 \in Nat
      BY DEF Hurts, EntityType
    <3>3. Hurts(e) => [slab[e] EXCEPT !.hp = @ - 1, !.dead = Dies(e),
                                      !.invuln = @ /\ ~Dies(e)] \in EntityType
      BY <3>1, <3>2 DEF EntityType
    <3>4. Free \in EntityType
      BY DEF Free, EntityType
    <3> QED BY <1>13, <3>3, <3>4 DEF Hits
  <2>4. lastShot' \in [Players -> Int]
    BY <1>13 DEF Hits
  <2> QED BY <1>13, <2>1, <2>2, <2>3, <2>4 DEF Hits
<1>14. ASSUME NEW p \in todo, NEW owt \in Owts, Fires(p, owt) PROVE SimTypeOK'
  <2>1. p \in Nat
    BY SimAssumption DEF ID
  <2>2. CASE HasID
    <3>1. NewShot(nextID, p, owt) /\ nextID' = nextID + 1
      BY <1>14, <2>2 DEF Fires
    <3>2. nextID' \in FirstID .. MaxID
      BY <1>0, <2>2, <3>1 DEF HasID
    <3>3. /\ slab' \in [ID -> EntityType]
          /\ shot' \in [ID -> [shooter : Nat, owt : Owts, life : 0 .. Lifetime]]
      BY <1>0, <2>1, <3>1, NewShotType
    <3>4. record' \in [Players -> RecordType]
      <4>1. p \in Players => [record[p] EXCEPT !.cooldown = FireCooldown] \in RecordType
        <5>1. FireCooldown \in 0 .. FireCooldown
          BY SimAssumption
        <5> QED BY <5>1 DEF RecordType
      <4> QED BY <1>14, <2>2, <4>1 DEF Fires, Armed
    <3>5. lastShot' \in [Players -> Int]
      BY <1>0, <1>14, <2>2 DEF Fires
    <3> QED BY <1>14, <2>2, <3>2, <3>3, <3>4, <3>5 DEF Fires
  <2>3. CASE ~HasID
    BY <1>14, <2>3 DEF Fires
  <2> QED BY <2>2, <2>3
<1>15. ASSUME NEW placed \in SUBSET Due, Respawn(placed) PROVE SimTypeOK'
  <2>1. slab' \in [ID -> EntityType]
    <3>1. Entity("player", 1, TRUE) \in EntityType
      BY EntityInType DEF Kinds
    <3> QED BY <1>15, <3>1 DEF Respawn
  <2>2. record' \in [Players -> RecordType]
    <3>1. \A r \in RecordType : Defer(r) \in RecordType
      <4>1. tick + 1 \in Nat
        BY <1>0
      <4> QED BY <4>1 DEF RecordType, Defer
    <3>2. \A r \in RecordType :
            [r EXCEPT !.cooldown = 0, !.respawnAt = 0, !.invulnUntil = tick + PlayerInvuln] \in RecordType
      <4>1. tick + PlayerInvuln \in Nat /\ 0 \in 0 .. FireCooldown
        BY <1>0, SimAssumption
      <4> QED BY <4>1 DEF RecordType
    <3> QED BY <1>15, <3>1, <3>2 DEF Respawn
  <2>3. ring' \in [ID -> RingType]
    <3>1. \A h \in RingType : ResetRing(h) \in RingType
      <4>1. 0 \in 0 .. LagComp /\ 0 \in 0 .. Depth
        BY Wraps, SimAssumption
      <4> QED BY <4>1 DEF ResetRing, RingType
    <3> QED BY <1>15, <3>1 DEF Respawn
  <2>4. spawned' \in [ID -> Nat]
    <3>1. \A p \in ID : spawned[p] + 1 \in Nat
      OBVIOUS
    <3> QED BY <1>15, <3>1 DEF Respawn
  <2> QED BY <1>15, <2>1, <2>2, <2>3, <2>4 DEF Respawn
<1>16. ASSUME NEW p \in Players, FreezePlayer(p) PROVE SimTypeOK'
  BY <1>16, SimAssumption DEF FreezePlayer, RecordType
<1>17. ASSUME NEW p \in Players, RemovePlayer(p) PROVE SimTypeOK'
  <2>1. Free \in EntityType /\ Unknown \in RecordType
    BY SimAssumption DEF Free, EntityType, Unknown, RecordType
  <2> QED BY <1>17, <2>1 DEF RemovePlayer
<1>18. CASE UNCHANGED vars
  BY <1>18 DEF vars
<1> HIDE DEF SimTypeOK
<1> QED BY <1>1, <1>2, <1>3, <1>4, <1>5, <1>6, <1>7, <1>8, <1>9, <1>10, <1>11, <1>12, <1>13,
           <1>14, <1>15, <1>16, <1>17, <1>18 DEF Next

(* Every part of the simulation keeps its type, until the ids run out and  *)
(* after.                                                                  *)
THEOREM SimTypeCorrect == Spec => []SimTypeOK
BY InitType, TypeStep, PTL DEF Spec

-----------------------------------------------------------------------------
(* Lives.  Which ticks a dead player's respawn may be due at depends on how *)
(* far the current tick has come: before the respawns it may be this one.  *)

Alive(p) == slab[p].kind = "player" /\ ~slab[p].dead
FirstDue == IF phase \in {"idle", "respawn"} THEN tick + 1 ELSE tick

LifeOf(p) ==
  /\ slab[p].kind = "player" \/ slab[p] = Free
  /\ slab[p].kind = "player" => record[p].known /\ slab[p].hp = IF slab[p].dead THEN 0 ELSE 1
  /\ record[p].known =>
       /\ record[p].eliminated <=> record[p].lives = 0
       /\ StartLives - record[p].lives = spawned[p] - (IF Alive(p) THEN 1 ELSE 0)
       /\ slab[p] = Free => record[p].eliminated
  /\ record[p].eliminated => ~Alive(p) /\ record[p].respawnAt = 0
  /\ slab[p].dead /\ ~record[p].eliminated => record[p].respawnAt \in FirstDue .. (tick + RespawnTimer)
  /\ phase = "idle" /\ slab[p].dead => ~record[p].eliminated

LifeInv ==
  /\ phase \notin {"idle", "failed"} => tick > 0
  /\ phase = "projectiles" => todo \cap Players = {}
  /\ \A p \in Players : LifeOf(p)

LEMMA PlayersFirst ==
  ASSUME SimTypeOK
  PROVE  \A p \in Players : p \in ID /\ p # nextID
BY SimAssumption DEF SimTypeOK, ID

(* A new entity is no player.                                              *)
LEMMA NewIsNoPlayer ==
  ASSUME SimTypeOK, NEW x, slab' = [slab EXCEPT ![nextID] = x]
  PROVE  \A p \in Players : slab'[p] = slab[p]
BY PlayersFirst DEF SimTypeOK

(* Steps that leave the lives of the players alone.                        *)
SameBody(p) ==
  /\ slab'[p].kind = slab[p].kind /\ slab'[p].dead = slab[p].dead
  /\ slab'[p].hp = slab[p].hp /\ (slab'[p] = Free <=> slab[p] = Free)

LEMMA LifeFrame ==
  ASSUME LifeInv, NEW p \in Players, SameBody(p), UNCHANGED <<tick, record, FirstDue>>,
         spawned'[p] = spawned[p], phase' = "idle" => phase = "idle"
  PROVE  LifeOf(p)'
<1>1. Alive(p)' <=> Alive(p)
  BY DEF Alive, SameBody
<1>2. LifeOf(p)
  BY DEF LifeInv
<1> QED BY <1>1, <1>2 DEF LifeOf, SameBody

LEMMA SamePasses ==
  /\ UNCHANGED <<tick, phase>> => UNCHANGED FirstDue /\ (phase' = "idle" => phase = "idle")
  /\ /\ UNCHANGED tick
     /\ phase \in {"snipes", "generators", "projectiles", "fire"}
     /\ phase' \in {"generators", "projectiles", "fire", "failed"}
     => UNCHANGED FirstDue /\ (phase' = "idle" => phase = "idle")
BY DEF FirstDue

(* Who is hit loses a life and is due, or is out.                          *)
LEMMA LifeLost ==
  ASSUME SimTypeOK, LifeInv, NEW p \in Players, NEW by, Alive(p), tick' = tick,
         spawned' = spawned, phase = "projectiles", phase' = phase,
         record' = KillEntity(p, by),
         slab'[p].kind = "player", slab'[p].dead, slab'[p].hp = 0
  PROVE  LifeOf(p)'
<1> USE DEF RecordType
<1>1. LifeOf(p) /\ record[p] \in RecordType /\ record[p].known /\ record[p].lives > 0
      /\ ~record[p].eliminated
  BY DEF LifeInv, LifeOf, Alive, SimTypeOK
<1>2. /\ record'[p].known /\ record'[p].lives = record[p].lives - 1
      /\ record'[p].eliminated <=> record'[p].lives = 0
      /\ record'[p].respawnAt = IF record'[p].lives = 0 THEN 0 ELSE tick + RespawnTimer
  <2>1. DEFINE r == AwardKill(by, slab[p].kind)[p]
  <2>2. /\ r.known /\ r.lives = record[p].lives /\ r.eliminated = record[p].eliminated
        /\ DOMAIN r = DOMAIN record[p]
    BY <1>1 DEF AwardKill, SimTypeOK
  <2>3. record'[p] = Died(r)
    BY <1>1 DEF KillEntity, AwardKill, SimTypeOK
  <2> QED BY <1>1, <2>2, <2>3 DEF Died, Down
<1>3. ~Alive(p)' /\ slab'[p] # Free
  BY DEF Alive, Free
<1>4. StartLives - record'[p].lives = spawned'[p] - 0
  <2>1. /\ StartLives - record[p].lives = spawned[p] - 1
        /\ StartLives \in Nat /\ record[p].lives \in Nat /\ spawned[p] \in Nat
    BY <1>1, PlayersFirst, SimAssumption DEF LifeOf, SimTypeOK
  <2> QED BY <1>2, <2>1
<1>5. record'[p].respawnAt \in FirstDue' .. (tick' + RespawnTimer) \/ record'[p].eliminated
  <2>1. FirstDue' = tick /\ tick' = tick /\ tick \in Nat /\ RespawnTimer \in Nat
    BY SimAssumption DEF FirstDue, SimTypeOK
  <2>2. CASE record'[p].lives = 0
    BY <1>2, <2>2
  <2>3. CASE record'[p].lives # 0
    <3>1. record'[p].respawnAt = tick + RespawnTimer
      BY <1>2, <2>3
    <3> QED BY <2>1, <3>1
  <2> QED BY <2>2, <2>3
<1> QED BY <1>2, <1>3, <1>4, <1>5 DEF LifeOf

(* A kill only pays whoever else fired.                                    *)
LEMMA LifePaid ==
  ASSUME SimTypeOK, NEW p \in Players, NEW e \in ID, p # e, NEW by
  PROVE  /\ KillEntity(e, by)[p].known = record[p].known
         /\ KillEntity(e, by)[p].lives = record[p].lives
         /\ KillEntity(e, by)[p].eliminated = record[p].eliminated
         /\ KillEntity(e, by)[p].respawnAt = record[p].respawnAt
         /\ KillEntity(e, by)[p].cooldown = record[p].cooldown
BY DEF KillEntity, AwardKill, SimTypeOK, RecordType


LEMMA LifeInit == Init => LifeInv
<1> SUFFICES ASSUME Init, NEW p \in Players PROVE LifeOf(p) /\ phase = "idle"
  BY DEF LifeInv, Init
<1>1. p \in ID
  BY SimAssumption DEF ID
<1>2. slab[p] = Entity("player", 1, TRUE)
  BY <1>1 DEF Init
<1>3. record[p] = [Unknown EXCEPT !.known = TRUE, !.lives = StartLives, !.invulnUntil = PlayerInvuln]
  BY DEF Init
<1>4. slab[p].kind = "player" /\ ~slab[p].dead /\ slab[p].hp = 1 /\ slab[p] # Free
  BY <1>2 DEF Entity, Free
<1>5. /\ record[p].known /\ record[p].lives = StartLives /\ ~record[p].eliminated
      /\ spawned[p] = 1 /\ phase = "idle"
  BY <1>1, <1>3 DEF Init, Unknown
<1> QED BY <1>4, <1>5, SimAssumption DEF LifeOf, Alive

LEMMA LifeStep ==
  ASSUME SimTypeOK, SimTypeOK', LifeInv, [Next]_vars
  PROVE  LifeInv'
<1>0. /\ tick \in Nat /\ RespawnTimer \in Nat \ {0} /\ \A p \in Players : p \in ID /\ p # nextID
      /\ slab \in [ID -> EntityType] /\ record \in [Players -> RecordType]
      /\ spawned \in [ID -> Nat] /\ todo \subseteq ID /\ nextID \in ID
  <2>1. nextID \in ID
    BY SimAssumption DEF SimTypeOK, ID
  <2> QED BY <2>1, PlayersFirst, SimAssumption DEF SimTypeOK
<1>1. ASSUME UNCHANGED <<tick, phase, record>>, todo' \subseteq todo,
             \A p \in Players : SameBody(p) /\ spawned'[p] = spawned[p]
      PROVE  LifeInv'
  <2>1. \A p \in Players : LifeOf(p)'
    BY <1>1, SamePasses, LifeFrame
  <2> QED BY <1>1, <2>1 DEF LifeInv
<1>2. ASSUME slab' = slab PROVE \A p \in Players : SameBody(p)
  BY <1>2 DEF SameBody
<1>3. CASE BeginTick
  <2> SUFFICES ASSUME NEW p \in Players PROVE LifeOf(p)'
    BY <1>0, <1>3 DEF BeginTick, LifeInv
  <2>1. LifeOf(p) /\ slab' = slab /\ spawned' = spawned /\ tick' = tick + 1 /\ phase = "idle"
        /\ phase' = "snipes"
    BY <1>3 DEF BeginTick, LifeInv
  <2>2. /\ record'[p].known = record[p].known /\ record'[p].lives = record[p].lives
        /\ record'[p].eliminated = record[p].eliminated /\ record'[p].respawnAt = record[p].respawnAt
    BY <1>0, <1>3 DEF BeginTick, RecordType
  <2>3. FirstDue = tick + 1 /\ FirstDue' = tick + 1
    BY <2>1 DEF FirstDue
  <2>4. \A n \in FirstDue .. (tick + RespawnTimer) : n \in FirstDue' .. (tick' + RespawnTimer)
    BY <1>0, <2>1, <2>3
  <2> QED BY <2>1, <2>2, <2>4 DEF LifeOf, Alive
<1>4. CASE Quiesce
  <2> SUFFICES ASSUME NEW p \in Players PROVE LifeOf(p)'
    BY <1>4 DEF Quiesce, LifeInv
  <2>1. /\ LifeOf(p) /\ UNCHANGED <<slab, record, spawned, tick>> /\ phase' = "failed"
        /\ FirstDue = tick + 1 /\ FirstDue' = tick
    BY <1>4 DEF Quiesce, world, LifeInv, FirstDue
  <2>2. \A n \in FirstDue .. (tick + RespawnTimer) : n \in FirstDue' .. (tick' + RespawnTimer)
    BY <1>0, <2>1
  <2> QED BY <2>1, <2>2 DEF LifeOf, Alive
<1>5. ASSUME NEW e \in todo, SnipeIdles(e) PROVE LifeInv'
  <2>1. UNCHANGED <<tick, phase, record, spawned>> /\ todo' \subseteq todo
    BY <1>5 DEF SnipeIdles
  <2>2. \A p \in Players : SameBody(p)
    <3>1. CASE slab' = slab
      BY <1>2, <3>1
    <3>2. CASE slab' = [slab EXCEPT ![e].invuln = FALSE] /\ slab[e].invuln
      <4> SUFFICES ASSUME NEW p \in Players PROVE SameBody(p)
        OBVIOUS
      <4>1. CASE p = e
        <5>1. slab[p].kind = "player"
          BY <3>2, <4>1 DEF LifeInv, LifeOf, Free
        <5>2. slab'[p] = [slab[p] EXCEPT !.invuln = FALSE]
          BY <1>0, <3>2, <4>1
        <5> QED BY <1>0, <5>1, <5>2 DEF SameBody, EntityType, Free
      <4>2. CASE p # e
        BY <1>0, <3>2, <4>2 DEF SameBody
      <4> QED BY <4>1, <4>2
    <3> QED BY <1>5, <3>1, <3>2 DEF SnipeIdles
  <2> QED BY <1>1, <2>1, <2>2
<1>6. ASSUME NEW e \in todo, SnipeFires(e) PROVE LifeInv'
  <2>1. UNCHANGED <<tick, phase, record, spawned>> /\ todo' \subseteq todo
    BY <1>6 DEF SnipeFires
  <2>2. slab' = slab \/ \E x : slab' = [slab EXCEPT ![nextID] = x]
    BY <1>6 DEF SnipeFires, NewShot
  <2> QED BY <1>1, <2>1, <2>2, NewIsNoPlayer DEF SameBody
<1>7. CASE SnipesDone
  <2>1. UNCHANGED <<tick, slab, record, spawned>> /\ phase = "snipes" /\ phase' = "generators"
    BY <1>7 DEF SnipesDone, world
  <2>2. \A p \in Players : LifeOf(p)'
    BY <1>2, <2>1, SamePasses, LifeFrame
  <2> QED BY <2>1, <2>2 DEF LifeInv
<1>8. ASSUME NEW e \in todo, GeneratorWaits(e) \/ FliesOn(e) \/ HoldsFire(e) PROVE LifeInv'
  <2>1. UNCHANGED <<tick, phase, slab, record, spawned>> /\ todo' \subseteq todo
    BY <1>8 DEF GeneratorWaits, FliesOn, HoldsFire, world
  <2> QED BY <1>1, <1>2, <2>1
<1>9. ASSUME NEW e \in todo, GeneratorEmits(e) PROVE LifeInv'
  <2>1. UNCHANGED <<tick, phase, record>> /\ todo' \subseteq todo
        /\ \A p \in Players : spawned'[p] = spawned[p]
    BY <1>0, <1>9 DEF GeneratorEmits
  <2>2. slab' = slab \/ \E x : slab' = [slab EXCEPT ![nextID] = x]
    BY <1>9 DEF GeneratorEmits
  <2> QED BY <1>1, <2>1, <2>2, NewIsNoPlayer DEF SameBody
<1>10. CASE WriteHistory
  <2>1. UNCHANGED <<tick, slab, record, spawned>> /\ phase = "generators" /\ phase' = "projectiles"
    BY <1>10 DEF WriteHistory
  <2>2. \A p \in Players : LifeOf(p)'
    BY <1>2, <2>1, SamePasses, LifeFrame
  <2>3. \A p \in Players : slab[p].kind # "projectile"
    BY DEF LifeInv, LifeOf, Free
  <2>4. todo' \cap Players = {}
    BY <1>10, <2>3 DEF WriteHistory, OfKind
  <2> QED BY <2>1, <2>2, <2>4 DEF LifeInv
<1>11. ASSUME NEW e \in todo, HitsWall(e) PROVE LifeInv'
  <2>1. UNCHANGED <<tick, phase, record, spawned>> /\ todo' \subseteq todo /\ e \notin Players
    BY <1>11 DEF HitsWall, Visit, LifeInv
  <2>2. \A p \in Players : SameBody(p)
    BY <1>0, <1>11, <2>1 DEF HitsWall, SameBody
  <2> QED BY <1>1, <2>1, <2>2
<1>12. ASSUME NEW q \in todo, NEW e \in ID, Hits(q, e) PROVE LifeInv'
  <2>1. /\ UNCHANGED <<tick, phase, spawned>> /\ todo' \subseteq todo /\ q \notin Players
        /\ phase = "projectiles"
    BY <1>12 DEF Hits, Visit, LifeInv
  <2> SUFFICES ASSUME NEW p \in Players PROVE LifeOf(p)'
    BY <2>1 DEF LifeInv
  <2>2. LifeOf(p)
    BY DEF LifeInv
  <2>3. CASE p = e /\ Dies(e)
    <3>1. Alive(p) /\ slab[p].hp = 1
      BY <2>2, <2>3 DEF LifeOf, Dies, Hurts, Alive, Free
    <3>2. /\ slab'[p].kind = "player" /\ slab'[p].dead /\ slab'[p].hp = 0
      <4>1. slab'[p] = [slab[p] EXCEPT !.hp = @ - 1, !.dead = Dies(e), !.invuln = @ /\ ~Dies(e)]
        BY <1>0, <1>12, <2>1, <2>3 DEF Hits, Dies
      <4> QED BY <1>0, <2>3, <3>1, <4>1 DEF Alive, EntityType
    <3> QED BY <1>12, <2>1, <2>3, <3>1, <3>2, LifeLost DEF Hits
  <2>4. CASE p = e /\ ~Dies(e)
    <3>1. ~Hurts(p)
      BY <2>2, <2>4 DEF LifeOf, Dies, Hurts, Free
    <3>2. slab'[p] = slab[p] /\ record' = record
      BY <1>0, <1>12, <2>1, <2>4, <3>1 DEF Hits
    <3> QED BY <2>1, <3>2, SamePasses, LifeFrame DEF SameBody
  <2>5. CASE p # e
    <3>1. slab'[p] = slab[p]
      BY <1>0, <1>12, <2>1, <2>5 DEF Hits
    <3>2. /\ record'[p].known = record[p].known /\ record'[p].lives = record[p].lives
          /\ record'[p].eliminated = record[p].eliminated
          /\ record'[p].respawnAt = record[p].respawnAt
      BY <1>12, <2>5, LifePaid DEF Hits
    <3>3. FirstDue' = FirstDue /\ (phase' = "idle" => phase = "idle")
      BY <2>1, SamePasses
    <3> QED BY <2>1, <2>2, <3>1, <3>2, <3>3 DEF LifeOf, Alive
  <2> QED BY <2>3, <2>4, <2>5
<1>13. CASE AgeProjectiles
  <2>1. UNCHANGED <<tick, record, spawned>> /\ phase = "projectiles" /\ phase' = "fire"
    BY <1>13 DEF AgeProjectiles
  <2>2. \A p \in Players : SameBody(p)
    <3>1. \A p \in Players : slab[p].kind # "projectile"
      BY DEF LifeInv, LifeOf, Free
    <3> QED BY <1>0, <1>13, <3>1 DEF AgeProjectiles, Expired, SameBody
  <2>3. \A p \in Players : LifeOf(p)'
    BY <2>1, <2>2, SamePasses, LifeFrame
  <2> QED BY <2>1, <2>3 DEF LifeInv
<1>14. ASSUME NEW q \in todo, NEW owt \in Owts, Fires(q, owt) PROVE LifeInv'
  <2>1. UNCHANGED <<tick, spawned>> /\ phase = "fire" /\ phase' \in {"fire", "failed"}
    BY <1>14 DEF Fires, Visit
  <2> SUFFICES ASSUME NEW p \in Players PROVE LifeOf(p)'
    BY <2>1 DEF LifeInv
  <2>2. slab'[p] = slab[p]
    BY <1>14, NewIsNoPlayer DEF Fires, NewShot
  <2>3. /\ record'[p].known = record[p].known /\ record'[p].lives = record[p].lives
        /\ record'[p].eliminated = record[p].eliminated
        /\ record'[p].respawnAt = record[p].respawnAt
    BY <1>0, <1>14 DEF Fires, RecordType
  <2>4. FirstDue' = FirstDue /\ phase' # "idle" /\ LifeOf(p)
    BY <2>1, SamePasses DEF LifeInv
  <2> QED BY <2>1, <2>2, <2>3, <2>4 DEF LifeOf, Alive
<1>15. ASSUME NEW placed \in SUBSET Due, Respawn(placed) PROVE LifeInv'
  <2>1. UNCHANGED tick /\ phase = "fire" /\ phase' = "respawn" /\ tick > 0
    BY <1>15 DEF Respawn, LifeInv
  <2> SUFFICES ASSUME NEW p \in Players PROVE LifeOf(p)'
    BY <2>1 DEF LifeInv
  <2>2. LifeOf(p) /\ FirstDue = tick /\ FirstDue' = tick + 1
    BY <2>1 DEF LifeInv, FirstDue
  <2>3. record[p] \in RecordType
    BY <1>0
  <2>4. CASE p \in placed
    <3>1. slab[p].kind = "player" /\ slab[p].dead /\ ~record[p].eliminated /\ record[p].known
      BY <2>1, <2>2, <2>4 DEF Due, LifeOf
    <3>2. slab'[p] = Entity("player", 1, TRUE) /\ spawned'[p] = spawned[p] + 1
      BY <1>0, <1>15, <2>4 DEF Respawn
    <3>3. /\ record'[p].known /\ record'[p].lives = record[p].lives
          /\ record'[p].eliminated = record[p].eliminated
      BY <1>15, <2>3, <2>4, <3>1 DEF Respawn, RecordType
    <3>4. slab'[p].kind = "player" /\ ~slab'[p].dead /\ slab'[p].hp = 1 /\ slab'[p] # Free
      BY <3>2 DEF Entity, Free
    <3>5. ~Alive(p) /\ Alive(p)' /\ spawned[p] \in Nat /\ StartLives \in Nat /\ record[p].lives \in Nat
      BY <1>0, <3>1, <3>4, SimAssumption DEF Alive, RecordType
    <3>6. StartLives - record'[p].lives = spawned'[p] - 1
      BY <2>2, <3>1, <3>2, <3>3, <3>5 DEF LifeOf
    <3> QED BY <2>1, <2>2, <3>1, <3>3, <3>4, <3>5, <3>6 DEF LifeOf
  <2>5. CASE p \in Due \ placed
    <3>1. slab'[p] = slab[p] /\ spawned'[p] = spawned[p] /\ record'[p] = Defer(record[p])
      BY <1>0, <1>15, <2>5 DEF Respawn
    <3>2. /\ record'[p].known = record[p].known /\ record'[p].lives = record[p].lives
          /\ record'[p].eliminated = record[p].eliminated
          /\ record'[p].respawnAt = tick + 1
      BY <2>3, <3>1 DEF Defer, RecordType
    <3>3. ~record[p].eliminated
      BY <2>1, <2>2, <2>5 DEF Due, LifeOf
    <3>4. tick + 1 \in FirstDue' .. (tick' + RespawnTimer)
      BY <1>0, <2>1, <2>2
    <3> QED BY <2>1, <2>2, <3>1, <3>2, <3>3, <3>4 DEF LifeOf, Alive
  <2>6. CASE p \notin Due /\ p \notin placed
    <3>1. slab'[p] = slab[p] /\ spawned'[p] = spawned[p] /\ record'[p] = record[p]
      BY <1>0, <1>15, <2>6 DEF Respawn
    <3>2. slab[p].dead => record[p].respawnAt # tick
      BY <2>2, <2>6 DEF Due, LifeOf, Free
    <3>3. slab[p].dead /\ ~record[p].eliminated => record[p].respawnAt \in FirstDue' .. (tick' + RespawnTimer)
      BY <1>0, <2>1, <2>2, <3>2 DEF LifeOf
    <3> QED BY <2>1, <2>2, <3>1, <3>3 DEF LifeOf, Alive
  <2> QED BY <2>4, <2>5, <2>6
<1>16. CASE EndTick
  <2>1. UNCHANGED <<tick, spawned>> /\ phase = "respawn" /\ phase' = "idle"
    BY <1>16 DEF EndTick
  <2> SUFFICES ASSUME NEW p \in Players PROVE LifeOf(p)'
    BY <2>1 DEF LifeInv
  <2>2. LifeOf(p) /\ FirstDue = tick + 1 /\ FirstDue' = tick + 1
    BY <2>1 DEF LifeInv, FirstDue
  <2>3. /\ record'[p].known = record[p].known /\ record'[p].lives = record[p].lives
        /\ record'[p].eliminated = record[p].eliminated
        /\ record'[p].respawnAt = record[p].respawnAt
    BY <1>0, <1>16 DEF EndTick, RecordType
  <2>4. CASE p \in Garbage
    <3>1. slab'[p] = Free /\ slab[p].dead /\ record[p].eliminated
      BY <1>0, <1>16, <2>4 DEF EndTick, Garbage
    <3>2. ~Alive(p) /\ ~Alive(p)' /\ ~slab'[p].dead /\ slab'[p].kind # "player"
      BY <3>1 DEF Alive, Free
    <3> QED BY <2>1, <2>2, <2>3, <3>1, <3>2 DEF LifeOf
  <2>5. CASE p \notin Garbage
    <3>1. /\ slab'[p].kind = slab[p].kind /\ slab'[p].dead = slab[p].dead /\ slab'[p].hp = slab[p].hp
          /\ slab[p].kind = "player" => slab'[p] # Free
          /\ slab[p] = Free => slab'[p] = Free
      <4>1. slab'[p] = slab[p] \/ (slab[p].kind = "player" /\ slab'[p] = [slab[p] EXCEPT !.invuln = FALSE])
        BY <1>0, <1>16, <2>5 DEF EndTick, Elapsed
      <4> QED BY <1>0, <4>1 DEF EntityType, Free
    <3>2. slab[p].dead => ~record[p].eliminated
      BY <1>0, <2>2, <2>5 DEF Garbage, Occupied, LifeOf, Free
    <3> QED BY <2>1, <2>2, <2>3, <3>1, <3>2 DEF LifeOf, Alive
  <2> QED BY <2>4, <2>5
<1>17. ASSUME NEW q \in Players, FreezePlayer(q) PROVE LifeInv'
  <2>1. UNCHANGED <<tick, phase, todo, slab, spawned>>
    BY <1>17 DEF FreezePlayer
  <2> SUFFICES ASSUME NEW p \in Players PROVE LifeOf(p)'
    BY <2>1 DEF LifeInv
  <2>2. /\ record'[p].known = record[p].known /\ record'[p].lives = record[p].lives
        /\ record'[p].eliminated = record[p].eliminated
        /\ record'[p].respawnAt = record[p].respawnAt
    BY <1>0, <1>17 DEF FreezePlayer, RecordType
  <2>3. LifeOf(p) /\ FirstDue' = FirstDue
    BY <2>1, SamePasses DEF LifeInv
  <2> QED BY <2>1, <2>2, <2>3 DEF LifeOf, Alive
<1>18. ASSUME NEW q \in Players, RemovePlayer(q) PROVE LifeInv'
  <2>1. UNCHANGED <<tick, phase, todo, spawned>>
    BY <1>18 DEF RemovePlayer
  <2> SUFFICES ASSUME NEW p \in Players PROVE LifeOf(p)'
    BY <2>1 DEF LifeInv
  <2>2. LifeOf(p) /\ FirstDue' = FirstDue
    BY <2>1, SamePasses DEF LifeInv
  <2>3. CASE p = q
    <3>1. slab'[p] = Free /\ record'[p] = Unknown
      BY <1>0, <1>18, <2>3 DEF RemovePlayer
    <3> QED BY <3>1 DEF LifeOf, Alive, Free, Unknown
  <2>4. CASE p # q
    <3>1. slab'[p] = slab[p] /\ record'[p] = record[p]
      BY <1>0, <1>18, <2>4 DEF RemovePlayer
    <3> QED BY <2>1, <2>2, <3>1 DEF LifeOf, Alive
  <2> QED BY <2>3, <2>4
<1>19. CASE UNCHANGED vars
  BY <1>1, <1>2, <1>19 DEF vars
<1> QED BY <1>3, <1>4, <1>5, <1>6, <1>7, <1>8, <1>9, <1>10, <1>11, <1>12, <1>13, <1>14,
           <1>15, <1>16, <1>17, <1>18, <1>19 DEF Next

THEOREM LifeCorrect == Spec => []LifeInv
<1>1. SimTypeOK /\ SimTypeOK' /\ LifeInv /\ [Next]_vars => LifeInv'
  BY LifeStep
<1> QED BY <1>1, LifeInit, SimTypeCorrect, PTL DEF Spec

(* Between ticks every dead player is due at a tick to come: a respawn that *)
(* finds no tile, a death in any pass and an elimination included, no      *)
(* player is left behind by the comparison for equality.                   *)
THEOREM RespawnsAheadCorrect == Spec => []RespawnsAhead
<1>1. LifeInv => RespawnsAhead
  <2> SUFFICES ASSUME LifeInv, phase = "idle", NEW p \in Players
               PROVE  /\ slab[p].dead => /\ ~record[p].eliminated
                                         /\ record[p].respawnAt \in tick + 1 .. tick + RespawnTimer
                      /\ record[p].known => (record[p].eliminated <=> slab[p].kind = "free")
    BY DEF RespawnsAhead
  <2>1. LifeOf(p) /\ FirstDue = tick + 1
    BY DEF LifeInv, FirstDue
  <2> QED BY <2>1 DEF LifeOf, Alive, Free
<1> QED BY <1>1, LifeCorrect, PTL

(* Lives, entries into the world and eliminations add up in every state,   *)
(* also in the middle of a tick, whatever was hit twice in it.             *)
THEOREM OneLifeCorrect == Spec => []OneLifePerSpawn
<1>1. SimTypeOK /\ LifeInv => OneLifePerSpawn
  <2> SUFFICES ASSUME SimTypeOK, LifeInv, NEW p \in Players, record[p].known
               PROVE  /\ StartLives - record[p].lives
                            = spawned[p] - (IF p \in Living("player") THEN 1 ELSE 0)
                      /\ record[p].eliminated <=> record[p].lives = 0
    BY DEF OneLifePerSpawn
  <2>1. p \in Living("player") <=> Alive(p)
    BY PlayersFirst DEF Living, Alive
  <2> QED BY <2>1 DEF LifeInv, LifeOf
<1> QED BY <1>1, LifeCorrect, SimTypeCorrect, PTL

(* Who is out stays out: neither a deferred respawn nor a grace that runs  *)
(* out later brings the player or a fresh record back.                     *)
THEOREM EliminatedCorrect == Spec => EliminatedStaysOut
<1>1. SimTypeOK /\ LifeInv /\ [Next]_vars =>
        [\A p \in Players : record[p].eliminated
           => record'[p].eliminated /\ spawned'[p] = spawned[p]]_vars
  <2> SUFFICES ASSUME SimTypeOK, LifeInv, Next, NEW p \in Players, record[p].eliminated
               PROVE  record'[p].eliminated /\ spawned'[p] = spawned[p]
    OBVIOUS
  <2>0. record[p] \in RecordType /\ p \in ID /\ spawned \in [ID -> Nat]
        /\ record \in [Players -> RecordType] /\ tick \in Nat
    BY PlayersFirst DEF SimTypeOK
  <2>a. LifeOf(p) /\ ~Alive(p)
    BY DEF LifeInv, LifeOf
  <2>1. CASE BeginTick
    BY <2>0, <2>1 DEF BeginTick, RecordType
  <2>2. CASE Quiesce \/ SnipesDone \/ WriteHistory \/ AgeProjectiles
    BY <2>2 DEF Quiesce, SnipesDone, WriteHistory, AgeProjectiles, world
  <2>3. CASE EndTick
    BY <2>0, <2>3 DEF EndTick, RecordType
  <2>4. ASSUME NEW e \in todo, SnipeIdles(e) \/ SnipeFires(e) \/ GeneratorWaits(e) \/ GeneratorEmits(e)
                                \/ FliesOn(e) \/ HitsWall(e) \/ HoldsFire(e)
        PROVE  record' = record /\ spawned'[p] = spawned[p]
    <3>1. p # nextID
      BY PlayersFirst
    <3> QED BY <2>0, <2>4, <3>1 DEF SnipeIdles, SnipeFires, GeneratorWaits, GeneratorEmits, FliesOn,
                                    HitsWall, HoldsFire, world
  <2>5. ASSUME NEW q \in todo, NEW e \in ID, Hits(q, e)
        PROVE  record'[p].eliminated /\ spawned'[p] = spawned[p]
    <3>1. spawned' = spawned
      BY <2>5 DEF Hits
    <3>2. CASE e = p
      <4>1. ~Dies(p)
        BY <2>a DEF Dies, Hurts, Alive, LifeOf, Free
      <4> QED BY <2>5, <3>1, <3>2, <4>1 DEF Hits
    <3>3. CASE e # p
      BY <2>5, <3>1, <3>3, LifePaid DEF Hits
    <3> QED BY <3>2, <3>3
  <2>6. ASSUME NEW q \in todo, NEW owt \in Owts, Fires(q, owt)
        PROVE  record'[p].eliminated /\ spawned'[p] = spawned[p]
    BY <2>0, <2>6 DEF Fires, RecordType
  <2>7. ASSUME NEW placed \in SUBSET Due, Respawn(placed)
        PROVE  record'[p].eliminated /\ spawned'[p] = spawned[p]
    <3>1. p \notin Due
      <4>1. phase = "fire" /\ tick > 0
        BY <2>7 DEF Respawn, LifeInv
      <4>2. record[p].respawnAt = 0
        BY <2>a DEF LifeOf
      <4> QED BY <4>1, <4>2 DEF Due
    <3> QED BY <2>0, <2>7, <3>1 DEF Respawn
  <2>8. ASSUME NEW q \in Players, FreezePlayer(q)
        PROVE  record'[p].eliminated /\ spawned'[p] = spawned[p]
    BY <2>0, <2>8 DEF FreezePlayer, RecordType
  <2>9. ASSUME NEW q \in Players, RemovePlayer(q)
        PROVE  record'[p].eliminated /\ spawned'[p] = spawned[p]
    <3>1. p # q
      BY <2>9, <2>a DEF RemovePlayer, Alive, LifeOf
    <3> QED BY <2>9, <3>1 DEF RemovePlayer
  <2> QED BY <2>1, <2>2, <2>3, <2>4, <2>5, <2>6, <2>7, <2>8, <2>9 DEF Next
<1> QED BY <1>1, LifeCorrect, SimTypeCorrect, PTL DEF Spec, EliminatedStaysOut

-----------------------------------------------------------------------------
(* The ring.  Nth and At are what the code computes with an index that     *)
(* wraps; read back, a written sample is the newest and the others are one *)
(* place further back.                                                     *)

LEMMA Index ==
  ASSUME NEW h \in 0 .. LagComp, NEW i \in 0 .. LagComp
  PROVE  /\ (h + Depth - i) % Depth = IF i <= h THEN h - i ELSE h + Depth - i
         /\ (h + 1) % Depth = IF h < LagComp THEN h + 1 ELSE 0
<1>0. LagComp \in Nat /\ Depth = LagComp + 1
  BY SimAssumption DEF Depth
<1>1. i <= h => (h + Depth - i) % Depth = h - i
  <2>1. i <= h => h - i \in 0 .. LagComp /\ h + Depth - i = (h - i) + Depth
    BY <1>0
  <2> QED BY <2>1, Wraps
<1>2. ~(i <= h) => (h + Depth - i) % Depth = h + Depth - i
  <2>1. ~(i <= h) => h + Depth - i \in 0 .. LagComp
    BY <1>0
  <2> QED BY <2>1, Wraps
<1>3. (h + 1) % Depth = IF h < LagComp THEN h + 1 ELSE 0
  <2>1. CASE h < LagComp
    <3>1. h + 1 \in 0 .. LagComp
      BY <1>0, <2>1
    <3> QED BY <2>1, <3>1, Wraps
  <2>2. CASE h = LagComp
    <3>1. h + 1 = 0 + Depth /\ 0 \in 0 .. LagComp
      BY <1>0, <2>2
    <3>2. (0 + Depth) % Depth = 0
      BY <3>1, Wraps
    <3> QED BY <2>2, <3>1, <3>2
  <2> QED BY <1>0, <2>1, <2>2
<1> QED BY <1>0, <1>1, <1>2, <1>3

LEMMA ReadsBack ==
  ASSUME NEW h \in RingType, NEW s, NEW w, w = Written(h, s)
  PROVE  /\ w.count \in 1 .. Depth /\ w.count <= h.count + 1
         /\ Nth(w, 0) = s
         /\ \A i \in 1 .. (w.count - 1) : i - 1 \in 0 .. (h.count - 1) /\ Nth(w, i) = Nth(h, i - 1)
<1> DEFINE next == IF h.count = 0 THEN 0 ELSE (h.head + 1) % Depth
<1>0. /\ LagComp \in Nat /\ Depth = LagComp + 1 /\ h.head \in 0 .. LagComp /\ h.count \in 0 .. Depth
      /\ DOMAIN h.samples = 0 .. LagComp
  BY SimAssumption DEF RingType, Depth
<1>1. /\ w.samples = [h.samples EXCEPT ![next] = s] /\ w.head = next
      /\ w.count = IF h.count < Depth THEN h.count + 1 ELSE h.count
  BY DEF Written
<1>2. next = IF h.count = 0 THEN 0 ELSE IF h.head < LagComp THEN h.head + 1 ELSE 0
  <2>1. (h.head + 1) % Depth = IF h.head < LagComp THEN h.head + 1 ELSE 0
    BY <1>0, Index
  <2> QED BY <2>1
<1> HIDE DEF next
<1>3. next \in 0 .. LagComp
  BY <1>0, <1>2
<1>4. w.count \in 1 .. Depth /\ w.count <= h.count + 1
  BY <1>0, <1>1
<1>5. Nth(w, 0) = s
  <2>1. (next + Depth - 0) % Depth = next
    BY <1>0, <1>3, Index
  <2>2. (w.head + Depth - 0) % Depth = next
    BY <1>1, <2>1
  <2> QED BY <1>0, <1>1, <1>3, <2>2 DEF Nth
<1>6. ASSUME NEW i \in 1 .. (w.count - 1)
      PROVE  i - 1 \in 0 .. (h.count - 1) /\ Nth(w, i) = Nth(h, i - 1)
  <2>1. i \in 0 .. LagComp /\ i - 1 \in 0 .. LagComp /\ i - 1 \in 0 .. (h.count - 1) /\ h.count > 0
    BY <1>0, <1>1, <1>6
  <2>2. (next + Depth - i) % Depth = IF i <= next THEN next - i ELSE next + Depth - i
    BY <1>3, <2>1, Index
  <2>3. (h.head + Depth - (i - 1)) % Depth = IF i - 1 <= h.head THEN h.head - (i - 1) ELSE h.head + Depth - (i - 1)
    BY <1>0, <2>1, Index
  <2>4. (IF i <= next THEN next - i ELSE next + Depth - i)
          = (IF i - 1 <= h.head THEN h.head - (i - 1) ELSE h.head + Depth - (i - 1))
    BY <1>0, <1>2, <2>1, <1>6
  <2>5. (IF i <= next THEN next - i ELSE next + Depth - i) # next
    BY <1>0, <1>3, <2>1, <1>6
  <2>6. (w.head + Depth - i) % Depth = (h.head + Depth - (i - 1)) % Depth
        /\ (w.head + Depth - i) % Depth # next
    BY <1>1, <2>2, <2>3, <2>4, <2>5
  <2>7. Nth(w, i) = h.samples[(w.head + Depth - i) % Depth]
    BY <1>1, <2>6 DEF Nth
  <2> QED BY <2>1, <2>6, <2>7 DEF Nth
<1> QED BY <1>4, <1>5, <1>6

LEMMA MinIsLeast ==
  ASSUME NEW S \in SUBSET Nat, S # {}
  PROVE  Min(S) \in S /\ \A n \in S : Min(S) <= n
<1> DEFINE Below(n) == 0 .. n
           below == {Below(n) : n \in S}
<1>1. below \subseteq FiniteSubsetsOf(Nat)
  <2>1. \A n \in Nat : Below(n) \in SUBSET Nat /\ IsFiniteSet(Below(n))
    BY FS_Interval
  <2> HIDE DEF Below
  <2> QED BY <2>1 DEF FiniteSubsetsOf
<1>2. PICK x \in below : \A y \in below : <<y, x>> \notin StrictSubsetOrdering(Nat)
  <2>1. below # {}
    OBVIOUS
  <2>2. IsWellFoundedOn(StrictSubsetOrdering(Nat), FiniteSubsetsOf(Nat))
    BY FS_StrictSubsetOrderingWellFounded
  <2> HIDE DEF below
  <2> QED BY <1>1, <2>1, <2>2, WFMin
<1>3. PICK m \in S : x = Below(m)
  BY <1>2
<1>4. ASSUME NEW n \in S PROVE m <= n
  <2>1. <<Below(n), Below(m)>> \notin StrictSubsetOrdering(Nat)
    BY <1>2, <1>3
  <2>2. ~(Below(n) \subseteq Below(m) /\ Below(n) # Below(m))
    <3>1. Below(n) \in SUBSET Nat /\ Below(m) \in SUBSET Nat
      OBVIOUS
    <3> HIDE DEF Below
    <3> QED BY <2>1, <3>1 DEF StrictSubsetOrdering
  <2>3. m \in Below(m) /\ (~(m <= n) => m \notin Below(n) /\ Below(n) \subseteq Below(m))
    OBVIOUS
  <2> HIDE DEF Below
  <2> QED BY <2>2, <2>3
<1> QED BY <1>4 DEF Min

(* A rewind reads the newest sample that is old enough, else the oldest.   *)
LEMMA Read ==
  ASSUME NEW h \in RingType, h.count > 0, NEW t \in Int
  PROVE  \E i \in 0 .. (h.count - 1) :
           /\ At(h, t) = Nth(h, i)
           /\ Nth(h, i).tick <= t \/ i = h.count - 1
           /\ \A j \in 0 .. (i - 1) : ~(Nth(h, j).tick <= t)
           /\ i = h.count - 1 => Nth(h, i).tick <= t \/ \A j \in 0 .. (h.count - 1) : ~(Nth(h, j).tick <= t)
<1> DEFINE upTo == {i \in 0 .. (h.count - 1) : Nth(h, i).tick <= t}
<1>0. h.count \in Nat \ {0}
  BY Wraps DEF RingType
<1>1. At(h, t) = Nth(h, IF upTo = {} THEN h.count - 1 ELSE Min(upTo))
  BY DEF At
<1>2. CASE upTo = {}
  <2>1. h.count - 1 \in 0 .. (h.count - 1)
    BY <1>0
  <2>2. \A j \in 0 .. (h.count - 1) : ~(Nth(h, j).tick <= t)
    BY <1>2
  <2>3. At(h, t) = Nth(h, h.count - 1)
    BY <1>1, <1>2
  <2>4. \A j \in 0 .. ((h.count - 1) - 1) : j \in 0 .. (h.count - 1)
    BY <1>0
  <2> QED BY <2>1, <2>2, <2>3, <2>4
<1>3. CASE upTo # {}
  <2>1. Min(upTo) \in upTo /\ \A n \in upTo : Min(upTo) <= n
    <3>1. upTo \in SUBSET Nat
      BY <1>0
    <3> HIDE DEF upTo
    <3> QED BY <1>3, <3>1, MinIsLeast
  <2>2. PICK i \in upTo : i = Min(upTo)
    BY <2>1
  <2>3. \A j \in 0 .. (i - 1) : j \in 0 .. (h.count - 1) /\ ~(i <= j)
    BY <1>0, <2>2
  <2>4. \A j \in 0 .. (i - 1) : ~(Nth(h, j).tick <= t)
    BY <2>1, <2>2, <2>3
  <2>5. At(h, t) = Nth(h, i)
    BY <1>1, <1>3, <2>2
  <2> QED BY <2>2, <2>4, <2>5
<1> QED BY <1>2, <1>3

(* What every entity's ring holds: one sample a tick up to the last write, *)
(* none before the entity came, and only invulnerable ones while it is.    *)
Newest == IF phase \in {"snipes", "generators"} THEN tick - 1 ELSE tick
Consecutive(h, newest) == \A i \in 0 .. (h.count - 1) : Nth(h, i).tick = newest - i
AllInvuln(h) == \A i \in 0 .. (h.count - 1) : Nth(h, i).invuln

RingOf(e) ==
  /\ e >= nextID => slab[e].kind = "free" /\ ring[e].count = 0
  /\ slab[e].kind # "free" => Consecutive(ring[e], Newest)
  /\ slab[e].invuln => /\ ~slab[e].dead /\ slab[e].kind \notin {"free", "projectile"}
                       /\ AllInvuln(ring[e])
  /\ phase = "projectiles" /\ slab[e].kind # "free" => ring[e].count > 0

RingInv == \A e \in ID : RingOf(e)

LEMMA NoSamples ==
  ASSUME NEW h, h.count = 0, NEW n
  PROVE  Consecutive(h, n) /\ AllInvuln(h)
BY DEF Consecutive, AllInvuln

(* A step that writes no sample and brings nobody into the world.          *)
LEMMA RingFrame ==
  ASSUME NEW e \in ID, RingOf(e), SimTypeOK, SimTypeOK',
         Newest' = Newest, nextID' >= nextID,
         ring'[e] = ring[e],
         slab'[e].kind \in {slab[e].kind, "free"},
         slab'[e].invuln => slab[e].invuln /\ ~slab'[e].dead /\ slab'[e].kind = slab[e].kind,
         phase' = "projectiles" => phase = "projectiles"
  PROVE  RingOf(e)'
<1>1. e >= nextID' => slab'[e].kind = "free" /\ ring'[e].count = 0
  <2>1. e \in Nat /\ nextID \in Nat /\ nextID' \in Nat
    BY SimAssumption DEF ID, SimTypeOK
  <2>2. e >= nextID' => e >= nextID
    BY <2>1
  <2> QED BY <2>2 DEF RingOf
<1>2. slab'[e].kind # "free" => Consecutive(ring'[e], Newest')
  BY DEF RingOf
<1>3. slab'[e].invuln => /\ ~slab'[e].dead /\ slab'[e].kind \notin {"free", "projectile"}
                         /\ AllInvuln(ring'[e])
  BY DEF RingOf
<1>4. phase' = "projectiles" /\ slab'[e].kind # "free" => ring'[e].count > 0
  BY DEF RingOf
<1> QED BY <1>1, <1>2, <1>3, <1>4 DEF RingOf

(* What comes into the world comes with an empty ring.                     *)
LEMMA RingBorn ==
  ASSUME NEW e \in ID, SimTypeOK, SimTypeOK', e < nextID', ring'[e].count = 0,
         slab'[e].invuln => ~slab'[e].dead /\ slab'[e].kind \notin {"free", "projectile"},
         phase' # "projectiles"
  PROVE  RingOf(e)'
<1>1. ~(e >= nextID')
  BY SimAssumption DEF ID, SimTypeOK
<1>2. Consecutive(ring'[e], Newest') /\ AllInvuln(ring'[e])
  BY NoSamples
<1> QED BY <1>1, <1>2 DEF RingOf

LEMMA RingInit == Init => RingInv
<1> SUFFICES ASSUME Init, NEW e \in ID PROVE RingOf(e)
  BY DEF RingInv
<1>1. ring[e] = EmptyRing /\ EmptyRing.count = 0
  BY DEF Init, EmptyRing
<1>2. Consecutive(ring[e], Newest) /\ AllInvuln(ring[e])
  BY <1>1, NoSamples
<1>3. e >= nextID => e \notin Players /\ e \notin Generators
  <2>1. FirstID \in Nat /\ e \in Nat /\ nextID = FirstID
    <3>1. nextID = FirstID
      BY DEF Init
    <3> QED BY <3>1, SimAssumption DEF ID
  <2>2. e >= FirstID => e \notin 1 .. (FirstID - 1)
    BY <2>1
  <2>3. Players \subseteq 1 .. (FirstID - 1) /\ Generators \subseteq 1 .. (FirstID - 1)
    BY SimAssumption
  <2> QED BY <2>1, <2>2, <2>3
<1>4. phase # "projectiles"
  BY DEF Init
<1>5. e >= nextID => slab[e].kind = "free"
  BY <1>3 DEF Init, Free
<1>6. slab[e].invuln => ~slab[e].dead /\ slab[e].kind \notin {"free", "projectile"}
  BY DEF Init, Free, Entity
<1> QED BY <1>1, <1>2, <1>4, <1>5, <1>6 DEF RingOf

LEMMA RingWritten ==
  ASSUME SimTypeOK, SimTypeOK', NEW e \in ID, RingOf(e), WriteHistory
  PROVE  RingOf(e)'
<1>0. /\ ring[e] \in RingType /\ tick \in Nat
      /\ slab' = slab /\ nextID' = nextID /\ Newest = tick - 1 /\ Newest' = tick
      /\ e >= nextID => slab[e].kind = "free" /\ ring[e].count = 0
  BY DEF WriteHistory, SimTypeOK, Newest, RingOf
<1>1. CASE slab[e].kind # "free"
  <2> DEFINE s == Sample(tick, e)
             w == ring'[e]
  <2>1. w = Written(ring[e], s) /\ s.tick = tick /\ s.invuln = slab[e].invuln
    BY <1>1 DEF WriteHistory, Occupied, Sample
  <2> HIDE DEF s, w
  <2>2. /\ w.count \in 1 .. Depth
        /\ Nth(w, 0) = s
        /\ \A i \in 1 .. (w.count - 1) : i - 1 \in 0 .. (ring[e].count - 1)
                                         /\ Nth(w, i) = Nth(ring[e], i - 1)
    BY <1>0, <2>1, ReadsBack
  <2>3. w.count \in Nat \ {0}
    BY <2>2, Wraps
  <2>4. Consecutive(w, tick)
    <3> SUFFICES ASSUME NEW i \in 0 .. (w.count - 1) PROVE Nth(w, i).tick = tick - i
      BY DEF Consecutive
    <3>1. CASE i = 0
      BY <1>0, <2>1, <2>2, <3>1
    <3>2. CASE i # 0
      <4>1. i \in 1 .. (w.count - 1)
        BY <2>3, <3>2
      <4>2. Consecutive(ring[e], tick - 1)
        BY <1>0, <1>1 DEF RingOf
      <4>3. Nth(ring[e], i - 1).tick = (tick - 1) - (i - 1)
        BY <2>2, <4>1, <4>2 DEF Consecutive
      <4>4. (tick - 1) - (i - 1) = tick - i
        BY <1>0, <2>3
      <4> QED BY <2>2, <4>1, <4>3, <4>4
    <3> QED BY <3>1, <3>2
  <2>5. slab[e].invuln => AllInvuln(w)
    <3> SUFFICES ASSUME slab[e].invuln, NEW i \in 0 .. (w.count - 1) PROVE Nth(w, i).invuln
      BY DEF AllInvuln
    <3>1. CASE i = 0
      BY <2>1, <2>2, <3>1
    <3>2. CASE i # 0
      <4>1. i \in 1 .. (w.count - 1)
        BY <2>3, <3>2
      <4>2. AllInvuln(ring[e])
        BY DEF RingOf
      <4> QED BY <2>2, <4>1, <4>2 DEF AllInvuln
    <3> QED BY <3>1, <3>2
  <2>6. w = ring'[e] /\ w.count > 0 /\ (slab[e].invuln => ~slab[e].dead /\ slab[e].kind \notin {"free", "projectile"})
    BY <2>3 DEF w, RingOf
  <2> QED BY <1>0, <1>1, <2>4, <2>5, <2>6 DEF RingOf
<1>2. CASE slab[e].kind = "free"
  <2>1. ring'[e] \in {ring[e], EmptyRing}
    BY <1>2 DEF WriteHistory, Occupied
  <2>2. ring[e].count = 0 => ring'[e].count = 0
    BY <2>1 DEF EmptyRing
  <2>3. ~slab[e].invuln
    BY <1>2 DEF RingOf
  <2> QED BY <1>0, <1>2, <2>2, <2>3 DEF RingOf
<1> QED BY <1>1, <1>2

(* A shot or a snipe takes a new id; the others stay as they are.          *)
LEMMA RingIssued ==
  ASSUME SimTypeOK, SimTypeOK', RingInv, NEW k \in Kinds, NEW n, NEW b \in BOOLEAN,
         k = "projectile" => ~b,
         HasID, nextID' = nextID + 1, slab' = [slab EXCEPT ![nextID] = Entity(k, n, b)],
         ring' = ring, Newest' = Newest, phase' # "projectiles"
  PROVE  RingInv'
<1>0. nextID \in Nat /\ nextID \in ID
  BY SimAssumption DEF SimTypeOK, HasID, ID
<1> SUFFICES ASSUME NEW e \in ID PROVE RingOf(e)'
  BY DEF RingInv
<1>1. RingOf(e) /\ RingOf(nextID)
  BY <1>0 DEF RingInv
<1>2. CASE e = nextID
  <2>1. ring'[e].count = 0
    BY <1>0, <1>1, <1>2 DEF RingOf
  <2>2. slab'[e].invuln => ~slab'[e].dead /\ slab'[e].kind \notin {"free", "projectile"}
    BY <1>0, <1>2 DEF SimTypeOK, Entity, Kinds
  <2>3. e < nextID'
    BY <1>0, <1>2
  <2> QED BY <2>1, <2>2, <2>3, RingBorn
<1>3. CASE e # nextID
  <2>1. slab'[e] = slab[e] /\ (slab[e].invuln => ~slab[e].dead)
    BY <1>1, <1>3 DEF SimTypeOK, RingOf
  <2>2. nextID' >= nextID
    BY <1>0
  <2> QED BY <1>1, <2>1, <2>2, RingFrame
<1> QED BY <1>2, <1>3

LEMMA RingStep ==
  ASSUME SimTypeOK, SimTypeOK', RingInv, [Next]_vars
  PROVE  RingInv'
<1>0. /\ slab \in [ID -> EntityType] /\ ring \in [ID -> RingType]
      /\ tick \in Nat /\ nextID \in Nat /\ nextID \in ID /\ Players \subseteq ID
      /\ nextID >= nextID /\ nextID + 1 >= nextID /\ todo \subseteq ID
  <2>1. /\ tick \in Nat /\ nextID \in FirstID .. MaxID /\ FirstID \in Nat \ {0} /\ MaxID \in Nat
        /\ slab \in [ID -> EntityType] /\ ring \in [ID -> RingType] /\ todo \subseteq ID
    BY SimAssumption DEF SimTypeOK
  <2>2. nextID \in Nat /\ nextID \in 1 .. MaxID /\ nextID >= nextID /\ nextID + 1 >= nextID
    BY <2>1
  <2>3. Players \subseteq ID
    BY SimAssumption DEF ID
  <2> QED BY <2>1, <2>2, <2>3 DEF ID
<1>a. \A e \in ID : RingOf(e) /\ (slab[e].invuln => ~slab[e].dead)
  BY DEF RingInv, RingOf
(* Steps that leave the slab, the rings and the age of the samples alone.  *)
<1>s. ASSUME slab' = slab, ring' = ring, nextID' = nextID, Newest' = Newest,
             phase' = "projectiles" => phase = "projectiles"
      PROVE  RingInv'
  <2> SUFFICES ASSUME NEW e \in ID PROVE RingOf(e)'
    BY DEF RingInv
  <2> QED BY <1>0, <1>a, <1>s, RingFrame
(* Steps that only take entities, or their invulnerability, away.          *)
<1>t. ASSUME ring' = ring, nextID' = nextID, Newest' = Newest,
             phase' = "projectiles" => phase = "projectiles",
             \A e \in ID : /\ slab'[e].kind \in {slab[e].kind, "free"}
                           /\ slab'[e].invuln => slab[e].invuln /\ ~slab'[e].dead
                                                 /\ slab'[e].kind = slab[e].kind
      PROVE  RingInv'
  <2> SUFFICES ASSUME NEW e \in ID PROVE RingOf(e)'
    BY DEF RingInv
  <2> QED BY <1>0, <1>a, <1>t, RingFrame
<1>1. CASE BeginTick
  <2>1. Newest' = Newest
    BY <1>0, <1>1 DEF BeginTick, Newest
  <2> QED BY <1>1, <1>s, <2>1 DEF BeginTick
<1>2. CASE Quiesce
  BY <1>2, <1>s DEF Quiesce, world, Newest
<1>3. CASE SnipesDone
  BY <1>3, <1>s DEF SnipesDone, world, Newest
<1>4. CASE WriteHistory
  BY <1>4, <1>a, RingWritten DEF RingInv
<1>5. CASE AgeProjectiles
  <2>1. Newest' = Newest /\ ring' = ring /\ nextID' = nextID /\ phase' # "projectiles"
    BY <1>5 DEF AgeProjectiles, Newest
  <2>2. \A e \in ID : /\ slab'[e].kind \in {slab[e].kind, "free"}
                      /\ slab'[e].invuln => slab[e].invuln /\ ~slab'[e].dead
                                            /\ slab'[e].kind = slab[e].kind
    BY <1>0, <1>5, <1>a DEF AgeProjectiles, Free
  <2> QED BY <1>t, <2>1, <2>2
<1>6. CASE EndTick
  <2>1. Newest' = Newest /\ ring' = ring /\ nextID' = nextID /\ phase' # "projectiles"
    BY <1>6 DEF EndTick, Newest
  <2>2. \A e \in ID : /\ slab'[e].kind \in {slab[e].kind, "free"}
                      /\ slab'[e].invuln => slab[e].invuln /\ ~slab'[e].dead
                                            /\ slab'[e].kind = slab[e].kind
    BY <1>0, <1>6, <1>a DEF EndTick, Free, EntityType
  <2> QED BY <1>t, <2>1, <2>2
<1>7. ASSUME NEW e \in todo, SnipeIdles(e) PROVE RingInv'
  <2>1. Newest' = Newest /\ ring' = ring /\ nextID' = nextID /\ phase' # "projectiles"
    BY <1>7 DEF SnipeIdles, Visit, Newest
  <2>2. \A x \in ID : /\ slab'[x].kind \in {slab[x].kind, "free"}
                      /\ slab'[x].invuln => slab[x].invuln /\ ~slab'[x].dead
                                            /\ slab'[x].kind = slab[x].kind
    BY <1>0, <1>7, <1>a DEF SnipeIdles, EntityType
  <2> QED BY <1>t, <2>1, <2>2
<1>8. ASSUME NEW e \in todo, SnipeFires(e) PROVE RingInv'
  <2>1. Newest' = Newest /\ ring' = ring /\ phase' # "projectiles"
    BY <1>8 DEF SnipeFires, Visit, Newest
  <2>2. CASE HasID
    BY <1>8, <2>1, <2>2, RingIssued DEF SnipeFires, NewShot, Kinds
  <2>3. CASE ~HasID
    BY <1>8, <1>s, <2>1, <2>3 DEF SnipeFires
  <2> QED BY <2>2, <2>3
<1>9. ASSUME NEW g \in todo, GeneratorWaits(g) PROVE RingInv'
  BY <1>9, <1>s DEF GeneratorWaits, world, Newest
<1>10. ASSUME NEW g \in todo, GeneratorEmits(g) PROVE RingInv'
  <2>1. Newest' = Newest /\ ring' = ring /\ phase' # "projectiles"
    BY <1>10 DEF GeneratorEmits, Visit, Newest
  <2>2. CASE HasID /\ HasSlot
    BY <1>10, <2>1, <2>2, RingIssued DEF GeneratorEmits, Kinds
  <2>3. CASE ~(HasID /\ HasSlot)
    <3>1. slab' = slab /\ nextID' >= nextID
      BY <1>0, <1>10, <2>3 DEF GeneratorEmits
    <3> SUFFICES ASSUME NEW e \in ID PROVE RingOf(e)'
      BY DEF RingInv
    <3> QED BY <1>a, <2>1, <3>1, RingFrame
  <2> QED BY <2>2, <2>3
<1>11. ASSUME NEW p \in todo, FliesOn(p) \/ HoldsFire(p) PROVE RingInv'
  BY <1>11, <1>s DEF FliesOn, HoldsFire, world, Newest
<1>12. ASSUME NEW p \in todo, HitsWall(p) PROVE RingInv'
  <2>1. Newest' = Newest /\ ring' = ring /\ nextID' = nextID /\ phase' = phase
    BY <1>12 DEF HitsWall, Newest
  <2>2. \A x \in ID : /\ slab'[x].kind \in {slab[x].kind, "free"}
                      /\ slab'[x].invuln => slab[x].invuln /\ ~slab'[x].dead
                                            /\ slab'[x].kind = slab[x].kind
    BY <1>0, <1>12, <1>a DEF HitsWall, Free
  <2> QED BY <1>t, <2>1, <2>2
<1>13. ASSUME NEW p \in todo, NEW t \in ID, Hits(p, t) PROVE RingInv'
  <2>1. Newest' = Newest /\ ring' = ring /\ nextID' = nextID /\ phase' = phase
    BY <1>13 DEF Hits, Newest
  <2>2. \A x \in ID : /\ slab'[x].kind \in {slab[x].kind, "free"}
                      /\ slab'[x].invuln => slab[x].invuln /\ ~slab'[x].dead
                                            /\ slab'[x].kind = slab[x].kind
    <3> SUFFICES ASSUME NEW x \in ID
                 PROVE  /\ slab'[x].kind \in {slab[x].kind, "free"}
                        /\ slab'[x].invuln => slab[x].invuln /\ ~slab'[x].dead
                                              /\ slab'[x].kind = slab[x].kind
      OBVIOUS
    <3>1. \/ slab'[x] = slab[x]
          \/ slab'[x] = Free
          \/ slab'[x] = [slab[x] EXCEPT !.hp = @ - 1, !.dead = Dies(x), !.invuln = @ /\ ~Dies(x)]
      BY <1>0, <1>13 DEF Hits
    <3>2. slab[x] \in EntityType /\ (slab[x].invuln => ~slab[x].dead)
      BY <1>0, <1>a
    <3>3. CASE slab'[x] = slab[x] \/ slab'[x] = Free
      BY <3>2, <3>3 DEF Free
    <3>4. CASE slab'[x] = [slab[x] EXCEPT !.hp = @ - 1, !.dead = Dies(x), !.invuln = @ /\ ~Dies(x)]
      <4>1. /\ slab'[x].kind = slab[x].kind /\ slab'[x].dead = Dies(x)
            /\ slab'[x].invuln = (slab[x].invuln /\ ~Dies(x))
        BY <3>2, <3>4 DEF EntityType
      <4> QED BY <4>1, Zenon
    <3> QED BY <3>1, <3>3, <3>4
  <2> QED BY <1>t, <2>1, <2>2
<1>14. ASSUME NEW p \in todo, NEW owt \in Owts, Fires(p, owt) PROVE RingInv'
  <2>1. Newest' = Newest /\ ring' = ring /\ phase' # "projectiles"
    BY <1>14 DEF Fires, Visit, Newest
  <2>2. CASE HasID
    BY <1>14, <2>1, <2>2, RingIssued DEF Fires, NewShot, Kinds
  <2>3. CASE ~HasID
    BY <1>14, <1>s, <2>1, <2>3 DEF Fires
  <2> QED BY <2>2, <2>3
<1>15. ASSUME NEW placed \in SUBSET Due, Respawn(placed) PROVE RingInv'
  <2>1. Newest' = Newest /\ nextID' = nextID /\ phase' # "projectiles"
    BY <1>15 DEF Respawn, Newest
  <2> SUFFICES ASSUME NEW e \in ID PROVE RingOf(e)'
    BY DEF RingInv
  <2>2. CASE e \in placed
    <3>1. ring'[e].count = 0
      BY <1>0, <1>15, <2>2 DEF Respawn, ResetRing, RingType
    <3>2. slab'[e].invuln => ~slab'[e].dead /\ slab'[e].kind \notin {"free", "projectile"}
      BY <1>15, <2>2 DEF Respawn, Entity
    <3>3. slab[e].kind # "free"
      BY <2>2 DEF Due
    <3>4. e < nextID'
      <4>1. ~(e >= nextID)
        BY <1>a, <3>3 DEF RingOf
      <4>2. e \in Nat
        BY SimAssumption DEF ID
      <4> QED BY <1>0, <2>1, <4>1, <4>2
    <3> QED BY <2>1, <3>1, <3>2, <3>4, RingBorn
  <2>3. CASE e \notin placed
    <3>1. slab'[e] = slab[e] /\ ring'[e] = ring[e]
      BY <1>15, <2>3 DEF Respawn
    <3> QED BY <1>0, <1>a, <2>1, <3>1, RingFrame
  <2> QED BY <2>2, <2>3
<1>16. ASSUME NEW p \in Players, FreezePlayer(p) PROVE RingInv'
  BY <1>16, <1>s DEF FreezePlayer, Newest
<1>17. ASSUME NEW p \in Players, RemovePlayer(p) PROVE RingInv'
  <2>1. Newest' = Newest /\ ring' = ring /\ nextID' = nextID /\ phase' = phase
    BY <1>17 DEF RemovePlayer, Newest
  <2>2. \A x \in ID : /\ slab'[x].kind \in {slab[x].kind, "free"}
                      /\ slab'[x].invuln => slab[x].invuln /\ ~slab'[x].dead
                                            /\ slab'[x].kind = slab[x].kind
    BY <1>0, <1>17, <1>a DEF RemovePlayer, Free
  <2> QED BY <1>t, <2>1, <2>2
<1>18. CASE UNCHANGED vars
  BY <1>18, <1>s DEF vars, Newest
<1> HIDE DEF RingInv
<1> QED BY <1>1, <1>2, <1>3, <1>4, <1>5, <1>6, <1>7, <1>8, <1>9, <1>10, <1>11, <1>12, <1>13,
           <1>14, <1>15, <1>16, <1>17, <1>18 DEF Next

THEOREM RingCorrect == Spec => []RingInv
BY RingInit, RingStep, SimTypeCorrect, PTL DEF Spec

(* A rewind asks for a tick within the window of the samples.              *)
LEMMA View ==
  ASSUME SimTypeOK, NEW owt \in Nat
  PROVE  TView(owt) \in Nat /\ TView(owt) <= tick /\ tick - TView(owt) <= LagComp
<1>1. tick \in Nat /\ LagComp \in Nat /\ Interp \in Nat
  BY SimAssumption DEF SimTypeOK
<1> QED BY <1>1 DEF TView

(* While shots are resolved, a rewind reads the sample of the tick it asks *)
(* for, or the oldest one an entity has.                                   *)
THEOREM RewindsExactCorrect == Spec => []RewindsExact
<1>1. ASSUME SimTypeOK, RingInv PROVE RewindsExact
  <2> SUFFICES ASSUME phase = "projectiles", NEW e \in Occupied, NEW owt \in 0 .. LagComp
               PROVE  LET held == ring[e].count
                          read == At(ring[e], TView(owt)).tick
                      IN /\ held > 0
                         /\ \/ read = TView(owt)
                            \/ (held <= LagComp /\ read = tick - held + 1 /\ read > TView(owt))
    BY DEF RewindsExact
  <2> DEFINE h == ring[e]
             v == TView(owt)
  <2>1. /\ e \in ID /\ slab[e].kind # "free" /\ Newest = tick
        /\ h \in RingType /\ tick \in Nat /\ LagComp \in Nat /\ owt \in Nat
    BY <1>1, SimAssumption DEF Occupied, Newest, SimTypeOK
  <2>2. h.count > 0 /\ Consecutive(h, tick)
    BY <1>1, <2>1 DEF RingInv, RingOf
  <2>3. v \in Nat /\ v <= tick /\ tick - v <= LagComp
    BY <1>1, <2>1, View
  <2>4. h.count \in Nat
    BY <2>1, Wraps DEF RingType
  <2> HIDE DEF h, v
  <2>5. PICK i \in 0 .. (h.count - 1) :
          /\ At(h, v) = Nth(h, i)
          /\ Nth(h, i).tick <= v \/ i = h.count - 1
          /\ \A j \in 0 .. (i - 1) : ~(Nth(h, j).tick <= v)
    BY <2>1, <2>2, <2>3, Read
  <2>6. \A j \in 0 .. (h.count - 1) : Nth(h, j).tick = tick - j
    BY <2>2 DEF Consecutive
  <2>7. At(h, v).tick = tick - i /\ i \in Nat /\ i <= h.count - 1
    BY <2>4, <2>5, <2>6
  <2>8. \A j \in 0 .. (i - 1) : ~(tick - j <= v)
    BY <2>4, <2>5, <2>6
  <2>9. i > 0 => ~(tick - (i - 1) <= v)
    <3>1. i > 0 => i - 1 \in 0 .. (i - 1)
      BY <2>7
    <3> QED BY <2>8, <3>1
  <2>10. tick - i <= v \/ i = h.count - 1
    BY <2>5, <2>6
  <2>11. \/ At(h, v).tick = v
         \/ (h.count <= LagComp /\ At(h, v).tick = tick - h.count + 1 /\ At(h, v).tick > v)
    BY <2>1, <2>3, <2>4, <2>7, <2>9, <2>10
  <2> QED BY <2>2, <2>11 DEF h, v
<1> QED BY <1>1, SimTypeCorrect, RingCorrect, PTL

(* Nobody dies in the ticks of its spawn invulnerability: a rewind finds   *)
(* only samples of the life it is in.                                      *)
THEOREM InvulnerableCorrect == Spec => InvulnerableLives
<1>1. ASSUME SimTypeOK, SimTypeOK', RingInv, [Next]_vars
      PROVE  [\A e \in ID : slab[e].invuln => ~slab'[e].dead]_vars
  <2>0. slab \in [ID -> EntityType] /\ \A e \in ID : slab[e].invuln => ~slab[e].dead
    BY <1>1 DEF SimTypeOK, RingInv, RingOf
  <2> SUFFICES ASSUME Next, NEW e \in ID, slab[e].invuln PROVE ~slab'[e].dead
    BY <1>1
  <2>1. CASE BeginTick \/ Quiesce \/ SnipesDone \/ WriteHistory
    BY <2>0, <2>1 DEF BeginTick, Quiesce, SnipesDone, WriteHistory, world
  <2>2. CASE AgeProjectiles
    BY <2>0, <2>2 DEF AgeProjectiles, Free
  <2>3. CASE EndTick
    BY <2>0, <2>3 DEF EndTick, Free, EntityType
  <2>4. ASSUME NEW x \in todo, SnipeIdles(x) PROVE ~slab'[e].dead
    BY <2>0, <2>4 DEF SnipeIdles, EntityType
  <2>5. ASSUME NEW x \in todo, SnipeFires(x) PROVE ~slab'[e].dead
    BY <2>0, <2>5 DEF SnipeFires, NewShot, Entity
  <2>6. ASSUME NEW x \in todo, GeneratorEmits(x) PROVE ~slab'[e].dead
    BY <2>0, <2>6 DEF GeneratorEmits, Entity
  <2>7. ASSUME NEW x \in todo, GeneratorWaits(x) \/ FliesOn(x) \/ HoldsFire(x)
        PROVE  ~slab'[e].dead
    BY <2>0, <2>7 DEF GeneratorWaits, FliesOn, HoldsFire, world
  <2>8. ASSUME NEW x \in todo, HitsWall(x) PROVE ~slab'[e].dead
    BY <2>0, <2>8 DEF HitsWall, Free
  <2>9. ASSUME NEW x \in todo, NEW t \in ID, Hits(x, t) PROVE ~slab'[e].dead
    <3>1. e \notin Ghosts(x)
      <4>1. slab[e].kind \notin {"free", "projectile"}
        BY <1>1 DEF RingInv, RingOf
      <4> QED BY <2>0, <4>1 DEF Ghosts, Candidates, Occupied
    <3>2. e \notin Targets(x)
      <4>1. CASE Rewinds(x) /\ ring[e].count > 0
        <5>1. /\ shot[x].owt \in Nat /\ ring[e] \in RingType /\ AllInvuln(ring[e])
              /\ tick \in Nat
          <6>1. x \in ID /\ shot[x].owt \in Owts
            BY <1>1, <2>9 DEF SimTypeOK
          <6>2. \A n \in Owts : n \in Nat
            <7>1. \A n \in 0 .. LagComp : n \in Nat
              BY SimAssumption
            <7>2. Owts \subseteq 0 .. LagComp
              BY SimAssumption
            <7> QED BY <7>1, <7>2
          <6>3. shot[x].owt \in Nat
            BY <6>1, <6>2
          <6> QED BY <1>1, <6>3 DEF SimTypeOK, RingInv, RingOf
        <5>2. TView(shot[x].owt) \in Int
          BY <1>1, <5>1, View
        <5>3. At(ring[e], TView(shot[x].owt)).invuln
          BY <4>1, <5>1, <5>2, Read DEF AllInvuln
        <5>4. Seen(x, e).invuln
          BY <4>1, <5>3 DEF Seen
        <5> QED BY <5>4 DEF Targets
      <4>2. CASE ~(Rewinds(x) /\ ring[e].count > 0)
        BY <4>2 DEF Targets, Seen
      <4> QED BY <4>1, <4>2
    <3>3. e # t
      BY <2>9, <3>1, <3>2 DEF Hits
    <3>4. slab'[e] = slab[e] \/ slab'[e] = Free
      BY <2>0, <2>9, <3>3 DEF Hits
    <3> QED BY <2>0, <3>4 DEF Free
  <2>10. ASSUME NEW x \in todo, NEW owt \in Owts, Fires(x, owt) PROVE ~slab'[e].dead
    BY <2>0, <2>10 DEF Fires, NewShot, Entity
  <2>11. ASSUME NEW placed \in SUBSET Due, Respawn(placed) PROVE ~slab'[e].dead
    BY <2>0, <2>11 DEF Respawn, Entity
  <2>12. ASSUME NEW p \in Players, FreezePlayer(p) PROVE ~slab'[e].dead
    BY <2>0, <2>12 DEF FreezePlayer
  <2>13. ASSUME NEW p \in Players, RemovePlayer(p) PROVE ~slab'[e].dead
    BY <2>0, <2>13 DEF RemovePlayer, Free
  <2> QED BY <2>1, <2>2, <2>3, <2>4, <2>5, <2>6, <2>7, <2>8, <2>9, <2>10, <2>11, <2>12, <2>13
          DEF Next
<1> QED BY <1>1, RingCorrect, SimTypeCorrect, PTL DEF Spec, InvulnerableLives

-----------------------------------------------------------------------------
(* Shots.  What is left of a cooldown and what has gone since the shot it  *)
(* follows make up a whole one.                                            *)

CoolOf(p) ==
  slab[p].kind = "player" /\ lastShot[p] >= 0 =>
    /\ ~slab[p].dead /\ lastShot[p] <= tick
    /\ record[p].cooldown + (tick - lastShot[p]) >= FireCooldown

CoolInv ==
  /\ phase = "fire" => \A e \in todo : slab[e].kind = "player" /\ ~slab[e].dead
  /\ \A p \in Players : CoolOf(p)

LEMMA CoolFrame ==
  ASSUME NEW p, CoolOf(p), tick' = tick,
         \/ ~(lastShot'[p] >= 0)
         \/ /\ lastShot'[p] = lastShot[p] /\ record'[p].cooldown = record[p].cooldown
            /\ slab'[p].kind = "player" => slab[p].kind = "player" /\ slab'[p].dead = slab[p].dead
  PROVE  CoolOf(p)'
BY DEF CoolOf

LEMMA CoolStep ==
  ASSUME SimTypeOK, SimTypeOK', RingInv, CoolInv, [Next]_vars
  PROVE  CoolInv'
<1>0. /\ slab \in [ID -> EntityType] /\ record \in [Players -> RecordType]
      /\ lastShot \in [Players -> Int] /\ tick \in Nat /\ todo \subseteq ID
  BY DEF SimTypeOK
<1>a. \A p \in Players : p \in ID /\ p # nextID /\ CoolOf(p)
  BY PlayersFirst DEF CoolInv
<1>n. HasID => nextID \in ID /\ slab[nextID].kind = "free"
  <2>1. HasID => nextID \in ID /\ nextID >= nextID
    BY SimAssumption DEF SimTypeOK, HasID, ID
  <2> QED BY <2>1 DEF RingInv, RingOf
(* Steps of which the players' shots and lives take no notice.             *)
<1>s. ASSUME tick' = tick, record' = record, lastShot' = lastShot, phase' # "fire",
             \A p \in Players : slab'[p].kind = "player" =>
                                  slab[p].kind = "player" /\ slab'[p].dead = slab[p].dead
      PROVE  CoolInv'
  BY <1>a, <1>s, CoolFrame DEF CoolInv
<1>1. CASE BeginTick
  <2> SUFFICES ASSUME NEW p \in Players PROVE CoolOf(p)'
    BY <1>1 DEF CoolInv, BeginTick
  <2>1. slab' = slab /\ lastShot' = lastShot /\ tick' = tick + 1 /\ lastShot[p] \in Int
    BY <1>0, <1>1 DEF BeginTick
  <2>2. /\ record[p].cooldown \in Nat /\ FireCooldown \in Nat
        /\ record'[p].cooldown \in {record[p].cooldown, Down(record[p].cooldown)}
    <3>1. record[p] \in RecordType /\ FireCooldown \in Nat
      BY <1>0, SimAssumption
    <3> QED BY <1>1, <3>1 DEF BeginTick, RecordType
  <2>3. record'[p].cooldown \in Nat /\ record'[p].cooldown + 1 >= record[p].cooldown
    BY <2>2 DEF Down
  <2>4. CoolOf(p)
    BY <1>a
  <2> HIDE DEF SimTypeOK
  <2> QED BY <1>0, <2>1, <2>2, <2>3, <2>4 DEF CoolOf
<1>2. CASE Quiesce \/ SnipesDone \/ WriteHistory
  BY <1>2, <1>s DEF Quiesce, SnipesDone, WriteHistory, world
<1>3. CASE AgeProjectiles
  <2>1. \A e \in ID : slab'[e].kind = "player" => slab'[e] = slab[e]
    BY <1>0, <1>3 DEF AgeProjectiles, Free
  <2>2. \A e \in ID : slab[e].kind = "player" => slab'[e] = slab[e]
    BY <1>0, <1>3 DEF AgeProjectiles, Expired
  <2>3. \A e \in todo' : slab'[e].kind = "player" /\ ~slab'[e].dead
    BY <1>3, <2>2 DEF AgeProjectiles, Living
  <2>4. \A p \in Players : CoolOf(p)'
    BY <1>3, <1>a, <2>1, CoolFrame DEF AgeProjectiles
  <2> QED BY <2>3, <2>4 DEF CoolInv
<1>4. CASE EndTick
  <2> SUFFICES ASSUME NEW p \in Players PROVE CoolOf(p)'
    BY <1>4 DEF CoolInv, EndTick
  <2>1. record'[p].cooldown = record[p].cooldown
    BY <1>0, <1>4 DEF EndTick, RecordType
  <2>2. slab'[p].kind = "player" => slab[p].kind = "player" /\ slab'[p].dead = slab[p].dead
    BY <1>0, <1>4, <1>a DEF EndTick, EntityType, Free
  <2> QED BY <1>4, <1>a, <2>1, <2>2, CoolFrame DEF EndTick
<1>5. ASSUME NEW e \in todo, SnipeIdles(e) PROVE CoolInv'
  <2>1. \A p \in Players : slab'[p].kind = slab[p].kind /\ slab'[p].dead = slab[p].dead
    BY <1>0, <1>5, <1>a DEF SnipeIdles, EntityType
  <2> QED BY <1>5, <1>s, <2>1 DEF SnipeIdles, Visit
<1>6. ASSUME NEW e \in todo, SnipeFires(e) \/ GeneratorEmits(e) PROVE CoolInv'
  <2>1. \A p \in Players : slab'[p] = slab[p]
    BY <1>0, <1>6, <1>a DEF SnipeFires, GeneratorEmits, NewShot
  <2> QED BY <1>6, <1>s, <2>1 DEF SnipeFires, GeneratorEmits, Visit
<1>7. ASSUME NEW e \in todo, GeneratorWaits(e) \/ FliesOn(e) PROVE CoolInv'
  BY <1>7, <1>s DEF GeneratorWaits, FliesOn, Visit, world
<1>8. ASSUME NEW e \in todo, HoldsFire(e) PROVE CoolInv'
  <2>1. \A p \in Players : CoolOf(p)'
    BY <1>8, <1>a, CoolFrame DEF HoldsFire, world
  <2> QED BY <1>8, <2>1 DEF HoldsFire, world, CoolInv
<1>9. ASSUME NEW x \in todo, HitsWall(x) PROVE CoolInv'
  <2>1. \A p \in Players : slab'[p] = slab[p] \/ slab'[p] = Free
    BY <1>0, <1>9, <1>a DEF HitsWall
  <2>2. phase' # "fire"
    BY <1>9 DEF HitsWall, Visit
  <2>3. \A p \in Players : slab'[p].kind = "player" =>
                              slab[p].kind = "player" /\ slab'[p].dead = slab[p].dead
    BY <2>1 DEF Free
  <2> QED BY <1>9, <1>s, <2>2, <2>3 DEF HitsWall
<1>10. ASSUME NEW x \in todo, NEW t \in ID, Hits(x, t) PROVE CoolInv'
  <2> SUFFICES ASSUME NEW p \in Players PROVE CoolOf(p)'
    BY <1>10 DEF CoolInv, Hits, Visit
  <2>1. CASE p = t /\ Dies(t)
    <3>1. lastShot'[p] = -1
      BY <1>0, <1>10, <2>1 DEF Hits
    <3>2. ~(lastShot'[p] >= 0)
      BY <3>1
    <3> QED BY <1>10, <1>a, <3>2, CoolFrame DEF Hits
  <2>2. CASE ~(p = t /\ Dies(t))
    <3>1. record'[p].cooldown = record[p].cooldown
      BY <1>10, <2>2, LifePaid DEF Hits
    <3>2. lastShot'[p] = lastShot[p]
      BY <1>0, <1>10, <2>2 DEF Hits
    <3>3. slab'[p].kind = "player" => slab[p].kind = "player" /\ slab'[p].dead = slab[p].dead
      <4>1. \/ slab'[p] = slab[p] \/ slab'[p] = Free
            \/ /\ Hurts(t) /\ p = t
               /\ slab'[p] = [slab[p] EXCEPT !.hp = @ - 1, !.dead = Dies(t), !.invuln = @ /\ ~Dies(t)]
        BY <1>0, <1>10, <1>a DEF Hits
      <4>2. slab[p] \in EntityType
        BY <1>0, <1>a
      <4>3. CASE slab'[p] = slab[p] \/ slab'[p] = Free
        BY <4>3 DEF Free
      <4>4. CASE /\ Hurts(t) /\ p = t
                 /\ slab'[p] = [slab[p] EXCEPT !.hp = @ - 1, !.dead = Dies(t), !.invuln = @ /\ ~Dies(t)]
        <5>1. slab'[p].kind = slab[p].kind /\ slab'[p].dead = Dies(t)
          BY <4>2, <4>4 DEF EntityType
        <5>2. ~Dies(t) /\ ~slab[p].dead
          BY <2>2, <4>4 DEF Hurts
        <5>3. slab[p].dead \in BOOLEAN /\ Dies(t) \in BOOLEAN
          BY <4>2 DEF EntityType, Dies
        <5> QED BY <5>1, <5>2, <5>3
      <4> QED BY <4>1, <4>3, <4>4
    <3> QED BY <1>10, <1>a, <3>1, <3>2, <3>3, CoolFrame DEF Hits
  <2> QED BY <2>1, <2>2
<1>11. ASSUME NEW x \in todo, NEW owt \in Owts, Fires(x, owt) PROVE CoolInv'
  <2>1. CASE HasID
    <3>1. /\ phase = "fire" /\ tick' = tick /\ todo' \subseteq todo
          /\ \A e \in ID : slab'[e] = IF e = nextID THEN Entity("projectile", 1, FALSE) ELSE slab[e]
      BY <1>0, <1>11, <2>1 DEF Fires, NewShot, Visit
    <3>2. \A e \in todo' : e # nextID /\ slab'[e].kind = "player" /\ ~slab'[e].dead
      BY <1>0, <1>n, <2>1, <3>1 DEF CoolInv
    <3>3. ASSUME NEW p \in Players PROVE CoolOf(p)'
      <4>1. slab'[p] = slab[p]
        BY <1>a, <3>1
      <4>2. CASE p = x
        <5>1. lastShot'[p] = tick /\ record'[p].cooldown = FireCooldown /\ ~slab[p].dead
          BY <1>0, <1>11, <2>1, <3>1, <4>2 DEF Fires, Armed, RecordType, CoolInv
        <5>2. tick <= tick /\ FireCooldown + (tick - tick) >= FireCooldown
          BY <1>0, SimAssumption
        <5> QED BY <3>1, <4>1, <5>1, <5>2 DEF CoolOf
      <4>3. CASE p # x
        <5>1. lastShot'[p] = lastShot[p] /\ record'[p].cooldown = record[p].cooldown
          BY <1>0, <1>11, <2>1, <4>3 DEF Fires
        <5> QED BY <1>a, <3>1, <4>1, <5>1, CoolFrame
      <4> QED BY <4>2, <4>3
    <3> QED BY <3>2, <3>3 DEF CoolInv
  <2>2. CASE ~HasID
    BY <1>11, <1>s, <2>2 DEF Fires
  <2> QED BY <2>1, <2>2
<1>12. ASSUME NEW placed \in SUBSET Due, Respawn(placed) PROVE CoolInv'
  <2> SUFFICES ASSUME NEW p \in Players PROVE CoolOf(p)'
    BY <1>12 DEF CoolInv, Respawn
  <2>0. tick' = tick /\ lastShot' = lastShot /\ record[p] \in RecordType /\ p \in ID
    BY <1>0, <1>12, <1>a DEF Respawn
  <2>1. CASE p \in Due
    <3>1. ~(lastShot'[p] >= 0)
      BY <1>a, <2>0, <2>1 DEF Due, CoolOf
    <3> QED BY <1>a, <2>0, <3>1, CoolFrame
  <2>2. CASE p \notin Due
    <3>1. record'[p] = record[p] /\ slab'[p] = slab[p]
      BY <1>12, <2>0, <2>2 DEF Respawn
    <3> QED BY <1>a, <2>0, <3>1, CoolFrame
  <2> QED BY <2>1, <2>2
<1>13. ASSUME NEW q \in Players, FreezePlayer(q) PROVE CoolInv'
  <2> SUFFICES ASSUME NEW p \in Players PROVE CoolOf(p)'
    BY <1>13 DEF CoolInv, FreezePlayer
  <2>1. CASE p = q
    <3>1. lastShot'[p] = -1
      BY <1>0, <1>13, <2>1 DEF FreezePlayer
    <3>2. ~(lastShot'[p] >= 0)
      BY <3>1
    <3> QED BY <1>13, <1>a, <3>2, CoolFrame DEF FreezePlayer
  <2>2. CASE p # q
    BY <1>0, <1>13, <1>a, <2>2, CoolFrame DEF FreezePlayer
  <2> QED BY <2>1, <2>2
<1>14. ASSUME NEW q \in Players, RemovePlayer(q) PROVE CoolInv'
  <2> SUFFICES ASSUME NEW p \in Players PROVE CoolOf(p)'
    BY <1>14 DEF CoolInv, RemovePlayer
  <2>1. CASE p = q
    BY <1>0, <1>14, <1>a, <2>1 DEF RemovePlayer, Free, CoolOf
  <2>2. CASE p # q
    BY <1>0, <1>14, <1>a, <2>2, CoolFrame DEF RemovePlayer
  <2> QED BY <2>1, <2>2
<1>15. CASE UNCHANGED vars
  BY <1>15 DEF vars, CoolInv, CoolOf
<1> HIDE DEF CoolInv
<1> QED BY <1>1, <1>2, <1>3, <1>4, <1>5, <1>6, <1>7, <1>8, <1>9, <1>10, <1>11, <1>12, <1>13,
           <1>14, <1>15 DEF Next

LEMMA CoolInit == Init => CoolInv
BY DEF Init, CoolInv, CoolOf

THEOREM CoolCorrect == Spec => []CoolInv
BY CoolInit, CoolStep, RingCorrect, SimTypeCorrect, PTL DEF Spec

(* A player that has neither died nor been frozen since its last shot does *)
(* not shoot before the cooldown is over.                                  *)
THEOREM CooldownCorrect == Spec => CooldownKept
<1>1. ASSUME SimTypeOK, CoolInv, [Next]_vars
      PROVE  [\A p \in Players : lastShot'[p] > lastShot[p] /\ lastShot[p] >= 0
                                   => lastShot'[p] - lastShot[p] >= FireCooldown]_vars
  <2> SUFFICES ASSUME Next, NEW p \in Players, lastShot'[p] > lastShot[p], lastShot[p] >= 0
               PROVE  lastShot'[p] - lastShot[p] >= FireCooldown
    BY <1>1
  <2>0. /\ lastShot \in [Players -> Int] /\ lastShot[p] \in Int /\ tick \in Nat
        /\ FireCooldown \in Nat /\ CoolOf(p) /\ ~(-1 > lastShot[p]) /\ ~(lastShot[p] > lastShot[p])
    BY <1>1, SimAssumption DEF SimTypeOK, CoolInv
  <2>1. \A q \in todo, owt \in Owts : Fires(q, owt) => lastShot'[p] - lastShot[p] >= FireCooldown
    <3> SUFFICES ASSUME NEW q \in todo, NEW owt \in Owts, Fires(q, owt)
                 PROVE  lastShot'[p] - lastShot[p] >= FireCooldown
      OBVIOUS
    <3>1. q = p /\ lastShot'[p] = tick
      BY <2>0 DEF Fires
    <3>2. slab[p].kind = "player" /\ record[p].cooldown = 0
      BY <1>1, <3>1 DEF Fires, Visit, CoolInv
    <3> QED BY <2>0, <3>1, <3>2 DEF CoolOf
  <2>2. \A x \in todo, t \in ID : ~Hits(x, t)
    BY <2>0 DEF Hits
  <2>3. \A q \in Players : ~FreezePlayer(q)
    BY <2>0 DEF FreezePlayer
  <2>4. lastShot' = lastShot => FALSE
    BY <2>0
  <2> HIDE DEF SimTypeOK
  <2> QED BY <2>1, <2>2, <2>3, <2>4
          DEF Next, BeginTick, Quiesce, SnipesDone, WriteHistory, AgeProjectiles, EndTick, SnipeIdles,
              SnipeFires, GeneratorWaits, GeneratorEmits, FliesOn, HitsWall, HoldsFire, Respawn,
              RemovePlayer, world
<1> QED BY <1>1, CoolCorrect, SimTypeCorrect, PTL DEF Spec, CooldownKept

-----------------------------------------------------------------------------
(* The slab has room.  Of every kind there is only so much, and when the   *)
(* generators emit no snipe that is dead takes up a slot.                  *)

CapsInv ==
  /\ \A e \in ID : /\ slab[e].kind = "player" => e \in Players
                   /\ slab[e].kind = "generator" => e \in Generators
  /\ InFlight <= MaxInFlight
  /\ Cardinality(Living("snipe")) <= MaxSnipes
  /\ phase \in {"idle", "snipes", "generators"} =>
       \A e \in ID : slab[e].kind = "snipe" => ~slab[e].dead

LEMMA SomeIDs ==
  /\ \A S \in SUBSET ID : IsFiniteSet(S) /\ Cardinality(S) \in Nat
  /\ \A S, T \in SUBSET ID : S \subseteq T => Cardinality(S) <= Cardinality(T)
  /\ \A S, T \in SUBSET ID : \A x : S \subseteq T \cup {x} => Cardinality(S) <= Cardinality(T) + 1
  /\ \A S, T \in SUBSET ID : Cardinality(S \cup T) <= Cardinality(S) + Cardinality(T)
<1>1. IsFiniteSet(ID)
  BY SimAssumption, FS_Interval DEF ID
<1>2. \A S \in SUBSET ID : IsFiniteSet(S)
  BY <1>1, FS_Subset
<1>3. \A S \in SUBSET ID : Cardinality(S) \in Nat
  BY <1>2, FS_CardinalityType
<1>4. \A S, T \in SUBSET ID : S \subseteq T => Cardinality(S) <= Cardinality(T)
  BY <1>2, FS_Subset
<1>5. ASSUME NEW S \in SUBSET ID, NEW T \in SUBSET ID, NEW x, S \subseteq T \cup {x}
      PROVE  Cardinality(S) <= Cardinality(T) + 1
  <2>1. /\ IsFiniteSet(T \cup {x})
        /\ Cardinality(T \cup {x}) = IF x \in T THEN Cardinality(T) ELSE Cardinality(T) + 1
    BY <1>2, FS_AddElement
  <2>2. Cardinality(S) <= Cardinality(T \cup {x})
    BY <1>5, <2>1, FS_Subset
  <2> QED BY <1>3, <2>1, <2>2
<1>6. ASSUME NEW S \in SUBSET ID, NEW T \in SUBSET ID
      PROVE  Cardinality(S \cup T) <= Cardinality(S) + Cardinality(T)
  <2>1. Cardinality(S \cup T) = Cardinality(S) + Cardinality(T) - Cardinality(S \cap T)
    BY <1>2, FS_Union
  <2>2. Cardinality(S \cap T) \in Nat /\ Cardinality(S) \in Nat /\ Cardinality(T) \in Nat
    BY <1>3
  <2> QED BY <2>1, <2>2
<1> QED BY <1>2, <1>3, <1>4, <1>5, <1>6

(* Where no snipe is dead and one may still come, a slot is free.          *)
LEMMA RoomForOne ==
  ASSUME SimTypeOK, CapsInv, phase = "generators", BelowCap
  PROVE  HasSlot
<1> DEFINE players == OfKind("player")
           gens    == OfKind("generator")
           shots   == OfKind("projectile")
           snipes  == Living("snipe")
<1>0. players \subseteq ID /\ gens \subseteq ID /\ shots \subseteq ID /\ snipes \subseteq ID
      /\ Players \subseteq ID /\ Generators \subseteq ID
  <2>1. Players \subseteq ID /\ Generators \subseteq ID
    BY SimAssumption DEF ID
  <2> QED BY <2>1 DEF OfKind, Living
<1>1. Occupied = ((players \cup gens) \cup shots) \cup snipes
  <2>1. \A e \in ID : slab[e].kind \in Kinds \cup {"free"}
    BY DEF SimTypeOK, EntityType
  <2>2. \A e \in ID : slab[e].kind = "snipe" => ~slab[e].dead
    BY DEF CapsInv
  <2> QED BY <2>1, <2>2 DEF Occupied, OfKind, Living, Kinds
<1>2. players \subseteq Players /\ gens \subseteq Generators
  BY DEF CapsInv, OfKind
<1>3. Cardinality(shots) <= MaxInFlight /\ Cardinality(snipes) < MaxSnipes
  BY DEF CapsInv, InFlight, BelowCap
<1> HIDE DEF players, gens, shots, snipes
<1>4. /\ Cardinality(players) <= Cardinality(Players)
      /\ Cardinality(gens) <= Cardinality(Generators)
  BY <1>0, <1>2, SomeIDs
<1>5. /\ Cardinality(players \cup gens) <= Cardinality(players) + Cardinality(gens)
      /\ Cardinality((players \cup gens) \cup shots)
           <= Cardinality(players \cup gens) + Cardinality(shots)
      /\ Cardinality(Occupied) <= Cardinality((players \cup gens) \cup shots) + Cardinality(snipes)
  BY <1>0, <1>1, SomeIDs
<1>6. /\ Cardinality(players) \in Nat /\ Cardinality(gens) \in Nat /\ Cardinality(shots) \in Nat
      /\ Cardinality(snipes) \in Nat /\ Cardinality(players \cup gens) \in Nat
      /\ Cardinality((players \cup gens) \cup shots) \in Nat /\ Cardinality(Occupied) \in Nat
      /\ Cardinality(Players) \in Nat /\ Cardinality(Generators) \in Nat
  BY <1>0, <1>1, SomeIDs
<1>7. /\ MaxEntities \in Nat /\ MaxInFlight \in Nat /\ MaxSnipes \in Nat
      /\ Cardinality(Players) + Cardinality(Generators) + MaxSnipes + MaxInFlight <= MaxEntities
  BY SimAssumption
<1>8. Cardinality(Occupied) < MaxEntities
  BY <1>3, <1>4, <1>5, <1>6, <1>7
<1> QED BY <1>8 DEF HasSlot

LEMMA CapsInit == Init => CapsInv
<1> SUFFICES ASSUME Init PROVE CapsInv
  OBVIOUS
<1>1. \A e \in ID : slab[e].kind = IF e \in Players THEN "player"
                                   ELSE IF e \in Generators THEN "generator" ELSE "free"
  BY DEF Init, Entity, Free
<1>2. OfKind("projectile") = {} /\ Living("snipe") = {}
  BY <1>1 DEF OfKind, Living
<1>3. Cardinality({}) = 0 /\ 0 <= MaxInFlight /\ 0 <= MaxSnipes
  BY FS_EmptySet, SimAssumption
<1>4. /\ \A e \in ID : /\ slab[e].kind = "player" => e \in Players
                       /\ slab[e].kind = "generator" => e \in Generators
      /\ \A e \in ID : slab[e].kind # "snipe"
  BY <1>1
<1> QED BY <1>2, <1>3, <1>4 DEF CapsInv, InFlight

(* Steps that bring nobody into the world or back to life.                 *)
LEMMA CapsFrame ==
  ASSUME SimTypeOK, CapsInv,
         \A e \in ID : /\ slab'[e].kind \in {slab[e].kind, "free"}
                       /\ slab'[e].kind = "snipe" /\ ~slab'[e].dead => ~slab[e].dead,
         \/ phase' \notin {"idle", "snipes", "generators"}
         \/ \A e \in ID : slab'[e].kind = "snipe" => ~slab'[e].dead
  PROVE  CapsInv'
<1>1. /\ {e \in ID : slab'[e].kind = "projectile"} \subseteq OfKind("projectile")
      /\ {e \in ID : slab'[e].kind = "snipe" /\ ~slab'[e].dead} \subseteq Living("snipe")
  BY DEF OfKind, Living
<1>2. /\ Cardinality({e \in ID : slab'[e].kind = "projectile"}) <= Cardinality(OfKind("projectile"))
      /\ Cardinality({e \in ID : slab'[e].kind = "snipe" /\ ~slab'[e].dead})
           <= Cardinality(Living("snipe"))
  <2>1. OfKind("projectile") \in SUBSET ID /\ Living("snipe") \in SUBSET ID
    BY DEF OfKind, Living
  <2> QED BY <1>1, <2>1, SomeIDs
<1>3. /\ Cardinality(OfKind("projectile")) <= MaxInFlight /\ Cardinality(Living("snipe")) <= MaxSnipes
      /\ MaxInFlight \in Nat /\ MaxSnipes \in Nat
      /\ Cardinality(OfKind("projectile")) \in Nat /\ Cardinality(Living("snipe")) \in Nat
      /\ Cardinality({e \in ID : slab'[e].kind = "projectile"}) \in Nat
      /\ Cardinality({e \in ID : slab'[e].kind = "snipe" /\ ~slab'[e].dead}) \in Nat
  <2>1. OfKind("projectile") \in SUBSET ID /\ Living("snipe") \in SUBSET ID
    BY DEF OfKind, Living
  <2> QED BY <2>1, SimAssumption, SomeIDs DEF CapsInv, InFlight
<1>4. /\ Cardinality({e \in ID : slab'[e].kind = "projectile"}) <= MaxInFlight
      /\ Cardinality({e \in ID : slab'[e].kind = "snipe" /\ ~slab'[e].dead}) <= MaxSnipes
  BY <1>2, <1>3
<1>5. \A e \in ID : /\ slab'[e].kind = "player" => e \in Players
                    /\ slab'[e].kind = "generator" => e \in Generators
  BY DEF CapsInv
<1> QED BY <1>4, <1>5 DEF CapsInv, InFlight, OfKind, Living

(* A shot and a snipe are only issued below their cap.                     *)
LEMMA CapsIssued ==
  ASSUME SimTypeOK, CapsInv, HasID, NEW k \in {"projectile", "snipe"}, NEW n, NEW b,
         slab' = [slab EXCEPT ![nextID] = Entity(k, n, b)],
         k = "projectile" => InFlight < MaxInFlight,
         k = "snipe" => BelowCap,
         phase' \in {"idle", "snipes", "generators"} => phase \in {"idle", "snipes", "generators"}
  PROVE  CapsInv'
<1> DEFINE shots  == {e \in ID : slab'[e].kind = "projectile"}
           snipes == {e \in ID : slab'[e].kind = "snipe" /\ ~slab'[e].dead}
<1>1. /\ \A e \in ID : slab'[e] = IF e = nextID THEN Entity(k, n, b) ELSE slab[e]
      /\ Entity(k, n, b).kind = k /\ ~Entity(k, n, b).dead
  BY DEF SimTypeOK, Entity
<1>2. /\ shots \subseteq OfKind("projectile") \cup {nextID}
      /\ k = "snipe" => shots \subseteq OfKind("projectile")
      /\ snipes \subseteq Living("snipe") \cup {nextID}
      /\ k = "projectile" => snipes \subseteq Living("snipe")
  BY <1>1 DEF OfKind, Living
<1>3. /\ shots \in SUBSET ID /\ snipes \in SUBSET ID
      /\ OfKind("projectile") \in SUBSET ID /\ Living("snipe") \in SUBSET ID
  BY DEF OfKind, Living
<1>4. \A e \in ID : /\ slab'[e].kind = "player" => e \in Players
                    /\ slab'[e].kind = "generator" => e \in Generators
  BY <1>1 DEF CapsInv
<1>5. phase' \in {"idle", "snipes", "generators"} =>
        \A e \in ID : slab'[e].kind = "snipe" => ~slab'[e].dead
  BY <1>1 DEF CapsInv
<1> HIDE DEF shots, snipes
<1>6. /\ Cardinality(OfKind("projectile")) \in Nat /\ Cardinality(Living("snipe")) \in Nat
      /\ Cardinality(shots) \in Nat /\ Cardinality(snipes) \in Nat
      /\ Cardinality(shots) <= Cardinality(OfKind("projectile")) + 1
      /\ k = "snipe" => Cardinality(shots) <= Cardinality(OfKind("projectile"))
      /\ Cardinality(snipes) <= Cardinality(Living("snipe")) + 1
      /\ k = "projectile" => Cardinality(snipes) <= Cardinality(Living("snipe"))
  BY <1>2, <1>3, SomeIDs
<1>7. /\ Cardinality(OfKind("projectile")) <= MaxInFlight /\ Cardinality(Living("snipe")) <= MaxSnipes
      /\ MaxInFlight \in Nat /\ MaxSnipes \in Nat
      /\ k = "projectile" => Cardinality(OfKind("projectile")) < MaxInFlight
      /\ k = "snipe" => Cardinality(Living("snipe")) < MaxSnipes
  BY SimAssumption DEF CapsInv, InFlight, BelowCap
<1>8. Cardinality(shots) <= MaxInFlight /\ Cardinality(snipes) <= MaxSnipes
  BY <1>6, <1>7
<1> QED BY <1>4, <1>5, <1>8 DEF CapsInv, InFlight, OfKind, Living, shots, snipes

LEMMA CapsStep ==
  ASSUME SimTypeOK, LifeInv, CapsInv, [Next]_vars
  PROVE  CapsInv'
<1>0. slab \in [ID -> EntityType]
  BY DEF SimTypeOK
<1>a. phase \in {"idle", "snipes", "generators"} =>
        \A e \in ID : slab[e].kind = "snipe" => ~slab[e].dead
  BY DEF CapsInv
(* Steps that leave the slab alone, or only free what it holds.            *)
<1>s. ASSUME \A e \in ID : slab'[e] = slab[e] \/ slab'[e] = Free,
             phase' \in {"idle", "snipes", "generators"} => phase \in {"idle", "snipes", "generators"}
      PROVE  CapsInv'
  <2>1. \A e \in ID : /\ slab'[e].kind \in {slab[e].kind, "free"}
                      /\ slab'[e].kind = "snipe" /\ ~slab'[e].dead => ~slab[e].dead
    BY <1>s DEF Free
  <2>2. \/ phase' \notin {"idle", "snipes", "generators"}
        \/ \A e \in ID : slab'[e].kind = "snipe" => ~slab'[e].dead
    BY <1>a, <1>s DEF Free
  <2> QED BY <2>1, <2>2, CapsFrame
<1>1. CASE BeginTick \/ Quiesce \/ SnipesDone \/ WriteHistory
  BY <1>1, <1>s DEF BeginTick, Quiesce, SnipesDone, WriteHistory, world
<1>2. CASE AgeProjectiles
  BY <1>0, <1>2, <1>s DEF AgeProjectiles
<1>3. CASE EndTick
  <2>1. \A e \in ID : \/ slab'[e] = slab[e] /\ e \notin Garbage
                      \/ slab'[e] = Free
                      \/ slab'[e] = [slab[e] EXCEPT !.invuln = FALSE] /\ e \notin Garbage
    BY <1>0, <1>3 DEF EndTick
  <2>2. \A e \in ID : \/ slab'[e].kind = "free"
                      \/ slab'[e].kind = slab[e].kind /\ slab'[e].dead = slab[e].dead
                         /\ e \notin Garbage
    <3>1. \A r \in EntityType : [r EXCEPT !.invuln = FALSE].kind = r.kind
                                /\ [r EXCEPT !.invuln = FALSE].dead = r.dead
      BY DEF EntityType
    <3>2. Free.kind = "free"
      BY DEF Free
    <3> HIDE DEF Garbage
    <3> QED BY <1>0, <2>1, <3>1, <3>2
  <2>3. \A e \in ID : slab[e].kind = "snipe" => e \notin Players
    BY DEF LifeInv, LifeOf, Free
  <2>4. \A e \in ID : slab[e].kind = "snipe" /\ slab[e].dead => e \in Garbage
    BY <2>3 DEF Garbage, Occupied
  <2>5. \A e \in ID : slab'[e].kind = "snipe" => ~slab'[e].dead
    BY <2>2, <2>4
  <2>6. \A e \in ID : /\ slab'[e].kind \in {slab[e].kind, "free"}
                      /\ slab'[e].kind = "snipe" /\ ~slab'[e].dead => ~slab[e].dead
    BY <2>2
  <2> QED BY <2>5, <2>6, CapsFrame
<1>4. ASSUME NEW x \in todo, SnipeIdles(x) PROVE CapsInv'
  <2>1. \A e \in ID : slab'[e].kind = slab[e].kind /\ slab'[e].dead = slab[e].dead
    BY <1>0, <1>4 DEF SnipeIdles, EntityType
  <2>2. phase' = phase
    BY <1>4 DEF SnipeIdles
  <2>3. \/ phase' \notin {"idle", "snipes", "generators"}
        \/ \A e \in ID : slab'[e].kind = "snipe" => ~slab'[e].dead
    BY <1>a, <2>1, <2>2
  <2> QED BY <2>1, <2>3, CapsFrame
<1>5. ASSUME NEW x \in todo, SnipeFires(x) PROVE CapsInv'
  <2>1. CASE HasID
    BY <1>5, <2>1, CapsIssued DEF SnipeFires, NewShot
  <2>2. CASE ~HasID
    BY <1>5, <1>s, <2>2 DEF SnipeFires
  <2> QED BY <2>1, <2>2
<1>6. ASSUME NEW g \in todo, GeneratorEmits(g) PROVE CapsInv'
  <2>1. CASE HasID /\ HasSlot
    BY <1>6, <2>1, CapsIssued DEF GeneratorEmits
  <2>2. CASE ~(HasID /\ HasSlot)
    BY <1>6, <1>s, <2>2 DEF GeneratorEmits
  <2> QED BY <2>1, <2>2
<1>7. ASSUME NEW x \in todo, GeneratorWaits(x) \/ FliesOn(x) \/ HoldsFire(x) PROVE CapsInv'
  BY <1>7, <1>s DEF GeneratorWaits, FliesOn, HoldsFire, world
<1>8. ASSUME NEW x \in todo, HitsWall(x) PROVE CapsInv'
  BY <1>0, <1>8, <1>s DEF HitsWall
<1>9. ASSUME NEW x \in todo, NEW t \in ID, Hits(x, t) PROVE CapsInv'
  <2>1. phase' \notin {"idle", "snipes", "generators"}
    BY <1>9 DEF Hits, Visit
  <2>2. ASSUME NEW e \in ID
        PROVE  /\ slab'[e].kind \in {slab[e].kind, "free"}
               /\ slab'[e].kind = "snipe" /\ ~slab'[e].dead => ~slab[e].dead
    <3>1. \/ slab'[e] = slab[e] \/ slab'[e] = Free
          \/ /\ Hurts(t) /\ e = t
             /\ slab'[e] = [slab[e] EXCEPT !.hp = @ - 1, !.dead = Dies(e), !.invuln = @ /\ ~Dies(e)]
      BY <1>0, <1>9 DEF Hits
    <3>2. CASE slab'[e] = slab[e] \/ slab'[e] = Free
      BY <3>2 DEF Free
    <3>3. CASE /\ Hurts(t) /\ e = t
               /\ slab'[e] = [slab[e] EXCEPT !.hp = @ - 1, !.dead = Dies(e), !.invuln = @ /\ ~Dies(e)]
      BY <1>0, <3>3 DEF Hurts, EntityType
    <3> QED BY <3>1, <3>2, <3>3
  <2> QED BY <2>1, <2>2, CapsFrame
<1>10. ASSUME NEW x \in todo, NEW owt \in Owts, Fires(x, owt) PROVE CapsInv'
  <2>1. CASE HasID
    <3>1. slab' = [slab EXCEPT ![nextID] = Entity("projectile", 1, FALSE)] /\ InFlight < MaxInFlight
          /\ phase' \notin {"idle", "snipes", "generators"}
      BY <1>10, <2>1 DEF Fires, NewShot, Visit
    <3> QED BY <2>1, <3>1, CapsIssued
  <2>2. CASE ~HasID
    BY <1>10, <1>s, <2>2 DEF Fires
  <2> QED BY <2>1, <2>2
<1>11. ASSUME NEW placed \in SUBSET Due, Respawn(placed) PROVE CapsInv'
  <2>1. \A e \in ID : /\ slab'[e].kind \in {slab[e].kind, "free"}
                      /\ slab'[e].kind = "snipe" /\ ~slab'[e].dead => ~slab[e].dead
    <3>1. \A e \in ID : slab'[e] = IF e \in placed THEN Entity("player", 1, TRUE) ELSE slab[e]
      BY <1>11 DEF Respawn
    <3>2. Entity("player", 1, TRUE).kind = "player" /\ \A e \in placed : slab[e].kind = "player"
      BY DEF Entity, Due
    <3> QED BY <3>1, <3>2
  <2>2. phase' \notin {"idle", "snipes", "generators"}
    BY <1>11 DEF Respawn
  <2> QED BY <2>1, <2>2, CapsFrame
<1>12. ASSUME NEW p \in Players, FreezePlayer(p) PROVE CapsInv'
  BY <1>12, <1>s DEF FreezePlayer
<1>13. ASSUME NEW p \in Players, RemovePlayer(p) PROVE CapsInv'
  BY <1>0, <1>13, <1>s DEF RemovePlayer
<1>14. CASE UNCHANGED vars
  BY <1>14, <1>s DEF vars
<1> HIDE DEF CapsInv
<1> QED BY <1>1, <1>2, <1>3, <1>4, <1>5, <1>6, <1>7, <1>8, <1>9, <1>10, <1>11, <1>12, <1>13, <1>14
        DEF Next

THEOREM CapsCorrect == Spec => []CapsInv
BY CapsInit, CapsStep, LifeCorrect, SimTypeCorrect, PTL DEF Spec

(* The simulation stops for want of ids and for nothing else: a generator  *)
(* that may emit finds a slot.                                             *)
THEOREM StopsCorrect == Spec => StopsOnlyOnIDs
<1>1. ASSUME SimTypeOK, CapsInv, [Next]_vars
      PROVE  [quiesced' /\ ~quiesced => nextID + Cardinality(Players) > MaxID]_vars
  <2> SUFFICES ASSUME Next, quiesced', ~quiesced PROVE nextID + Cardinality(Players) > MaxID
    BY <1>1
  <2>0. nextID \in Nat /\ MaxID \in Nat /\ Cardinality(Players) \in Nat \ {0}
    <3>1. Players \in SUBSET ID /\ FirstID \in Nat /\ MaxID \in Nat
      BY SimAssumption DEF ID
    <3>2. Cardinality(Players) # 0
      BY <3>1, SomeIDs, FS_EmptySet, SimAssumption
    <3>3. nextID \in Nat
      BY <1>1, <3>1 DEF SimTypeOK
    <3> QED BY <3>1, <3>2, <3>3, SomeIDs
  <2>1. ~HasID => nextID + Cardinality(Players) > MaxID
    BY <2>0 DEF HasID
  <2>2. CASE Quiesce
    <3>1. nextID + Cardinality(Living("player")) > MaxID
      BY <2>2 DEF Quiesce
    <3>2. Living("player") \subseteq Players /\ Living("player") \in SUBSET ID /\ Players \in SUBSET ID
      BY <1>1, SimAssumption DEF CapsInv, Living, ID
    <3>3. /\ Cardinality(Living("player")) <= Cardinality(Players)
          /\ Cardinality(Living("player")) \in Nat
      BY <3>2, SomeIDs
    <3> QED BY <2>0, <3>1, <3>3
  <2>3. ASSUME NEW g \in todo, GeneratorEmits(g) PROVE ~HasID
    BY <1>1, <2>3, RoomForOne DEF GeneratorEmits, Visit
  <2>4. ASSUME NEW e \in todo, SnipeFires(e) PROVE ~HasID
    BY <2>4 DEF SnipeFires
  <2>5. ASSUME NEW e \in todo, NEW owt \in Owts, Fires(e, owt) PROVE ~HasID
    BY <2>5 DEF Fires
  <2>6. quiesced' = quiesced => FALSE
    OBVIOUS
  <2> QED BY <2>1, <2>2, <2>3, <2>4, <2>5, <2>6
          DEF Next, BeginTick, SnipesDone, WriteHistory, AgeProjectiles, EndTick, SnipeIdles,
              GeneratorWaits, FliesOn, HitsWall, HoldsFire, Hits, Respawn, FreezePlayer,
              RemovePlayer
<1> QED BY <1>1, CapsCorrect, SimTypeCorrect, PTL DEF Spec, StopsOnlyOnIDs
-----------------------------------------------------------------------------
(* Points.  To compare two counts of points it is enough to compare them   *)
(* entity by entity, and a point more for one entity is one point more.    *)

LEMMA PointsFinite ==
  ASSUME NEW S, IsFiniteSet(S), NEW n \in [S -> Nat]
  PROVE  IsFiniteSet(Points(n)) /\ Cardinality(Points(n)) \in Nat
<1> DEFINE f == [e \in S |-> {e} \X (1 .. n[e])]
           T == {{e} \X (1 .. n[e]) : e \in S}
<1>1. f \in Surjection(S, T)
  BY DEF Surjection
<1>2. IsFiniteSet(T)
  <2> HIDE DEF f, T
  <2> QED BY <1>1, FS_Surjection
<1>3. ASSUME NEW e \in S PROVE IsFiniteSet({e} \X (1 .. n[e]))
  <2>1. IsFiniteSet({e}) /\ IsFiniteSet(1 .. n[e])
    <3>1. 1 \in Int /\ n[e] \in Int
      OBVIOUS
    <3> QED BY <3>1, FS_Singleton, FS_Interval
  <2> QED BY <2>1, FS_Product
<1>4. IsFiniteSet(UNION T)
  <2>1. \A X \in T : IsFiniteSet(X)
    BY <1>3
  <2> HIDE DEF T
  <2> QED BY <1>2, <2>1, FS_UNION
<1>5. Points(n) = UNION T
  BY DEF Points
<1> QED BY <1>4, <1>5, FS_CardinalityType

LEMMA APoint ==
  ASSUME NEW S, NEW n \in [S -> Nat], NEW x
  PROVE  x \in Points(n) <=> \E e \in S : \E i \in 1 .. n[e] : x = <<e, i>>
BY DEF Points

LEMMA PointsGrow ==
  ASSUME NEW S, IsFiniteSet(S), NEW n \in [S -> Nat], NEW m \in [S -> Nat],
         \A e \in S : n[e] <= m[e]
  PROVE  Cardinality(Points(n)) <= Cardinality(Points(m))
<1>1. \A e \in S : \A i \in 1 .. n[e] : i \in 1 .. m[e]
  OBVIOUS
<1>2. Points(n) \subseteq Points(m)
  BY <1>1, APoint
<1> QED BY <1>2, PointsFinite, FS_Subset

LEMMA PointsAdd ==
  ASSUME NEW S, IsFiniteSet(S), NEW n \in [S -> Nat], NEW a \in S, NEW k \in Nat,
         NEW m \in [S -> Nat], m[a] = n[a] + k, \A e \in S : e # a => m[e] = n[e]
  PROVE  Cardinality(Points(m)) = Cardinality(Points(n)) + k
<1> DEFINE more == {a} \X ((n[a] + 1) .. (n[a] + k))
<1>0. n[a] \in Nat /\ m \in [S -> Nat] /\ m[a] = n[a] + k /\ \A e \in S : e # a => m[e] = n[e]
  OBVIOUS
<1>1. IsFiniteSet(more) /\ Cardinality(more) = k
  <2>1. IsFiniteSet({a}) /\ Cardinality({a}) = 1
    BY FS_Singleton
  <2>2. /\ IsFiniteSet((n[a] + 1) .. (n[a] + k))
        /\ Cardinality((n[a] + 1) .. (n[a] + k)) = k
    <3> DEFINE i == n[a] + 1
               j == n[a] + k
    <3>1. i \in Int /\ j \in Int /\ k = IF i > j THEN 0 ELSE j - i + 1
      BY <1>0
    <3>2. IsFiniteSet(i .. j) /\ Cardinality(i .. j) = IF i > j THEN 0 ELSE j - i + 1
      <4> HIDE DEF i, j
      <4> QED BY <3>1, FS_Interval
    <3> QED BY <3>1, <3>2
  <2>3. \A T, U : IsFiniteSet(T) /\ IsFiniteSet(U) =>
                   /\ IsFiniteSet(T \X U)
                   /\ Cardinality(T \X U) = Cardinality(T) * Cardinality(U)
    BY FS_Product
  <2>4. /\ IsFiniteSet(more)
        /\ Cardinality(more) = Cardinality({a}) * Cardinality((n[a] + 1) .. (n[a] + k))
    BY <2>1, <2>2, <2>3, Zenon
  <2>5. 1 * k = k
    OBVIOUS
  <2> HIDE DEF more
  <2> QED BY <2>1, <2>2, <2>4, <2>5
<1>p. /\ \A x : x \in Points(n) <=> \E e \in S : \E i \in 1 .. n[e] : x = <<e, i>>
      /\ \A x : x \in Points(m) <=> \E e \in S : \E i \in 1 .. m[e] : x = <<e, i>>
  BY <1>0, APoint
<1>2. Points(m) = Points(n) \cup more
  <2>1. \A i : i \in 1 .. m[a] <=> i \in 1 .. n[a] \/ i \in (n[a] + 1) .. (n[a] + k)
    BY <1>0
  <2>2. \A x : x \in more <=> \E i \in (n[a] + 1) .. (n[a] + k) : x = <<a, i>>
    OBVIOUS
  <2>3. ASSUME NEW x, x \in Points(m) PROVE x \in Points(n) \cup more
    <3>1. PICK e \in S : \E i \in 1 .. m[e] : x = <<e, i>>
      BY <1>p, <2>3
    <3>2. CASE e = a
      BY <2>1, <2>2, <3>1, <3>2, <1>p
    <3>3. CASE e # a
      BY <1>0, <3>1, <3>3, <1>p
    <3> QED BY <3>2, <3>3
  <2>4. ASSUME NEW x, x \in Points(n) PROVE x \in Points(m)
    <3>1. PICK e \in S : \E i \in 1 .. n[e] : x = <<e, i>>
      BY <1>p, <2>4
    <3>2. CASE e = a
      BY <1>0, <2>1, <3>1, <3>2, <1>p
    <3>3. CASE e # a
      BY <1>0, <3>1, <3>3, <1>p
    <3> QED BY <3>2, <3>3
  <2>5. ASSUME NEW x, x \in more PROVE x \in Points(m)
    BY <1>0, <2>1, <2>2, <2>5, <1>p
  <2> HIDE DEF more
  <2> QED BY <2>3, <2>4, <2>5
<1>3. Points(n) \cap more = {}
  <2>1. \A i \in 1 .. n[a] : i \notin (n[a] + 1) .. (n[a] + k)
    BY <1>0
  <2> SUFFICES ASSUME NEW x, x \in Points(n), x \in more PROVE FALSE
    OBVIOUS
  <2>2. PICK e \in S : \E i \in 1 .. n[e] : x = <<e, i>>
    BY <1>p
  <2> QED BY <2>1, <2>2
<1> HIDE DEF more
<1>4. IsFiniteSet(Points(n)) /\ Cardinality(Points(n)) \in Nat
  BY PointsFinite
<1>5. Cardinality(Points(n) \cup more) = Cardinality(Points(n)) + Cardinality(more) - Cardinality({})
  BY <1>1, <1>3, <1>4, FS_Union
<1>6. Cardinality({}) = 0
  BY FS_EmptySet
<1>7. Cardinality(Points(m)) = Cardinality(Points(n) \cup more)
  BY <1>2, Zenon
<1> QED BY <1>1, <1>4, <1>5, <1>6, <1>7

(* Who is in the slab is what it came into the world as, and came at least *)
(* once.  With that, what the deaths so far are worth is a count.          *)
EntryOf(e) ==
  /\ slab[e].kind = "free" => slab[e].hp = 0
  /\ Killable(e) => spawned[e] > 0
  /\ e \in Players => slab[e].kind \in {"player", "free"}
  /\ e \in Generators => slab[e].kind \in {"generator", "free"}

Owed(e) == Worth(e) * Deaths(e)

PaidInv ==
  /\ PaidOnce
  /\ \A p \in Players : Earned(p) \in Nat
  /\ \A e \in ID : EntryOf(e)

LEMMA WorthType == \A e \in ID : Worth(e) \in {1, 10, 25}
<1> SUFFICES ASSUME NEW e \in ID PROVE Worth(e) \in {1, 10, 25}
  OBVIOUS
<1> DEFINE k == IF e \in Players THEN "player" ELSE IF e \in Generators THEN "generator" ELSE "snipe"
<1>1. k \in {"player", "generator", "snipe"} /\ Worth(e) = Reward(k)
  BY DEF Worth
<1> HIDE DEF k
<1> QED BY <1>1 DEF Reward

LEMMA OwedType ==
  ASSUME SimTypeOK, NEW e \in ID, EntryOf(e)
  PROVE  Deaths(e) \in Nat /\ Owed(e) \in Nat
<1>1. spawned[e] \in Nat
  BY DEF SimTypeOK
<1>2. Deaths(e) \in Nat
  BY <1>1 DEF Deaths, EntryOf
<1> QED BY <1>2, WorthType DEF Owed

(* A step that pays nobody.                                                *)
LEMMA PaidFrame ==
  ASSUME SimTypeOK, SimTypeOK', PaidInv,
         \A p \in Players : Earned(p)' = Earned(p) \/ Earned(p)' = 0,
         \A e \in ID : EntryOf(e)' /\ Deaths(e)' >= Deaths(e)
  PROVE  PaidInv'
<1> DEFINE earned  == [p \in Players |-> Earned(p)]
           earned2 == [p \in Players |-> Earned(p)']
           owed    == [e \in ID |-> Worth(e) * Deaths(e)]
           owed2   == [e \in ID |-> Worth(e) * Deaths(e)']
<1>0. Players \in SUBSET ID /\ IsFiniteSet(Players) /\ IsFiniteSet(ID)
  <2>1. Players \in SUBSET ID
    BY SimAssumption DEF ID
  <2> QED BY <2>1, SomeIDs
<1>1. \A p \in Players : Earned(p) \in Nat /\ Earned(p)' \in Nat /\ Earned(p)' <= Earned(p)
  BY DEF PaidInv
<1>2. earned \in [Players -> Nat] /\ earned2 \in [Players -> Nat]
      /\ \A p \in Players : earned2[p] <= earned[p]
  BY <1>1
<1>3. ASSUME NEW e \in ID
      PROVE  /\ Worth(e) * Deaths(e) \in Nat /\ Worth(e) * Deaths(e)' \in Nat
             /\ Worth(e) * Deaths(e) <= Worth(e) * Deaths(e)'
  <2>1. Deaths(e) \in Nat
    BY OwedType DEF PaidInv
  <2>2. Deaths(e)' \in Nat
    <3>1. spawned'[e] \in Nat /\ EntryOf(e)'
      BY DEF SimTypeOK
    <3> QED BY <3>1 DEF Deaths, EntryOf
  <2>3. \A d, c \in Nat : d <= c => /\ 1 * d <= 1 * c /\ 10 * d <= 10 * c /\ 25 * d <= 25 * c
                                    /\ 1 * d \in Nat /\ 10 * d \in Nat /\ 25 * d \in Nat
    OBVIOUS
  <2>4. Deaths(e) <= Deaths(e)'
    BY <2>1, <2>2
  <2> QED BY <2>1, <2>2, <2>3, <2>4, WorthType
<1>4. owed \in [ID -> Nat] /\ owed2 \in [ID -> Nat] /\ \A e \in ID : owed[e] <= owed2[e]
  BY <1>3
<1>5. Cardinality(Points(earned)) <= Cardinality(Points(owed))
  BY DEF PaidInv, PaidOnce
<1>6. PaidOnce' <=> Cardinality(Points(earned2)) <= Cardinality(Points(owed2))
  BY DEF PaidOnce, Worth, Reward
<1> HIDE DEF earned, earned2, owed, owed2
<1>7. /\ Cardinality(Points(earned2)) <= Cardinality(Points(earned))
      /\ Cardinality(Points(owed)) <= Cardinality(Points(owed2))
  BY <1>0, <1>2, <1>4, PointsGrow
<1>8. /\ Cardinality(Points(earned2)) \in Nat /\ Cardinality(Points(earned)) \in Nat
      /\ Cardinality(Points(owed)) \in Nat /\ Cardinality(Points(owed2)) \in Nat
  BY <1>0, <1>2, <1>4, PointsFinite
<1>9. PaidOnce'
  BY <1>5, <1>6, <1>7, <1>8
<1> QED BY <1>1, <1>9 DEF PaidInv

(* A kill pays its worth at most once, to one who fired, and the death of  *)
(* a player takes no more from its points than it takes from its lives.    *)
LEMMA EarnedByKill ==
  ASSUME SimTypeOK, LifeInv, NEW p \in Players, NEW e \in ID, NEW by, Dies(e),
         EntryOf(e), record' = KillEntity(e, by), Earned(p) \in Nat
  PROVE  Earned(p)' = Earned(p) + (IF p = by /\ record[p].known THEN Reward(slab[e].kind) ELSE 0)
<1> DEFINE k == slab[e].kind
           r == AwardKill(by, k)[p]
<1>1. /\ record \in [Players -> RecordType] /\ record[p] \in RecordType /\ StartLives \in Nat
      /\ Reward(k) \in Nat
  BY SimAssumption DEF SimTypeOK, Reward
<1>2. /\ r.known = record[p].known /\ r.lives = record[p].lives
      /\ r.score = record[p].score + (IF p = by /\ record[p].known THEN Reward(k) ELSE 0)
      /\ r \in RecordType
  <2> HIDE DEF k
  <2>1. CASE p = by /\ record[p].known
    <3>1. r = [record[p] EXCEPT !.score = record[p].score + Reward(k)]
      BY <1>1, <2>1 DEF AwardKill
    <3>2. record[p].score + Reward(k) \in Int
      BY <1>1 DEF RecordType
    <3> QED BY <1>1, <2>1, <3>1, <3>2 DEF RecordType
  <2>2. CASE ~(p = by /\ record[p].known)
    <3>1. r = record[p]
      BY <1>1, <2>2 DEF AwardKill
    <3>2. record[p].score \in Int
      BY <1>1 DEF RecordType
    <3> QED BY <1>1, <2>2, <3>1, <3>2
  <2> QED BY <2>1, <2>2
<1>3. CASE p # e
  <2>1. record'[p] = r
    BY <1>1, <1>3 DEF KillEntity, AwardKill
  <2> HIDE DEF r, k
  <2>2. /\ record'[p].known = record[p].known /\ record'[p].lives = record[p].lives
        /\ record'[p].score = record[p].score + (IF p = by /\ record[p].known THEN Reward(k) ELSE 0)
    BY <1>2, <2>1
  <2>3. record[p].score \in Int /\ record[p].lives \in Int
    BY <1>1 DEF RecordType
  <2> QED BY <1>1, <2>2, <2>3 DEF Earned, DeathPenalty, k
<1>4. CASE p = e
  <2>1. record'[p] = Died(r)
    BY <1>1, <1>4 DEF KillEntity, AwardKill
  <2>2. record[p].known /\ record[p].lives > 0 /\ record[p].lives \in Nat /\ record[p].score \in Int
    <3>1. Alive(p)
      BY <1>4 DEF Dies, Hurts, EntryOf, Alive
    <3> QED BY <1>1, <3>1 DEF LifeInv, LifeOf, Alive, RecordType
  <2> HIDE DEF r, k
  <2>3. /\ record'[p].known = r.known /\ record'[p].lives = r.lives - 1
        /\ record'[p].score = r.score - 5
    <3>1. r.lives > 0
      BY <1>2, <2>2
    <3> QED BY <1>2, <2>1, <3>1 DEF Died, Down, DeathPenalty, RecordType
  <2>4. /\ record'[p].known /\ record'[p].lives = record[p].lives - 1
        /\ record'[p].score = record[p].score + (IF p = by /\ record[p].known THEN Reward(k) ELSE 0) - 5
    <3>1. /\ r.known = record[p].known /\ r.lives = record[p].lives
          /\ r.score = record[p].score + (IF p = by /\ record[p].known THEN Reward(k) ELSE 0)
      BY <1>2
    <3>2. record'[p].known
      BY <2>2, <2>3, <3>1, Zenon
    <3> DEFINE paid == IF p = by /\ record[p].known THEN Reward(k) ELSE 0
    <3>3. record'[p].score = record[p].score + paid - 5
      <4>1. r.score = record[p].score + paid /\ paid \in Int /\ record[p].score \in Int
        BY <1>1, <2>2, <3>1
      <4> HIDE DEF paid
      <4> QED BY <2>3, <4>1
    <3>4. record'[p].lives = record[p].lives - 1
      BY <2>3, <3>1
    <3> QED BY <3>2, <3>3, <3>4
  <2> QED BY <1>1, <2>2, <2>4 DEF Earned, DeathPenalty, k
<1> QED BY <1>3, <1>4

(* A step with a kill.                                                     *)
LEMMA PaidKill ==
  ASSUME SimTypeOK, SimTypeOK', LifeInv, CapsInv, PaidInv, NEW e \in ID, NEW by, Dies(e),
         Killable(e), record' = KillEntity(e, by), spawned' = spawned,
         ~Killable(e)', \A x \in ID : EntryOf(x)' /\ (Killable(x)' => Killable(x))
  PROVE  PaidInv'
<1> DEFINE pay == Reward(slab[e].kind)
           earned  == [p \in Players |-> Earned(p)]
           earned2 == [p \in Players |-> Earned(p)']
           owed    == [x \in ID |-> Worth(x) * Deaths(x)]
           owed2   == [x \in ID |-> Worth(x) * Deaths(x)']
           owing   == [owed EXCEPT ![e] = owed[e] + pay]
<1>0. Players \in SUBSET ID /\ IsFiniteSet(Players) /\ IsFiniteSet(ID)
  <2>1. Players \in SUBSET ID
    BY SimAssumption DEF ID
  <2> QED BY <2>1, SomeIDs
<1>1. pay = Worth(e) /\ pay \in {1, 10, 25}
  <2>1. slab[e].kind = IF e \in Players THEN "player" ELSE IF e \in Generators THEN "generator"
                       ELSE "snipe"
    BY DEF PaidInv, EntryOf, CapsInv, Killable
  <2> QED BY <2>1, WorthType DEF Worth
<1>2. \A p \in Players : /\ Earned(p) \in Nat
                         /\ Earned(p)' = Earned(p) + (IF p = by /\ record[p].known THEN pay ELSE 0)
  BY EarnedByKill DEF PaidInv
<1>3. /\ earned \in [Players -> Nat] /\ earned2 \in [Players -> Nat]
      /\ \/ earned2 = earned
         \/ by \in Players /\ earned2 = [earned EXCEPT ![by] = earned[by] + pay]
  <2> HIDE DEF pay
  <2>1. \A p \in Players : Earned(p)' \in Nat
    BY <1>1, <1>2
  <2>2. CASE by \in Players /\ record[by].known
    <3>1. \A p \in Players : Earned(p)' = IF p = by THEN Earned(by) + pay ELSE Earned(p)
      BY <1>1, <1>2, <2>2
    <3>2. earned2 = [p \in Players |-> IF p = by THEN Earned(by) + pay ELSE Earned(p)]
      BY <3>1
    <3>3. earned2 = [earned EXCEPT ![by] = earned[by] + pay]
      BY <2>2, <3>2
    <3> QED BY <1>2, <2>1, <2>2, <3>3
  <2>3. CASE ~(by \in Players /\ record[by].known)
    <3>1. \A p \in Players : Earned(p)' = Earned(p)
      BY <1>2, <2>3
    <3>2. earned2 = earned
      BY <3>1
    <3> QED BY <1>2, <2>1, <3>2
  <2> QED BY <2>2, <2>3
<1>4. ASSUME NEW x \in ID
      PROVE  /\ Worth(x) * Deaths(x) \in Nat /\ Worth(x) * Deaths(x)' \in Nat
             /\ Worth(x) * Deaths(x)' >= Worth(x) * Deaths(x) + (IF x = e THEN pay ELSE 0)
  <2>1. /\ Deaths(x) \in Nat /\ spawned[x] \in Nat /\ spawned'[x] = spawned[x]
        /\ Killable(x)' => spawned'[x] > 0
    BY OwedType DEF PaidInv, SimTypeOK, EntryOf
  <2>2. /\ Deaths(x)' \in Nat
        /\ Deaths(x)' >= Deaths(x) + (IF x = e THEN 1 ELSE 0)
    BY <2>1 DEF Deaths
  <2>3. \A d, c \in Nat :
          /\ d <= c => 1 * d <= 1 * c /\ 10 * d <= 10 * c /\ 25 * d <= 25 * c
          /\ d + 1 <= c => 1 * d + 1 <= 1 * c /\ 10 * d + 10 <= 10 * c /\ 25 * d + 25 <= 25 * c
          /\ 1 * d \in Nat /\ 10 * d \in Nat /\ 25 * d \in Nat
    OBVIOUS
  <2> HIDE DEF pay
  <2> QED BY <1>1, <2>1, <2>2, <2>3, WorthType
<1>5. /\ owed \in [ID -> Nat] /\ owed2 \in [ID -> Nat] /\ owing \in [ID -> Nat]
      /\ \A x \in ID : owing[x] <= owed2[x]
  <2> HIDE DEF pay
  <2>1. owed \in [ID -> Nat] /\ owed2 \in [ID -> Nat]
    BY <1>4
  <2>2. owing \in [ID -> Nat]
    BY <1>1, <2>1
  <2>3. \A x \in ID : owing[x] = Worth(x) * Deaths(x) + (IF x = e THEN pay ELSE 0)
    BY <1>1, <1>4
  <2> QED BY <1>4, <2>1, <2>2, <2>3
<1>6. Cardinality(Points(earned)) <= Cardinality(Points(owed))
  BY DEF PaidInv, PaidOnce
<1>7. PaidOnce' <=> Cardinality(Points(earned2)) <= Cardinality(Points(owed2))
  BY DEF PaidOnce, Worth, Reward
<1>8. owing = [owed EXCEPT ![e] = owed[e] + pay] /\ pay \in Nat
  BY <1>1
<1> HIDE DEF earned, earned2, owed, owed2, owing, pay
<1>9. /\ Cardinality(Points(owing)) = Cardinality(Points(owed)) + pay
      /\ Cardinality(Points(owing)) <= Cardinality(Points(owed2))
  <2>1. Cardinality(Points(owing)) = Cardinality(Points(owed)) + pay
    <3>1. owing[e] = owed[e] + pay /\ \A x \in ID : x # e => owing[x] = owed[x]
      BY <1>5, <1>8
    <3>2. pay \in Nat
      BY <1>8
    <3> QED BY <1>0, <1>5, <3>1, <3>2, PointsAdd
  <2>2. Cardinality(Points(owing)) <= Cardinality(Points(owed2))
    BY <1>0, <1>5, PointsGrow
  <2> QED BY <2>1, <2>2
<1>10. Cardinality(Points(earned2)) <= Cardinality(Points(earned)) + pay
  <2>1. Cardinality(Points(earned)) \in Nat
    BY <1>0, <1>3, PointsFinite
  <2>2. CASE earned2 = earned
    BY <1>8, <2>1, <2>2
  <2>3. CASE by \in Players /\ earned2 = [earned EXCEPT ![by] = earned[by] + pay]
    <3>1. earned2[by] = earned[by] + pay /\ \A p \in Players : p # by => earned2[p] = earned[p]
      BY <1>3, <1>8, <2>3
    <3>2. pay \in Nat /\ by \in Players /\ earned \in [Players -> Nat] /\ earned2 \in [Players -> Nat]
      BY <1>3, <1>8, <2>3
    <3>3. Cardinality(Points(earned2)) = Cardinality(Points(earned)) + pay
      BY <1>0, <3>1, <3>2, PointsAdd
    <3> QED BY <2>1, <3>2, <3>3
  <2> QED BY <1>3, <2>2, <2>3
<1>11. /\ Cardinality(Points(earned2)) \in Nat /\ Cardinality(Points(earned)) \in Nat
       /\ Cardinality(Points(owed)) \in Nat /\ Cardinality(Points(owed2)) \in Nat
  BY <1>0, <1>3, <1>5, PointsFinite
<1>12. PaidOnce'
  BY <1>6, <1>7, <1>8, <1>9, <1>10, <1>11
<1>13. \A p \in Players : Earned(p)' \in Nat
  BY <1>2, <1>8
<1> QED BY <1>12, <1>13 DEF PaidInv

(* Steps that leave who is in the world as it is, or clear some of it.     *)
LEMMA EntryKept ==
  ASSUME SimTypeOK, NEW e \in ID, EntryOf(e), spawned'[e] = spawned[e],
         \/ slab'[e].kind = "free" /\ slab'[e].hp = 0
         \/ /\ slab'[e].kind = slab[e].kind /\ (slab'[e].kind = "free" => slab'[e].hp = slab[e].hp)
            /\ ~slab'[e].dead => ~slab[e].dead
  PROVE  EntryOf(e)' /\ Deaths(e)' >= Deaths(e) /\ (Killable(e)' => Killable(e))
<1>1. Killable(e)' => Killable(e)
  BY DEF Killable
<1>2. spawned[e] \in Nat
  BY DEF SimTypeOK
<1> QED BY <1>1, <1>2 DEF EntryOf, Deaths

LEMMA PaidInit == Init => PaidInv
<1> SUFFICES ASSUME Init PROVE PaidInv
  OBVIOUS
<1>0. Players \in SUBSET ID /\ Generators \subseteq ID /\ Players \cap Generators = {} /\ SimTypeOK
  BY InitType, SimAssumption DEF ID
<1>1. \A p \in Players : Earned(p) = 0
  <2> SUFFICES ASSUME NEW p \in Players PROVE Earned(p) = 0
    OBVIOUS
  <2>1. record[p].lives = StartLives /\ record[p].score = 0
    BY DEF Init, Unknown
  <2> QED BY <2>1, SimAssumption DEF Earned, DeathPenalty
<1>2. \A e \in ID : EntryOf(e)
  <2> SUFFICES ASSUME NEW e \in ID PROVE EntryOf(e)
    OBVIOUS
  <2>1. /\ spawned[e] = IF e \in Players \cup Generators THEN 1 ELSE 0
        /\ slab[e] = IF e \in Players THEN Entity("player", 1, TRUE)
                     ELSE IF e \in Generators THEN Entity("generator", GeneratorHP, FALSE) ELSE Free
    BY DEF Init
  <2> QED BY <1>0, <2>1 DEF EntryOf, Killable, Entity, Free
<1>3. PaidOnce
  <2> DEFINE earned == [p \in Players |-> Earned(p)]
             owed   == [e \in ID |-> Worth(e) * Deaths(e)]
  <2>1. earned = [p \in Players |-> 0] /\ owed \in [ID -> Nat]
    <3>1. \A e \in ID : Worth(e) * Deaths(e) \in Nat
      BY <1>0, <1>2, OwedType DEF Owed
    <3> QED BY <1>1, <3>1
  <2>2. Points(earned) = {}
    <3>1. \A e \in DOMAIN earned : 1 .. earned[e] = {}
      BY <2>1
    <3> QED BY <3>1 DEF Points
  <2>3. IsFiniteSet(ID)
    BY <1>0, SomeIDs
  <2>4. Cardinality(Points(owed)) \in Nat
    <3> HIDE DEF owed
    <3> QED BY <2>1, <2>3, PointsFinite
  <2>5. Cardinality(Points(earned)) = 0
    BY <2>2, FS_EmptySet
  <2> QED BY <2>4, <2>5 DEF PaidOnce
<1>4. \A p \in Players : Earned(p) \in Nat
  BY <1>1
<1> QED BY <1>2, <1>3, <1>4 DEF PaidInv

LEMMA PaidStep ==
  ASSUME SimTypeOK, SimTypeOK', LifeInv, RingInv, CapsInv, PaidInv, [Next]_vars
  PROVE  PaidInv'
<1>0. /\ slab \in [ID -> EntityType] /\ record \in [Players -> RecordType] /\ spawned \in [ID -> Nat]
      /\ nextID \in ID /\ nextID \notin Players /\ nextID \notin Generators /\ todo \subseteq ID
      /\ slab[nextID].kind = "free" /\ \A p \in Players : p \in ID
  <2>1. nextID \in ID /\ nextID \notin Players /\ nextID \notin Generators
    <3>1. /\ nextID \in FirstID .. MaxID /\ FirstID \in Nat \ {0} /\ MaxID \in Nat
          /\ Players \subseteq 1 .. (FirstID - 1) /\ Generators \subseteq 1 .. (FirstID - 1)
      BY SimAssumption DEF SimTypeOK
    <3>2. nextID \in 1 .. MaxID /\ nextID \notin 1 .. (FirstID - 1)
      BY <3>1
    <3> QED BY <3>1, <3>2 DEF ID
  <2>2. nextID >= nextID
    BY SimAssumption DEF SimTypeOK
  <2> QED BY <2>1, <2>2, PlayersFirst DEF SimTypeOK, RingInv, RingOf
<1>a. \A e \in ID : EntryOf(e)
  BY DEF PaidInv
(* The accounts of the players.                                            *)
<1>b. ASSUME NEW p \in Players, record'[p].known = record[p].known,
             record'[p].score = record[p].score, record'[p].lives = record[p].lives
      PROVE  Earned(p)' = Earned(p)
  BY <1>b DEF Earned
<1>c. ASSUME record' = record PROVE \A p \in Players : Earned(p)' = Earned(p) \/ Earned(p)' = 0
  BY <1>c, <1>b
(* Steps that leave accounts and world alone, or only free what is there.  *)
<1>d. ASSUME \A e \in ID : slab'[e] = slab[e] \/ slab'[e] = Free, spawned' = spawned,
             \A p \in Players : Earned(p)' = Earned(p) \/ Earned(p)' = 0
      PROVE  PaidInv'
  <2>1. \A e \in ID : EntryOf(e)' /\ Deaths(e)' >= Deaths(e)
    <3> SUFFICES ASSUME NEW e \in ID PROVE EntryOf(e)' /\ Deaths(e)' >= Deaths(e)
      OBVIOUS
    <3>1. \/ slab'[e].kind = "free" /\ slab'[e].hp = 0
          \/ slab'[e] = slab[e]
      BY <1>d DEF Free
    <3> QED BY <1>a, <1>d, <3>1, EntryKept
  <2> QED BY <1>d, <2>1, PaidFrame
(* Steps that put a new shot into the world.                               *)
<1>e. ASSUME NEW n, NEW b, slab' = [slab EXCEPT ![nextID] = Entity("projectile", n, b)],
             spawned' = spawned,
             \A p \in Players : Earned(p)' = Earned(p) \/ Earned(p)' = 0
      PROVE  PaidInv'
  <2>1. ASSUME NEW e \in ID PROVE EntryOf(e)' /\ Deaths(e)' >= Deaths(e)
    <3>1. CASE e = nextID
      <4>1. slab'[e].kind = "projectile"
        BY <1>0, <1>e, <3>1 DEF Entity
      <4>2. ~Killable(e)' /\ ~Killable(e)
        BY <1>0, <3>1, <4>1 DEF Killable
      <4> QED BY <1>0, <1>e, <3>1, <4>1, <4>2 DEF EntryOf, Deaths
    <3>2. CASE e # nextID
      <4>1. slab'[e] = slab[e]
        BY <1>0, <1>e, <3>2
      <4> QED BY <1>a, <1>e, <4>1, EntryKept
    <3> QED BY <3>1, <3>2
  <2> QED BY <1>e, <2>1, PaidFrame
<1>1. CASE BeginTick
  <2>1. \A p \in Players : Earned(p)' = Earned(p)
    <3> SUFFICES ASSUME NEW p \in Players PROVE Earned(p)' = Earned(p)
      OBVIOUS
    <3>1. record'[p] = record[p] \/ record'[p] = [record[p] EXCEPT !.cooldown = Down(@)]
      BY <1>1 DEF BeginTick
    <3> QED BY <1>0, <1>b, <3>1 DEF RecordType
  <2> QED BY <1>1, <1>d, <2>1 DEF BeginTick
<1>2. CASE Quiesce \/ SnipesDone \/ WriteHistory
  BY <1>2, <1>c, <1>d DEF Quiesce, SnipesDone, WriteHistory, world
<1>3. CASE AgeProjectiles
  <2>1. record' = record /\ spawned' = spawned
        /\ \A e \in ID : slab'[e] = slab[e] \/ slab'[e] = Free
    BY <1>0, <1>3 DEF AgeProjectiles
  <2> QED BY <1>c, <1>d, <2>1
<1>4. CASE EndTick
  <2>1. ASSUME NEW p \in Players PROVE Earned(p)' = Earned(p)
    <3>1. record'[p] = record[p] \/ record'[p] = [record[p] EXCEPT !.invulnUntil = 0]
      BY <1>4 DEF EndTick
    <3> QED BY <1>0, <1>b, <3>1 DEF RecordType
  <2>2. ASSUME NEW e \in ID PROVE EntryOf(e)' /\ Deaths(e)' >= Deaths(e)
    <3>1. \/ slab'[e] = Free \/ slab'[e] = slab[e]
          \/ slab'[e] = [slab[e] EXCEPT !.invuln = FALSE]
      BY <1>0, <1>4 DEF EndTick
    <3>2. \/ slab'[e].kind = "free" /\ slab'[e].hp = 0
          \/ slab'[e].kind = slab[e].kind /\ slab'[e].hp = slab[e].hp /\ slab'[e].dead = slab[e].dead
      BY <1>0, <3>1 DEF Free, EntityType
    <3>3. spawned' = spawned
      BY <1>4 DEF EndTick
    <3> QED BY <1>a, <3>2, <3>3, EntryKept
  <2> QED BY <2>1, <2>2, PaidFrame
<1>5. ASSUME NEW x \in todo, SnipeIdles(x) PROVE PaidInv'
  <2>1. record' = record /\ spawned' = spawned
        /\ (slab' = slab \/ slab' = [slab EXCEPT ![x].invuln = FALSE])
    BY <1>5 DEF SnipeIdles
  <2>2. ASSUME NEW e \in ID PROVE EntryOf(e)' /\ Deaths(e)' >= Deaths(e)
    <3>1. slab'[e].kind = slab[e].kind /\ slab'[e].hp = slab[e].hp /\ slab'[e].dead = slab[e].dead
      BY <1>0, <2>1 DEF EntityType
    <3> QED BY <1>a, <2>1, <3>1, EntryKept
  <2> QED BY <1>c, <2>1, <2>2, PaidFrame
<1>6. ASSUME NEW x \in todo, SnipeFires(x) PROVE PaidInv'
  <2>1. record' = record /\ spawned' = spawned
    BY <1>6 DEF SnipeFires
  <2>2. slab' = slab \/ slab' = [slab EXCEPT ![nextID] = Entity("projectile", 1, FALSE)]
    BY <1>6 DEF SnipeFires, NewShot
  <2> QED BY <1>c, <1>d, <1>e, <2>1, <2>2
<1>7. ASSUME NEW x \in todo, GeneratorWaits(x) \/ FliesOn(x) \/ HoldsFire(x) PROVE PaidInv'
  BY <1>7, <1>c, <1>d DEF GeneratorWaits, FliesOn, HoldsFire, world
<1>8. ASSUME NEW g \in todo, GeneratorEmits(g) PROVE PaidInv'
  <2>1. CASE HasID /\ HasSlot
    <3>1. /\ slab' = [slab EXCEPT ![nextID] = Entity("snipe", 1, TRUE)]
          /\ spawned' = [spawned EXCEPT ![nextID] = spawned[nextID] + 1] /\ record' = record
      BY <1>8, <2>1 DEF GeneratorEmits
    <3>2. ASSUME NEW e \in ID PROVE EntryOf(e)' /\ Deaths(e)' >= Deaths(e)
      <4>1. CASE e = nextID
        <5>1. slab'[e].kind = "snipe" /\ spawned'[e] = spawned[e] + 1 /\ spawned[e] \in Nat
          BY <1>0, <3>1, <4>1 DEF Entity
        <5>2. ~Killable(e)
          BY <1>0, <4>1 DEF Killable
        <5> QED BY <1>0, <4>1, <5>1, <5>2 DEF EntryOf, Deaths
      <4>2. CASE e # nextID
        <5>1. slab'[e] = slab[e] /\ spawned'[e] = spawned[e]
          BY <1>0, <3>1, <4>2
        <5> QED BY <1>a, <5>1, EntryKept
      <4> QED BY <4>1, <4>2
    <3> QED BY <1>c, <3>1, <3>2, PaidFrame
  <2>2. CASE ~(HasID /\ HasSlot)
    <3>1. slab' = slab /\ spawned' = spawned /\ record' = record
      BY <1>8, <2>2 DEF GeneratorEmits
    <3> QED BY <1>c, <1>d, <3>1
  <2> QED BY <2>1, <2>2
<1>9. ASSUME NEW x \in todo, HitsWall(x) PROVE PaidInv'
  <2>1. record' = record /\ spawned' = spawned
        /\ \A e \in ID : slab'[e] = slab[e] \/ slab'[e] = Free
    BY <1>0, <1>9 DEF HitsWall
  <2> QED BY <1>c, <1>d, <2>1
<1>10. ASSUME NEW x \in todo, NEW t \in ID, Hits(x, t) PROVE PaidInv'
  <2>1. spawned' = spawned
    BY <1>10 DEF Hits
  <2>2. ASSUME NEW e \in ID PROVE EntryOf(e)' /\ Deaths(e)' >= Deaths(e) /\ (Killable(e)' => Killable(e))
    <3>1. \/ slab'[e] = slab[e] \/ slab'[e] = Free
          \/ /\ Hurts(t) /\ e = t
             /\ slab'[e] = [slab[e] EXCEPT !.hp = @ - 1, !.dead = Dies(e), !.invuln = @ /\ ~Dies(e)]
      BY <1>0, <1>10 DEF Hits
    <3>2. CASE slab'[e] = slab[e] \/ slab'[e] = Free
      BY <1>a, <2>1, <3>2, EntryKept DEF Free
    <3>3. CASE /\ Hurts(e)
               /\ slab'[e] = [slab[e] EXCEPT !.hp = @ - 1, !.dead = Dies(e), !.invuln = @ /\ ~Dies(e)]
      <4>1. slab'[e].kind = slab[e].kind
        BY <1>0, <3>3 DEF EntityType
      <4>2. slab[e].kind # "free" /\ ~slab[e].dead
        BY <1>a, <3>3 DEF Hurts, EntryOf
      <4> QED BY <1>a, <2>1, <4>1, <4>2, EntryKept
    <3> QED BY <3>1, <3>2, <3>3
  <2>3. CASE Dies(t) /\ Killable(t)
    <3>1. ~Killable(t)'
      <4>1. \/ slab'[t] = Free
            \/ slab'[t] = [slab[t] EXCEPT !.hp = @ - 1, !.dead = Dies(t), !.invuln = @ /\ ~Dies(t)]
        BY <1>0, <1>10, <2>3 DEF Hits, Dies
      <4>2. CASE slab'[t] = Free
        BY <4>2 DEF Killable, Free
      <4>3. CASE slab'[t] = [slab[t] EXCEPT !.hp = @ - 1, !.dead = Dies(t), !.invuln = @ /\ ~Dies(t)]
        <5>1. slab'[t].dead = Dies(t)
          BY <1>0, <4>3 DEF EntityType
        <5> QED BY <2>3, <5>1 DEF Killable
      <4> QED BY <4>1, <4>2, <4>3
    <3>2. record' = KillEntity(t, shot[x].shooter)
      BY <1>10, <2>3 DEF Hits
    <3> QED BY <2>1, <2>2, <2>3, <3>1, <3>2, PaidKill
  <2>4. CASE ~(Dies(t) /\ Killable(t))
    <3>1. ASSUME NEW p \in Players PROVE Earned(p)' = Earned(p)
      <4>1. CASE Dies(t)
        <5>1. slab[t].kind \notin {"player", "generator", "snipe"}
          BY <2>4, <4>1 DEF Dies, Hurts, Killable
        <5>2. Reward(slab[t].kind) = 0
          BY <5>1 DEF Reward
        <5>3. Earned(p) \in Nat
          BY DEF PaidInv
        <5>4. Earned(p)' = Earned(p)
                + (IF p = shot[x].shooter /\ record[p].known THEN Reward(slab[t].kind) ELSE 0)
          BY <1>10, <1>a, <4>1, <5>3, EarnedByKill DEF Hits
        <5> QED BY <5>2, <5>3, <5>4
      <4>2. CASE ~Dies(t)
        BY <1>10, <1>b, <4>2 DEF Hits
      <4> QED BY <4>1, <4>2
    <3> QED BY <2>2, <3>1, PaidFrame
  <2> QED BY <2>3, <2>4
<1>11. ASSUME NEW x \in todo, NEW owt \in Owts, Fires(x, owt) PROVE PaidInv'
  <2>1. spawned' = spawned
    BY <1>11 DEF Fires
  <2>2. ASSUME NEW p \in Players PROVE Earned(p)' = Earned(p)
    <3>1. record' = record \/ record' = [record EXCEPT ![x].cooldown = FireCooldown]
      BY <1>11 DEF Fires, Armed
    <3>2. \/ record'[p] = record[p]
          \/ record'[p] = [record[p] EXCEPT !.cooldown = FireCooldown]
      BY <1>0, <3>1
    <3> QED BY <1>0, <1>b, <3>2 DEF RecordType
  <2>3. slab' = slab \/ slab' = [slab EXCEPT ![nextID] = Entity("projectile", 1, FALSE)]
    BY <1>11 DEF Fires, NewShot
  <2> QED BY <1>d, <1>e, <2>1, <2>2, <2>3
<1>12. ASSUME NEW placed \in SUBSET Due, Respawn(placed) PROVE PaidInv'
  <2>1. ASSUME NEW p \in Players PROVE Earned(p)' = Earned(p)
    <3>1. \/ record'[p] = record[p] \/ record'[p] = Defer(record[p])
          \/ record'[p] = [record[p] EXCEPT !.cooldown = 0, !.respawnAt = 0,
                                            !.invulnUntil = tick + PlayerInvuln]
      BY <1>12 DEF Respawn
    <3> QED BY <1>0, <1>b, <3>1 DEF RecordType, Defer
  <2>2. ASSUME NEW e \in ID PROVE EntryOf(e)' /\ Deaths(e)' >= Deaths(e)
    <3>1. CASE e \in placed
      <4>1. e \in Players /\ slab[e].kind = "player" /\ slab[e].dead
        BY <3>1 DEF Due
      <4>2. slab'[e] = Entity("player", 1, TRUE) /\ spawned'[e] = spawned[e] + 1
        BY <1>12, <3>1 DEF Respawn
      <4>3. slab'[e].kind = "player" /\ ~slab'[e].dead /\ spawned[e] \in Nat /\ e \notin Generators
        BY <1>0, <4>1, <4>2, SimAssumption DEF Entity
      <4>4. ~Killable(e) /\ Killable(e)'
        BY <4>1, <4>3 DEF Killable
      <4>5. Deaths(e)' >= Deaths(e)
        BY <4>2, <4>3, <4>4 DEF Deaths
      <4>6. EntryOf(e)'
        <5>1. spawned'[e] > 0
          BY <4>2, <4>3
        <5> QED BY <4>3, <5>1 DEF EntryOf
      <4> QED BY <4>5, <4>6
    <3>2. CASE e \notin placed
      <4>1. slab'[e] = slab[e] /\ spawned'[e] = spawned[e]
        BY <1>12, <3>2 DEF Respawn
      <4> QED BY <1>a, <4>1, EntryKept
    <3> QED BY <3>1, <3>2
  <2> QED BY <2>1, <2>2, PaidFrame
<1>13. ASSUME NEW q \in Players, FreezePlayer(q) PROVE PaidInv'
  <2>1. ASSUME NEW p \in Players PROVE Earned(p)' = Earned(p)
    <3>1. \/ record'[p] = record[p] \/ record'[p] = [record[p] EXCEPT !.cooldown = 0]
      BY <1>0, <1>13 DEF FreezePlayer
    <3> QED BY <1>0, <1>b, <3>1 DEF RecordType
  <2> QED BY <1>13, <1>d, <2>1 DEF FreezePlayer
<1>14. ASSUME NEW q \in Players, RemovePlayer(q) PROVE PaidInv'
  <2>1. ASSUME NEW p \in Players PROVE Earned(p)' = Earned(p) \/ Earned(p)' = 0
    <3>1. CASE p = q
      <4>1. record'[p] = Unknown
        BY <1>0, <1>14, <3>1 DEF RemovePlayer
      <4> QED BY <4>1 DEF Earned, Unknown
    <3>2. CASE p # q
      BY <1>0, <1>14, <1>b, <3>2 DEF RemovePlayer
    <3> QED BY <3>1, <3>2
  <2>2. spawned' = spawned /\ \A e \in ID : slab'[e] = slab[e] \/ slab'[e] = Free
    BY <1>0, <1>14 DEF RemovePlayer
  <2> QED BY <1>d, <2>1, <2>2
<1>15. CASE UNCHANGED vars
  BY <1>15, <1>c, <1>d DEF vars
<1> HIDE DEF PaidInv
<1> QED BY <1>1, <1>2, <1>3, <1>4, <1>5, <1>6, <1>7, <1>8, <1>9, <1>10, <1>11, <1>12, <1>13, <1>14,
           <1>15 DEF Next

(* What has been credited never exceeds what the deaths so far are worth,  *)
(* although points are paid and lives lost in different passes of Tick.    *)
THEOREM PaidCorrect == Spec => []PaidInv
<1>1. SimTypeOK /\ SimTypeOK' /\ LifeInv /\ RingInv /\ CapsInv /\ PaidInv /\ [Next]_vars => PaidInv'
  BY PaidStep
<1> QED BY <1>1, PaidInit, LifeCorrect, RingCorrect, CapsCorrect, SimTypeCorrect, PTL DEF Spec

(* A kill counts once, for who dies and for who is paid: however many      *)
(* shots, ghost hits and respawns meet in a tick, no player loses a life   *)
(* without having entered the world with it, and no death is paid twice.   *)
THEOREM KillsCountCorrect == Spec => []KillsCountOnce
<1>1. OneLifePerSpawn /\ PaidInv => KillsCountOnce
  BY DEF KillsCountOnce, PaidInv
<1> QED BY <1>1, OneLifeCorrect, PaidCorrect, PTL
=============================================================================
