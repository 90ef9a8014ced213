-------------------------------- MODULE Sim --------------------------------
(***************************************************************************)
(* One match's simulation: Sim.Tick of internal/sim with the entity slab,  *)
(* shots, hits, lag compensation, lives, scores, respawns, and the two     *)
(* calls a match makes between ticks, FreezePlayer and RemovePlayer.       *)
(*                                                                         *)
(* A tick is a sequence of passes, each in the order of entity ids.  Where *)
(* things are is left out: a projectile may fly on, meet a wall, or meet   *)
(* any entity that its candidate filters let it meet.                      *)
(***************************************************************************)
EXTENDS Integers, FiniteSets, FiniteSetsExt

CONSTANTS
  Players,       \* entity ids of the players (Config.PlayerIDs)
  Generators,    \* entity ids of the generators
  FirstID,       \* store.nextID once the world is built
  MaxID,         \* math.MaxUint32, where ids are exhausted
  StartLives,    \* startingLivesFor
  GeneratorHP,
  MaxEntities,   \* slots of the slab
  MaxInFlight,   \* maxInFlightProjectiles
  MaxSnipes,     \* MaxSnipesTotal of the level
  FireCooldown, SnipeCooldown, Lifetime, RespawnTimer, PlayerInvuln, SnipeInvuln, \* ticks
  LagComp,       \* LagCompTicks: the longest rewind
  Interp,        \* InterpTicks
  Owts,          \* the one-way times a shot may carry (owtSource.OWTTicks)
  MaxTick        \* bound of the model: no tick is started after it

ASSUME SimAssumption ==
  /\ FirstID \in Nat \ {0} /\ MaxID \in Nat /\ FirstID <= MaxID
  /\ Players \subseteq 1 .. (FirstID - 1) /\ Players # {}
  /\ Generators \subseteq 1 .. (FirstID - 1) /\ Generators \cap Players = {}
  /\ StartLives \in Nat \ {0} /\ GeneratorHP \in Nat \ {0}
  /\ MaxEntities \in Nat /\ MaxInFlight \in Nat /\ MaxSnipes \in Nat
  /\ Cardinality(Players) + Cardinality(Generators) + MaxSnipes + MaxInFlight
       <= MaxEntities
  /\ FireCooldown \in Nat /\ SnipeCooldown \in Nat /\ Lifetime \in Nat \ {0} /\ RespawnTimer \in Nat \ {0}
  /\ PlayerInvuln \in Nat \ {0} /\ SnipeInvuln \in Nat
  /\ LagComp \in Nat \ {0} /\ Interp \in Nat /\ MaxTick \in Nat
  /\ 0 \in Owts /\ Owts \subseteq 0 .. LagComp

ID    == 1 .. MaxID
Depth == LagComp + 1                 \* HistoryDepth

VARIABLES
  tick,       \* serverTick
  phase,      \* the pass of Tick under way, "idle" between ticks, "failed" after an error
  todo,       \* ids the pass has yet to visit
  nextID,     \* store.nextID
  quiesced,
  slab,       \* store.slots by entity id
  record,     \* store.players
  shot,       \* store.projectiles
  snipe,      \* store.snipes
  ring,       \* store.histories
  spawned,    \* auxiliary: how often a player, generator or snipe has entered the world
  lastShot    \* auxiliary: the tick of a player's last shot, -1 after a freeze or a death

vars  == <<tick, phase, todo, nextID, quiesced, slab, record, shot, snipe, ring,
           spawned, lastShot>>
world == <<slab, record, shot, snipe, ring, spawned, lastShot>>

-----------------------------------------------------------------------------
(* The slab.                                                               *)

Free == [kind |-> "free", hp |-> 0, dead |-> FALSE, invuln |-> FALSE]
Entity(kind, hp, invuln) ==
  [kind |-> kind, hp |-> hp, dead |-> FALSE, invuln |-> invuln]

NoShot  == [shooter |-> 0, owt |-> 0, life |-> 0]
NoSnipe == [born |-> 0, cooldown |-> 0]
Unknown == [known |-> FALSE, lives |-> 0, score |-> 0, cooldown |-> 0, respawnAt |-> 0,
            invulnUntil |-> 0, eliminated |-> FALSE]

Occupied   == {e \in ID : slab[e].kind # "free"}
OfKind(k)  == {e \in ID : slab[e].kind = k}
Living(k)  == {e \in ID : slab[e].kind = k /\ ~slab[e].dead}

HasSlot == Cardinality(Occupied) < MaxEntities       \* alloc() finds a slot
HasID   == nextID < MaxID                            \* allocID() may issue one
InFlight == Cardinality(OfKind("projectile"))

First(S) == Min(S)

-----------------------------------------------------------------------------
(* The position history of one entity.                                     *)

NoSample  == [tick |-> 0, kind |-> "free", dead |-> FALSE, invuln |-> FALSE]
EmptyRing == [samples |-> [i \in 0 .. LagComp |-> NoSample], head |-> 0, count |-> 0]

Sample(t, e) == [tick |-> t, kind |-> slab[e].kind, dead |-> slab[e].dead,
                 invuln |-> slab[e].invuln]

Written(h, s) ==
  LET next == IF h.count = 0 THEN 0 ELSE (h.head + 1) % Depth
  IN [samples |-> [h.samples EXCEPT ![next] = s],
      head    |-> next,
      count   |-> IF h.count < Depth THEN h.count + 1 ELSE h.count]

(* The i-th newest sample, and the one a rewind to tick t reads.           *)
Nth(h, i) == h.samples[(h.head + Depth - i) % Depth]
(* Mutation: a rewind reads the sample before the tick it asks for. *)
AtBefore(h, t) ==
  LET before == {i \in 0 .. (h.count - 1) : Nth(h, i).tick < t}
  IN Nth(h, IF before = {} THEN h.count - 1 ELSE Min(before))
At(h, t) ==
  LET upTo == {i \in 0 .. (h.count - 1) : Nth(h, i).tick <= t}
  IN Nth(h, IF upTo = {} THEN h.count - 1 ELSE Min(upTo))

TView(owt) ==
  LET rewind == IF owt + Interp > LagComp THEN LagComp ELSE owt + Interp
  IN IF rewind > tick THEN 0 ELSE tick - rewind

Pruned(e, h) ==      \* one extra tick for an entity that is gone
  \/ h.count = 0
  \/ tick > h.samples[h.head].tick + 1

-----------------------------------------------------------------------------
(* A tick begins: the ids left must do for every living player, and every  *)
(* living player's cooldown goes down.                                     *)

Init ==
  /\ tick = 0 /\ phase = "idle" /\ todo = {} /\ nextID = FirstID /\ quiesced = FALSE
  /\ slab = [e \in ID |-> IF e \in Players THEN Entity("player", 1, TRUE)
                          ELSE IF e \in Generators
                               THEN Entity("generator", GeneratorHP, FALSE)
                          ELSE Free]
  /\ record = [p \in Players |-> [Unknown EXCEPT !.known = TRUE, !.lives = StartLives,
                                                 !.invulnUntil = PlayerInvuln]]
  /\ shot  = [e \in ID |-> NoShot]
  /\ snipe = [e \in ID |-> NoSnipe]
  /\ ring  = [e \in ID |-> EmptyRing]
  /\ spawned  = [e \in ID |-> IF e \in Players \cup Generators THEN 1 ELSE 0]
  /\ lastShot = [p \in Players |-> -1]

(* Mutation: a cooldown counts down below zero. *)
DownWraps(n) == n - 1
Down(n) == IF n > 0 THEN n - 1 ELSE 0

BeginTick ==
  /\ phase = "idle" /\ ~quiesced /\ tick < MaxTick
  /\ nextID + Cardinality(Living("player")) <= MaxID
  /\ tick' = tick + 1
  /\ record' = [p \in Players |-> IF p \in Living("player")
                                  THEN [record[p] EXCEPT !.cooldown = Down(@)]
                                  ELSE record[p]]
  /\ phase' = "snipes" /\ todo' = Living("snipe")
  /\ UNCHANGED <<nextID, quiesced, slab, shot, snipe, ring, spawned, lastShot>>

(* Tick returns an error: the match aborts and calls the sim no more.      *)
Quiesce ==
  /\ phase = "idle"
  /\ quiesced \/ nextID + Cardinality(Living("player")) > MaxID
  /\ quiesced' = TRUE /\ phase' = "failed"
  /\ UNCHANGED <<tick, todo, nextID, world>>

(* A pass visits the entity with the smallest id it has left.              *)
Visit(pass, e) == phase = pass /\ todo # {} /\ e = First(todo)

NewShot(e, by, owt) ==
  /\ slab' = [slab EXCEPT ![e] = Entity("projectile", 1, FALSE)]
  /\ shot' = [shot EXCEPT ![e] = [shooter |-> by, owt |-> owt, life |-> Lifetime]]

-----------------------------------------------------------------------------
(* Snipes act, generators emit.                                            *)

SnipeIdles(e) ==
  /\ Visit("snipes", e)
  /\ snipe' = [snipe EXCEPT ![e].cooldown = Down(@)]
  /\ slab' = IF slab[e].invuln /\ tick - snipe[e].born > SnipeInvuln
             THEN [slab EXCEPT ![e].invuln = FALSE] ELSE slab
  /\ todo' = todo \ {e}
  /\ UNCHANGED <<tick, phase, nextID, quiesced, record, shot, ring, spawned, lastShot>>

SnipeFires(e) ==
  /\ Visit("snipes", e)
  /\ ~slab[e].invuln /\ Down(snipe[e].cooldown) = 0
  /\ InFlight < MaxInFlight /\ HasSlot
  /\ IF HasID
     THEN /\ NewShot(nextID, e, 0)
          /\ nextID' = nextID + 1
          /\ snipe' = [snipe EXCEPT ![e].cooldown = SnipeCooldown]
          /\ UNCHANGED quiesced
     ELSE /\ quiesced' = TRUE
          /\ snipe' = [snipe EXCEPT ![e].cooldown = 0]
          /\ UNCHANGED <<slab, shot, nextID>>
  /\ todo' = todo \ {e}
  /\ UNCHANGED <<tick, phase, record, ring, spawned, lastShot>>

SnipesDone ==
  /\ phase = "snipes" /\ todo = {}
  /\ phase' = "generators" /\ todo' = Living("generator")
  /\ UNCHANGED <<tick, nextID, quiesced, world>>

GeneratorWaits(g) ==
  /\ Visit("generators", g)
  /\ todo' = todo \ {g}
  /\ UNCHANGED <<tick, phase, nextID, quiesced, world>>

(* Mutation: one snipe more than the level allows. *)
BelowCapOrAt == Cardinality(Living("snipe")) <= MaxSnipes
BelowCap == Cardinality(Living("snipe")) < MaxSnipes

GeneratorEmits(g) ==
  /\ Visit("generators", g)
  /\ BelowCap
  /\ IF HasID /\ HasSlot
     THEN /\ slab' = [slab EXCEPT ![nextID] = Entity("snipe", 1, TRUE)]
          /\ snipe' = [snipe EXCEPT ![nextID] = [born |-> tick, cooldown |-> 0]]
          /\ spawned' = [spawned EXCEPT ![nextID] = @ + 1]
          /\ todo' = todo \ {g}
          /\ UNCHANGED quiesced
     ELSE /\ quiesced' = TRUE /\ todo' = {}
          /\ UNCHANGED <<slab, snipe, spawned>>
  /\ nextID' = IF HasID THEN nextID + 1 ELSE nextID
  /\ UNCHANGED <<tick, phase, record, shot, ring, lastShot>>

(* Where everything is after the moves enters the histories.               *)
WriteHistory ==
  /\ phase = "generators" /\ todo = {}
  /\ ring' = [e \in ID |->
                IF e \in Occupied THEN Written(ring[e], Sample(tick, e))
                ELSE IF Pruned(e, ring[e]) THEN EmptyRing ELSE ring[e]]
  /\ phase' = "projectiles" /\ todo' = OfKind("projectile")
  /\ UNCHANGED <<tick, nextID, quiesced, slab, record, shot, snipe, spawned, lastShot>>

-----------------------------------------------------------------------------
(* Hits.                                                                   *)

KindOf(e) == IF e \in ID THEN slab[e].kind ELSE "free"
Rewinds(p) == KindOf(shot[p].shooter) = "player" /\ shot[p].owt > 0

(* A living candidate as the shot sees it: where its shooter saw it.       *)
Seen(p, e) ==
  IF Rewinds(p) /\ ring[e].count > 0
  THEN At(ring[e], TView(shot[p].owt)) ELSE slab[e]

Candidates == {e \in Occupied : slab[e].kind # "projectile" /\ ~slab[e].dead}

Spared(by, e) == KindOf(by) = "snipe" /\ slab[e].kind \in {"snipe", "generator"}

Targets(p) ==
  {e \in Candidates \ {shot[p].shooter} :
     /\ ~Spared(shot[p].shooter, e)
     /\ ~Seen(p, e).dead /\ ~Seen(p, e).invuln}

(* Entities that are dead or gone, but were there when the shooter looked. *)
Ghosts(p) ==
  IF ~Rewinds(p) THEN {}
  ELSE {e \in ID \ (Candidates \cup {shot[p].shooter}) :
          /\ ring[e].count > 0
          /\ LET s == At(ring[e], TView(shot[p].owt))
             IN ~s.dead /\ ~s.invuln /\ s.kind # "projectile"}

Reward(kind) ==
  CASE kind = "snipe" -> 1 [] kind = "generator" -> 10 [] kind = "player" -> 25
    [] OTHER -> 0

DeathPenalty == 5

Died(r) ==
  LET left == Down(r.lives)
  IN [r EXCEPT !.cooldown = 0, !.score = @ - DeathPenalty, !.lives = left,
               !.eliminated = @ \/ left = 0,
               !.respawnAt = IF left = 0 THEN 0 ELSE tick + RespawnTimer]

AwardKill(by, kind) ==
  IF by \in Players /\ record[by].known
  THEN [record EXCEPT ![by].score = @ + Reward(kind)] ELSE record

KillEntity(e, by) ==
  LET awarded == AwardKill(by, slab[e].kind)
  IN IF e \in Players THEN [awarded EXCEPT ![e] = Died(@)] ELSE awarded

(* A dead entity that still has a slot is not hurt again.                  *)
Hurts(e) == ~slab[e].dead /\ slab[e].hp > 0
(* Mutation: a hit kills whatever still has a slot. *)
DiesAgain(e) == slab[e].kind # "free" /\ slab[e].hp <= 1
Dies(e) == Hurts(e) /\ slab[e].hp = 1

FliesOn(p) ==
  /\ Visit("projectiles", p)
  /\ todo' = todo \ {p}
  /\ UNCHANGED <<tick, phase, nextID, quiesced, world>>

HitsWall(p) ==
  /\ Visit("projectiles", p)
  /\ slab' = [slab EXCEPT ![p] = Free] /\ shot' = [shot EXCEPT ![p] = NoShot]
  /\ todo' = todo \ {p}
  /\ UNCHANGED <<tick, phase, nextID, quiesced, record, snipe, ring, spawned, lastShot>>

Hits(p, e) ==
  /\ Visit("projectiles", p)
  /\ e \in Targets(p) \cup Ghosts(p)
  /\ LET hurt == [slab[e] EXCEPT !.hp = @ - 1, !.dead = Dies(e),
                                 !.invuln = @ /\ ~Dies(e)]
     IN slab' = [slab EXCEPT ![e] = IF Hurts(e) THEN hurt ELSE @, ![p] = Free]
  /\ record' = IF Dies(e) THEN KillEntity(e, shot[p].shooter) ELSE record
  /\ lastShot' = IF Dies(e) /\ e \in Players THEN [lastShot EXCEPT ![e] = -1]
                 ELSE lastShot
  /\ shot' = [shot EXCEPT ![p] = NoShot]
  /\ todo' = todo \ {p}
  /\ UNCHANGED <<tick, phase, nextID, quiesced, snipe, ring, spawned>>

Expired(p) == slab[p].kind = "projectile" /\ shot[p].life <= 1

AgeProjectiles ==
  /\ phase = "projectiles" /\ todo = {}
  /\ slab' = [e \in ID |-> IF Expired(e) THEN Free ELSE slab[e]]
  /\ shot' = [e \in ID |-> IF Expired(e) THEN NoShot
                           ELSE [shot[e] EXCEPT !.life = Down(@)]]
  /\ phase' = "fire" /\ todo' = Living("player")
  /\ UNCHANGED <<tick, nextID, quiesced, record, snipe, ring, spawned, lastShot>>

-----------------------------------------------------------------------------
(* Players fire.                                                           *)

(* Mutation: the cooldown ends a tick early. *)
ArmedShort == FireCooldown - 1
Armed == FireCooldown

HoldsFire(p) ==
  /\ Visit("fire", p)
  /\ todo' = todo \ {p}
  /\ UNCHANGED <<tick, phase, nextID, quiesced, world>>

Fires(p, owt) ==
  /\ Visit("fire", p)
  /\ record[p].cooldown = 0 /\ record[p].invulnUntil <= tick
  /\ InFlight < MaxInFlight /\ HasSlot
  /\ IF HasID
     THEN /\ NewShot(nextID, p, owt)
          /\ nextID' = nextID + 1
          /\ record' = [record EXCEPT ![p].cooldown = Armed]
          /\ lastShot' = [lastShot EXCEPT ![p] = tick]
          /\ todo' = todo \ {p}
          /\ UNCHANGED <<phase, quiesced>>
     ELSE /\ quiesced' = TRUE /\ phase' = "failed" /\ todo' = {}
          /\ UNCHANGED <<nextID, slab, shot, record, lastShot>>
  /\ UNCHANGED <<tick, snipe, ring, spawned>>

-----------------------------------------------------------------------------
(* Players come back, the dead are cleared away.                           *)

Due == {p \in Players : slab[p].kind = "player" /\ slab[p].dead /\ record[p].respawnAt = tick}

(* Mutation: a respawn without a free tile is not tried again. *)
DeferNot(r) == r
Defer(r) == [r EXCEPT !.respawnAt = tick + 1]

(* Mutation: the history of the last life is kept. *)
KeepRing(h) == h
ResetRing(h) == [h EXCEPT !.head = 0, !.count = 0]

Respawn(placed) ==        \* placed: those for whom selectRespawnTile finds a tile
  /\ phase = "fire" /\ todo = {}
  /\ placed \subseteq Due
  /\ slab' = [e \in ID |-> IF e \in placed THEN Entity("player", 1, TRUE) ELSE slab[e]]
  /\ record' = [p \in Players |->
       IF p \in placed
       THEN [record[p] EXCEPT !.cooldown = 0, !.respawnAt = 0,
                              !.invulnUntil = tick + PlayerInvuln]
       ELSE IF p \in Due THEN Defer(record[p])
       ELSE record[p]]
  /\ ring' = [e \in ID |-> IF e \in placed THEN ResetRing(ring[e]) ELSE ring[e]]
  /\ spawned' = [e \in ID |-> IF e \in placed THEN spawned[e] + 1 ELSE spawned[e]]
  /\ phase' = "respawn"
  /\ UNCHANGED <<tick, todo, nextID, quiesced, shot, snipe, lastShot>>

Elapsed == {p \in Players : /\ slab[p].kind = "player"
                            /\ record[p].invulnUntil # 0 /\ tick >= record[p].invulnUntil}

(* garbageCollect: the records of eliminated players stay.                 *)
Garbage == {e \in Occupied : slab[e].dead /\ (e \in Players => record[e].eliminated)}

EndTick ==
  /\ phase = "respawn"
  /\ slab' = [e \in ID |-> IF e \in Garbage THEN Free
                           ELSE IF e \in Elapsed THEN [slab[e] EXCEPT !.invuln = FALSE]
                           ELSE slab[e]]
  /\ record' = [p \in Players |-> IF p \in Elapsed
                                  THEN [record[p] EXCEPT !.invulnUntil = 0] ELSE record[p]]
  /\ snipe' = [e \in ID |-> IF e \in Garbage THEN NoSnipe ELSE snipe[e]]
  /\ phase' = "idle"
  /\ UNCHANGED <<tick, todo, nextID, quiesced, shot, ring, spawned, lastShot>>

-----------------------------------------------------------------------------
(* Between ticks the match freezes a player that has dropped and removes   *)
(* one whose grace is over.  remove() does nothing for a player without a  *)
(* slot, so the record of an eliminated one stays.                         *)

FreezePlayer(p) ==
  /\ phase = "idle" /\ record[p].known
  /\ record' = [record EXCEPT ![p].cooldown = 0]
  /\ lastShot' = [lastShot EXCEPT ![p] = -1]
  /\ UNCHANGED <<tick, phase, todo, nextID, quiesced, slab, shot, snipe, ring, spawned>>

(* Mutation: a player who is out is removed with the record. *)
RemoveWithoutSlot(p) ==
  /\ phase = "idle" /\ record[p].known
  /\ slab' = [slab EXCEPT ![p] = Free]
  /\ record' = [record EXCEPT ![p] = Unknown]
  /\ UNCHANGED <<tick, phase, todo, nextID, quiesced, shot, snipe, ring, spawned, lastShot>>
RemovePlayer(p) ==
  /\ phase = "idle" /\ slab[p].kind = "player"
  /\ slab' = [slab EXCEPT ![p] = Free]
  /\ record' = [record EXCEPT ![p] = Unknown]
  /\ UNCHANGED <<tick, phase, todo, nextID, quiesced, shot, snipe, ring, spawned, lastShot>>

Next ==
  \/ BeginTick \/ Quiesce \/ SnipesDone \/ WriteHistory \/ AgeProjectiles \/ EndTick
  \/ \E e \in todo : \/ SnipeIdles(e) \/ SnipeFires(e)
                     \/ GeneratorWaits(e) \/ GeneratorEmits(e)
                     \/ FliesOn(e) \/ HitsWall(e) \/ HoldsFire(e)
                     \/ \E t \in ID : Hits(e, t)
                     \/ \E owt \in Owts : Fires(e, owt)
  \/ \E placed \in SUBSET Due : Respawn(placed)
  \/ \E p \in Players : FreezePlayer(p) \/ RemovePlayer(p)

Spec == Init /\ [][Next]_vars

-----------------------------------------------------------------------------
(* Every variable has its type.                                            *)
Kinds == {"player", "generator", "projectile", "snipe"}
EntityType == [kind : Kinds \cup {"free"}, hp : Nat, dead : BOOLEAN, invuln : BOOLEAN]
RecordType == [known : BOOLEAN, lives : 0 .. StartLives, score : Int,
               cooldown : 0 .. FireCooldown, respawnAt : Nat, invulnUntil : Nat,
               eliminated : BOOLEAN]
SampleType == [tick : Nat, kind : Kinds \cup {"free"}, dead : BOOLEAN, invuln : BOOLEAN]
RingType   == [samples : [0 .. LagComp -> SampleType], head : 0 .. LagComp,
               count : 0 .. Depth]

SimTypeOK ==
  /\ tick \in Nat /\ nextID \in FirstID .. MaxID /\ quiesced \in BOOLEAN
  /\ phase \in {"idle", "snipes", "generators", "projectiles", "fire", "respawn", "failed"}
  /\ todo \subseteq ID
  /\ slab   \in [ID -> EntityType]
  /\ record \in [Players -> RecordType]
  /\ shot   \in [ID -> [shooter : Nat, owt : Owts, life : 0 .. Lifetime]]
  /\ snipe  \in [ID -> [born : Nat, cooldown : 0 .. SnipeCooldown]]
  /\ ring   \in [ID -> RingType]
  /\ spawned \in [ID -> Nat] /\ lastShot \in [Players -> Int]

(* Between ticks, whoever lies dead with lives left is due at a tick to    *)
(* come: Tick compares respawnAt with serverTick for equality, so a player *)
(* whose tick is missed would never come back.  The eliminated are gone    *)
(* from the slab, and nobody else is missing from it.                      *)
RespawnsAhead ==
  phase = "idle" => \A p \in Players :
    /\ slab[p].dead => /\ ~record[p].eliminated
                       /\ record[p].respawnAt \in tick + 1 .. tick + RespawnTimer
    /\ record[p].known => (record[p].eliminated <=> slab[p].kind = "free")

(* A life is lost once per entry into the world, whatever hits, ghost hits *)
(* and respawns fall into the same tick, and lives run out with            *)
(* elimination.                                                            *)
OneLifePerSpawn ==
  \A p \in Players : record[p].known =>
    /\ StartLives - record[p].lives
         = spawned[p] - (IF p \in Living("player") THEN 1 ELSE 0)
    /\ record[p].eliminated <=> record[p].lives = 0

(* Nothing that dies is paid for twice: what the players have earned       *)
(* between them is at most what the deaths of players, generators and      *)
(* snipes are worth.  A kill counts once, for who dies and for who is paid.*)
(* A point is a pair of who it belongs to and a number, to be counted.     *)
Killable(e) == slab[e].kind \in {"player", "generator", "snipe"} /\ ~slab[e].dead
Deaths(e) == spawned[e] - (IF Killable(e) THEN 1 ELSE 0)
Worth(e)  == Reward(IF e \in Players THEN "player"
                    ELSE IF e \in Generators THEN "generator" ELSE "snipe")
Earned(p) == IF record[p].known
             THEN record[p].score + DeathPenalty * (StartLives - record[p].lives) ELSE 0

Points(n) == UNION {{e} \X (1 .. n[e]) : e \in DOMAIN n}
PaidOnce ==
  Cardinality(Points([p \in Players |-> Earned(p)]))
    <= Cardinality(Points([e \in ID |-> Worth(e) * Deaths(e)]))

KillsCountOnce == OneLifePerSpawn /\ PaidOnce

(* Nobody dies while spawn-invulnerable: not to a shot that rewinds to a   *)
(* position of an earlier life, nor to one fired before the spawn.         *)
InvulnerableLives ==
  [][\A e \in ID : slab[e].invuln => ~slab'[e].dead]_vars

(* Two shots of one player are a cooldown apart unless it died or was      *)
(* frozen between them.                                                    *)
CooldownKept ==
  [][\A p \in Players : lastShot'[p] > lastShot[p] /\ lastShot[p] >= 0
                          => lastShot'[p] - lastShot[p] >= FireCooldown]_vars

(* While shots are resolved, a rewind of any length reads the sample of    *)
(* the tick it asks for, or the oldest one since the entity came, and      *)
(* never one older than the window.                                        *)
RewindsExact ==
  phase = "projectiles" => \A e \in Occupied, owt \in 0 .. LagComp :
    LET held == ring[e].count
        read == At(ring[e], TView(owt)).tick
    IN /\ held > 0
       /\ read = TView(owt) \/ (held <= LagComp /\ read = tick - held + 1 /\ read > TView(owt))

(* The sim only ever stops because ids run out: the caps on shots and      *)
(* snipes keep the slab from filling up, which an emission takes for the   *)
(* same thing.                                                             *)
StopsOnlyOnIDs ==
  [][quiesced' /\ ~quiesced => nextID + Cardinality(Players) > MaxID]_vars

(* Elimination is for good.                                                *)
EliminatedStaysOut ==
  [][\A p \in Players : record[p].eliminated
       => record'[p].eliminated /\ spawned'[p] = spawned[p]]_vars

(* combat.go 116: "a snipe-fired projectile does not damage other snipes   *)
(* or generators".  Whose shot it is, is looked up in the slab when it     *)
(* hits: once the snipe is dead, its shots hit its own kind.               *)
SnipesSpareTheirOwn ==
  [][\A p \in todo, e \in ID :
       (/\ Visit("projectiles", p) /\ shot[p].shooter \notin Players
        /\ slab[e].kind \in {"snipe", "generator"}) => slab'[e].hp = slab[e].hp]_vars
=============================================================================
