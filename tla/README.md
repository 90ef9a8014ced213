# A verification project for isnipes

isnipes is a multiplayer maze shooter: a Go server (lobby, matches, simulation) and a browser
client. This directory holds TLA+ models of the server's control, TLC configurations that check
them on small instances, and TLAPS proofs of what matters most for every instance.

## 1. The system

Paths are under `src/`. "Actor" means one goroutine that owns its state and takes messages from
one bounded channel.

| Component | State | Operations | Talks to |
|---|---|---|---|
| Match actor, `internal/match/{match,reconnect,chat}.go` | slots (joined, dead-cam, DC, deadline, out channel), join and reconnect tokens, pending inputs, sim, MatchState | join, reconnect, DC, input, ping, pong, chat, revoke, abort, shutdown, tick, warmup timer | connections (out channels, join replies), sim, registry, metrics |
| Match socket, `internal/net/server.go` handleMatch | one reader and one writer goroutine per connection | handshake, forward frames, write frames, ping, tear down | match actor's inbox |
| Lobby socket, handleLobby | same, towards the lobby | hello, forward, write | lobby actor |
| Lobby actor, `internal/lobby` | sessions, nicks, rooms, members, hosts, join tokens, match trackers | connect, hello, create, join, leave, start, kick, chat, disconnect, match ended, janitor | sessions' out channels, registry, match (revoke, abort) |
| Registry, `internal/match/registry.go` | id -> match, stopping flag | Create, Lookup, RemoveEnded, StopAll | matches, lobby (match-ended hook) |
| Simulation, `internal/sim` | entities, lives, scores, history ring, maze, PRNG | Tick, RemovePlayer, FreezePlayer | called by one match actor, no concurrency |
| Snapshots, AOI, scoreboard, OWT, `internal/match/{snapshot,aoi,score_delta,owt}.go` | hysteresis sets, last scoreboard, RTT samples | per tick, per pong | match actor |
| Codec, `internal/proto` | none | encode, decode | sockets, client |
| Metrics, `internal/observ` | gauges, counters, histogram | add, expose | everybody |
| Process, `cmd/isnipes/main.go` | listeners | start, drain HTTP, stop lobby, StopAll | everything |
| Browser client, `web/src` | prediction ring, interpolation buffer, UI | predict, reconcile, render | lobby and match sockets |

What is hard here: connections drop and come back while the actor works through a queue in which
their earlier messages still wait; every out channel is bounded and an overflow removes a slot in
the middle of a broadcast; a match ends in four ways, each of which releases slots, count, channels
and unanswered joins by hand; joins race the end of the match; readers block on the inbox; the
lobby reads the match's count from another goroutine and kicks or aborts on what it saw.

What makes the components correct:

* match actor: no send on a closed channel, the joined count is exact, a dropped player keeps its
  seat and token for the grace window and not longer, a used token never admits again, a match that
  goes on has a possible winner, every match ends and its Run returns, and the end releases everything;
* match socket: every join is answered, every connection is torn down;
* lobby: a session is in at most one room, a room with members has a host among them, tokens belong
  to a match, what a session was told of the rooms is true, a room is removed when its match ends;
* registry: at most the configured number of matches, none that StopAll misses, a match disappears when
  its Run has returned;
* simulation: lives never go below zero, an eliminated player has no entity, rewinds read the past
  they ask for;
* bodies: nobody in a wall, nobody carried away by a collision;
* what is sent: no client keeps an old scoreboard, a late tick costs one snapshot.

`PROJECT.json` lists every component with its status, and the hazards with the line where each
bites and the properties that would catch it.

## 2. Modules

| Module | What it is |
|---|---|
| `MatchActor` | the match actor with its connections, the registry's shutdown, the lobby's kick and zero-player abort |
| `MatchSeats` | what a match promises about seats: its abstract specification |
| `MCMatch` | instances of `MatchActor` for TLC |
| `MatchActorProofs` | type correctness, the joined count, the contenders, the dead-cam |
| `MatchGraceProofs` | DC-grace |
| `MatchWiringProofs` | slots, channels and connections; `MatchActor` implements `MatchSeats` |
| `Lobby` | the lobby actor with the writers that drain its sessions' channels |
| `MCLobby` | instances of `Lobby` for TLC |
| `LobbyProofs` | types, membership, tokens, started rooms, and what the sessions were told |
| `Hosting` | the process: registry, match goroutines, the lobby's inbox and its handlers, shutdown |
| `MatchCensus` | what the registry promises: its abstract specification |
| `MCHosting`, `HostingProofs` | instances; gauge, rooms, StopAll, `Hosting` implements `MatchCensus` |
| `Sim` | one match's simulation: slab, lives, shots, hits, lag compensation, respawns |
| `MCSim`, `SimProofs` | instances; lives, elimination, rewinds, invulnerability, cooldowns, capacity, kills |
| `Pacing` | scoreboards, snapshots and chat lines: what goes out how often |
| `MCPacing`, `PacingProofs` | instances; freshness, age, rate |
| `Motion` | bodies among walls: sliding, pushing, emission, free tiles |
| `MCMotion`, `MotionProofs` | a chamber for TLC; no body in a wall, none carried away |

The modules meet where one stands for another: `Hosting` takes a match for something that may return
from Run by itself and does when it is told to (`HandleLast` and `Shutdown` of `MatchActor`), and rooms
for the matches they belong to; `Lobby` takes a match for something that may be over at any time and
need never be, for `MatchEventuallyEnds` of `MatchActor` does not promise that the Run of a match
aborted in its warmup returns; `MatchActor` takes the simulation for who is in it and who is
eliminated; `Sim` takes the match for its calls between ticks (`FreezePlayer`, `RemovePlayer`) and
geometry for a choice that `Motion` looks into; `Pacing` takes from both who is connected and what the
scores are.

### MatchActor

State. `state` is MatchState and `done` is m.done being closed: Run has returned, and only then does
the registry forget the match and tell the lobby. The two are not the same, because Run does not look
at the state after the warmup timer. `slots`, `joined`, `deadCam`, `dc`, `dcDeadline`, `out` and
`sealed` are the fields of `Slot` (58-76 of match.go) turned into sets and functions over the players
(`sealed` is closeOnce having run); `bySession` and `dcTokens` are the two token maps; `pending` is the
key set of `pendingInputs`; `inbox` is `m.in`; `tick`, `inSim` and `eliminated` are all the match needs
of the simulation. For each connection, `conn` says where handleMatch is: `idle` (not dialled),
`dialing` (about to post its join), `joining` (waits for the answer), `open` (reader and writer run),
`blocked` (the reader waits in SubmitInput), `gone`. `queue` is the fill of its out channel, `closed`
the channels the actor has closed, `hungUp` the sockets the writer has closed.

Actions. One per message kind of handleControl (`JoinAccepted`, `JoinRefused` and `Reconnect` are
the outcomes of handleJoin and handleReconnect), `WarmupTimeout` and `Tick` for the ticker,
`TickFails` for a sim error or a recovered panic, `Absorb` for absorbAfterExit. `Start` and
`StartAborts` are the two outcomes of startOrAbort. `ReturnIfEnded` is Run's look at the state; where
it is left out, after the warmup, the next message is `HandleLast`, which changes nothing but makes
Run return. The connections have
`Dial`, `SubmitJoin`, `JoinTimeout`, `ClientFrame`, `UnblockInput`, `Disconnect`, `WriterSend` and
`WriterClose`. Helpers keep the code's names: `MarkUnjoined`, `CloseSlot`, `SendFrameTo`, `Abort`,
`DrainInboxAfterEnd`. A handler passes the joined slots, their count and the channels as it has
left them so far, because one handler may unjoin and close slots on its way.

Abstractions. A player's join token is the player. The frames a handler sends to one slot are one
burst; `early` in `Tick` covers an overflow on the first of several frames. Time is the tick and,
for timers of the wall clock (warmup 10 s, token TTL 60 s, 500 ms after the end, 30 s without
players), "may fire while it runs": more interleavings than the real delays allow, never fewer.
Who dies in a tick and whether the generators are gone is free.

Not in it: ctlPong, which posts like an input and touches only the estimator; SubmitClose,
SubmitMatchJoin, SubmitReconnect and IsDCToken, which nothing in the server calls; who wins. When
snapshots and scoreboards go out is in `Pacing`.

### MatchSeats

Each seat is `reserved`, `seated`, `away` or `void`. A seat leaves `reserved` only in the waiting
phase, comes back from `away` only in the live phase, never comes back from `void`, and the end
voids all of them for good. `SeatOf` is the refinement mapping.

### Lobby

State. The actor's fields are one record, `lobby`: `session` (`live` while in `l.sessions`),
`greeted` (it has a nick), `room` (`Session.roomID`), `stage`, `members` (in join order) and `host`
of each room, `tokens` by the room whose match they admit to, `queue` (the fill of a session's out
channel), `view` (the rooms as a session was last told), `dirty` (roomsDirty), `crashed` (the actor
has sent on a closed channel). It is a record because a handler is a composition: each `send` may
find a full channel, drop that session, free its place, mark the room list as dirty, and the handler
goes on from there. So the code's methods are operators from lobby to lobby (`Vacate`, `Remove`,
`Drop`, `Send`, `Broadcast`, `AnnounceRoom`, `Disconnected`, `Closed`), and `Return` ends a handler.
`pc` says which of Run's loops is under way: a chat fan-out, the janitor's expiry and sweep, or the
resync, which `Run` may put off while messages wait.

Actions. `Connect`, `Hello`, `CreateRoom`, `JoinRoom`, `LeaveRoom`, `StartMatch` and `StartFails`
(the two answers of the registry), `Kick`, `Chat`, `Disconnect`, `MatchEnded` are the handlers;
`Reject` stands for every refusal, which sends one error frame; `VersionClose` is
sendErrorAndClose. `Janitor`, `ExpireIdle`, `SweepRoom` are the ticker's work, `Flush` one turn of
flushRoomsDirty, `WriterSend` a writer. `RelayLine` is one step of a chat fan-out: Go's `range`
holds the slice header of `room.Members`, while a drop in an open room moves the later members down
in the same array, so `relay.line` is that array and changes under the loop. The broadcasts to all
sessions range over a map, from which deleting is allowed, and are one step.

Abstractions. Each message of a session is handled at a time of its own; the inbox only delays, and
nothing is handled for a session that is gone. Ids are fresh: a session connects once, a room is
created once and hosts at most one match, named like it. What the janitor may find overdue may be
overdue at any tick, and the tokens of a match are as old as the match. A frame is what it says
about the rooms (`Listing`, `Delta`, or nothing).

Not in it: the choice of nicks and levels, the chat bucket and Touch, match trackers (the abort they
lead to is in `MatchActor`). Stop, the bounded inbox and the calls that block on it are in `Hosting`.

### Hosting and MatchCensus

State. `table`, `stopping` and `gauge` are the registry's; `goroutine` says how far the goroutine
that Create starts has come (Run, RemoveEnded, the gauge, the hook into the lobby), `told` which
matches have ctlShutdown in their inbox. `inbox` is `l.in`, `stopped` is Stop having closed done,
`actor` where Lobby.Run is; `conn` says where handleLobby is in Connect, PostMessage and
Disconnect, `replied` and `closed` are its reply and out channels. `main` walks the shutdown
sequence of main.go (HTTP, lobby, StopAll) or of the load harness (StopAll, lobby): `order`.

Actions. A critical section under `Registry.mu` is one step, since nothing in it blocks. What blocks
has a step before and after: Create in the lobby (`HandleStartMatch`, `Create`, `Announce`),
MatchEnded on a full inbox, Connect (`Accept` to `Abandon`). The actor's select may take a message
although done is closed, which Go allows; `LobbyExits` needs `stopped` only. `Broadcast` on a closed
channel ends the process (`main` is `crashed`), for a panic in that goroutine has no recover.

`MatchCensus` knows a set of live matches, those ever used, and a door that is open, closed or
drained: never more than the cap, no id twice, nothing new behind a closed door, drained only when
empty. `Census` in `Hosting` is the refinement mapping.

### Sim

State. `slab`, `record`, `shot`, `snipe` and `ring` are the tables of `store` by entity id; `phase`
and `todo` say which pass of Tick is under way and which ids it has yet to visit, in their order.
`spawned` and `lastShot` are auxiliary: how often a player entered the world, when it last fired.

Actions. One per pass and outcome: snipes act, generators emit, the history is written, projectiles
fly on, meet a wall or hit, age, players fire, respawn, and `EndTick` clears invulnerability and
collects. `Hits` covers living candidates, seen where the shooter saw them (`Seen`), and entities
that are dead or gone but were there in the sample the rewind reads (`Ghosts`). The ring is kept
with its head, count and modulo. `FreezePlayer` and `RemovePlayer` come between ticks.

Abstractions. A projectile may meet any entity its filters let through, a snipe may fire whenever it
could, a due respawn may find a tile or not. Ids end at `MaxID`, so their exhaustion is reachable.
An error of Tick is the phase `failed`, after which nothing happens: the match aborts and never
calls Tick again (without it a fire that fails in mid-tick would leave players due in the past).
Respawn is never switched off by match.go, so Config.NoRespawn is left out; turbo, facing and the
event list are not kept.

### Pacing

State. `conn` is the connection of a player; `pending`, `lastBoard`, `lastScores` and `overBudget`
are the match's fields; `tokens` and `filledAt` the chat bucket, counted in refill ticks. `board`,
`snapAt`, `misses` and `watch` are auxiliary and belong to the client: the scoreboard and the
snapshot it was last sent, the beats that late ticks may have cost it, a window of chat.

Actions. `Tick` changes scores and grace, considers the scoreboard and the snapshot, and records
whether it was late. `Drops`, `Overflows` and `Reconnects` are what the actor does between ticks,
`Says` and `Refused` the outcomes of a chat line.

Abstractions. Lives never rise and the score moves with kills and deaths: a player's line of the
scoreboard is a number that grows. The bucket is a float in the code; with exactly one token in it
rounding may refuse the line, and the model allows both. Ticks that are always late suppress every
snapshot, in the model as in the code: `SnapshotAge` counts them, it does not promise otherwise.

### Motion

State. `players` and `snipes` are positions in subtiles, functions over the two axes (`Out` while
not in the slab), `standing` whether the generator stands; `phase` and `todo` say which pass of
Tick is under way and which pairs of snipes applySnipeWeakBlock has yet to look at.

Actions. `MovePlayers` and `MoveSnipes` slide every body, `WeakBlock` holds one snipe against one
with a lower id, in the order of the slab, `Emit` puts a snipe on a free slot around the generator
or `EmitNot` none, `EndTick` is what shots do and who respawns on a free tile. `Stepped` is the
switch of moveAndSlide for one axis, `Cleared` the correction at a generator, `Along` both,
`HitsWall` what a body covers, `aabbHitsWall` the four corners that the code looks at.

Abstractions. Velocities are free choices out of those velocityFor yields; at most one body is hit
in a tick; the players and snipes about at once are bounded by `MaxBodies`. A generator is alone:
they stand two maze cells apart, so a body meets one at a time. When it has fallen the chamber goes
on without it, as a maze does with several. Positions do not overflow: a maze is small.

## 3. Runs

| Run | Instance | Shows |
|---|---|---|
| `match_safety` | 2 players, 3 connections, inbox 2, channels of 1 burst, grace 2, timer 3, inputs, chat, kicks | the bookkeeping of seats, channels, joins, inputs and grace, and `MatchSeats` |
| `match_melee` | 3 players, 3 connections, inbox 1, grace 1, timer 2, inputs and pings | a match goes on while two contenders and time are left; who is out is in dead-cam and sends no input |
| `match_live` | 2 players, 2 connections, inbox 1, grace 1, timer 2, StopAll, a kick, inputs | liveness |
| `lobby_safety` | 3 sessions, 2 rooms of 2 places, channels of 2 frames | membership, tokens, views, places, started rooms |
| `lobby_live` | 2 sessions, 1 room, channels of 3 frames | liveness |
| `lobby_panic` | violated | a hello that meets a full channel kills the process (lobby.go 399) |
| `sim_safety` | 2 players, 1 generator, 1 snipe, 2 shots, 5 ticks, 5 fresh ids, rewinds of 0 to 2 | lives, kills, rewinds, invulnerability, cooldowns, why the sim stops |
| `sim_lineage` | violated | a snipe's shot outlives it and hits its own kind (combat.go 117) |
| `hosting_safety` | 2 matches under a cap of 1, 2 lobby sockets, inbox 1, both orders | gauge, `MatchCensus`, rooms close, shutdown returns |
| `hosting_stop` | violated | Connect closes a channel the lobby still sends to (lobby.go 183) |
| `pacing_safety` | 2 players, 1 of them talks, intervals of 2, 4 ticks | freshness, age, rate |
| `motion_safety` | 1 player, 2 snipes, 6 by 6 tiles, 2 bodies at once | nobody in a wall, nobody carried away |

Why the bounds suffice, in the match. Three connections for two players is the least with which a
player holds an old and a new connection while the other player plays. An inbox of two holds a DC
behind the reconnect that races it, and is full soon. A channel of one burst overflows at the second
unread one. Grace 2 and timer 3 give a tick inside the grace, its expiry, and an end by the timer after
it. With two players a match ends when one is eliminated, so what an eliminated player may still do
needs the third of `match_melee`. Of the frames a client sends, a ping may overflow its own channel, a
chat fills the others' without taking a seat, and an input may block its reader: each run has those
that its properties depend on, and `match_live` has the one that blocks. Connections and
players are symmetric in both; no symmetry is used for liveness, where one player may be kicked.

`CHECK_DEADLOCK FALSE` appears in runs that look for a violation and where the system stops: the
process exits in `Hosting`, and `Sim` and `Pacing` come to `MaxTick` or to the end of the ids.

In the lobby. A handler sends up to three frames to one session, so a channel of two may fill in
the middle of a handler and one of three may also hold all of them. Drops cascade: a broadcast that
drops one session asks for a resync, which drops the next. Three sessions are the least for a kick
or a chat with a bystander and for a host who is no member of a full room. Two rooms are needed for
a delta of one room to be confused with another, and for a kick's revocation across matches. Drops,
expiry and the sweep remove sessions and rooms at every point, and the state space is exhausted:
nothing bounds the length of a behaviour. Sessions and rooms are symmetric where no liveness is
checked.

In the simulation. Five ticks hold a death, the respawn a tick later, a shot that rewinds over
both, and a second death, which with two lives is the elimination. A ring of three wraps within
them. Five ids are used up in some behaviours and not in others. Two shots are the least for two
hits on one target in one tick; one snipe suffices for its shot to outlive it.

In the process. A cap of one makes the second match wait for the end of the first, and an inbox of
one is full whenever anything waits: the end of a match then meets it while the lobby calls Create.
Two sockets are needed for one that has connected to broadcast to one whose channel is closed.

In pacing, intervals of two ticks tell a beat from a tick between beats, and four ticks have a late
tick, a drop and a reconnect on each side of one; two players, for one who is away while the other's
score changes. The proofs cover every other value.

In motion. A tile of two subtiles, half extents of one and two, and diagonal walks make every
alignment of a body with walls and generator within the 36 tiles reachable; two
bodies are the least for a push and for a body in the way of an emission or a respawn. A chain of
pushes among three snipes is left out: each push looks at the walls by itself. A tile that juts out
of the border gives the chamber a corner to slide around, besides those of the generator. The proofs
cover every other chamber, body and velocity within the assumptions of section 5.

Fairness of the match (`MatchActor!Fairness`). Run's select serves inbox and ticker, so handlers, ticks
and the absorber are weakly fair. A Go channel serves blocked senders in order, so a posted join or
input is strongly fair: room comes and goes while it waits. The writer keeps writing (each write has a
2 s limit, and a failed one ends the connection) and closes the socket of a closed channel, which fails
the read. No fairness is given to clients, to the lobby, to StopAll, to failing ticks.
`MatchEventuallyEnds` says that the match ends, and that Run returns if the match has run or if
somebody is connected at the end or about to be, since that connection still sends a join or a DC; the
rest is `RunReturns` of section 4. `ConnsTornDown` excepts a reader that a graceful end leaves waiting
to send an input, see `MCMatch_shutdown` there.

Fairness of the lobby (`Lobby!Fairness`). The loops of a handler go on. Run's select takes inbox
and ticker in no preferred order, and Go picks at random among the ready cases, so a tick is not
put off for ever (`SF` of `Janitor`), and a room that is empty again and again at ticks is overdue at
one of them (`SF` of `SweepRoom`). The goroutine of a match that is over waits in MatchEnded until it
is heard, whatever comes between (`SF`). That a match is ever over is not assumed: `StartedRoomGoes`
says that its room goes if it is, or if all its members have left. Clients owe nothing.
The liveness properties are stated up to the end of the process, because of finding 1.

Fairness of the process (`Hosting!Fairness`). Each goroutine of a match, the lobby actor and main go
on when they can (`WF`); a match's report that waits for room in the inbox is served in turn (`SF`
of `MatchEnded`), for Go's channels queue their senders. A match that was told to stop stops. No
match need end by itself, no socket connect or speak, no signal come, and StopAll's deadline is not
used: `ShutdownReturns` holds without it.

## 4. Findings

1. A hello whose session has a full channel panics the lobby (`lobby_panic`): the welcome drops the
   session and closes the channel, the room list is sent to it.
2. A snipe's shot may hit snipes and generators once the snipe is dead (`sim_lineage`): whose shot it
   is, is looked up in the slab when it hits.
3. Connect may close the channel of a session that the lobby has registered (`hosting_stop`); a
   broadcast before the actor leaves its loop then panics, during a graceful shutdown.

Further counterexamples, each a configuration beside the runs above
(`tlc -config MCMatch_backpressure.cfg MCMatch`, and so on):

| Configuration | What fails |
|---|---|
| `MCMatch_backpressure` | `BackpressureDropCanReturn`: an overflowing client does not enter DC-grace and cannot come back (SPEC.md 703, 1316) |
| `MCMatch_stale_input` | `GraceAppliesNoInput`: an input buffered before the drop is applied in grace (SPEC.md 706) |
| `MCMatch_shutdown` | `QuiescentAfterStopAll`: a reader in SubmitInput may outlive a graceful shutdown; match.go 538 says that producers have stopped, but `http.Server.Shutdown` leaves hijacked connections alone |
| `MCMatch_return` | `RunReturns`: a match that nobody has joined when its warmup is over, or that all have left, is aborted, but its Run does not return (match.go 556-561 has no look at the state, against the comment at 529): the registry keeps it under its cap and the room stays "starting" while its members stay, until a kick or StopAll sends a message |
| `MCMatch_deadcam` | `DeadSendNoInput`: a slot that has lost its seat to a full channel in the tick that eliminates its player is not put in dead-cam (match.go 863-870 skips it, PHASE5.md 569 walks every slot), and its inputs go on to the sim |
| `MCLobby_host` | `HostPresent`: a room with members may have a host who is none of them (PHASE2.md 618) |
| `MCLobby_phantom` | `NoPhantoms`: a failed start leaves a member whose session is gone (lobby.go 781) |
| `MCLobby_chat` | `ChatReachesMembers`: a drop in a chat fan-out skips a member (chat.go 52) |
| `MCMotion_push` | `SnipesOffGenerator`: a push puts a snipe into a generator, for it looks at walls only (SPEC.md 250) |

Met in reading, and not modelled: the one-way-time estimator is called "per-connection" (owt.go 5)
but is kept per player across reconnects (match.go 243, 333).

## 5. Proofs

Every theorem is for all values of the constants that the module's named assumption allows. Those of
the match are for any finite set of players, any connections, capacities, grace and timer
(`MatchAssumption`).

* `TypeCorrect`: `TypeOK` is inductive; the interesting part is that a burst only goes where there
  is room and a message only into an inbox with room.
* `CountCorrect`: `CountMatchesSlots` is inductive. Every handler changes joined slots and count
  through `MarkUnjoined`, so the lemma `SendCount` covers all of them.
* `ContendersCorrect`: needs that the start had enough players and that `Tick` evaluates the end on
  the slots, eliminations and tick it leaves; `ContendersInv` adds that a waiting match has not ticked.
* `DeadCamCorrect`: an eliminated player that keeps its seat is in dead-cam, and no input of it is
  buffered. `DeadCamInv` adds that nobody is out in a waiting match.
  `DeadCamTick` is the tick, which empties the buffer and passes over the slots: a slot the pass
  skips has lost its seat. Nothing gives a seat back while a match runs, so it stays so.
* `GraceInvCorrect`: `GraceConsistent` says nothing of drops during warmup, so it is not inductive.
  `GraceInv` adds that a dropped slot of a waiting match is joined, unbound and unarmed, and that a
  joined slot of a running match is in the sim.
* `WiringCorrect`: "no send on a closed channel" depends on what still waits in the inbox. A DC in
  the inbox belongs to a connection that has left, its player is not in grace, and a joined player
  has at most one: hence a late DC cannot unbind a newer connection. A join in the inbox is
  unanswered and there once. A closed channel belongs to a sealed slot, and a sealed slot is not
  joined and its token is used. `Wiring` is the conjunction, proved inductive with `GraceInv`;
  `NoSendOnClosed` and `EndReleasesAll` follow.
* `NoConnAbandonedCorrect`: the first half is `Wiring`'s. For the second, `JoinInv` follows a join
  from the inbox to its answer: every handler answers what it takes, the drain after the end answers
  the rest, and so it stays until Run returns, also while it loops after an aborted warmup.
* `InputCorrect`, `GraceCorrect`: an input in grace must be older than the drop. `InputInv` says so of
  the inbox: an input of a joined player is in front of its DC, and there is none of a player in
  grace, for a reader posts nothing after its DC. So what is buffered at the drop is the last input,
  and the tick that empties the buffer is the next one: the deadline is still a whole grace away.
* `SeatsCorrect`: every step that does not end the match satisfies `SeatStep`, which with the two
  invariants is a step of `MatchSeats`.

### The lobby

The theorems are for any finite sets of sessions and rooms, any capacity of the channels and any
size of rooms (`LobbyAssumption`).

* The argument goes along the operators, not the actions. `WithoutProperties` says what removing
  members from a sequence keeps; `VacatedRoom`, `DropSeated`, `SendSeated` and `AnnounceSeated` say
  that leaving, dropping, sending and announcing keep `Seated`, whichever channels are full, and
  `Sent` collects what else survives a send. Each handler is then a chain of these.
* `MembershipCorrect`: `Membership` with the types is inductive. That a place is only taken by a
  session that has connected is part of it, for a session that connects must find no place in its
  name.
* `PlacesCorrect`: inductive with `Membership`, which says that only a member that names its room can
  go, and that room is then left first (`RemoveContinues`). The exception is the host whose failed
  start has dropped it: the room was "starting" when its channel was found full.
* `TokensCorrect` and `StartedCorrect`: most steps satisfy `Continues` (no new token, started rooms
  go on); starting, the end of a match and the sweep are treated by themselves.
* `ViewsCorrect`: `Fresh` says that the sessions that have said hello are live and were told every
  room as it is, unless a resync is due. `FreshBut` excepts one room, which a delta makes good. A
  send that drops a session of an open room leaves a resync due; one that drops nobody, or only
  sessions without a place in an open room, leaves the descriptions as they were. A failed start is
  the odd case: its room is described as starting by nobody, and is open again before anybody asks.

### The simulation

For any players, generators, capacities and timings with room in the slab for all kinds at their
caps (`SimAssumption`). Six invariants, each proved with those before it:

* `SimTypeCorrect`: ids are issued in order and never beyond `MaxID`; a ring's indices stay in it.
* `LifeInv` (`RespawnsAhead`, `OneLifePerSpawn`, `EliminatedStaysOut`): lives lost and entries into
  the world differ by whether the player is alive; a dead player is due, in this tick or a later
  one, unless eliminated. `FirstDue` is what makes it inductive: until the respawn pass a player may
  be due in the tick under way, after it no more.
* `RingInv` (`RewindsExact`, `InvulnerableLives`): an entity's samples are of consecutive ticks up to
  the last write, an id not yet issued has none, and all samples of an invulnerable entity are
  invulnerable, since a respawn starts the ring over. The lemmas `Written` and `Read` say what a
  write leaves and a rewind finds at any head and count; `MinIsLeast` gets the least index from the
  well-foundedness of the strict subsets of a finite set.
* `CoolInv` (`CooldownKept`): what is left of a cooldown and the time since the shot together reach
  `FireCooldown`.
* `CapsInv` (`StopsOnlyOnIDs`): each kind is at its cap at most and while generators emit no dead
  snipe has a slot; so a slot is free, and an emission fails for want of ids only. This is why
  `garbageCollect` must run before the next emission.
* `PaidInv` (`KillsCountOnce`): what the players have been credited with is at most what the deaths so
  far are worth. Both sides are counted as sets of pairs (who, which point), so that a sum over the
  players needs no induction: a kill adds the worth of its victim to one entry on each side
  (`PointsAdd`), a kill that nobody is paid for to one side only (`PointsGrow`). A victim is paid for
  once because it is in the slab, alive, as what it entered the world as (`EntryOf`), and the hit
  that kills it ends that.

### The process

For any finite sets of matches and sockets, any cap and any inbox (`HostingAssumption`).
`Gauged` counts the matches by the state of their goroutines, and `GaugeCounts` follows.
`DoorInv` says that a verdict of StopAll is settled behind a closed door, `NothingEscapes` follows,
and with both every step is a step of `MatchCensus` or a stutter (`CensusCorrect`). `RoomInv` adds to
`RoomHasMatch` the match that the actor is about to announce, which has no room yet.
`SessionInv` is behind `SafeUntilStopped`, the other side of finding 3: a connect that waits in the
inbox is of a socket that nobody has answered yet and is there once, a disconnect is of one that was
answered, and while the lobby runs only sockets that were answered and have left have a closed
channel. `Stop` breaks the last part, since Connect then closes by itself, and nothing else does.

### Pacing

For any players, intervals and buckets (`PacingAssumption`). `BoardInv`: when nothing is pending the
clients know the scores, else the last board is younger than the interval. `AgeInv` counts the beat
whose flag is still up. `MeterInv`: what was said in a window and what the bucket still holds is at
most a full bucket and what has flowed in since.

### Motion

For any maze, bodies and velocities under two assumptions, which the code meets as follows.

* `MotionAssumption`: no speed reaches a tile (config.go: at most 224 of 256), and
  a snipe spans two columns of tiles at most (`snipeHalfExt` is 128). The comment at aabbHitsWall asks
  for a half extent of at most a tile; for corners to suffice it takes half of that.
* `MazeAssumption`: `NoExactFit` excludes a gap between two walls exactly as wide as a body, in which
  moveAndSlide would put the body one subtile into the wall behind it (it stops one short of the wall
  ahead). maze.go makes corridors of six tiles (`corridorWidth`) where a player is two tiles wide and
  a snipe one. The same between a wall and the generator, and around the generator room for what is
  pushed out of it: maze.go puts generators and spawns at `cellCenter`. config.go's init itself only
  asks that the clearance of a corridor is not negative, less than the proof needs.

The argument goes along the axes. `ColumnOf` and `SpanMeets` relate tiles and subtiles; `StopsAhead`
and `StopsBack` say where a step ends that meets a wall, `SteppedAhead` and `SteppedBack` that the body
then is in no wall: the one ahead is out of reach, and a body put back may stand one subtile behind
its start, where only an exact fit would hurt. `PutBackAhead`, `PutBackBack` and `AlongClear` do the
same for the generator, and `SlidePlayer`, `SlideSnipe` put the two axes together. `CornersTell` shows
that the corners of a snipe meet every wall the snipe meets. `MotionInv` then is inductive; the glide
comes with `SlidePlayer`, which bounds the way along an axis by the velocity.

Only model-checked: liveness (`JoinAnswered`, `MatchEventuallyEnds`, `ConnsTornDown`, `Resynced`,
`StartedRoomGoes`, `EmptyRoomGoes`, `RoomCloses`, `ShutdownReturns`), which needs ENABLED and fairness,
and the counterexamples of section 4. Every other property of a passing run is a theorem.
`GraceInv`, `Wiring`, `InputInv`, `OneLifePerSpawn`, `PaidInv`, `NothingEscapes`, `RoomHasMatch`,
`SafeUntilStopped` and `MotionInv` are proved and are in no run, or are part of a property that is.

## 6. Plan

1. `MatchActor`, `MatchSeats` and their proofs: done.
2. `Lobby` and its proofs: done.
3. `Hosting`, `MatchCensus` and their proofs: done.
4. `Sim` and its proofs: done.
5. `Pacing`, `Motion` and their proofs: done.
6. Left: what a match takes of the simulation (who is in it, who is eliminated) as a small abstract
   specification that `Sim` and `MatchActor` both implement; that only a push puts a snipe into the
   generator; that a shot of a living snipe spares its kind; the nicks of the lobby.

Not modelled, and why:

* area of interest (`aoi.go`): which entities a snapshot holds, a per-entity hysteresis over
  distances that nothing else reads;
* the one-way-time estimator: arithmetic on a window of samples, `Sim` takes any value it may yield;
* maze generation, line of sight, snipe minds, random numbers: sequential searches that golden tests
  fix, the models let a snipe move and shoot as it likes;
* the wire codec: fixed layouts without state;
* the ranking of respawn tiles: `Motion` lets a player come back on any free one;
* prediction and interpolation of the client (`prediction.ts`, `interp.ts`): nothing but their own
  tests imports them, so no behaviour of the program depends on them;
* rendering, audio, input, metrics formatting, the load-test clients.
