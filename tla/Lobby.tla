------------------------------- MODULE Lobby -------------------------------
(***************************************************************************)
(* The lobby actor of internal/lobby: sessions, rooms, members and hosts,  *)
(* join tokens, kick, chat, the janitor, and the writers of lobby          *)
(* WebSockets (internal/net/server.go) that drain the sessions' bounded    *)
(* out channels.                                                           *)
(*                                                                         *)
(* The actor is one goroutine.  Its state is the record `lobby`, and the   *)
(* code's methods are operators that return the lobby they leave, because  *)
(* one handler sends several times and every send may drop a session.      *)
(*                                                                         *)
(* Abstractions.  The inbox only delays a message: each message of a       *)
(* session is handled at a time of its own, and not at all once the        *)
(* session is gone.  Ids are fresh: a session connects once, a room is     *)
(* created once and hosts at most one match, named like the room.  Clocks  *)
(* are not modelled: what may be overdue may be overdue at any tick of the *)
(* janitor.  A frame is what it says about the rooms.                      *)
(***************************************************************************)
EXTENDS Integers, Sequences, FiniteSets

CONSTANTS
  Sessions,    \* lobby WebSockets
  Rooms,       \* rooms, each created at most once
  None,        \* no room, no host
  OutCap,      \* capacity of a session's out channel (64)
  MaxMembers   \* Room.Max

ASSUME LobbyAssumption ==
  /\ IsFiniteSet(Sessions) /\ IsFiniteSet(Rooms)
  /\ None \notin Sessions \cup Rooms
  /\ OutCap \in Nat \ {0} /\ MaxMembers \in 2..8

VARIABLES
  lobby,   \* the actor's state
  match,   \* the match of each room, as the registry runs it
  pc,      \* where Run is: its select, the janitor's two sweeps, a chat fan-out, a resync
  relay    \* the fan-out of a chat line

vars == <<lobby, match, pc, relay>>

Absent == [players |-> 0, stage |-> "gone"]

Descriptor == [players : Nat, stage : {"open", "starting", "gone"}]

LobbyState ==
  [session : [Sessions -> {"new", "live", "gone"}],   \* l.sessions holds the live ones
   greeted : SUBSET Sessions,                         \* Nick # ""
   room    : [Sessions -> Rooms \cup {None}],         \* Session.roomID
   stage   : [Rooms -> {"new", "open", "starting", "gone"}],
   members : [Rooms -> Seq(Sessions)],                \* in join order
   host    : [Rooms -> Sessions \cup {None}],
   tokens  : [Rooms -> SUBSET Sessions],              \* l.tokens, by match
   queue   : [Sessions -> 0..OutCap],
   view    : [Sessions -> [Rooms -> Descriptor]],     \* the rooms as a session was last told
   dirty   : BOOLEAN,                                 \* roomsDirty
   crashed : BOOLEAN]                                 \* send on a closed channel

(* A fan-out ranges over the slice it started with: `line` is that slice's *)
(* array, `at` the next index, `heard` how often each session was sent the *)
(* line.                                                                   *)
Relay == [room : Rooms, line : Seq(Sessions), at : Nat \ {0}, heard : [Sessions -> Nat]]

NoRelay == [room |-> None]

(* Every variable has its type: no session is ever sent more than its      *)
(* channel holds.                                                          *)
LobbyTypeOK ==
  /\ lobby \in LobbyState
  /\ match \in [Rooms -> {"none", "running", "over", "reported"}]
  /\ pc \in {"select", "expire", "sweep", "relay", "flush"}
  /\ relay \in Relay \cup {NoRelay} /\ (pc = "relay" <=> relay # NoRelay)

Init ==
  /\ lobby = [session |-> [s \in Sessions |-> "new"], greeted |-> {},
              room |-> [s \in Sessions |-> None],
              stage |-> [r \in Rooms |-> "new"], members |-> [r \in Rooms |-> <<>>],
              host |-> [r \in Rooms |-> None], tokens |-> [r \in Rooms |-> {}],
              queue |-> [s \in Sessions |-> 0],
              view |-> [s \in Sessions |-> [r \in Rooms |-> Absent]],
              dirty |-> FALSE, crashed |-> FALSE]
  /\ match = [r \in Rooms |-> "none"] /\ pc = "select" /\ relay = NoRelay

-----------------------------------------------------------------------------
(* Rooms and their members.                                                *)

Live(l) == {s \in Sessions : l.session[s] = "live"}

Existing(l) == {r \in Rooms : l.stage[r] \in {"open", "starting"}}

InRoom(l, r) == {l.members[r][i] : i \in DOMAIN l.members[r]}

(* The sequence q without the elements of D.                               *)
Without(q, D) ==
  LET kept == {i \in DOMAIN q : q[i] \notin D}
  IN  [n \in 1..Cardinality(kept) |->
         q[CHOOSE i \in kept : Cardinality({k \in kept : k <= i}) = n]]

(* removeFromRoomMembership of the sessions D, one after the other, in the *)
(* rooms R: the oldest member inherits from a host that leaves; an empty   *)
(* room keeps its last host.  (Where a fan-out empties a room, which of    *)
(* its dropped sessions was the last is not kept: all are gone for good.)  *)
Vacate(l, D, R) ==
  [l EXCEPT !.members = [r \in Rooms |-> IF r \in R THEN Without(@[r], D) ELSE @[r]],
            !.room    = [s \in Sessions |-> IF s \in D THEN None ELSE @[s]],
            !.host    = [r \in Rooms |->
               LET rest == Without(l.members[r], D)
               IN  IF r \in R /\ @[r] \in D /\ l.room[@[r]] = r /\ rest # <<>>
                     THEN Head(rest) ELSE @[r]]]

(* delete(l.sessions, ...) and the close of the out channels; what their   *)
(* writers still drain concerns nobody.                                    *)
Remove(l, D) ==
  [l EXCEPT !.session = [s \in Sessions |-> IF s \in D THEN "gone" ELSE @[s]],
            !.greeted = @ \ D,
            !.room    = [s \in Sessions |-> IF s \in D THEN None ELSE @[s]],
            !.queue   = [s \in Sessions |-> IF s \in D THEN 0 ELSE @[s]],
            !.view    = [s \in Sessions |-> IF s \in D THEN [r \in Rooms |-> Absent] ELSE @[s]]]

OpenRoomsOf(l, D) == {r \in Rooms : l.stage[r] = "open" /\ \E s \in D : l.room[s] = r}

(* Mutation: a dropped session stays a member of its open room. *)
DropForgetful(l, D) == Remove(l, D)

(* Mutation: no resync is asked for. *)
DropQuietly(l, D) == Remove(Vacate(l, D, OpenRoomsOf(l, D)), D)

(* dropSession of D: an open room loses its member and must be announced   *)
(* again; a room whose match has started is left as it is.                 *)
Drop(l, D) ==
  LET open == OpenRoomsOf(l, D)
  IN  Remove([Vacate(l, D, open) EXCEPT !.dirty = @ \/ open # {}], D)

-----------------------------------------------------------------------------
(* Sending.                                                                *)

(* Room.describe, and no descriptor for a room that is not listed.         *)
Describe(l, r) ==
  IF r \in Existing(l) THEN [players |-> Len(l.members[r]), stage |-> l.stage[r]] ELSE Absent

Listing(l)  == [r \in Rooms |-> Describe(l, r)]
Delta(l, r) == [q \in {r} |-> Describe(l, r)]
NoNews      == [q \in {} |-> Absent]

(* Mutation: one frame too many. *)
FullOffByOne(l, S) == {s \in S \cap Live(l) : l.queue[s] > OutCap}

Full(l, S) == {s \in S \cap Live(l) : l.queue[s] = OutCap}

(* One more frame in the channels of the sessions S.                       *)
Queued(l, S, news) ==
  LET told(v) == [r \in Rooms |-> IF r \in DOMAIN news THEN news[r] ELSE v[r]]
  IN  [l EXCEPT !.queue = [s \in Sessions |-> IF s \in S THEN @[s] + 1 ELSE @[s]],
                !.view  = [s \in Sessions |-> IF s \in S THEN told(@[s]) ELSE @[s]]]

(* send of one frame to each live session of S: a full channel drops its   *)
(* session.                                                                *)
Send(l, S, news) ==
  LET full == Full(l, S) IN Drop(Queued(l, (S \cap Live(l)) \ full, news), full)

Broadcast(l, news) == Send(l, Live(l), news)

(* broadcastRoomList and then broadcastRoomDelta, whose payload is built   *)
(* when the list has gone out.                                             *)
AnnounceRoom(l, r) ==
  LET listed == Broadcast(l, Listing(l)) IN Broadcast(listed, Delta(listed, r))

(* The end of a handler: the resync of dirty rooms waits while the inbox   *)
(* has messages.                                                           *)
Return(l) ==
  /\ lobby' = l
  /\ pc' \in IF l.dirty THEN {"select", "flush"} ELSE {"select"}

Handling == pc = "select" /\ ~lobby.crashed

-----------------------------------------------------------------------------
(* Handlers.                                                               *)

Connect(s) ==
  /\ Handling /\ lobby.session[s] = "new"
  /\ Return([lobby EXCEPT !.session[s] = "live"])
  /\ UNCHANGED <<match, relay>>

(* handleHello: welcome, then the list.  A session whose channel is full   *)
(* at the welcome is dropped, and the list is sent to its closed channel.  *)
Hello(s) ==
  /\ Handling /\ s \in Live(lobby)
  /\ LET welcomed == Send([lobby EXCEPT !.greeted = @ \cup {s}], {s}, NoNews)
     IN  Return(IF s \in Live(welcomed) THEN Send(welcomed, {s}, Listing(welcomed))
                                        ELSE [welcomed EXCEPT !.crashed = TRUE])
  /\ UNCHANGED <<match, relay>>

(* Any message that is refused: the answer is one error frame.             *)
Reject(s) ==
  /\ Handling /\ s \in Live(lobby)
  /\ Return(Send(lobby, {s}, NoNews))
  /\ UNCHANGED <<match, relay>>

(* sendErrorAndClose, of a wrong envelope version or schema checksum.      *)
VersionClose(s) ==
  /\ Handling /\ s \in Live(lobby)
  /\ Return(Drop(lobby, {s}))
  /\ UNCHANGED <<match, relay>>

(* The lobby l with the new room r of s.                                   *)
Created(l, s, r) ==
  [l EXCEPT !.stage[r] = "open", !.members[r] = <<s>>, !.host[r] = s, !.room[s] = r]

CreateRoom(s, r) ==
  /\ Handling /\ s \in Live(lobby) \cap lobby.greeted
  /\ lobby.room[s] = None /\ lobby.stage[r] = "new"
  /\ LET made   == Created(lobby, s, r)
         listed == Send(made, {s}, Listing(made))
     IN  Return(Broadcast(listed, Delta(listed, r)))
  /\ UNCHANGED <<match, relay>>

(* Mutation: a room whose match has started still takes members. *)
AcceptsLate(l, r) == r \in Existing(l) /\ Len(l.members[r]) < MaxMembers

Accepts(l, r) == l.stage[r] = "open" /\ Len(l.members[r]) < MaxMembers

Joined(l, s, r) == [l EXCEPT !.members[r] = Append(@, s), !.room[s] = r]

JoinRoom(s, r) ==
  /\ Handling /\ s \in Live(lobby) \cap lobby.greeted
  /\ lobby.room[s] = None /\ Accepts(lobby, r)
  /\ Return(AnnounceRoom(Joined(lobby, s, r), r))
  /\ UNCHANGED <<match, relay>>

(* A member may also leave a room whose match has started.                 *)
LeaveRoom(s) ==
  /\ Handling /\ s \in Live(lobby) /\ lobby.room[s] # None
  /\ Return(AnnounceRoom(Vacate(lobby, {s}, {lobby.room[s]}), lobby.room[s]))
  /\ UNCHANGED <<match, relay>>

(* handleStartMatch up to the registry's answer.                           *)
MayStart(s, r) ==
  /\ Handling /\ s \in Live(lobby)
  /\ lobby.room[s] = r /\ lobby.host[r] = s
  /\ Len(lobby.members[r]) >= 2 /\ lobby.stage[r] = "open"

Starting(l, r) == [l EXCEPT !.stage[r] = "starting", !.tokens[r] = InRoom(l, r)]

StartMatch(s, r) ==
  /\ MayStart(s, r)
  /\ LET told == Send(Starting(lobby, r), InRoom(lobby, r), NoNews)
     IN  Return(Broadcast(told, Listing(told)))
  /\ match' = [match EXCEPT ![r] = "running"]
  /\ UNCHANGED relay

(* Mutation: the failed start keeps its tokens. *)
StartFailsLeaky(s, r) ==
  /\ MayStart(s, r)
  /\ Return([Send(Starting(lobby, r), {s}, NoNews) EXCEPT !.stage[r] = "open"])
  /\ UNCHANGED <<match, relay>>

(* The registry is full or stopping, or no token could be made: the host   *)
(* is told while the room is still starting, then the room opens again.    *)
StartFails(s, r) ==
  /\ MayStart(s, r)
  /\ Return([Send(Starting(lobby, r), {s}, NoNews) EXCEPT !.stage[r] = "open", !.tokens[r] = {}])
  /\ UNCHANGED <<match, relay>>

(* handleKick: the host need not be a member.  The target's tokens, of     *)
(* whatever match, are forgotten here and revoked in the match.            *)
Kick(s, t, r) ==
  /\ Handling /\ s \in Live(lobby) \cap lobby.greeted
  /\ r \in Existing(lobby) /\ lobby.host[r] = s
  /\ t # s /\ t \in Live(lobby) /\ lobby.room[t] = r
  /\ LET told == Send(lobby, {t}, NoNews)
         left == AnnounceRoom(Vacate(told, {t}, {r}), r)
     IN  Return([left EXCEPT !.tokens = [q \in Rooms |-> @[q] \ {t}]])
  /\ UNCHANGED <<match, relay>>

(* handleChat up to its fan-out.                                           *)
Chat(s) ==
  /\ Handling /\ s \in Live(lobby) \cap lobby.greeted /\ lobby.room[s] # None
  /\ relay' = [room |-> lobby.room[s], line |-> lobby.members[lobby.room[s]], at |-> 1,
               heard |-> [t \in Sessions |-> 0]]
  /\ pc' = "relay"
  /\ UNCHANGED <<lobby, match>>

(* The fan-out's next step: whoever is in the array at `at` and still has  *)
(* a session is sent the line.  A drop from an open room shifts the later  *)
(* members down in the array the fan-out ranges over.                      *)
RelayLine ==
  /\ pc = "relay" /\ relay.at <= Len(relay.line)
  /\ LET s    == relay.line[relay.at]
         sent == Send(lobby, {s}, NoNews)
         old  == lobby.members[relay.room]
         new  == sent.members[relay.room]
     IN  /\ lobby' = sent
         /\ relay' = [relay EXCEPT
               !.at = @ + 1,
               !.heard[s] = IF s \in Live(sent) THEN @ + 1 ELSE @,
               !.line = IF new = old THEN @ ELSE new \o SubSeq(@, Len(old), Len(@))]
  /\ UNCHANGED <<match, pc>>

RelayDone ==
  /\ pc = "relay" /\ relay.at > Len(relay.line)
  /\ Return(lobby)
  /\ relay' = NoRelay
  /\ UNCHANGED match

(* handleDisconnect: an open room is left and announced, while the session *)
(* still is one; a room whose match has started keeps its member.          *)
Disconnected(l, s) ==
  LET r == l.room[s]
  IN  Remove(IF r \in Rooms /\ l.stage[r] = "open" THEN AnnounceRoom(Vacate(l, {s}, {r}), r) ELSE l,
             {s})

Disconnect(s) ==
  /\ Handling /\ s \in Live(lobby)
  /\ Return(Disconnected(lobby, s))
  /\ UNCHANGED <<match, relay>>

(* Mutation: the members of a closed room still name it. *)
ClosedKeepsRoom(l, r) ==
  [l EXCEPT !.stage[r] = "gone", !.members[r] = <<>>, !.host[r] = None]

(* Mutation: no room is found for the match. *)
ClosedNone(l, r) == l

(* The room of an ended match is closed and deleted, its members are free. *)
Closed(l, r) ==
  [l EXCEPT !.stage[r] = "gone", !.members[r] = <<>>, !.host[r] = None,
            !.room = [s \in Sessions |-> IF s \in InRoom(l, r) THEN None ELSE @[s]]]

(* handleMatchEnded: the room may be gone already.                         *)
MatchEnded(r) ==
  /\ Handling /\ match[r] = "over"
  /\ LET freed == IF lobby.stage[r] = "starting" THEN Closed(lobby, r) ELSE lobby
     IN  Return(Broadcast(freed, Listing(freed)))
  /\ match' = [match EXCEPT ![r] = "reported"]
  /\ UNCHANGED relay

(* The Run of a match returns, which is when the registry reports its end. *)
(* That of a match aborted in its warmup may not (MatchActor, RunReturns). *)
MatchOver(r) ==
  /\ match[r] = "running" /\ ~lobby.crashed
  /\ match' = [match EXCEPT ![r] = "over"]
  /\ UNCHANGED <<lobby, pc, relay>>

-----------------------------------------------------------------------------
(* The janitor, the deferred resync, the writers.                          *)

(* The tick's expireTokens: the tokens of a match are as old as it is.     *)
Janitor ==
  /\ Handling
  /\ \E expired \in SUBSET {r \in Rooms : lobby.tokens[r] # {}} :
       lobby' = [lobby EXCEPT !.tokens = [r \in Rooms |-> IF r \in expired THEN {} ELSE @[r]]]
  /\ pc' = "expire"
  /\ UNCHANGED <<match, relay>>

(* expireIdleSessions.                                                     *)
ExpireIdle(s) ==
  /\ pc = "expire" /\ s \in Live(lobby)
  /\ lobby' = Disconnected(lobby, s)
  /\ UNCHANGED <<match, pc, relay>>

BeginSweep ==
  /\ pc = "expire" /\ pc' = "sweep"
  /\ UNCHANGED <<lobby, match, relay>>

(* Mutation: a room that still has a host is not taken for empty. *)
SweepHostless(r) ==
  /\ pc = "sweep" /\ r \in Existing(lobby) /\ lobby.members[r] = <<>> /\ lobby.host[r] = None
  /\ LET swept == [lobby EXCEPT !.stage[r] = "gone"] IN lobby' = Broadcast(swept, Delta(swept, r))
  /\ UNCHANGED <<match, pc, relay>>

(* sweepEmptyRooms, whatever the state of the room.                        *)
SweepRoom(r) ==
  /\ pc = "sweep" /\ r \in Existing(lobby) /\ lobby.members[r] = <<>>
  /\ LET swept == [lobby EXCEPT !.stage[r] = "gone", !.host[r] = None]
     IN  lobby' = Broadcast(swept, Delta(swept, r))
  /\ UNCHANGED <<match, pc, relay>>

(* Mutation: the janitor leaves the resync to the handlers. *)
EndSweepDirty ==
  /\ pc = "sweep" /\ pc' = "select"
  /\ UNCHANGED <<lobby, match, relay>>

EndSweep ==
  /\ pc = "sweep"
  /\ pc' = IF lobby.dirty THEN "flush" ELSE "select"
  /\ UNCHANGED <<lobby, match, relay>>

(* One turn of flushRoomsDirty.                                            *)
Flush ==
  /\ pc = "flush"
  /\ lobby' = Broadcast([lobby EXCEPT !.dirty = FALSE], Listing(lobby))
  /\ pc' = IF lobby'.dirty THEN "flush" ELSE "select"
  /\ UNCHANGED <<match, relay>>

(* The writer takes a frame off the channel.                               *)
WriterSend(s) ==
  /\ s \in Live(lobby) /\ lobby.queue[s] > 0 /\ ~lobby.crashed
  /\ lobby' = [lobby EXCEPT !.queue[s] = @ - 1]
  /\ UNCHANGED <<match, pc, relay>>

-----------------------------------------------------------------------------
Handle ==
  \/ \E s \in Sessions :
       \/ Connect(s) \/ Hello(s) \/ Reject(s) \/ VersionClose(s)
       \/ LeaveRoom(s) \/ Chat(s) \/ Disconnect(s)
       \/ \E r \in Rooms :
            \/ CreateRoom(s, r) \/ JoinRoom(s, r) \/ StartMatch(s, r) \/ StartFails(s, r)
            \/ \E t \in Sessions : Kick(s, t, r)
  \/ \E r \in Rooms : MatchEnded(r)

(* The steps of a loop that Run is in.                                     *)
Loop ==
  \/ RelayLine \/ RelayDone \/ BeginSweep \/ EndSweep \/ Flush
  \/ \E s \in Sessions : ExpireIdle(s)
  \/ \E r \in Rooms : SweepRoom(r)

(* The panic of the actor ends the process.                                *)
Terminated == lobby.crashed /\ UNCHANGED vars

Next ==
  \/ Handle \/ Janitor \/ Loop \/ Terminated
  \/ \E s \in Sessions : WriterSend(s)
  \/ \E r \in Rooms : MatchOver(r)

Safety == Init /\ [][Next]_vars

(* The actor's loops go on, and its select picks at random among the ready *)
(* cases, so that the ticker is served however busy the inbox is.  The     *)
(* goroutine of a match that is over waits in MatchEnded until the actor   *)
(* takes the message.  An empty room is overdue at some tick.  Nothing     *)
(* obliges a client to send, to read or to leave, nor a match to be over.  *)
Fairness ==
  /\ WF_vars(Loop) /\ SF_vars(Janitor)
  /\ \A r \in Rooms : SF_vars(SweepRoom(r)) /\ SF_vars(MatchEnded(r))

Spec == Safety /\ Fairness

-----------------------------------------------------------------------------
(***************************************************************************)
(* Safety.                                                                 *)
(***************************************************************************)

(* In the lobby l every place is taken by one session, and the live        *)
(* sessions name the room they have a place in.                            *)
Seated(l) ==
  /\ \A r \in Rooms :
       /\ \A i, j \in DOMAIN l.members[r] : l.members[r][i] = l.members[r][j] => i = j
       /\ Len(l.members[r]) <= MaxMembers
       /\ r \notin Existing(l) => l.members[r] = <<>>
       /\ \A s \in InRoom(l, r) : l.session[s] # "new"
  /\ \A s \in Sessions : l.room[s] # None => s \in Live(l)
  /\ \A s \in Live(l), r \in Rooms : l.room[s] = r <=> s \in InRoom(l, r)

(* A live session names the room whose member it is, and is a member of no *)
(* other: join, leave, kick, forced drops in the middle of a fan-out, the  *)
(* end of a match and the sweep keep both sides of this relation.          *)
Membership == Seated(lobby)

(* Unless a resync is due, every session that has said hello has been told *)
(* the rooms as they are: no fan-out ends with a stale list or delta after *)
(* a newer one.                                                            *)
ViewsFresh ==
  ~lobby.dirty => \A s \in lobby.greeted : lobby.view[s] = Listing(lobby)

(* Tokens are only kept for a match that the registry accepted.            *)
TokensHaveMatch == \A r \in Rooms : lobby.tokens[r] # {} => match[r] # "none"

(* In the lobby l no session that is gone takes a place in an open room,   *)
(* but for the host.                                                       *)
Placed(l) ==
  \A r \in Rooms : l.stage[r] = "open" => InRoom(l, r) \ Live(l) \subseteq {l.host[r]}

(* A session that is gone takes no place in an open room; the one exception *)
(* is the host whose failed start has dropped it.                          *)
PlacesAreTaken == Placed(lobby)

StartedKept ==
  \A r \in Rooms : lobby.stage[r] = "starting" =>
    \/ lobby'.stage[r] = "starting" /\ InRoom(lobby', r) \subseteq InRoom(lobby, r)
    \/ lobby'.stage[r] = "gone" /\ (match[r] = "over" \/ lobby.members[r] = <<>>)

(* The room of a running match does not open again, takes no new member,   *)
(* and goes only when the match is over or nobody is left in it.           *)
StartedStays == [][StartedKept]_vars

(***************************************************************************)
(* Liveness, unless the process dies.                                      *)
(***************************************************************************)

(* A drop that left the room list stale is made good by a resync: the      *)
(* flush loop ends although each of its turns may drop more sessions.      *)
Resynced == lobby.dirty ~> ~lobby.dirty \/ lobby.crashed

(* The room of a match goes once the match is over, whoever of its members *)
(* is still there, or once they have all left it.  (A match that nobody    *)
(* joins is never reported: its room stays as long as its members do.)     *)
StartedRoomGoes ==
  \A r \in Rooms :
    (lobby.stage[r] = "starting" /\ (match[r] = "over" \/ lobby.members[r] = <<>>))
      ~> (lobby.stage[r] = "gone" \/ lobby.crashed)

(* A room that stays empty goes.                                           *)
EmptyRoomGoes ==
  \A r \in Rooms :
    (lobby.stage[r] = "open" /\ lobby.members[r] = <<>>)
      ~> (lobby.stage[r] = "gone" \/ lobby.members[r] # <<>> \/ lobby.crashed)

(***************************************************************************)
(* What the documents and comments say and the code does not do.           *)
(***************************************************************************)

(* No send on a closed channel.                                            *)
NoPanic == ~lobby.crashed

(* PHASE6.md 7.4, PHASE2.md 7.2: an open room with members has its host    *)
(* among them.                                                             *)
HostPresent ==
  \A r \in Rooms : lobby.stage[r] = "open" /\ lobby.members[r] # <<>> =>
    lobby.host[r] \in InRoom(lobby, r)

(* lobby.go, dropSession: a dropped client frees its place in an open room. *)
NoPhantoms ==
  \A r \in Rooms : lobby.stage[r] = "open" => InRoom(lobby, r) \subseteq Live(lobby)

(* chat.go: a line goes to every room member, the sender included.         *)
ChatReachesMembers ==
  pc = "relay" /\ relay.at > Len(relay.line) =>
    \A s \in InRoom(lobby, relay.room) \cap Live(lobby) : relay.heard[s] = 1
=============================================================================
