----------------------------- MODULE MatchActor -----------------------------
(***************************************************************************)
(* One match of the server: the actor of internal/match/match.go and       *)
(* reconnect.go, with the connections of internal/net/server.go that feed  *)
(* its inbox and drain its output channels.                                *)
(*                                                                         *)
(* The actor is one goroutine: each handler and each tick is one action.   *)
(* The goroutines of a connection (the join handshake, the reader, the     *)
(* writer) interleave with it freely, and talk to it only through the      *)
(* bounded inbox `m.in`, the bounded channels `slot.out` and the reply of  *)
(* a join.                                                                 *)
(*                                                                         *)
(* Abstractions.  A player's join token is the player (tokenForPlayer is a *)
(* bijection).  The frames one handler sends to one slot count as one      *)
(* burst, and OutCap counts bursts: the real channel holds 64 frames, and  *)
(* a burst is taken to fit an empty one.  The clocks are not modelled: a   *)
(* timeout may fire whenever its timer runs.  The sim is reduced to who is *)
(* in it and who is eliminated; who dies in a tick is a free choice.       *)
(***************************************************************************)
EXTENDS Integers, Sequences, FiniteSets

CONSTANTS
  Players,       \* the reserved slots (MatchConfig.PlayerSlots)
  Conns,         \* match WebSockets, each dialled at most once
  None,          \* no connection: the nil channel
  InboxCap,      \* capacity of m.in (256)
  OutCap,        \* capacity of a connection's out channel, in bursts
  Grace,         \* DCGraceTicks (900)
  MatchTimer,    \* MatchTimerTicks (18000)
  PvE,           \* LevelLetter # 0
  ClientFrames,  \* the post-join frames clients send: "input", "ping", "chat"
  Revocable,     \* the players the lobby may kick while the match starts
  Stoppable      \* whether the registry may shut the match down

ASSUME MatchAssumption ==
  /\ IsFiniteSet(Players) /\ Players # {}
  /\ None \notin Conns
  /\ InboxCap \in Nat \ {0} /\ OutCap \in Nat \ {0}
  /\ Grace \in Nat \ {0} /\ MatchTimer \in Nat \ {0}
  /\ PvE \in BOOLEAN /\ Stoppable \in BOOLEAN
  /\ ClientFrames \subseteq {"input", "ping", "chat"}
  /\ Revocable \subseteq Players

VARIABLES
  state,        \* MatchState: "waiting", "live", "ended"
  done,         \* Run has returned: m.done is closed
  slots,        \* the keys of m.slots
  joined,       \* slot.Joined
  joinedCount,  \* joinedCountAtomic, and the match's share of the gauge
  deadCam,      \* slot.DeadCam
  dc,           \* slot.DC
  dcDeadline,   \* slot.DCDeadlineTick; 0 is "not armed"
  out,          \* slot.out: the connection whose channel the slot writes to
  sealed,       \* slots whose closeSlot has closed them
  bySession,    \* unconsumed join tokens
  dcTokens,     \* tokens of slots in DC-grace
  pending,      \* the keys of m.pendingInputs
  startCount,   \* startingPlayerCount
  inbox,        \* m.in
  graceful,     \* gracefulShutdown: no absorber after Run
  stopping,     \* Registry.StopAll has posted its shutdown
  tick,         \* sim.ServerTick
  inSim,        \* players the sim has a record of
  eliminated,   \* players out of lives
  conn,         \* where each connection is in handleMatch
  token,        \* the token a connection presented
  queue,        \* bursts waiting in each connection's out channel
  closed,       \* connections whose out channel the actor has closed
  hungUp        \* connections whose socket the writer has closed

slotVars  == <<slots, joined, joinedCount, deadCam, dc, dcDeadline, out, sealed,
               bySession, dcTokens, pending, startCount>>
simVars   == <<tick, inSim, eliminated>>
netVars   == <<conn, token, queue, closed, hungUp>>
vars      == <<state, done, slotVars, inbox, graceful, stopping, simVars, netVars>>

Message == [kind : {"join"}, conn : Conns]
           \cup [kind : {"input", "ping", "chat", "dc", "revoke"}, player : Players]
           \cup [kind : {"shutdown", "abort"}]

ConnState == {"idle", "dialing", "joining", "open", "blocked", "gone"}

(* Every variable has its type; no channel and no inbox holds more than    *)
(* its capacity, whoever sends; and Run returns from no match that goes on. *)
TypeOK ==
  /\ state \in {"waiting", "live", "ended"}
  /\ done \in BOOLEAN /\ (done => state = "ended")
  /\ slots \subseteq Players /\ joined \subseteq Players /\ deadCam \subseteq Players
  /\ joinedCount \in Int /\ startCount \in Nat
  /\ dc \subseteq Players /\ dcDeadline \in [Players -> Nat]
  /\ out \in [Players -> Conns \cup {None}] /\ sealed \subseteq Players
  /\ bySession \subseteq Players /\ dcTokens \subseteq Players
  /\ pending \subseteq Players
  /\ inbox \in Seq(Message) /\ Len(inbox) <= InboxCap
  /\ graceful \in BOOLEAN /\ stopping \in BOOLEAN
  /\ tick \in Nat /\ inSim \subseteq Players /\ eliminated \subseteq Players
  /\ conn \in [Conns -> ConnState] /\ token \in [Conns -> Players]
  /\ queue \in [Conns -> 0..OutCap]
  /\ closed \subseteq Conns /\ hungUp \subseteq Conns

NewMatch ==
  /\ state = "waiting" /\ done = FALSE /\ slots = Players /\ joined = {} /\ joinedCount = 0
  /\ deadCam = {} /\ dc = {} /\ dcDeadline = [p \in Players |-> 0]
  /\ out = [p \in Players |-> None] /\ sealed = {}
  /\ bySession = Players /\ dcTokens = {} /\ pending = {} /\ startCount = 0
  /\ inbox = <<>> /\ graceful = FALSE /\ stopping = FALSE
  /\ tick = 0 /\ inSim = {} /\ eliminated = {}

Init ==
  /\ NewMatch
  /\ conn = [c \in Conns |-> "idle"] /\ queue = [c \in Conns |-> 0]
  /\ token \in [Conns -> Players] /\ closed = {} /\ hungUp = {}

-----------------------------------------------------------------------------
(* Sending.                                                                *)

(* Mutation: one message too many. *)
RoomOffByOne == Len(inbox) <= InboxCap

Room == Len(inbox) < InboxCap

Bound(o, S) == {o[p] : p \in S} \ {None}

(* Mutation: a slot that is not joined releases the count again. *)
MarkUnjoinedTwice(S, j, n) == joined' = j \ S /\ joinedCount' = n - Cardinality(S)

(* markUnjoined of the slots S; j and n are the joined slots and their     *)
(* count as the handler has left them so far.                              *)
MarkUnjoined(S, j, n) == joined' = j \ S /\ joinedCount' = n - Cardinality(S \cap j)

(* Mutation: the slot keeps the channel it closed. *)
CloseSlotKeepsOut(S, o) ==
  sealed' = sealed \cup S /\ closed' = closed \cup Bound(o, S \ sealed) /\ out' = o

(* Mutation: the slot forgets its channel without closing it. *)
CloseSlotLeavesOpen(S, o) ==
  /\ sealed' = sealed \cup S /\ closed' = closed
  /\ out' = [p \in Players |-> IF p \in S \ sealed THEN None ELSE o[p]]

(* closeSlot of the slots S with the channels o: each slot closes at most  *)
(* once, and a closed channel is forgotten.                                *)
CloseSlot(S, o) ==
  /\ sealed' = sealed \cup S
  /\ closed' = closed \cup Bound(o, S \ sealed)
  /\ out' = [p \in Players |-> IF p \in S \ sealed THEN None ELSE o[p]]

(* One burst into each channel of C.                                       *)
Enqueue(C) == queue' = [c \in Conns |-> IF c \in C THEN queue[c] + 1 ELSE queue[c]]

(* The slots of S whose channel has no room.                               *)
Full(S, o) == {p \in S : o[p] # None /\ queue[o[p]] = OutCap}

(* sendFrameTo of one burst to the slots S: a slot whose channel is full   *)
(* is unjoined and closed, a slot without a channel is skipped.            *)
SendFrameTo(S, j, n, o) ==
  LET full == Full(S, o)
  IN  MarkUnjoined(full, j, n) /\ CloseSlot(full, o) /\ Enqueue(Bound(o, S \ full))

(* The answer of a join: the connection opens, or is closed with AUTH.     *)
Reply(c, how) == conn' = [conn EXCEPT ![c] = how]

(* drainInboxAfterEnd: whoever still waits for an answer gets ErrAuth; c is *)
(* the connection whose join is being answered, None in other handlers.    *)
DrainInboxAfterEnd(c) ==
  /\ inbox' = <<>>
  /\ conn' = [d \in Conns |-> CASE d = c -> "open"
                                [] d # c /\ conn[d] = "joining" -> "gone"
                                [] OTHER -> conn[d]]

(* The common tail of endMatch, abort and shutdown: a last burst to the    *)
(* slots of `last` that have room, the slots S closed, the gauge released. *)
CloseAll(S, j, n, o, last) ==
  /\ state' = "ended"
  /\ MarkUnjoined(slots, j, n)
  /\ CloseSlot(S, o)
  /\ Enqueue(Bound(o, last \ Full(last, o)))

(* Mutation: the players of a running match are told and left connected. *)
AbortLeavesOpen(j, n, o) ==
  IF state = "live"
    THEN CloseAll({}, j, n, o, j)
    ELSE CloseAll({p \in slots : o[p] # None}, j, n, o, {})

(* abort: with a sim, every joined slot gets MatchOver and is closed;      *)
(* without one, every slot that has a channel is closed.                   *)
Abort(j, n, o) ==
  IF state = "live"
    THEN CloseAll(j, j, n, o, j)
    ELSE CloseAll({p \in slots : o[p] # None}, j, n, o, {})

-----------------------------------------------------------------------------
(* Joining and starting.                                                   *)

Receive(kind) == state # "ended" /\ inbox # <<>> /\ Head(inbox).kind = kind

(* Run, after a message and after a tick: it returns once the match is over. *)
ReturnIfEnded == done' = (state' = "ended")

MinPlayers == IF PvE THEN 1 ELSE 2

(* Mutation: a slot that dropped during warmup is not armed. *)
StartUnarmed(j, n, o) ==
  /\ state' = "live" /\ inSim' = j /\ startCount' = Cardinality(j)
  /\ UNCHANGED <<dcDeadline, dcTokens>>
  /\ SendFrameTo(j, j, n, o)

(* startOrAbort, from the joined slots j: the sim gets them as its players, *)
(* and a slot that dropped during warmup gets its grace window, its frozen *)
(* entity and its reconnect token now.                                     *)
Start(j, n, o) ==
  LET away == j \cap dc
  IN  /\ state' = "live"
      /\ inSim' = j /\ startCount' = Cardinality(j)
      /\ dcDeadline' = [p \in Players |-> IF p \in away /\ dcDeadline[p] = 0
                                            THEN tick + Grace ELSE dcDeadline[p]]
      /\ dcTokens' = dcTokens \cup {p \in away : dcDeadline[p] = 0}
      /\ SendFrameTo(j, j, n, o)

(* Mutation: a match that too few have joined goes on waiting. *)
WarmupWaits ==
  /\ state = "waiting" /\ Cardinality(joined) >= MinPlayers
  /\ Start(joined, joinedCount, out)
  /\ UNCHANGED <<inbox, conn, done, slots, deadCam, dc, bySession, pending, graceful, stopping,
                 tick, eliminated, token, hungUp>>

(* startOrAbort, the other way: too few have joined, or NewSim finds no    *)
(* maze.  c is the connection whose join is being answered, or None.       *)
StartAborts(j, n, o, c) ==
  /\ Abort(j, n, o)
  /\ DrainInboxAfterEnd(c)
  /\ UNCHANGED <<dcDeadline, dcTokens, inSim, startCount>>

(* The 10 s warmup timer fires in a ticker beat of the waiting match.  Run *)
(* does not look at the state after this one: if the match was aborted, it *)
(* goes back to its select.                                                *)
WarmupTimeout ==
  /\ state = "waiting"
  /\ \/ /\ Cardinality(joined) >= MinPlayers
        /\ Start(joined, joinedCount, out)
        /\ UNCHANGED <<inbox, conn>>
     \/ StartAborts(joined, joinedCount, out, None)
  /\ UNCHANGED <<done, slots, deadCam, dc, bySession, pending, graceful, stopping,
                 tick, eliminated, token, hungUp>>

(* Mutation: a used token admits its slot again once it has lost its seat. *)
AdmissibleAgain(p) == p \in slots \ joined

(* handleJoin of a fresh token while the match waits.                      *)
Admissible(p) == p \in bySession /\ p \in slots \ joined

JoinAccepted ==
  /\ Receive("join") /\ state = "waiting"
  /\ LET c == Head(inbox).conn
         p == token[c]
         j == joined \cup {p}
         o == [out EXCEPT ![p] = c]
     IN  /\ p \notin dcTokens /\ Admissible(p)
         /\ bySession' = bySession \ {p}
         /\ \/ /\ slots \subseteq j /\ Cardinality(j) >= MinPlayers
               /\ Start(j, joinedCount + 1, o)
               /\ inbox' = Tail(inbox) /\ Reply(c, "open")
            \/ slots \subseteq j /\ StartAborts(j, joinedCount + 1, o, c)
            \/ /\ ~(slots \subseteq j)
               /\ SendFrameTo({p}, j, joinedCount + 1, o)
               /\ inbox' = Tail(inbox) /\ Reply(c, "open")
               /\ UNCHANGED <<state, dcDeadline, dcTokens, inSim, startCount>>
  /\ ReturnIfEnded
  /\ UNCHANGED <<slots, deadCam, dc, pending, graceful, stopping, tick, eliminated, token, hungUp>>

(* handleJoin refusing: the match runs, the token is unknown or was used,  *)
(* or it is older than tokenTTL, which also forgets it.                    *)
JoinRefused ==
  /\ Receive("join")
  /\ LET c == Head(inbox).conn
         p == token[c]
     IN  /\ p \notin dcTokens
         /\ \/ /\ state = "live" \/ ~Admissible(p)
               /\ UNCHANGED bySession
            \/ /\ state = "waiting" /\ p \in bySession
               /\ bySession' = bySession \ {p}
         /\ Reply(c, "gone")
  /\ inbox' = Tail(inbox)
  /\ UNCHANGED <<state, done, slots, joined, joinedCount, deadCam, dc, dcDeadline, out, sealed,
                 dcTokens, pending, startCount, graceful, stopping, simVars,
                 token, queue, closed, hungUp>>

(* handleReconnect, reached from handleJoin when the token is in dcTokens. *)
Reconnectable(p) == p \in slots /\ p \in dc /\ tick < dcDeadline[p] /\ state = "live"

Reconnect ==
  /\ Receive("join")
  /\ LET c == Head(inbox).conn
         p == token[c]
     IN  /\ p \in dcTokens
         /\ IF Reconnectable(p)
              THEN /\ dc' = dc \ {p} /\ dcDeadline' = [dcDeadline EXCEPT ![p] = 0]
                   /\ dcTokens' = dcTokens \ {p}
                   /\ SendFrameTo(joined \cup {p}, joined, joinedCount, [out EXCEPT ![p] = c])
                   /\ Reply(c, "open")
              ELSE /\ Reply(c, "gone")
                   /\ UNCHANGED <<dc, dcDeadline, dcTokens, joined, joinedCount, out,
                                  sealed, queue, closed>>
  /\ inbox' = Tail(inbox)
  /\ UNCHANGED <<state, done, slots, deadCam, bySession, pending, startCount, graceful, stopping,
                 simVars, token, hungUp>>

-----------------------------------------------------------------------------
(* The other messages.                                                     *)

(* A handler that touches nothing but the slots it names.                  *)
Quiet == UNCHANGED <<state, done, slots, deadCam, startCount, graceful, stopping,
                     simVars, conn, token, hungUp>>

(* handleDC: the dropped connection's slot enters DC-grace.                *)
HandleDC ==
  /\ Receive("dc")
  /\ LET p == Head(inbox).player
     IN  IF p \in slots \cap joined /\ p \notin dc
           THEN /\ dc' = dc \cup {p}
                /\ IF state = "live"
                     THEN /\ dcDeadline' = [dcDeadline EXCEPT ![p] = tick + Grace]
                          /\ dcTokens' = dcTokens \cup {p}
                     ELSE UNCHANGED <<dcDeadline, dcTokens>>
                /\ SendFrameTo(joined, joined, joinedCount, [out EXCEPT ![p] = None])
           ELSE UNCHANGED <<dc, dcDeadline, dcTokens, joined, joinedCount, out, sealed,
                            queue, closed>>
  /\ inbox' = Tail(inbox)
  /\ Quiet /\ UNCHANGED <<bySession, pending>>

(* Mutation: dead-cam slots may still play. *)
HandleInputDeadCam ==
  /\ Receive("input")
  /\ LET p == Head(inbox).player
     IN  pending' = IF state = "live" /\ p \in slots THEN pending \cup {p} ELSE pending
  /\ inbox' = Tail(inbox)
  /\ Quiet /\ UNCHANGED <<joined, joinedCount, dc, dcDeadline, out, sealed, bySession,
                          dcTokens, queue, closed>>

(* ctlInput: the latest input of a live slot waits for the next tick.      *)
HandleInput ==
  /\ Receive("input")
  /\ LET p == Head(inbox).player
     IN  pending' = IF state = "live" /\ p \in slots \ deadCam THEN pending \cup {p}
                                                               ELSE pending
  /\ inbox' = Tail(inbox)
  /\ Quiet /\ UNCHANGED <<joined, joinedCount, dc, dcDeadline, out, sealed, bySession,
                          dcTokens, queue, closed>>

(* handleClientPing: the Pong goes through sendFrameTo.                    *)
HandleClientPing ==
  /\ Receive("ping")
  /\ LET p == Head(inbox).player
     IN  SendFrameTo({p} \cap slots \cap joined, joined, joinedCount, out)
  /\ inbox' = Tail(inbox)
  /\ Quiet /\ UNCHANGED <<dc, dcDeadline, bySession, dcTokens, pending>>

(* handleChat: relayed unless the rate limit drops it; a full channel      *)
(* misses the message, and its slot is kept.                               *)
HandleChat ==
  /\ Receive("chat")
  /\ LET to == {c \in Bound(out, slots) : queue[c] < OutCap}
     IN  \/ /\ Head(inbox).player \in slots
            /\ Enqueue(to)
         \/ UNCHANGED queue
  /\ inbox' = Tail(inbox)
  /\ Quiet /\ UNCHANGED <<joined, joinedCount, dc, dcDeadline, out, sealed, bySession,
                          dcTokens, pending, closed>>

(* ctlRevokeToken: a kicked player's token is forgotten.                   *)
HandleRevoke ==
  /\ Receive("revoke")
  /\ bySession' = bySession \ {Head(inbox).player}
  /\ inbox' = Tail(inbox)
  /\ Quiet /\ UNCHANGED <<joined, joinedCount, dc, dcDeadline, out, sealed, dcTokens,
                          pending, queue, closed>>

(* shutdown: no MatchOver, every bound channel is closed.                  *)
Shutdown ==
  /\ Receive("shutdown")
  /\ graceful' = TRUE
  /\ CloseAll({p \in slots : out[p] # None}, joined, joinedCount, out, {})
  /\ DrainInboxAfterEnd(None)
  /\ ReturnIfEnded
  /\ UNCHANGED <<slots, deadCam, dc, dcDeadline, bySession, dcTokens, pending, startCount,
                 stopping, simVars, token, hungUp>>

(* ctlAbort, from the lobby's janitor.                                     *)
HandleAbort ==
  /\ Receive("abort")
  /\ Abort(joined, joinedCount, out)
  /\ DrainInboxAfterEnd(None)
  /\ ReturnIfEnded
  /\ UNCHANGED <<slots, deadCam, dc, dcDeadline, bySession, dcTokens, pending, startCount,
                 graceful, stopping, simVars, token, hungUp>>

(* Run still loops although the match is over: whatever message comes next *)
(* changes nothing any more but makes it return.                           *)
HandleLast ==
  /\ state = "ended" /\ ~done /\ inbox # <<>>
  /\ LET m == Head(inbox)
     IN  /\ IF m.kind = "join" THEN Reply(m.conn, "gone") ELSE UNCHANGED conn
         /\ bySession' = IF m.kind = "revoke" THEN bySession \ {m.player} ELSE bySession
  /\ inbox' = Tail(inbox) /\ done' = TRUE
  /\ UNCHANGED <<state, slots, joined, joinedCount, deadCam, dc, dcDeadline, out, sealed,
                 dcTokens, pending, startCount, graceful, stopping, simVars,
                 token, queue, closed, hungUp>>

-----------------------------------------------------------------------------
(* The tick.                                                               *)

(* evaluateMatchEnd over the slots S, the sim's players T and the out-of-  *)
(* lives E at tick t: who can still win, and whether the match is over.    *)
Contenders(S, T, E) == (S \cap T) \ E

(* Mutation: a duel has no last one standing. *)
MatchEndsOffByOne(live, t, cleared) ==
  \/ PvE /\ cleared /\ live # {}
  \/ Cardinality(live) = 1 /\ startCount > 2
  \/ live = {} \/ t >= MatchTimer

MatchEnds(live, t, cleared) ==
  \/ PvE /\ cleared /\ live # {}                       \* PVE_COMPLETE
  \/ Cardinality(live) = 1 /\ startCount >= 2          \* LAST_STANDING
  \/ live = {}                                         \* ALL_ELIMINATED
  \/ t >= MatchTimer                                   \* TIMER

(* The slots whose DC-grace is over at the coming tick.                    *)
Expired == {p \in slots \cap dc : dcDeadline[p] # 0 /\ tick + 1 >= dcDeadline[p]}

(* dropDCSlot of the slots E: entity, token and slot go (the joined count  *)
(* is the tick's to pass on).                                              *)
DropDCSlots(E) ==
  slots' = slots \ E /\ dc' = dc \ E /\ dcTokens' = dcTokens \ E /\ inSim' = inSim \ E

(* tick: the buffered inputs are consumed; the sim eliminates `fallen`;    *)
(* slots whose grace is over are dropped; frames go out (an elimination or *)
(* a drop is announced, anything else may or may not be); the end is       *)
(* evaluated last.  `early` are the slots whose channel overflowed on the  *)
(* events, before the dead-cam pass.                                       *)
TickWith(fallen, early, cleared) ==
  LET live == Contenders(slots \ Expired, inSim \ Expired, eliminated \cup fallen)
      j    == joined \ Expired
      n    == joinedCount - Cardinality(joined \cap Expired)
  IN  /\ \E told \in {{}, j} :
           /\ fallen \cup Expired # {} => told = j
           /\ early \subseteq Full(told, out)
           /\ IF MatchEnds(live, tick + 1, cleared)
                THEN CloseAll(j, j, n, out, j) /\ DrainInboxAfterEnd(None)
                ELSE SendFrameTo(told, j, n, out) /\ UNCHANGED <<state, inbox, conn>>
      /\ tick' = tick + 1
      /\ pending' = {}
      /\ eliminated' = eliminated \cup fallen
      /\ deadCam' = deadCam \cup ((joined \ early) \cap (eliminated \cup fallen))
      /\ DropDCSlots(Expired)

(* Mutation: Run does not look at the state after a tick either. *)
TickLoops ==
  /\ state = "live"
  /\ \E fallen \in SUBSET (inSim \ eliminated), early \in SUBSET joined, cleared \in BOOLEAN :
       TickWith(fallen, early, cleared)
  /\ UNCHANGED <<done, dcDeadline, bySession, startCount, graceful, stopping, token, hungUp>>

Tick ==
  /\ state = "live"
  /\ \E fallen \in SUBSET (inSim \ eliminated), early \in SUBSET joined, cleared \in BOOLEAN :
       TickWith(fallen, early, cleared)
  /\ ReturnIfEnded
  /\ UNCHANGED <<dcDeadline, bySession, startCount, graceful, stopping, token, hungUp>>

(* sim.Tick reports an error (its IDs are exhausted): the match aborts.    *)
TickFails ==
  /\ state = "live"
  /\ Abort(joined, joinedCount, out)
  /\ DrainInboxAfterEnd(None)
  /\ ReturnIfEnded
  /\ pending' = {}
  /\ UNCHANGED <<slots, deadCam, dc, dcDeadline, bySession, dcTokens, startCount, graceful,
                 stopping, simVars, token, hungUp>>

(* absorbAfterExit: joins that arrive after Run returned are refused.      *)
Absorb ==
  /\ done /\ ~graceful /\ inbox # <<>>
  /\ conn' = IF Head(inbox).kind = "join" THEN [conn EXCEPT ![Head(inbox).conn] = "gone"]
                                          ELSE conn
  /\ inbox' = Tail(inbox)
  /\ UNCHANGED <<state, done, slotVars, graceful, stopping, simVars, token, queue, closed,
                 hungUp>>

-----------------------------------------------------------------------------
(* The connections and the other producers of the inbox.                   *)

Post(m) == inbox' = Append(inbox, m)

(* A producer that never blocks: a full inbox loses the message.           *)
PostOrDrop(m) == inbox' = IF Room THEN Append(inbox, m) ELSE inbox

Producer == UNCHANGED <<state, done, slotVars, graceful, simVars, token, closed>>

(* handleMatch up to SubmitJoin's first check of the match's state.        *)
Dial(c) ==
  /\ conn[c] = "idle"
  /\ Reply(c, IF state = "ended" THEN "gone" ELSE "dialing")
  /\ Producer /\ UNCHANGED <<hungUp, inbox, stopping, queue>>

(* SubmitJoin: the send waits for room, or gives up once Run has returned. *)
SubmitJoin(c) ==
  /\ conn[c] = "dialing"
  /\ \/ Room /\ Post([kind |-> "join", conn |-> c]) /\ Reply(c, "joining")
     \/ done /\ Reply(c, "gone") /\ UNCHANGED inbox
  /\ Producer /\ UNCHANGED <<hungUp, stopping, queue>>

(* Mutation: the wait for the answer does not look at m.done. *)
JoinNeverTimesOut(c) == FALSE

(* SubmitJoin gives up 500 ms after Run has returned.                      *)
JoinTimeout(c) ==
  /\ conn[c] = "joining" /\ done
  /\ Reply(c, "gone")
  /\ Producer /\ UNCHANGED <<hungUp, inbox, stopping, queue>>

(* The reader forwards a frame.  SubmitInput waits for room; a ping or a   *)
(* chat is dropped when there is none.                                     *)
ClientFrame(c) ==
  /\ conn[c] = "open" /\ c \notin hungUp
  /\ \E kind \in ClientFrames :
       /\ PostOrDrop([kind |-> kind, player |-> token[c]])
       /\ IF kind = "input" /\ ~Room THEN Reply(c, "blocked") ELSE UNCHANGED conn
  /\ Producer /\ UNCHANGED <<hungUp, stopping, queue>>

UnblockInput(c) ==
  /\ conn[c] = "blocked" /\ Room
  /\ Post([kind |-> "input", player |-> token[c]])
  /\ Reply(c, "open")
  /\ Producer /\ UNCHANGED <<hungUp, stopping, queue>>

(* Mutation: SubmitDC waits for room. *)
DisconnectBlocking(c) ==
  /\ conn[c] = "open" /\ Room
  /\ Post([kind |-> "dc", player |-> token[c]])
  /\ Reply(c, "gone")
  /\ Producer /\ UNCHANGED <<hungUp, stopping, queue>>

(* The reader's exit (peer gone, idle timeout, malformed frame, or the     *)
(* writer closed the socket): SubmitDC, once, best effort.                 *)
Disconnect(c) ==
  /\ conn[c] = "open"
  /\ PostOrDrop([kind |-> "dc", player |-> token[c]])
  /\ Reply(c, "gone")
  /\ Producer /\ UNCHANGED <<hungUp, stopping, queue>>

(* The writer takes a burst off the channel.                               *)
WriterSend(c) ==
  /\ conn[c] \in {"open", "blocked"} /\ queue[c] > 0
  /\ queue' = [queue EXCEPT ![c] = @ - 1]
  /\ Producer /\ UNCHANGED <<hungUp, inbox, stopping, conn>>

(* The writer finds its channel closed and empty and closes the socket.    *)
WriterClose(c) ==
  /\ conn[c] \in {"open", "blocked"} /\ c \in closed \ hungUp /\ queue[c] = 0
  /\ hungUp' = hungUp \cup {c}
  /\ Producer /\ UNCHANGED <<inbox, stopping, conn, queue>>

(* The lobby kicks a member of a starting room; the registry knows the     *)
(* match until Run has returned.                                           *)
RevokeToken(p) ==
  /\ p \in Revocable /\ ~done
  /\ PostOrDrop([kind |-> "revoke", player |-> p])
  /\ Producer /\ UNCHANGED <<hungUp, stopping, conn, queue>>

(* sweepZeroPlayerMatches: nobody has been joined for 30 s.  The warmup is *)
(* over long before that, and of a match that has ended, though its Run    *)
(* may still loop, the sweep only forgets how long it has been empty.      *)
SweepZeroPlayers ==
  /\ state = "live" /\ joinedCount = 0
  /\ PostOrDrop([kind |-> "abort"])
  /\ Producer /\ UNCHANGED <<hungUp, stopping, conn, queue>>

(* Registry.StopAll.                                                       *)
StopAll ==
  /\ Stoppable /\ ~stopping /\ ~done /\ Room
  /\ stopping' = TRUE
  /\ Post([kind |-> "shutdown"])
  /\ Producer /\ UNCHANGED <<hungUp, conn, queue>>

-----------------------------------------------------------------------------
HandleControl ==
  \/ JoinAccepted \/ JoinRefused \/ Reconnect
  \/ HandleDC \/ HandleInput \/ HandleClientPing \/ HandleChat
  \/ HandleRevoke \/ Shutdown \/ HandleAbort \/ HandleLast

Run == HandleControl \/ WarmupTimeout \/ Tick \/ TickFails

Net ==
  \/ \E c \in Conns : \/ Dial(c) \/ SubmitJoin(c) \/ JoinTimeout(c)
                      \/ ClientFrame(c) \/ UnblockInput(c)
                      \/ Disconnect(c) \/ WriterSend(c) \/ WriterClose(c)
  \/ \E p \in Players : RevokeToken(p)
  \/ SweepZeroPlayers \/ StopAll

(* The connection c has been torn down, or never was there.  After a       *)
(* graceful end nobody takes the input its reader may wait to send.        *)
TornDown(c) == conn[c] \in {"idle", "gone"} \/ (graceful /\ conn[c] = "blocked")

(* The match is over and every connection that was dialled has left.       *)
Terminated == state = "ended" /\ (\A c \in Conns : TornDown(c)) /\ UNCHANGED vars

Next == Run \/ Absorb \/ Net \/ Terminated

Safety == Init /\ [][Next]_vars

(* Run's select serves both the inbox and the ticker.  A send that waits   *)
(* for room in a Go channel is served in its turn, hence the strong        *)
(* fairness.  A writer keeps writing and closes the socket of a closed     *)
(* channel, which ends the reader.  Nothing obliges a client to dial, to   *)
(* send or to hang up, the lobby to kick, or a tick to fail.               *)
Fairness ==
  /\ WF_vars(HandleControl) /\ WF_vars(WarmupTimeout) /\ WF_vars(Tick) /\ WF_vars(Absorb)
  /\ \A c \in Conns :
       /\ SF_vars(SubmitJoin(c)) /\ SF_vars(UnblockInput(c)) /\ WF_vars(JoinTimeout(c))
       /\ WF_vars(WriterSend(c)) /\ WF_vars(WriterClose(c))
       /\ WF_vars(c \in hungUp /\ Disconnect(c))

Spec == Safety /\ Fairness

-----------------------------------------------------------------------------
(***************************************************************************)
(* Safety.                                                                 *)
(***************************************************************************)

(* The joined-players count (and with it the process-wide gauge) is the    *)
(* number of joined slots at all times: the many exits of a slot (full     *)
(* channel, grace expiry, end of the match) release it exactly once.       *)
CountMatchesSlots == joined \subseteq slots /\ joinedCount = Cardinality(joined)

(* No send on a closed channel: a slot only ever writes to an open channel *)
(* of a connection that was admitted with that slot's own token.           *)
NoSendOnClosed ==
  \A p \in Players : out[p] # None =>
     /\ out[p] \notin closed
     /\ token[out[p]] = p
     /\ conn[out[p]] \in {"open", "blocked", "gone"}

(* Every admitted connection is either still fed by a slot or has had its  *)
(* channel closed, so its writer goroutine cannot wait for ever: a late DC *)
(* of an old connection never unbinds the connection that replaced it.     *)
(* And until Run returns no handler forgets to answer a join: whoever      *)
(* waits for an answer has its join in the inbox.                          *)
NoConnAbandoned ==
  \A c \in Conns :
    /\ conn[c] \in {"open", "blocked"} => c \in closed \/ \E p \in Players : out[p] = c
    /\ conn[c] = "joining" /\ ~done =>
         \E i \in DOMAIN inbox : inbox[i] = [kind |-> "join", conn |-> c]

(* In a running match a slot is in DC-grace exactly while its token is     *)
(* redeemable, with its entity in the sim, no channel, and a deadline that *)
(* is armed, not yet reached and at most the grace window away; this holds *)
(* for drops during warmup too.  No input enters the grace later than the  *)
(* drop: one that was buffered before it is used up by the next tick.      *)
GraceConsistent ==
  /\ state = "waiting" => dcTokens = {}
  /\ state = "live" =>
       /\ dcTokens = dc
       /\ dc \subseteq slots \cap joined \cap inSim
       /\ \A p \in dc : out[p] = None /\ tick < dcDeadline[p] /\ dcDeadline[p] <= tick + Grace
       /\ \A p \in pending \cap dc : dcDeadline[p] = tick + Grace

(* GraceConsistent made inductive: while the match waits a dropped slot is *)
(* joined, unbound and unarmed, and every joined slot of a running match   *)
(* has its player in the sim.                                              *)
GraceInv ==
  /\ joined \subseteq slots
  /\ state # "ended" => dc \subseteq joined /\ \A p \in dc : out[p] = None
  /\ state = "waiting" => dcTokens = {} /\ \A p \in Players : dcDeadline[p] = 0
  /\ state = "live" =>
       /\ dcTokens = dc /\ joined \subseteq inSim
       /\ \A p \in dc : tick < dcDeadline[p] /\ dcDeadline[p] <= tick + Grace

(* NoSendOnClosed, NoConnAbandoned and EndReleasesAll made inductive, in   *)
(* parts, each over the channels o, the joined slots j, the closed         *)
(* channels x, the connections k, ... as a handler has left them so far.   *)

(* A slot writes to an open channel of a connection with its own token.    *)
WiredTo(o, j, x, k) ==
  \A p \in Players : o[p] # None =>
    p \in j /\ o[p] \notin x /\ token[o[p]] = p /\ k[o[p]] \in {"open", "blocked", "gone"}

(* A writer that may wait is fed by its slot, or its channel is closed.    *)
Fed(o, x, k) == \A c \in Conns : k[c] \in {"open", "blocked"} => c \in x \/ o[token[c]] = c

(* Only a slot that is sealed has a closed channel.                        *)
Shut(x, z, k) == \A c \in x : token[c] \in z /\ k[c] \in {"open", "blocked", "gone"}

(* A join in the inbox q is unanswered, and is there once.                 *)
JoinsWaiting(q, k) ==
  \A i \in DOMAIN q : q[i].kind = "join" =>
    /\ k[q[i].conn] = "joining"
    /\ \A l \in DOMAIN q : q[l].kind = "join" /\ q[l].conn = q[i].conn => l = i

(* A DC in the inbox q is not one of a slot in grace (d) or of a token     *)
(* that nobody used (b), the connection its slot is bound to has left, and *)
(* a joined slot has one at most.                                          *)
DropsPending(q, o, d, b, j, k) ==
  \A i \in DOMAIN q : q[i].kind = "dc" =>
    LET p == q[i].player
    IN  /\ p \notin d \cup b
        /\ o[p] # None => k[o[p]] = "gone"
        /\ p \in j => \A l \in DOMAIN q : q[l].kind = "dc" /\ q[l].player = p => l = i

Wiring ==
  /\ WiredTo(out, joined, closed, conn) /\ Fed(out, closed, conn) /\ Shut(closed, sealed, conn)
  /\ state = "ended" => joined = {}
  /\ state # "ended" =>
       /\ sealed \cap joined = {} /\ bySession \cap (sealed \cup joined) = {}
       /\ JoinsWaiting(inbox, conn) /\ DropsPending(inbox, out, dc, bySession, joined, conn)

(* An input in the inbox q is not one of a slot in grace (d) or of a token *)
(* that nobody used (b), and of a joined slot it is there before the DC.   *)
InputsPending(q, d, b, j) ==
  \A i \in DOMAIN q : q[i].kind = "input" =>
    LET p == q[i].player
    IN  /\ p \notin d \cup b
        /\ p \in j => \A l \in DOMAIN q : q[l].kind = "dc" /\ q[l].player = p => i < l

(* What GraceConsistent says of inputs made inductive, with Wiring.        *)
InputInv ==
  /\ state = "waiting" => pending = {}
  /\ state # "ended" => InputsPending(inbox, dc, bySession, joined)
  /\ state = "live" => \A p \in pending \cap dc : dcDeadline[p] = tick + Grace

(* A match that goes on has time left and still has someone to win it, and *)
(* two of them when it started with two: the end is evaluated after the    *)
(* tick's eliminations and grace drops, never before.                      *)
ContendersRemain ==
  state = "live" =>
    LET live == Contenders(slots, inSim, eliminated)
    IN  live # {} /\ (startCount >= 2 => Cardinality(live) >= 2) /\ tick < MatchTimer

(* An eliminated player that still holds its seat is in dead-cam, and no   *)
(* input of it waits for the sim: the pass over the slots comes after the  *)
(* tick's broadcasts and before its grace drops, and filters what is sent  *)
(* from then on.  (A slot that lost its seat to a full channel just before *)
(* the pass is skipped: see DeadSendNoInput.)                              *)
DeadCamFiltersInput ==
  state = "live" =>
    /\ joined \cap eliminated \subseteq deadCam
    /\ pending \cap eliminated \cap joined = {}

(* The end of a match releases every slot: nothing is bound, counted or    *)
(* left for a writer to wait on, whichever way it ended.                   *)
EndReleasesAll ==
  state = "ended" =>
    /\ joined = {} /\ joinedCount = 0
    /\ \A p \in Players : out[p] = None
    /\ \A c \in Conns : conn[c] \in {"open", "blocked"} => c \in closed

(* What a match promises about each seat, for PROPERTY Seats!Spec.         *)
SeatOf(p) ==
  IF state = "ended" \/ p \notin slots THEN "void"
  ELSE IF p \in joined THEN (IF p \in dc THEN "away" ELSE "seated")
  ELSE IF state = "waiting" /\ p \in bySession THEN "reserved" ELSE "void"

Seats == INSTANCE MatchSeats WITH phase <- state, seat <- [p \in Players |-> SeatOf(p)]

SeatsSpec == Seats!Spec

(***************************************************************************)
(* Liveness.                                                               *)
(***************************************************************************)

(* Every MatchJoin is answered, also one that races the end of the match.  *)
JoinAnswered == \A c \in Conns :
  conn[c] \in {"dialing", "joining"} ~> conn[c] \in {"open", "blocked", "gone"}

(* Every match ends.  And Run returns, so that the registry forgets the    *)
(* match and tells the lobby: from every match that has run, and from one  *)
(* aborted in its warmup if somebody is then connected, or about to be.    *)
(* (Where nobody is, it does not: see RunReturns.)                         *)
MatchEventuallyEnds ==
  /\ <>(state = "ended")
  /\ (state = "live" \/ \E c \in Conns : state = "ended" /\ conn[c] \notin {"idle", "gone"})
       ~> done

(* After the end every connection is torn down, whatever was under way;    *)
(* after a graceful end a reader may be left behind that waits to send an  *)
(* input (see QuiescentAfterStopAll), but no other.                        *)
ConnsTornDown == state = "ended" ~> \A c \in Conns : TornDown(c)

(***************************************************************************)
(* What the documents say and the code does not do.                        *)
(***************************************************************************)

(* match.go, Run: it drives the match to completion and returns when it    *)
(* ended or was aborted.  After a warmup that nobody has joined, or whose  *)
(* players have all left, it loops until a message comes, and none does.   *)
RunReturns == state = "ended" ~> done

(* PHASE5.md 8.2 and 8.3: the tick walks every slot and puts those of the  *)
(* eliminated in dead-cam, and the input of a dead-cam slot is dropped.    *)
(* The pass skips a slot that is not joined, which may still send inputs.  *)
DeadSendNoInput == pending \cap eliminated = {}

(* SPEC.md 4.7.1 and 11: a drop for backpressure enters DC-grace and the   *)
(* player can come back with the same token.                               *)
BackpressureDropCanReturn ==
  state = "live" => \A p \in slots \cap inSim : p \in joined \/ p \in dcTokens

(* match.go, Run: producers are stopped when StopAll ends a match, which   *)
(* leaves no goroutine behind although nothing absorbs the inbox any more. *)
QuiescentAfterStopAll == graceful ~> \A c \in Conns : conn[c] # "blocked"

(* SPEC.md 4.7.1: a slot in DC-grace applies no inputs.                    *)
GraceAppliesNoInput ==
  [][state = "live" /\ tick' # tick => pending \cap dc = {}]_vars
=============================================================================
