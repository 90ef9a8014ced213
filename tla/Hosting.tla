------------------------------ MODULE Hosting ------------------------------
(***************************************************************************)
(* The life of a process: the match registry, the goroutines of its        *)
(* matches, the lobby actor with its bounded inbox, the handlers of lobby  *)
(* WebSockets that connect to it, and the two shutdown sequences that use  *)
(* them, main's (HTTP, lobby, StopAll) and the load harness's (StopAll,    *)
(* lobby).                                                                 *)
(*                                                                         *)
(* A critical section under Registry.mu is one step: nothing in it blocks. *)
(* What a match does inside Run is MatchActor's, what the lobby does with  *)
(* sessions and rooms is Lobby's; here a match runs until it ends by       *)
(* itself or is told to, and any session may start any new match.          *)
(***************************************************************************)
EXTENDS Integers, Sequences, FiniteSets

CONSTANTS
  Matches,     \* match ids, each used once
  Conns,       \* lobby WebSockets
  MaxMatches,  \* RegistryConfig.MaxConcurrentMatches
  InboxCap,    \* capacity of Lobby.in (1024)
  Orders       \* the shutdown sequences: "main", "harness"

ASSUME HostingAssumption ==
  /\ IsFiniteSet(Matches) /\ IsFiniteSet(Conns)
  /\ MaxMatches \in Nat /\ InboxCap \in Nat \ {0}
  /\ Orders \subseteq {"main", "harness"}

VARIABLES
  order,     \* the shutdown sequence of this process
  main,      \* where it is
  verdict,   \* what StopAll returned: "none" yet, "nil", "deadline"
  snap,      \* StopAll's copy of the table
  untold,    \* matches of snap that have not been sent ctlShutdown
  table,     \* Registry.matches
  stopping,  \* Registry.stopping
  gauge,     \* the active-matches gauge
  goroutine, \* of each match
  told,      \* matches with ctlShutdown in their inbox
  stopped,   \* Lobby.stopped, and done closed
  inbox,     \* Lobby.in
  actor,     \* where Lobby.Run is, and the match it starts
  sessions,  \* Lobby.sessions
  hosted,    \* matches some room of the lobby belongs to (Room.MatchID)
  conn,      \* where the handler of each WebSocket is
  replied,   \* handlers whose Reply channel holds the session
  closed     \* WebSockets whose out channel is closed

registry == <<table, stopping, gauge, goroutine, told>>
process  == <<order, main, verdict, snap, untold>>
lobby    == <<stopped, inbox, actor, sessions, hosted>>
handlers == <<conn, replied, closed>>
vars     == <<process, registry, lobby, handlers>>

Idle == [pc |-> "select"]

Connect(c)    == [msg |-> "connect", of |-> c]
Start(c)      == [msg |-> "start", of |-> c]
Disconnect(c) == [msg |-> "disconnect", of |-> c]
Ended(m)      == [msg |-> "ended", of |-> m]

Init ==
  /\ order \in Orders /\ main = "serving" /\ verdict = "none" /\ snap = {} /\ untold = {}
  /\ table = {} /\ stopping = FALSE /\ gauge = 0 /\ told = {}
  /\ goroutine = [m \in Matches |-> "none"]
  /\ stopped = FALSE /\ inbox = <<>> /\ actor = Idle /\ sessions = {} /\ hosted = {}
  /\ conn = [c \in Conns |-> "new"] /\ replied = {} /\ closed = {}

(* When main returns the process is over; the harness goes on.             *)
Up == main # "crashed" /\ ~(order = "main" /\ main = "exited")

(* Mutation: the inbox takes one more than it holds. *)
HasRoomOver == Len(inbox) <= InboxCap
HasRoom == Len(inbox) < InboxCap
Post(message) == inbox' = Append(inbox, message)

-----------------------------------------------------------------------------
(* Registry.Create, and the goroutine it starts.                           *)

(* Mutation: Create does not look at stopping. *)
CreatesLate == Cardinality(table) < MaxMatches
Creates == ~stopping /\ Cardinality(table) < MaxMatches

MatchEnds(m) ==       \* by itself, or aborted
  /\ Up /\ goroutine[m] = "running"
  /\ goroutine' = [goroutine EXCEPT ![m] = "returned"]
  /\ UNCHANGED <<table, stopping, gauge, told, process, lobby, handlers>>

MatchShutsDown(m) == m \in told /\ MatchEnds(m)

(* Mutation: the table is asked whether the match was there after it went. *)
RemoveEndedQuietly(m) ==
  /\ Up /\ goroutine[m] = "returned"
  /\ table' = table \ {m}
  /\ goroutine' = [goroutine EXCEPT ![m] = "gone"]
  /\ UNCHANGED <<stopping, gauge, told, process, lobby, handlers>>
RemoveEnded(m) ==
  /\ Up /\ goroutine[m] = "returned"
  /\ table' = table \ {m}
  /\ goroutine' = [goroutine EXCEPT ![m] = "removed"]
  /\ UNCHANGED <<stopping, gauge, told, process, lobby, handlers>>

(* Then the hook of main, MatchEnded, which looks at stopped first; the     *)
(* harness has none.                                                       *)
CountsDown(m) ==
  /\ Up /\ goroutine[m] = "removed"
  /\ gauge' = gauge - 1
  /\ goroutine' = [goroutine EXCEPT ![m] =
                     IF order = "main" /\ ~stopped THEN "reporting" ELSE "gone"]
  /\ UNCHANGED <<table, stopping, told, process, lobby, handlers>>

(* Mutation: like Touch, MatchEnded drops what the inbox has no room for. *)
ReportedOrDropped(m) == inbox' = IF HasRoom THEN Append(inbox, Ended(m)) ELSE inbox
Reported(m) == HasRoom /\ Post(Ended(m))

MatchEnded(m) ==
  /\ Up /\ goroutine[m] = "reporting"
  /\ \/ Reported(m)
     \/ stopped /\ UNCHANGED inbox
  /\ goroutine' = [goroutine EXCEPT ![m] = "gone"]
  /\ UNCHANGED <<table, stopping, gauge, told, process, stopped, actor, sessions, hosted,
                 handlers>>

-----------------------------------------------------------------------------
(* The lobby actor.  Its select may take a message although done is closed. *)

(* A broadcast sends to every session; on a closed channel that panics.    *)
Broadcast(to) ==
  main' = IF to \cap closed = {} THEN main ELSE "crashed"

Takes ==
  /\ Up /\ actor = Idle /\ inbox # <<>>
  /\ inbox' = Tail(inbox)

HandleConnect ==
  /\ Takes /\ Head(inbox).msg = "connect"
  /\ sessions' = sessions \cup {Head(inbox).of}
  /\ replied' = replied \cup {Head(inbox).of}
  /\ UNCHANGED <<process, registry, stopped, actor, hosted, conn, closed>>

(* A start is refused for many reasons; otherwise the match has a new id.  *)
HandleStartMatch ==
  /\ Takes /\ Head(inbox).msg = "start"
  /\ \/ UNCHANGED actor
     \/ \E m \in Matches : /\ goroutine[m] = "none"
                           /\ actor' = [pc |-> "create", match |-> m]
  /\ UNCHANGED <<process, registry, stopped, sessions, hosted, handlers>>

(* r.stopping and the cap are looked at in the critical section that adds  *)
(* the match.                                                              *)
Create ==
  /\ Up /\ actor.pc = "create"
  /\ LET m == actor.match
     IN IF Creates
        THEN /\ table' = table \cup {m} /\ gauge' = gauge + 1
             /\ goroutine' = [goroutine EXCEPT ![m] = "running"]
             /\ actor' = [actor EXCEPT !.pc = "announce"]
        ELSE /\ actor' = Idle
             /\ UNCHANGED <<table, gauge, goroutine>>
  /\ UNCHANGED <<process, stopping, told, stopped, inbox, sessions, hosted, handlers>>

Announce ==
  /\ Up /\ actor.pc = "announce"
  /\ hosted' = hosted \cup {actor.match}
  /\ actor' = Idle
  /\ Broadcast(sessions)
  /\ UNCHANGED <<order, verdict, snap, untold, registry, stopped, inbox, sessions, handlers>>

HandleMatchEnded ==
  /\ Takes /\ Head(inbox).msg = "ended"
  /\ hosted' = hosted \ {Head(inbox).of}
  /\ Broadcast(sessions)
  /\ UNCHANGED <<order, verdict, snap, untold, registry, stopped, actor, sessions, handlers>>

HandleDisconnect ==
  /\ Takes /\ Head(inbox).msg = "disconnect"
  /\ sessions' = sessions \ {Head(inbox).of}
  /\ closed' = closed \cup {Head(inbox).of}
  /\ UNCHANGED <<process, registry, stopped, actor, hosted, conn, replied>>

LobbyExits ==
  /\ Up /\ actor = Idle /\ stopped
  /\ actor' = [pc |-> "exited"]
  /\ UNCHANGED <<process, registry, stopped, inbox, sessions, hosted, handlers>>

-----------------------------------------------------------------------------
(* handleLobby and the calls it makes.  Every call looks at stopped first, *)
(* and then waits for room in the inbox or for done.                       *)

At(c, from, to) == Up /\ conn[c] = from /\ conn' = [conn EXCEPT ![c] = to]

(* The HTTP servers stop accepting before main stops the lobby, and after  *)
(* the harness has stopped the matches.                                    *)
Listening == main = "serving" \/ (order = "harness" /\ verdict = "none")

Accept(c) ==
  /\ Listening /\ At(c, "new", "accepted")
  /\ UNCHANGED <<process, registry, lobby, replied, closed>>

Refuse(c, from) ==          \* Connect closes out and returns nil
  /\ stopped /\ At(c, from, "refused")
  /\ closed' = closed \cup {c}
  /\ UNCHANGED <<process, registry, lobby, replied>>

Call(c, from, to) ==        \* a call finds the lobby running
  /\ ~stopped /\ At(c, from, to)
  /\ UNCHANGED <<process, registry, lobby, replied, closed>>

Send(c, from, to, message) ==
  /\ At(c, from, to) /\ HasRoom /\ Post(message)
  /\ UNCHANGED <<process, registry, stopped, actor, sessions, hosted, replied, closed>>

Abandon(c, from, to) ==
  /\ stopped /\ At(c, from, to)
  /\ UNCHANGED <<process, registry, lobby, replied, closed>>

ConnectReturns(c) ==
  /\ c \in replied /\ At(c, "awaiting", "open")
  /\ UNCHANGED <<process, registry, lobby, replied, closed>>

Handler(c) ==
  \/ Accept(c)
  \/ Call(c, "accepted", "connecting") \/ Refuse(c, "accepted")
  \/ Send(c, "connecting", "awaiting", Connect(c)) \/ Refuse(c, "connecting")
  \/ ConnectReturns(c) \/ Refuse(c, "awaiting")
  \/ Call(c, "open", "posting")
  \/ Send(c, "posting", "open", Start(c))
  \/ Abandon(c, "posting", "open")
  \/ Call(c, "open", "leaving")
  \/ Send(c, "leaving", "left", Disconnect(c))
  \/ Abandon(c, "leaving", "left") \/ Abandon(c, "open", "left")

-----------------------------------------------------------------------------
(* Shutdown.                                                               *)

Goes(from, to) == main = from /\ main' = to

Signal ==
  /\ Goes("serving", IF order = "main" THEN "http" ELSE "stopall")
  /\ UNCHANGED <<order, verdict, snap, untold, registry, lobby, handlers>>

HTTPShutdown ==
  /\ Goes("http", "stop")
  /\ UNCHANGED <<order, verdict, snap, untold, registry, lobby, handlers>>

StopLobby ==
  /\ Goes("stop", "await")
  /\ stopped' = TRUE
  /\ UNCHANGED <<order, verdict, snap, untold, registry, inbox, actor, sessions, hosted, handlers>>

LobbyDone ==
  /\ actor.pc = "exited"
  /\ Goes("await", IF order = "main" THEN "stopall" ELSE "exited")
  /\ UNCHANGED <<order, verdict, snap, untold, registry, lobby, handlers>>

StopAll ==
  /\ Goes("stopall", "telling")
  /\ stopping' = TRUE /\ snap' = table /\ untold' = table
  /\ UNCHANGED <<order, verdict, table, gauge, goroutine, told, lobby, handlers>>

Over(m) == goroutine[m] \notin {"none", "running"}       \* m.done is closed

Tell(m) ==
  /\ main = "telling" /\ m \in untold
  /\ untold' = untold \ {m}
  /\ told' = IF Over(m) THEN told ELSE told \cup {m}
  /\ UNCHANGED <<order, main, verdict, snap, table, stopping, gauge, goroutine, lobby, handlers>>

Returns(result) ==
  /\ verdict' = result
  /\ main' = IF order = "main" THEN "exited" ELSE "stop"
  /\ UNCHANGED <<order, snap, untold, registry, lobby, handlers>>

(* Mutation: StopAll does not wait for the table to drain. *)
DrainedUnchecked == TRUE
Drained == table = {}

StopAllReturns ==
  /\ main = "telling" /\ untold = {}
  /\ \A m \in snap : Over(m)
  /\ Drained
  /\ Returns("nil")

Deadline == main = "telling" /\ Returns("deadline")

Next ==
  \/ \E m \in Matches : MatchEnds(m) \/ RemoveEnded(m) \/ CountsDown(m) \/ MatchEnded(m)
                        \/ Tell(m)
  \/ HandleConnect \/ HandleStartMatch \/ Create \/ Announce \/ HandleMatchEnded
  \/ HandleDisconnect \/ LobbyExits
  \/ \E c \in Conns : Handler(c)
  \/ Signal \/ HTTPShutdown \/ StopLobby \/ LobbyDone \/ StopAll \/ StopAllReturns
  \/ Deadline

(* The scheduler lets every goroutine go on and a blocked sender gets its  *)
(* turn.  Nothing makes a match end by itself, a handler connect or call,  *)
(* a signal come or the deadline pass.                                     *)
Fairness ==
  /\ \A m \in Matches :
       /\ WF_vars(MatchShutsDown(m)) /\ WF_vars(RemoveEnded(m))
       /\ WF_vars(CountsDown(m)) /\ SF_vars(MatchEnded(m))
       /\ WF_vars(Tell(m))
  /\ WF_vars(HandleConnect \/ HandleStartMatch \/ Create \/ Announce
                        \/ HandleMatchEnded \/ HandleDisconnect)
  /\ WF_vars(LobbyExits)
  /\ WF_vars(HTTPShutdown \/ StopLobby \/ LobbyDone \/ StopAll \/ StopAllReturns)

Spec == Init /\ [][Next]_vars /\ Fairness

-----------------------------------------------------------------------------
(* Every variable has its type; the inbox holds what its channel does.     *)
Messages == [msg : {"connect", "start", "disconnect"}, of : Conns]
              \cup [msg : {"ended"}, of : Matches]

HostingTypeOK ==
  /\ order \in Orders
  /\ main \in {"serving", "http", "stop", "await", "stopall", "telling", "exited", "crashed"}
  /\ verdict \in {"none", "nil", "deadline"}
  /\ snap \subseteq Matches /\ untold \subseteq snap
  /\ table \subseteq Matches /\ stopping \in BOOLEAN /\ gauge \in Nat /\ told \subseteq Matches
  /\ goroutine \in [Matches -> {"none", "running", "returned", "removed", "reporting", "gone"}]
  /\ stopped \in BOOLEAN /\ inbox \in Seq(Messages) /\ Len(inbox) <= InboxCap
  /\ actor \in {Idle, [pc |-> "exited"]} \cup [pc : {"create", "announce"}, match : Matches]
  /\ sessions \subseteq Conns /\ hosted \subseteq Matches
  /\ conn \in [Conns -> {"new", "accepted", "connecting", "awaiting", "open", "posting",
                          "leaving", "left", "refused"}]
  /\ replied \subseteq Conns /\ closed \subseteq Conns

(* The gauge counts the matches whose goroutine has yet to count itself    *)
(* out, and the table holds those still in it, never more than the cap,    *)
(* although table and gauge change in different steps.                     *)
Counted == {m \in Matches : goroutine[m] \in {"running", "returned", "removed"}}
GaugeCounts ==
  /\ gauge = Cardinality(Counted)
  /\ table = {m \in Matches : goroutine[m] \in {"running", "returned"}}
  /\ Cardinality(table) <= MaxMatches

(* registry.go 129: "StopAll can never be outrun by new matches".  When it *)
(* returns nil no match runs, and none will, whoever stops the lobby when. *)
NothingEscapes ==
  verdict = "nil" => table = {} /\ \A m \in Matches : goroutine[m] \notin {"running", "returned"}

(* The room of a match whose goroutine is done closes: the report of the   *)
(* end is on its way, unless there is no lobby to hear it.                 *)
RoomHasMatch ==
  order = "main" /\ ~stopped =>
    \A m \in hosted : \/ goroutine[m] # "gone"
                      \/ \E i \in 1 .. Len(inbox) : inbox[i] = Ended(m)

(* A session's channel is only closed by whoever sends on it.              *)
NoSendOnClosedOut == main # "crashed"

(* Until the lobby is told to stop that holds, in whatever order sockets    *)
(* connect, wait for room and leave: no registered session's channel is     *)
(* closed, and no broadcast panics.                                         *)
SafeUntilStopped == ~stopped => main # "crashed" /\ sessions \cap closed = {}

(* The end of a match reaches the lobby however full its inbox is, while   *)
(* the lobby waits for the registry that the match's goroutine changes.    *)
RoomCloses ==
  \A m \in Matches : (order = "main" /\ m \in hosted /\ Over(m))
                       ~> (m \notin hosted \/ stopped)

(* Shutdown comes to its end, without its deadline.                        *)
ShutdownReturns ==
  (main \in {"http", "stop", "stopall"}) ~> (main \in {"exited", "crashed"})

(* The registry keeps its promise.                                         *)
Census == INSTANCE MatchCensus WITH
  live <- table,
  used <- {m \in Matches : goroutine[m] # "none"},
  door <- IF verdict = "nil" THEN "drained" ELSE IF stopping THEN "closed" ELSE "open"
CensusSpec == Census!Spec
=============================================================================
