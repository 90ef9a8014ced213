---------------------------- MODULE HostingProofs ----------------------------
(***************************************************************************)
(* The registry's promises for any number of matches, WebSockets and places *)
(* in the inbox, and either order of shutdown: proofs of the invariants     *)
(* that module Hosting states and of its refinement of MatchCensus.         *)
(***************************************************************************)
EXTENDS Hosting, FiniteSetTheorems, SequenceTheorems, TLAPS

(* What the handlers of a WebSocket and the messages of the lobby leave to  *)
(* the registry, the matches and the process.                               *)
LEMMA HandlerFrame ==
  ASSUME NEW c \in Conns, Handler(c)
  PROVE  UNCHANGED <<process, registry, stopped, actor, sessions, hosted, replied>>
BY DEF Handler, Accept, Call, Refuse, Send, Abandon, ConnectReturns, lobby

(* The inbox only changes by a handler's message at its end.                *)
LEMMA HandlerPosts ==
  ASSUME NEW c \in Conns, Handler(c)
  PROVE  \/ UNCHANGED inbox
         \/ /\ Len(inbox) < InboxCap
            /\ \E k \in {"connect", "start", "disconnect"} :
                 inbox' = Append(inbox, [msg |-> k, of |-> c])
BY DEF Handler, Accept, Call, Refuse, Send, Abandon, ConnectReturns, lobby, HasRoom, Post,
       Connect, Start, Disconnect

LEMMA TakesType ==
  ASSUME HostingTypeOK, Takes
  PROVE  /\ Head(inbox) \in Messages
         /\ inbox' \in Seq(Messages) /\ Len(inbox') < InboxCap
<1>1. inbox \in Seq(Messages) /\ inbox # <<>> /\ Len(inbox) <= InboxCap /\ inbox' = Tail(inbox)
  BY DEF HostingTypeOK, Takes
<1>2. /\ Head(inbox) \in Messages /\ Tail(inbox) \in Seq(Messages)
      /\ Len(Tail(inbox)) = Len(inbox) - 1 /\ Len(inbox) \in Nat
  BY <1>1, HeadTailProperties, LenProperties
<1> QED BY <1>1, <1>2, HostingAssumption

LEMMA PostType ==
  ASSUME HostingTypeOK, NEW e \in Messages, Len(inbox) < InboxCap, inbox' = Append(inbox, e)
  PROVE  inbox' \in Seq(Messages) /\ Len(inbox') <= InboxCap
<1>1. inbox \in Seq(Messages) /\ Len(inbox) \in Nat
  BY LenProperties DEF HostingTypeOK
<1>2. Append(inbox, e) \in Seq(Messages) /\ Len(Append(inbox, e)) = Len(inbox) + 1
  BY <1>1, AppendProperties
<1> QED BY <1>1, <1>2, HostingAssumption

-----------------------------------------------------------------------------
(* Types.  That the gauge stays a natural number needs what it counts.      *)
LEMMA TypeStep ==
  ASSUME HostingTypeOK, [Next]_vars, gauge' \in Nat
  PROVE  HostingTypeOK'
<1> USE DEF HostingTypeOK
<1>1. ASSUME NEW m \in Matches, MatchEnds(m) PROVE HostingTypeOK'
  BY <1>1 DEF MatchEnds, process, lobby, handlers
<1>2. ASSUME NEW m \in Matches, RemoveEnded(m) PROVE HostingTypeOK'
  BY <1>2 DEF RemoveEnded, process, lobby, handlers
<1>3. ASSUME NEW m \in Matches, CountsDown(m) PROVE HostingTypeOK'
  BY <1>3 DEF CountsDown, process, lobby, handlers
<1>4. ASSUME NEW m \in Matches, MatchEnded(m) PROVE HostingTypeOK'
  <2>1. Ended(m) \in Messages
    BY DEF Ended, Messages
  <2>2. inbox' \in Seq(Messages) /\ Len(inbox') <= InboxCap
    BY <1>4, <2>1, PostType DEF MatchEnded, Reported, HasRoom, Post
  <2> QED BY <1>4, <2>2 DEF MatchEnded, process, handlers
<1>5. ASSUME NEW m \in Matches, Tell(m) PROVE HostingTypeOK'
  BY <1>5 DEF Tell, lobby, handlers
<1>6. ASSUME Takes, Head(inbox).msg \in {"connect", "disconnect"}
      PROVE  Head(inbox).of \in Conns
  BY <1>6, TakesType DEF Messages
<1>7. CASE HandleConnect
  <2>1. Takes /\ Head(inbox).of \in Conns
    BY <1>6, <1>7 DEF HandleConnect
  <2>2. inbox' \in Seq(Messages) /\ Len(inbox') <= InboxCap
    BY <2>1, TakesType, HostingAssumption, LenProperties
  <2> QED BY <1>7, <2>1, <2>2 DEF HandleConnect, process, registry
<1>8. CASE HandleStartMatch
  <2>1. inbox' \in Seq(Messages) /\ Len(inbox') <= InboxCap
    BY <1>8, TakesType, HostingAssumption, LenProperties DEF HandleStartMatch
  <2>2. actor' \in {Idle, [pc |-> "exited"]} \cup [pc : {"create", "announce"}, match : Matches]
    BY <1>8 DEF HandleStartMatch
  <2> QED BY <1>8, <2>1, <2>2 DEF HandleStartMatch, process, registry, handlers
<1>9. CASE Create
  BY <1>9 DEF Create, Idle, process, handlers
<1>10. CASE Announce
  BY <1>10 DEF Announce, Broadcast, Idle, registry, handlers
<1>11. CASE HandleMatchEnded
  <2>1. inbox' \in Seq(Messages) /\ Len(inbox') <= InboxCap
    BY <1>11, TakesType, HostingAssumption, LenProperties DEF HandleMatchEnded
  <2> QED BY <1>11, <2>1 DEF HandleMatchEnded, Broadcast, registry, handlers
<1>12. CASE HandleDisconnect
  <2>1. Takes /\ Head(inbox).of \in Conns
    BY <1>6, <1>12 DEF HandleDisconnect
  <2>2. inbox' \in Seq(Messages) /\ Len(inbox') <= InboxCap
    BY <2>1, TakesType, HostingAssumption, LenProperties
  <2> QED BY <1>12, <2>1, <2>2 DEF HandleDisconnect, process, registry
<1>13. CASE LobbyExits
  BY <1>13 DEF LobbyExits, process, registry, handlers
<1>14. ASSUME NEW c \in Conns, Handler(c) PROVE HostingTypeOK'
  <2>1. /\ conn' \in [Conns -> {"new", "accepted", "connecting", "awaiting", "open", "posting",
                          "leaving", "left", "refused"}]
        /\ closed' \subseteq Conns
    BY <1>14 DEF Handler, Accept, Call, Refuse, Send, Abandon, ConnectReturns, At
  <2>2. \A k \in {"connect", "start", "disconnect"} : [msg |-> k, of |-> c] \in Messages
    BY DEF Messages
  <2>3. inbox' \in Seq(Messages) /\ Len(inbox') <= InboxCap
    BY <1>14, <2>2, HandlerPosts, PostType
  <2> QED BY <1>14, <2>1, <2>3, HandlerFrame DEF process, registry
<1>15. CASE Signal \/ HTTPShutdown \/ StopLobby \/ LobbyDone
  BY <1>15 DEF Signal, HTTPShutdown, StopLobby, LobbyDone, Goes, registry, lobby, handlers
<1>16. CASE StopAll
  BY <1>16 DEF StopAll, Goes, lobby, handlers
<1>17. CASE StopAllReturns \/ Deadline
  BY <1>17 DEF StopAllReturns, Deadline, Returns, registry, lobby, handlers
<1>18. CASE UNCHANGED vars
  BY <1>18 DEF vars, process, registry, lobby, handlers
<1> HIDE DEF HostingTypeOK
<1> QED BY <1>1, <1>2, <1>3, <1>4, <1>5, <1>7, <1>8, <1>9, <1>10, <1>11, <1>12, <1>13,
           <1>14, <1>15, <1>16, <1>17, <1>18 DEF Next

-----------------------------------------------------------------------------
(* The gauge and the table.  GaugeCounts is not inductive: Create adds a    *)
(* match that the actor has chosen in an earlier step, so that one must not *)
(* have been started since.                                                 *)
ToCreate == \A m \in Matches : actor = [pc |-> "create", match |-> m] => goroutine[m] = "none"
Gauged == GaugeCounts /\ ToCreate

LEMMA CountedFinite ==
  /\ IsFiniteSet(Counted) /\ Cardinality(Counted) \in Nat
  /\ \A S \in SUBSET Matches : IsFiniteSet(S) /\ Cardinality(S) \in Nat
<1>1. \A S \in SUBSET Matches : IsFiniteSet(S) /\ Cardinality(S) \in Nat
  BY FS_Subset, FS_CardinalityType, HostingAssumption
<1>2. Counted \in SUBSET Matches
  BY DEF Counted
<1> QED BY <1>1, <1>2

LEMMA CountedFinitePrimed ==
  IsFiniteSet(Counted') /\ Cardinality(Counted') \in Nat
<1>1. Counted' \in SUBSET Matches
  BY DEF Counted
<1> QED BY <1>1, CountedFinite

(* A goroutine that moves on within the states that count leaves the count. *)
LEMMA GaugeStep ==
  ASSUME HostingTypeOK, Gauged, [Next]_vars
  PROVE  Gauged' /\ gauge' \in Nat
<1> USE DEF Gauged, GaugeCounts, ToCreate
<1>0. goroutine \in [Matches -> {"none", "running", "returned", "removed", "reporting", "gone"}]
  BY DEF HostingTypeOK
<1>a. gauge' = Cardinality(Counted') => gauge' \in Nat
  BY CountedFinitePrimed
<1> SUFFICES Gauged'
  BY <1>a
<1>1. ASSUME NEW m \in Matches, MatchEnds(m) PROVE Gauged'
  <2>1. Counted' = Counted /\ table' = {n \in Matches : goroutine'[n] \in {"running", "returned"}}
    BY <1>0, <1>1 DEF MatchEnds, Counted
  <2> QED BY <1>0, <1>1, <2>1 DEF MatchEnds, lobby
<1>2. ASSUME NEW m \in Matches, RemoveEnded(m) PROVE Gauged'
  <2>1. Counted' = Counted
    BY <1>0, <1>2 DEF RemoveEnded, Counted
  <2>2. table' = {n \in Matches : goroutine'[n] \in {"running", "returned"}}
    BY <1>0, <1>2 DEF RemoveEnded
  <2>3. table' \in SUBSET table /\ IsFiniteSet(table)
    BY <1>2, CountedFinite DEF RemoveEnded
  <2>4. Cardinality(table') <= MaxMatches
    <3>1. Cardinality(table') <= Cardinality(table)
      BY <2>3, FS_Subset
    <3>2. Cardinality(table) \in Nat /\ Cardinality(table') \in Nat
      BY <2>3, FS_Subset, FS_CardinalityType
    <3> QED BY <3>1, <3>2, HostingAssumption
  <2> QED BY <1>0, <1>2, <2>1, <2>2, <2>4 DEF RemoveEnded, lobby
<1>3. ASSUME NEW m \in Matches, CountsDown(m) PROVE Gauged'
  <2>1. Counted' = Counted \ {m} /\ m \in Counted
    BY <1>0, <1>3 DEF CountsDown, Counted
  <2>2. Cardinality(Counted') = Cardinality(Counted) - 1
    BY <2>1, CountedFinite, FS_RemoveElement
  <2>3. table' = {n \in Matches : goroutine'[n] \in {"running", "returned"}}
    BY <1>0, <1>3 DEF CountsDown
  <2> QED BY <1>0, <1>3, <2>2, <2>3 DEF CountsDown, lobby
<1>4. ASSUME NEW m \in Matches, MatchEnded(m) PROVE Gauged'
  <2>1. Counted' = Counted /\ table' = {n \in Matches : goroutine'[n] \in {"running", "returned"}}
    BY <1>0, <1>4 DEF MatchEnded, Counted
  <2> QED BY <1>0, <1>4, <2>1 DEF MatchEnded
<1>5. CASE Create
  <2>1. PICK m \in Matches : actor = [pc |-> "create", match |-> m] /\ m = actor.match
    BY <1>5 DEF Create, HostingTypeOK, Idle
  <2>2. CASE ~Creates
    BY <1>5, <2>1, <2>2 DEF Create, Counted, Idle
  <2>3. CASE Creates
    <3>1. /\ table' = table \cup {m} /\ gauge' = gauge + 1
          /\ goroutine' = [goroutine EXCEPT ![m] = "running"]
          /\ goroutine[m] = "none" /\ actor' = [actor EXCEPT !.pc = "announce"]
      BY <1>5, <2>1, <2>3 DEF Create
    <3>2. Counted' = Counted \cup {m} /\ m \notin Counted /\ m \notin table
      BY <1>0, <3>1 DEF Counted
    <3>3. Cardinality(Counted') = Cardinality(Counted) + 1
      BY <3>2, CountedFinite, FS_AddElement
    <3>4. Cardinality(table') <= MaxMatches
      <4>1. table \in SUBSET Matches
        OBVIOUS
      <4>2. Cardinality(table') = Cardinality(table) + 1 /\ Cardinality(table) \in Nat
        BY <3>1, <3>2, <4>1, CountedFinite, FS_AddElement
      <4> QED BY <2>3, <4>2, HostingAssumption DEF Creates
    <3>5. table' = {n \in Matches : goroutine'[n] \in {"running", "returned"}}
      BY <1>0, <3>1
    <3>6. \A n \in Matches : actor' # [pc |-> "create", match |-> n]
      BY <2>1, <3>1
    <3> QED BY <3>1, <3>3, <3>4, <3>5, <3>6
  <2> QED BY <2>2, <2>3
<1>6. CASE HandleStartMatch
  BY <1>6 DEF HandleStartMatch, Takes, Counted, registry, Idle
<1>7. CASE Announce \/ LobbyExits
  BY <1>7 DEF Announce, LobbyExits, Counted, registry, Idle
<1>8. CASE HandleConnect \/ HandleMatchEnded \/ HandleDisconnect
  BY <1>8 DEF HandleConnect, HandleMatchEnded, HandleDisconnect, Counted, registry
<1>9. ASSUME NEW c \in Conns, Handler(c) PROVE Gauged'
  BY <1>9, HandlerFrame DEF Counted, registry
<1>10. ASSUME NEW m \in Matches, Tell(m) PROVE Gauged'
  BY <1>10 DEF Tell, Counted, lobby
<1>11. CASE Signal \/ HTTPShutdown \/ LobbyDone \/ StopAllReturns \/ Deadline
  BY <1>11 DEF Signal, HTTPShutdown, LobbyDone, StopAllReturns, Deadline, Returns, registry,
               lobby, Counted
<1>12. CASE StopLobby \/ StopAll
  BY <1>12 DEF StopLobby, StopAll, registry, lobby, Counted
<1>13. CASE UNCHANGED vars
  BY <1>13 DEF vars, registry, lobby, Counted
<1> HIDE DEF Gauged
<1> QED BY <1>1, <1>2, <1>3, <1>4, <1>5, <1>6, <1>7, <1>8, <1>9, <1>10, <1>11, <1>12, <1>13
        DEF Next

LEMMA InitGauged ==
  ASSUME Init
  PROVE  HostingTypeOK /\ Gauged
<1>1. Counted = {} /\ table = {} /\ table = {n \in Matches : goroutine[n] \in {"running", "returned"}}
  BY DEF Init, Counted
<1>2. gauge = Cardinality(Counted) /\ Cardinality(table) <= MaxMatches
  BY <1>1, FS_EmptySet, HostingAssumption DEF Init
<1>3. inbox \in Seq(Messages) /\ Len(inbox) <= InboxCap
  BY HostingAssumption DEF Init
<1>4. HostingTypeOK
  BY <1>3 DEF Init, HostingTypeOK
<1> QED BY <1>1, <1>2, <1>4 DEF Init, Gauged, GaugeCounts, ToCreate, Idle

THEOREM Typed == Spec => [](HostingTypeOK /\ Gauged)
<1>1. HostingTypeOK /\ Gauged /\ [Next]_vars => (HostingTypeOK /\ Gauged)'
  BY TypeStep, GaugeStep
<1> QED BY <1>1, InitGauged, PTL DEF Spec

(* Every variable keeps its type, and the lobby's inbox its capacity.       *)
THEOREM HostingTypeCorrect == Spec => []HostingTypeOK
BY Typed, PTL

(* The gauge is right and the cap kept in every state, whatever runs        *)
(* between the registry's critical sections.                                *)
THEOREM GaugeCorrect == Spec => []GaugeCounts
<1>1. Gauged => GaugeCounts
  BY DEF Gauged
<1> QED BY <1>1, Typed, PTL

-----------------------------------------------------------------------------
(* Shutdown.  What StopAll returned is settled only after it has closed the *)
(* door, in one place of main, and nothing opens the door or adds a match   *)
(* after that.                                                              *)
DoorInv ==
  /\ verdict # "none" => stopping
  /\ main = "telling" => stopping /\ verdict = "none"
  /\ main \in {"serving", "http", "stopall"} => verdict = "none"
  /\ main \in {"stop", "await"} /\ order = "main" => verdict = "none"
  /\ verdict = "nil" => table = {}

LEMMA DoorStep ==
  ASSUME DoorInv, [Next]_vars
  PROVE  DoorInv'
<1> USE DEF DoorInv
<1>1. ASSUME NEW m \in Matches,
             MatchEnds(m) \/ RemoveEnded(m) \/ CountsDown(m) \/ MatchEnded(m) PROVE DoorInv'
  BY <1>1 DEF MatchEnds, RemoveEnded, CountsDown, MatchEnded, process
<1>2. ASSUME NEW m \in Matches, Tell(m) PROVE DoorInv'
  BY <1>2 DEF Tell
<1>3. CASE Create
  BY <1>3 DEF Create, Creates, process
<1>4. CASE Announce \/ HandleMatchEnded
  BY <1>4 DEF Announce, HandleMatchEnded, Broadcast, registry
<1>5. CASE HandleConnect \/ HandleStartMatch \/ HandleDisconnect \/ LobbyExits
  BY <1>5 DEF HandleConnect, HandleStartMatch, HandleDisconnect, LobbyExits, process, registry
<1>6. ASSUME NEW c \in Conns, Handler(c) PROVE DoorInv'
  BY <1>6, HandlerFrame DEF process, registry
<1>7. CASE Signal \/ HTTPShutdown \/ StopLobby \/ LobbyDone
  BY <1>7 DEF Signal, HTTPShutdown, StopLobby, LobbyDone, Goes, registry
<1>8. CASE StopAll
  BY <1>8 DEF StopAll, Goes
<1>9. CASE StopAllReturns \/ Deadline
  BY <1>9 DEF StopAllReturns, Deadline, Returns, Drained, registry
<1>10. CASE UNCHANGED vars
  BY <1>10 DEF vars, process, registry
<1> QED BY <1>1, <1>2, <1>3, <1>4, <1>5, <1>6, <1>7, <1>8, <1>9, <1>10 DEF Next

THEOREM DoorCorrect == Spec => []DoorInv
<1>1. Init => DoorInv
  BY DEF Init, DoorInv
<1>2. DoorInv /\ [Next]_vars => DoorInv'
  BY DoorStep
<1> QED BY <1>1, <1>2, PTL DEF Spec

(* When StopAll has returned nil no match runs and none will, in either     *)
(* order of stopping lobby and matches, whatever rooms were starting then.  *)
THEOREM NothingEscapesCorrect == Spec => []NothingEscapes
<1>1. DoorInv /\ Gauged => NothingEscapes
  BY DEF DoorInv, Gauged, GaugeCounts, NothingEscapes
<1> QED BY <1>1, Typed, DoorCorrect, PTL

-----------------------------------------------------------------------------
(* The registry implements its census.                                      *)
Door == IF verdict = "nil" THEN "drained" ELSE IF stopping THEN "closed" ELSE "open"
Used == {m \in Matches : goroutine[m] # "none"}

LEMMA SameCount == Census!Cardinality(table) = Cardinality(table)
BY DEF Census!Cardinality, Cardinality

LEMMA CensusStep ==
  ASSUME HostingTypeOK, Gauged, DoorInv, DoorInv', [Next]_vars
  PROVE  Census!Next \/ UNCHANGED <<table, Used, Door>>
<1> DEFINE Goal == Census!Next \/ UNCHANGED <<table, Used, Door>>
<1>0. goroutine \in [Matches -> {"none", "running", "returned", "removed", "reporting", "gone"}]
  BY DEF HostingTypeOK
<1>1. ASSUME NEW m \in Matches, MatchEnds(m) \/ CountsDown(m) \/ MatchEnded(m) PROVE Goal
  BY <1>0, <1>1 DEF MatchEnds, CountsDown, MatchEnded, process, Used, Door
<1>2. ASSUME NEW m \in Matches, RemoveEnded(m) PROVE Goal
  <2>1. m \in table /\ table' = table \ {m} /\ Used' = Used /\ Door' = Door
    BY <1>0, <1>2 DEF RemoveEnded, Gauged, GaugeCounts, process, Used, Door
  <2>2. Census!End(m)
    BY <2>1 DEF Census!End, Used, Door
  <2> QED BY <2>2 DEF Census!Next
<1>3. ASSUME NEW m \in Matches, Tell(m) PROVE Goal
  BY <1>3 DEF Tell, Used, Door
<1>4. CASE Create
  <2>1. PICK m \in Matches : actor = [pc |-> "create", match |-> m] /\ m = actor.match
    BY <1>4 DEF Create, HostingTypeOK, Idle
  <2>2. CASE ~Creates
    BY <1>4, <2>1, <2>2 DEF Create, process, Used, Door
  <2>3. CASE Creates
    <3>1. /\ table' = table \cup {m} /\ Cardinality(table) < MaxMatches
          /\ goroutine' = [goroutine EXCEPT ![m] = "running"] /\ goroutine[m] = "none"
      BY <1>4, <2>1, <2>3 DEF Create, Creates, Gauged, ToCreate
    <3>2. Used' = Used \cup {m} /\ m \notin Used
      BY <1>0, <3>1 DEF Used
    <3>3. Door = "open" /\ Door' = Door
      BY <1>4, <2>3 DEF Create, Creates, DoorInv, Door, process
    <3>4. Census!Open(m)
      BY <3>1, <3>2, <3>3, SameCount DEF Census!Open, Used, Door
    <3> QED BY <3>4 DEF Census!Next
  <2> QED BY <2>2, <2>3
<1>5. CASE Announce \/ HandleMatchEnded
  BY <1>5 DEF Announce, HandleMatchEnded, registry, Used, Door
<1>6. CASE HandleConnect \/ HandleStartMatch \/ HandleDisconnect \/ LobbyExits
  BY <1>6 DEF HandleConnect, HandleStartMatch, HandleDisconnect, LobbyExits, process, registry,
              Used, Door
<1>7. ASSUME NEW c \in Conns, Handler(c) PROVE Goal
  BY <1>7, HandlerFrame DEF process, registry, Used, Door
<1>8. CASE Signal \/ HTTPShutdown \/ StopLobby \/ LobbyDone
  BY <1>8 DEF Signal, HTTPShutdown, StopLobby, LobbyDone, registry, Used, Door
<1>9. CASE StopAll
  <2>1. table' = table /\ Used' = Used /\ verdict = "none" /\ verdict' = verdict /\ stopping'
    BY <1>9 DEF StopAll, Goes, DoorInv, Used
  <2>2. CASE stopping
    BY <2>1, <2>2 DEF Door
  <2>3. CASE ~stopping
    <3>1. Door = "open" /\ Door' = "closed"
      BY <2>1, <2>3 DEF Door
    <3>2. Census!Close
      BY <2>1, <3>1 DEF Census!Close, Used, Door
    <3> QED BY <3>2 DEF Census!Next
  <2> QED BY <2>2, <2>3
<1>10. CASE StopAllReturns
  <2>1. /\ table' = table /\ Used' = Used /\ verdict = "none" /\ stopping /\ table = {}
        /\ verdict' = "nil"
    BY <1>10 DEF StopAllReturns, Returns, Drained, DoorInv, registry, Used
  <2>2. Door = "closed" /\ Door' = "drained"
    BY <2>1 DEF Door
  <2>3. Census!Drained
    BY <2>1, <2>2 DEF Census!Drained, Used, Door
  <2> QED BY <2>3 DEF Census!Next
<1>11. CASE Deadline
  BY <1>11 DEF Deadline, Returns, DoorInv, registry, Used, Door
<1>12. CASE UNCHANGED vars
  BY <1>12 DEF vars, process, registry, Used, Door
<1> QED BY <1>1, <1>2, <1>3, <1>4, <1>5, <1>6, <1>7, <1>8, <1>9, <1>10, <1>11, <1>12 DEF Next

(* The table of matches, with its lock, its goroutines and both shutdowns,  *)
(* keeps the registry's promise: within the cap, each match once, none      *)
(* after the door has closed, and "drained" said of an empty table only.    *)
THEOREM CensusCorrect == Spec => CensusSpec
<1>1. Init => Census!Init
  <2> SUFFICES ASSUME Init PROVE Census!Init
    OBVIOUS
  <2>1. \A m \in Matches : goroutine[m] = "none"
    BY DEF Init
  <2> QED BY <2>1 DEF Init, Census!Init
<1>2. HostingTypeOK /\ Gauged /\ DoorInv /\ DoorInv' /\ [Next]_vars
        => [Census!Next]_<<table, {m \in Matches : goroutine[m] # "none"},
               IF verdict = "nil" THEN "drained" ELSE IF stopping THEN "closed" ELSE "open">>
  BY CensusStep DEF Used, Door
<1> QED BY <1>1, <1>2, Typed, DoorCorrect, PTL DEF Spec, CensusSpec, Census!Spec

-----------------------------------------------------------------------------
(* Rooms.  A room has its match's goroutine to wait for or the report of    *)
(* its end in the inbox, and so has the match that the actor is about to    *)
(* announce.                                                                *)
Awaited(m) == m \in hosted \/ actor = [pc |-> "announce", match |-> m]
Heard(m) == \E i \in 1 .. Len(inbox) : inbox[i] = Ended(m)
RoomInv ==
  order = "main" /\ ~stopped => \A m \in Matches : Awaited(m) => goroutine[m] # "gone" \/ Heard(m)

LEMMA HeardAfterTake ==
  ASSUME HostingTypeOK, Takes, NEW m \in Matches, Heard(m), Head(inbox) # Ended(m)
  PROVE  Heard(m)'
<1>1. inbox \in Seq(Messages) /\ inbox # <<>> /\ inbox' = Tail(inbox)
  BY DEF HostingTypeOK, Takes
<1>2. PICK i \in 1 .. Len(inbox) : inbox[i] = Ended(m)
  BY DEF Heard
<1>3. i # 1
  BY <1>1, <1>2
<1>4. i - 1 \in 1 .. Len(Tail(inbox)) /\ Tail(inbox)[i - 1] = inbox[i]
  BY <1>1, <1>2, <1>3
<1> QED BY <1>1, <1>2, <1>4 DEF Heard, Ended

LEMMA HeardAfterPost ==
  ASSUME HostingTypeOK, NEW e \in Messages, inbox' = Append(inbox, e)
  PROVE  \A m \in Matches : Heard(m) \/ e = Ended(m) => Heard(m)'
<1>1. inbox \in Seq(Messages) /\ Len(inbox) \in Nat
  BY LenProperties DEF HostingTypeOK
<1>2. /\ Len(inbox') = Len(inbox) + 1 /\ inbox'[Len(inbox) + 1] = e
      /\ \A i \in 1 .. Len(inbox) : inbox'[i] = inbox[i]
  BY <1>1, AppendProperties
<1> QED BY <1>1, <1>2 DEF Heard, Ended

LEMMA RoomStep ==
  ASSUME HostingTypeOK, RoomInv, [Next]_vars
  PROVE  RoomInv'
<1> SUFFICES ASSUME order' = "main", ~stopped', NEW m \in Matches, Awaited(m)'
             PROVE  goroutine'[m] # "gone" \/ Heard(m)'
  BY DEF RoomInv
<1>0. goroutine \in [Matches -> {"none", "running", "returned", "removed", "reporting", "gone"}]
  BY DEF HostingTypeOK
<1> DEFINE Goal == goroutine'[m] # "gone" \/ Heard(m)'
<1>a. order = "main" /\ ~stopped /\ Awaited(m) => goroutine[m] # "gone" \/ Heard(m)
  BY DEF RoomInv
<1>b. UNCHANGED <<order, stopped, inbox, goroutine, hosted, actor>> => Goal
  BY <1>a DEF Awaited, Heard
<1>1. ASSUME NEW n \in Matches, MatchEnds(n) \/ RemoveEnded(n) \/ CountsDown(n) PROVE Goal
  BY <1>0, <1>1, <1>a DEF MatchEnds, RemoveEnded, CountsDown, process, lobby, Awaited, Heard
<1>2. ASSUME NEW n \in Matches, MatchEnded(n) PROVE Goal
  <2>1. ~stopped /\ order = "main" /\ Awaited(m)
    BY <1>2 DEF MatchEnded, process, Awaited
  <2>2. inbox' = Append(inbox, Ended(n)) /\ Ended(n) \in Messages
    BY <1>2, <2>1 DEF MatchEnded, Reported, Post, Ended, Messages
  <2>3. Heard(m) \/ m = n => Heard(m)'
    BY <2>2, HeardAfterPost
  <2>4. m # n => goroutine'[m] = goroutine[m]
    BY <1>0, <1>2 DEF MatchEnded
  <2> QED BY <1>a, <2>1, <2>3, <2>4
<1>3. ASSUME NEW n \in Matches, Tell(n) PROVE Goal
  BY <1>3, <1>b DEF Tell, lobby
<1>4. CASE HandleConnect \/ HandleStartMatch \/ HandleDisconnect
  <2>1. /\ Takes /\ Head(inbox).msg # "ended"
        /\ UNCHANGED <<order, stopped, goroutine, hosted>> /\ Awaited(m)
    BY <1>4 DEF HandleConnect, HandleStartMatch, HandleDisconnect, process, registry, Awaited
  <2>2. Head(inbox) # Ended(m)
    BY <2>1 DEF Ended
  <2> QED BY <1>a, <2>1, <2>2, HeardAfterTake
<1>5. CASE Create
  <2>1. PICK n \in Matches : actor = [pc |-> "create", match |-> n] /\ n = actor.match
    BY <1>5 DEF Create, HostingTypeOK, Idle
  <2>2. UNCHANGED <<order, stopped, inbox, hosted>>
    BY <1>5 DEF Create, process
  <2>3. CASE m = n /\ Creates
    BY <1>0, <1>5, <2>1, <2>3 DEF Create
  <2>4. CASE m # n /\ Creates
    <3>1. goroutine'[m] = goroutine[m] /\ actor' = [pc |-> "announce", match |-> n]
      BY <1>0, <1>5, <2>1, <2>4 DEF Create
    <3>2. actor' # [pc |-> "announce", match |-> m]
      BY <2>4, <3>1
    <3> QED BY <1>a, <2>2, <3>1, <3>2 DEF Awaited, Heard
  <2>5. CASE ~Creates
    <3>1. goroutine' = goroutine /\ actor' = Idle
      BY <1>5, <2>1, <2>5 DEF Create
    <3> QED BY <1>a, <2>2, <3>1 DEF Awaited, Heard, Idle
  <2> QED BY <2>3, <2>4, <2>5
<1>6. CASE Announce
  <2>1. /\ actor.pc = "announce" /\ hosted' = hosted \cup {actor.match} /\ actor' = Idle
        /\ UNCHANGED <<order, stopped, inbox, goroutine>>
    BY <1>6 DEF Announce, registry
  <2>2. actor = [pc |-> "announce", match |-> actor.match]
    BY <2>1 DEF HostingTypeOK, Idle
  <2>3. Awaited(m)
    BY <2>1, <2>2 DEF Awaited, Idle
  <2> QED BY <1>a, <2>1, <2>3 DEF Heard
<1>7. CASE HandleMatchEnded
  <2>1. /\ Takes /\ Head(inbox).msg = "ended" /\ hosted' = hosted \ {Head(inbox).of}
        /\ actor = Idle /\ UNCHANGED <<order, stopped, goroutine, actor>>
    BY <1>7 DEF HandleMatchEnded, Broadcast, registry, Takes
  <2>2. m \in hosted /\ m # Head(inbox).of
    BY <2>1 DEF Awaited, Idle
  <2>3. Head(inbox) # Ended(m)
    BY <2>2 DEF Ended
  <2> QED BY <1>a, <2>1, <2>2, <2>3, HeardAfterTake DEF Awaited
<1>8. CASE LobbyExits
  BY <1>8 DEF LobbyExits
<1>9. ASSUME NEW c \in Conns, Handler(c) PROVE Goal
  <2>1. UNCHANGED <<order, stopped, goroutine, hosted, actor>> /\ Awaited(m)
    BY <1>9, HandlerFrame DEF process, registry, Awaited
  <2>2. Heard(m) => Heard(m)'
    <3>1. CASE UNCHANGED inbox
      BY <3>1 DEF Heard
    <3>2. CASE \E k \in {"connect", "start", "disconnect"} :
                 inbox' = Append(inbox, [msg |-> k, of |-> c])
      <4>1. \A k \in {"connect", "start", "disconnect"} : [msg |-> k, of |-> c] \in Messages
        BY DEF Messages
      <4> QED BY <3>2, <4>1, HeardAfterPost
    <3> QED BY <1>9, <3>1, <3>2, HandlerPosts
  <2> QED BY <1>a, <2>1, <2>2
<1>10. CASE Signal \/ HTTPShutdown \/ LobbyDone \/ StopAll \/ StopAllReturns \/ Deadline
  BY <1>10, <1>b DEF Signal, HTTPShutdown, LobbyDone, StopAll, StopAllReturns, Deadline, Returns,
                     registry, lobby
<1>11. CASE StopLobby
  BY <1>11 DEF StopLobby
<1>12. CASE UNCHANGED vars
  BY <1>12, <1>b DEF vars, process, registry, lobby
<1> QED BY <1>1, <1>2, <1>3, <1>4, <1>5, <1>6, <1>7, <1>8, <1>9, <1>10, <1>11, <1>12 DEF Next

(* As long as main has not stopped the lobby, no room waits for a match     *)
(* whose goroutine is done and whose end nobody will report: the report is  *)
(* neither dropped by a full inbox nor handled before the room has its match.*)
THEOREM RoomHasMatchCorrect == Spec => []RoomHasMatch
<1>1. Init => RoomInv
  BY DEF Init, RoomInv, Awaited, Idle
<1>2. HostingTypeOK /\ RoomInv /\ [Next]_vars => RoomInv'
  BY RoomStep
<1>3. HostingTypeOK /\ RoomInv => RoomHasMatch
  BY DEF HostingTypeOK, RoomInv, RoomHasMatch, Awaited, Heard
<1> QED BY <1>1, <1>2, <1>3, HostingTypeCorrect, PTL DEF Spec

-----------------------------------------------------------------------------
(* Sessions.  Whether a channel that the lobby sends to is closed depends   *)
(* on the messages that wait: a connect is of a socket that nobody has      *)
(* answered, and there once; a disconnect is of one that was answered; and  *)
(* while the lobby runs only answered sockets' channels are closed, after   *)
(* their session is gone.                                                   *)
Waits(e) == \E i \in 1 .. Len(inbox) : inbox[i] = e
ConnectsOnce(c) ==
  \A i, j \in 1 .. Len(inbox) : inbox[i] = Connect(c) /\ inbox[j] = Connect(c) => i = j

Unanswered(c) ==
  /\ conn[c] \in {"new", "accepted", "connecting"} => c \notin replied
  /\ Waits(Connect(c)) => c \notin replied /\ conn[c] \in {"awaiting", "refused"}
  /\ ConnectsOnce(c)
Answered(c) ==
  /\ conn[c] \in {"open", "posting", "leaving", "left"} => c \in replied
  /\ Waits(Disconnect(c)) => c \in replied
  /\ ~stopped /\ c \in closed => c \in replied /\ c \notin sessions
SessionInv ==
  /\ \A c \in Conns : Unanswered(c) /\ Answered(c)
  /\ ~stopped => main # "crashed"

LEMMA WaitsAfterTake ==
  ASSUME HostingTypeOK, Takes
  PROVE  /\ \A e : Waits(e)' => Waits(e)
         /\ Waits(Head(inbox))
         /\ \A c \in Conns : ConnectsOnce(c) =>
              ConnectsOnce(c)' /\ (Head(inbox) = Connect(c) => ~Waits(Connect(c))')
<1>1. inbox \in Seq(Messages) /\ inbox # <<>> /\ inbox' = Tail(inbox)
  BY DEF HostingTypeOK, Takes
<1>2. /\ Len(inbox) \in Nat /\ Len(inbox) >= 1 /\ Len(inbox') = Len(inbox) - 1
      /\ Head(inbox) = inbox[1]
      /\ \A i \in 1 .. Len(inbox') : inbox'[i] = inbox[i + 1]
  BY <1>1, HeadTailProperties, LenProperties, EmptySeq
<1>3. \A i \in 1 .. Len(inbox') : i \in Nat /\ i + 1 \in 1 .. Len(inbox) /\ i + 1 # 1
  BY <1>2
<1>4. \A e : Waits(e)' => Waits(e)
  BY <1>2, <1>3 DEF Waits
<1>5. Waits(Head(inbox))
  BY <1>2 DEF Waits
<1>6. ASSUME NEW c \in Conns, ConnectsOnce(c)
      PROVE  ConnectsOnce(c)' /\ (Head(inbox) = Connect(c) => ~Waits(Connect(c))')
  <2>1. ConnectsOnce(c)'
    <3> SUFFICES ASSUME NEW i \in 1 .. Len(inbox'), NEW j \in 1 .. Len(inbox'),
                        inbox'[i] = Connect(c), inbox'[j] = Connect(c)
                 PROVE  i = j
      BY DEF ConnectsOnce, Connect
    <3>1. i + 1 = j + 1
      BY <1>2, <1>3, <1>6 DEF ConnectsOnce
    <3> QED BY <3>1, <1>3
  <2>2. ASSUME Head(inbox) = Connect(c), NEW i \in 1 .. Len(inbox'), inbox'[i] = Connect(c)
        PROVE  FALSE
    <3>1. i + 1 = 1
      BY <1>2, <1>3, <1>6, <2>2 DEF ConnectsOnce
    <3> QED BY <3>1, <1>3
  <2> QED BY <2>1, <2>2 DEF Waits, Connect
<1> QED BY <1>4, <1>5, <1>6

LEMMA WaitsAfterPost ==
  ASSUME HostingTypeOK, NEW e \in Messages, inbox' = Append(inbox, e)
  PROVE  /\ \A d : Waits(d)' => Waits(d) \/ d = e
         /\ \A c \in Conns : ConnectsOnce(c) /\ (e = Connect(c) => ~Waits(e)) => ConnectsOnce(c)'
<1>1. inbox \in Seq(Messages) /\ Len(inbox) \in Nat
  BY LenProperties DEF HostingTypeOK
<1>2. /\ Len(inbox') = Len(inbox) + 1 /\ inbox'[Len(inbox) + 1] = e
      /\ \A i \in 1 .. Len(inbox) : inbox'[i] = inbox[i]
  BY <1>1, AppendProperties
<1>3. \A i \in 1 .. Len(inbox') : i \in 1 .. Len(inbox) \/ i = Len(inbox) + 1
  BY <1>1, <1>2
<1>4. \A d : Waits(d)' => Waits(d) \/ d = e
  BY <1>2, <1>3 DEF Waits
<1>5. ASSUME NEW c \in Conns, ConnectsOnce(c), e = Connect(c) => ~Waits(e),
             NEW i \in 1 .. Len(inbox'), NEW j \in 1 .. Len(inbox'),
             inbox'[i] = Connect(c), inbox'[j] = Connect(c)
      PROVE  i = j
  BY <1>2, <1>3, <1>5 DEF ConnectsOnce, Waits
<1>6. \A c \in Conns : ConnectsOnce(c) /\ (e = Connect(c) => ~Waits(e)) => ConnectsOnce(c)'
  BY <1>5 DEF ConnectsOnce, Connect
<1> QED BY <1>4, <1>6

(* A broadcast while the lobby runs is safe.                                *)
LEMMA BroadcastSafe ==
  ASSUME SessionInv, HostingTypeOK, Broadcast(sessions), ~stopped
  PROVE  main' = main
<1>1. sessions \cap closed = {}
  BY DEF SessionInv, Answered, HostingTypeOK
<1> QED BY <1>1 DEF Broadcast

(* Whatever takes nothing in, posts nothing and leaves the sessions alone.  *)
LEMMA SessionFrame ==
  ASSUME SessionInv, UNCHANGED <<inbox, sessions, conn, replied, closed>>, stopped => stopped',
         ~stopped' => main' # "crashed"
  PROVE  SessionInv'
BY DEF SessionInv, Unanswered, Answered, Waits, ConnectsOnce, Connect, Disconnect

(* A step of c's handler concerns c's own messages and channel only.        *)
LEMMA HandlerOthers ==
  ASSUME HostingTypeOK, SessionInv, NEW c \in Conns, Handler(c), NEW d \in Conns, d # c
  PROVE  Unanswered(d)' /\ Answered(d)'
<1>1. conn'[d] = conn[d] /\ (d \in closed' <=> d \in closed)
  BY DEF HostingTypeOK, Handler, Accept, Call, Refuse, Send, Abandon, ConnectReturns, At
<1>2. /\ Waits(Connect(d))' => Waits(Connect(d))
      /\ Waits(Disconnect(d))' => Waits(Disconnect(d))
      /\ ConnectsOnce(d) => ConnectsOnce(d)'
  <2>1. CASE UNCHANGED inbox
    BY <2>1 DEF Waits, ConnectsOnce, Connect, Disconnect
  <2>2. ASSUME NEW k \in {"connect", "start", "disconnect"},
               inbox' = Append(inbox, [msg |-> k, of |-> c])
        PROVE  /\ Waits(Connect(d))' => Waits(Connect(d))
               /\ Waits(Disconnect(d))' => Waits(Disconnect(d))
               /\ ConnectsOnce(d) => ConnectsOnce(d)'
    <3> DEFINE e == [msg |-> k, of |-> c]
    <3>1. e \in Messages
      BY DEF Messages
    <3>2. e # Connect(d) /\ e # Disconnect(d)
      BY DEF Connect, Disconnect
    <3>3. Connect(d)' = Connect(d) /\ Disconnect(d)' = Disconnect(d)
      BY DEF Connect, Disconnect
    <3>4. \A f : Waits(f)' => Waits(f) \/ f = e
      BY <2>2, <3>1, WaitsAfterPost
    <3>5. ConnectsOnce(d) => ConnectsOnce(d)'
      BY <2>2, <3>1, <3>2, WaitsAfterPost
    <3>6. Waits(Connect(d))' => Waits(Connect(d))
      BY <3>2, <3>4 DEF Waits, Connect
    <3>7. Waits(Disconnect(d))' => Waits(Disconnect(d))
      BY <3>2, <3>4 DEF Waits, Disconnect
    <3> QED BY <3>5, <3>6, <3>7
  <2> QED BY <2>1, <2>2, HandlerPosts
<1>3. UNCHANGED <<stopped, sessions, replied>>
  BY HandlerFrame
<1>4. Unanswered(d) /\ Answered(d)
  BY DEF SessionInv
<1> QED BY <1>1, <1>2, <1>3, <1>4 DEF Unanswered, Answered

(* The lobby takes messages of others than d.                               *)
LEMMA TakesOther ==
  ASSUME HostingTypeOK, SessionInv, Takes, NEW d \in Conns,
         UNCHANGED <<stopped, conn>>,
         d \in sessions' <=> d \in sessions, d \in replied' <=> d \in replied,
         d \in closed' <=> d \in closed
  PROVE  Unanswered(d)' /\ Answered(d)'
<1>1. /\ Waits(Connect(d))' => Waits(Connect(d))
      /\ Waits(Disconnect(d))' => Waits(Disconnect(d))
      /\ ConnectsOnce(d) => ConnectsOnce(d)'
  BY WaitsAfterTake DEF Waits, Connect, Disconnect
<1>2. Unanswered(d) /\ Answered(d)
  BY DEF SessionInv
<1> QED BY <1>1, <1>2 DEF Unanswered, Answered

LEMMA SessionStep ==
  ASSUME HostingTypeOK, SessionInv, [Next]_vars
  PROVE  SessionInv'
<1>1. ASSUME NEW m \in Matches, MatchEnds(m) \/ RemoveEnded(m) \/ CountsDown(m) PROVE SessionInv'
  <2>1. UNCHANGED <<main, lobby, handlers>>
    BY <1>1 DEF MatchEnds, RemoveEnded, CountsDown, process
  <2> QED BY <2>1, SessionFrame DEF lobby, handlers, SessionInv
<1>2. ASSUME NEW m \in Matches, MatchEnded(m) PROVE SessionInv'
  <2>1. UNCHANGED <<main, stopped, sessions, conn, replied, closed>>
    BY <1>2 DEF MatchEnded, process, handlers
  <2>2. CASE UNCHANGED inbox
    BY <2>1, <2>2, SessionFrame DEF SessionInv
  <2>3. CASE inbox' = Append(inbox, Ended(m))
    <3>1. Ended(m) \in Messages
      BY DEF Ended, Messages
    <3>2. ASSUME NEW d \in Conns PROVE Unanswered(d)' /\ Answered(d)'
      <4>1. /\ Ended(m) # Connect(d) /\ Ended(m) # Disconnect(d)
            /\ Unanswered(d) /\ Answered(d)
        BY DEF Ended, Connect, Disconnect, SessionInv
      <4>2. /\ Waits(Connect(d))' => Waits(Connect(d))
            /\ Waits(Disconnect(d))' => Waits(Disconnect(d))
            /\ ConnectsOnce(d) => ConnectsOnce(d)'
        <5>1. \A e : Waits(e)' => Waits(e) \/ e = Ended(m)
          BY <2>3, <3>1, WaitsAfterPost
        <5>2. ConnectsOnce(d) => ConnectsOnce(d)'
          BY <2>3, <3>1, <4>1, WaitsAfterPost
        <5> QED BY <4>1, <5>1, <5>2 DEF Waits, Connect, Disconnect
      <4> QED BY <2>1, <4>1, <4>2 DEF Unanswered, Answered
    <3> QED BY <2>1, <3>2 DEF SessionInv
  <2> QED BY <1>2, <2>2, <2>3 DEF MatchEnded, Reported, Post
<1>3. ASSUME NEW m \in Matches, Tell(m) PROVE SessionInv'
  BY <1>3, SessionFrame DEF Tell, lobby, handlers, SessionInv
<1>4. CASE HandleConnect
  <2>1. PICK c \in Conns : Head(inbox) = Connect(c)
    <3>1. Head(inbox) \in Messages /\ Head(inbox).msg = "connect"
      BY <1>4, TakesType DEF HandleConnect
    <3> QED BY <3>1 DEF Messages, Connect
  <2>2. /\ Takes /\ sessions' = sessions \cup {c} /\ replied' = replied \cup {c}
        /\ UNCHANGED <<main, stopped, conn, closed>>
    BY <1>4, <2>1 DEF HandleConnect, Connect, process
  <2>3. Waits(Connect(c)) /\ Unanswered(c) /\ Answered(c)
    BY <2>1, <2>2, WaitsAfterTake DEF SessionInv
  <2>4. ConnectsOnce(c)' /\ ~Waits(Connect(c))'
    BY <2>1, <2>2, <2>3, WaitsAfterTake DEF Unanswered
  <2>5. Unanswered(c)' /\ Answered(c)'
    BY <2>2, <2>3, <2>4 DEF Unanswered, Answered, Waits, Connect
  <2>6. ASSUME NEW d \in Conns, d # c PROVE Unanswered(d)' /\ Answered(d)'
    BY <2>2, <2>6, TakesOther
  <2> QED BY <2>2, <2>5, <2>6 DEF SessionInv
<1>5. CASE HandleStartMatch
  <2>1. Takes /\ UNCHANGED <<main, stopped, sessions, conn, replied, closed>>
    BY <1>5 DEF HandleStartMatch, process, handlers
  <2> QED BY <2>1, TakesOther DEF SessionInv
<1>6. CASE Create
  BY <1>6, SessionFrame DEF Create, process, handlers, SessionInv
<1>7. CASE Announce
  <2>1. Broadcast(sessions) /\ UNCHANGED <<stopped, inbox, sessions, conn, replied, closed>>
    BY <1>7 DEF Announce, handlers
  <2> QED BY <2>1, BroadcastSafe, SessionFrame DEF SessionInv
<1>8. CASE HandleMatchEnded
  <2>1. Takes /\ Broadcast(sessions) /\ UNCHANGED <<stopped, sessions, conn, replied, closed>>
    BY <1>8 DEF HandleMatchEnded, handlers
  <2>2. ~stopped => main' # "crashed"
    BY <2>1, BroadcastSafe DEF SessionInv
  <2> QED BY <2>1, <2>2, TakesOther DEF SessionInv
<1>9. CASE HandleDisconnect
  <2>1. PICK c \in Conns : Head(inbox) = Disconnect(c)
    <3>1. Head(inbox) \in Messages /\ Head(inbox).msg = "disconnect"
      BY <1>9, TakesType DEF HandleDisconnect
    <3> QED BY <3>1 DEF Messages, Disconnect
  <2>2. /\ Takes /\ sessions' = sessions \ {c} /\ closed' = closed \cup {c}
        /\ UNCHANGED <<main, stopped, conn, replied>>
    BY <1>9, <2>1 DEF HandleDisconnect, Disconnect, process
  <2>3. Waits(Disconnect(c)) /\ Unanswered(c) /\ Answered(c)
    BY <2>1, <2>2, WaitsAfterTake DEF SessionInv
  <2>4. ConnectsOnce(c)' /\ (Waits(Connect(c))' => Waits(Connect(c)))
    BY <2>2, <2>3, WaitsAfterTake DEF Unanswered, Waits, Connect
  <2>5. Unanswered(c)' /\ Answered(c)'
    BY <2>2, <2>3, <2>4 DEF Unanswered, Answered
  <2>6. ASSUME NEW d \in Conns, d # c PROVE Unanswered(d)' /\ Answered(d)'
    BY <2>2, <2>6, TakesOther
  <2> QED BY <2>2, <2>5, <2>6 DEF SessionInv
<1>10. CASE LobbyExits
  BY <1>10, SessionFrame DEF LobbyExits, process, handlers, SessionInv
<1>11. ASSUME NEW c \in Conns, Handler(c) PROVE SessionInv'
  <2>1. UNCHANGED <<main, stopped, sessions, replied>> /\ Unanswered(c) /\ Answered(c)
    BY <1>11, HandlerFrame DEF process, SessionInv
  <2>2. conn \in [Conns -> {"new", "accepted", "connecting", "awaiting", "open", "posting",
                            "leaving", "left", "refused"}]
    BY DEF HostingTypeOK
  <2> DEFINE Good == Unanswered(c)' /\ Answered(c)'
  <2>3. ASSUME UNCHANGED <<inbox, closed>>,
               \/ conn[c] \in {"new", "accepted"} /\ conn'[c] \in {"accepted", "connecting"}
               \/ /\ conn[c] \in {"open", "posting", "leaving"} \/ c \in replied
                  /\ conn'[c] \in {"open", "posting", "leaving", "left"}
        PROVE  Good
    <3>1. /\ Waits(Connect(c))' <=> Waits(Connect(c))
          /\ Waits(Disconnect(c))' <=> Waits(Disconnect(c))
          /\ ConnectsOnce(c)'
      BY <2>1, <2>3 DEF Waits, ConnectsOnce, Connect, Disconnect, Unanswered
    <3> QED BY <2>1, <2>3, <3>1 DEF Unanswered, Answered
  <2>4. ASSUME Accept(c) PROVE Good
    BY <2>2, <2>3, <2>4 DEF Accept, At, lobby
  <2>5. ASSUME \/ Call(c, "accepted", "connecting") \/ Call(c, "open", "posting")
               \/ Call(c, "open", "leaving")
        PROVE  Good
    BY <2>2, <2>3, <2>5 DEF Call, At, lobby
  <2>6. ASSUME \/ Abandon(c, "posting", "open") \/ Abandon(c, "leaving", "left")
               \/ Abandon(c, "open", "left")
        PROVE  Good
    BY <2>2, <2>3, <2>6 DEF Abandon, At, lobby
  <2>7. ASSUME ConnectReturns(c) PROVE Good
    BY <2>2, <2>3, <2>7 DEF ConnectReturns, At, lobby
  <2>8. ASSUME Refuse(c, "accepted") \/ Refuse(c, "connecting") \/ Refuse(c, "awaiting")
        PROVE  Good
    <3>1. stopped /\ conn'[c] = "refused" /\ UNCHANGED inbox
      BY <2>2, <2>8 DEF Refuse, At, lobby
    <3>2. /\ Waits(Connect(c))' <=> Waits(Connect(c))
          /\ Waits(Disconnect(c))' <=> Waits(Disconnect(c))
          /\ ConnectsOnce(c)'
      BY <2>1, <3>1 DEF Waits, ConnectsOnce, Connect, Disconnect, Unanswered
    <3> QED BY <2>1, <3>1, <3>2 DEF Unanswered, Answered
  <2>9. ASSUME Send(c, "connecting", "awaiting", Connect(c)) PROVE Good
    <3>1. /\ conn[c] = "connecting" /\ conn'[c] = "awaiting" /\ UNCHANGED closed
          /\ inbox' = Append(inbox, Connect(c)) /\ Connect(c) \in Messages
      BY <2>2, <2>9 DEF Send, At, Post, Connect, Messages
    <3>2. ~Waits(Connect(c)) /\ c \notin replied
      BY <2>1, <3>1 DEF Unanswered
    <3>3. /\ ConnectsOnce(c)'
          /\ Waits(Disconnect(c))' => Waits(Disconnect(c))
      BY <2>1, <3>1, <3>2, WaitsAfterPost DEF Unanswered, Waits, Connect, Disconnect
    <3> QED BY <2>1, <3>1, <3>2, <3>3 DEF Unanswered, Answered
  <2>10. ASSUME Send(c, "posting", "open", Start(c)) \/ Send(c, "leaving", "left", Disconnect(c))
        PROVE  Good
    <3>1. /\ conn[c] \in {"posting", "leaving"} /\ conn'[c] \in {"open", "left"}
          /\ UNCHANGED closed
          /\ \E k \in {"start", "disconnect"} : inbox' = Append(inbox, [msg |-> k, of |-> c])
      BY <2>2, <2>10 DEF Send, At, Post, Start, Disconnect
    <3>2. PICK k \in {"start", "disconnect"} : inbox' = Append(inbox, [msg |-> k, of |-> c])
      BY <3>1
    <3> DEFINE e == [msg |-> k, of |-> c]
    <3>3. e \in Messages /\ e # Connect(c)
      BY DEF Messages, Connect
    <3>4. c \in replied
      BY <2>1, <3>1 DEF Answered
    <3>5. ConnectsOnce(c)'
      BY <2>1, <3>2, <3>3, WaitsAfterPost DEF Unanswered
    <3>6. Waits(Connect(c))' => Waits(Connect(c))
      BY <3>2, <3>3, WaitsAfterPost DEF Waits, Connect
    <3> QED BY <2>1, <3>1, <3>4, <3>5, <3>6 DEF Unanswered, Answered
  <2>11. Good
    BY <1>11, <2>4, <2>5, <2>6, <2>7, <2>8, <2>9, <2>10 DEF Handler
  <2> QED BY <1>11, <2>1, <2>11, HandlerOthers DEF SessionInv
<1>12. CASE Signal \/ HTTPShutdown \/ LobbyDone \/ StopAll \/ StopAllReturns \/ Deadline
  BY <1>12, SessionFrame DEF Signal, HTTPShutdown, LobbyDone, StopAll, StopAllReturns, Deadline,
     Returns, Goes, lobby, handlers, SessionInv
<1>13. CASE StopLobby
  BY <1>13, SessionFrame DEF StopLobby, Goes, handlers, SessionInv
<1>14. CASE UNCHANGED vars
  BY <1>14, SessionFrame DEF vars, process, lobby, handlers, SessionInv
<1> QED BY <1>1, <1>2, <1>3, <1>4, <1>5, <1>6, <1>7, <1>8, <1>9, <1>10, <1>11, <1>12, <1>13,
           <1>14 DEF Next

(* While the lobby runs no session has a closed channel and no broadcast    *)
(* panics, for any number of sockets that connect, wait, speak and leave:   *)
(* the panic of a shutdown needs Stop between a connect and its answer.     *)
THEOREM SafeUntilStoppedCorrect == Spec => []SafeUntilStopped
<1>1. Init => SessionInv
  BY DEF Init, SessionInv, Unanswered, Answered, Waits, ConnectsOnce
<1>2. HostingTypeOK /\ SessionInv /\ [Next]_vars => SessionInv'
  BY SessionStep
<1>3. HostingTypeOK /\ SessionInv => SafeUntilStopped
  BY DEF HostingTypeOK, SessionInv, Answered, SafeUntilStopped
<1> QED BY <1>1, <1>2, <1>3, HostingTypeCorrect, PTL DEF Spec
=============================================================================
