-------------------------- MODULE MatchActorProofs --------------------------
(* Proofs about MatchActor, for any players, connections and capacities. *)
EXTENDS MatchActor, FiniteSetTheorems, TLAPS

(* What the sending helpers leave well typed. *)
LEMMA Sets ==
  ASSUME NEW S \in SUBSET Players
  PROVE  IsFiniteSet(S) /\ Cardinality(S) \in Nat
BY MatchAssumption, FS_Subset, FS_CardinalityType

Slotted(j, n, o) ==
  j \subseteq Players /\ n \in Int /\ o \in [Players -> Conns \cup {None}]

SlottedPrime ==
  /\ joined' \subseteq Players /\ joinedCount' \in Int
  /\ out' \in [Players -> Conns \cup {None}] /\ sealed' \subseteq Players
  /\ closed' \subseteq Conns /\ queue' \in [Conns -> 0..OutCap]

(* Releasing slots leaves the joined slots and their count well typed.     *)
LEMMA MarkUnjoinedType ==
  ASSUME NEW S, NEW j \in SUBSET Players, NEW n \in Int, MarkUnjoined(S, j, n)
  PROVE  joined' \subseteq Players /\ joinedCount' \in Int
<1>1. S \cap j \in SUBSET Players  OBVIOUS
<1> QED BY <1>1, Sets DEF MarkUnjoined

(* Closing slots leaves the bindings and the closed channels well typed.   *)
LEMMA CloseSlotType ==
  ASSUME TypeOK, NEW S \in SUBSET Players, NEW o \in [Players -> Conns \cup {None}],
         CloseSlot(S, o)
  PROVE  /\ out' \in [Players -> Conns \cup {None}] /\ sealed' \subseteq Players
         /\ closed' \subseteq Conns
BY DEF TypeOK, CloseSlot, Bound

(* A burst is only put where there is room, so no channel overflows.       *)
LEMMA EnqueueType ==
  ASSUME TypeOK, NEW S \in SUBSET Players, NEW o \in [Players -> Conns \cup {None}],
         Enqueue(Bound(o, S \ Full(S, o)))
  PROVE  queue' \in [Conns -> 0..OutCap]
<1>1. \A c \in Bound(o, S \ Full(S, o)) : c \in Conns /\ queue[c] # OutCap
  BY DEF Bound, Full
<1>2. \A c \in Conns : queue[c] \in 0..OutCap  BY DEF TypeOK
<1>3. \A c \in Bound(o, S \ Full(S, o)) : queue[c] + 1 \in 0..OutCap
  BY <1>1, <1>2, MatchAssumption
<1> QED BY <1>2, <1>3 DEF Enqueue

(* sendFrameTo leaves slots and channels well typed.                       *)
LEMMA SendFrameToType ==
  ASSUME TypeOK, NEW S \in SUBSET Players, NEW j, NEW n, NEW o, Slotted(j, n, o),
         SendFrameTo(S, j, n, o)
  PROVE  SlottedPrime
<1>1. Full(S, o) \in SUBSET Players  BY DEF Full
<1> QED BY <1>1, MarkUnjoinedType, CloseSlotType, EnqueueType
        DEF SendFrameTo, Slotted, SlottedPrime

(* The common tail of the ends leaves slots and channels well typed.       *)
LEMMA CloseAllType ==
  ASSUME TypeOK, NEW S \in SUBSET Players, NEW j, NEW n, NEW o, Slotted(j, n, o),
         NEW last \in SUBSET Players, CloseAll(S, j, n, o, last)
  PROVE  SlottedPrime /\ state' = "ended"
<1>1. joined' \subseteq Players /\ joinedCount' \in Int
  BY MarkUnjoinedType DEF CloseAll, Slotted
<1>2. /\ out' \in [Players -> Conns \cup {None}] /\ sealed' \subseteq Players
      /\ closed' \subseteq Conns
  BY CloseSlotType DEF CloseAll, Slotted
<1>3. queue' \in [Conns -> 0..OutCap]
  BY EnqueueType DEF CloseAll, Slotted
<1>4. state' = "ended"  BY DEF CloseAll
<1> QED BY <1>1, <1>2, <1>3, <1>4 DEF SlottedPrime

(* An abort leaves slots and channels well typed, and ends the match.      *)
LEMMA AbortType ==
  ASSUME TypeOK, NEW j, NEW n, NEW o, Slotted(j, n, o), Abort(j, n, o)
  PROVE  SlottedPrime /\ state' = "ended"
<1>1. j \in SUBSET Players  BY DEF Slotted
<1>2. {p \in slots : o[p] # None} \in SUBSET Players  BY DEF TypeOK
<1>3. CASE state = "live"
  BY <1>1, <1>3, CloseAllType DEF Abort
<1>4. CASE state # "live"
  <2>1. CloseAll({p \in slots : o[p] # None}, j, n, o, {})  BY <1>4 DEF Abort
  <2> QED BY <1>2, <2>1, CloseAllType
<1> QED BY <1>3, <1>4

(* Draining the inbox leaves it empty and the connections well typed.      *)
LEMMA DrainType ==
  ASSUME TypeOK, NEW c, DrainInboxAfterEnd(c)
  PROVE  conn' \in [Conns -> ConnState] /\ inbox' = <<>>
BY DEF DrainInboxAfterEnd, TypeOK, ConnState

(* The empty inbox is well typed.                                          *)
LEMMA EmptyInbox == <<>> \in Seq(Message) /\ Len(<<>>) <= InboxCap
BY MatchAssumption

(* The start of the match leaves everything it sets well typed.            *)
LEMMA StartType ==
  ASSUME TypeOK, NEW j, NEW n, NEW o, Slotted(j, n, o), Start(j, n, o)
  PROVE  /\ SlottedPrime /\ state' = "live" /\ inSim' \subseteq Players /\ startCount' \in Nat
         /\ dcDeadline' \in [Players -> Nat] /\ dcTokens' \subseteq Players
<1>1. j \in SUBSET Players  BY DEF Slotted
<1>2. SlottedPrime  BY <1>1, SendFrameToType DEF Start
<1>3. Cardinality(j) \in Nat  BY <1>1, Sets
<1> QED BY <1>1, <1>2, <1>3, MatchAssumption DEF Start, TypeOK

-----------------------------------------------------------------------------
(* Inbox. *)
LEMMA TailType ==
  ASSUME TypeOK, inbox # <<>>
  PROVE  Tail(inbox) \in Seq(Message) /\ Len(Tail(inbox)) <= InboxCap /\ Head(inbox) \in Message
BY MatchAssumption DEF TypeOK

(* The fields of the message the actor takes are in range.                 *)
LEMMA HeadFields ==
  ASSUME TypeOK, inbox # <<>>
  PROVE  /\ Head(inbox).kind = "join" => Head(inbox).conn \in Conns
         /\ Head(inbox).kind \in {"input", "ping", "chat", "dc", "revoke"}
               => Head(inbox).player \in Players
BY TailType DEF Message

-----------------------------------------------------------------------------
(***************************************************************************)
(* Type correctness.                                                       *)
(***************************************************************************)

(* Every step of the actor keeps the types.                                *)
LEMMA RunTypeCorrect == TypeOK /\ Run => TypeOK'
<1> SUFFICES ASSUME TypeOK, Run PROVE TypeOK'  OBVIOUS
<1> USE DEF ConnState
<1>1. CASE WarmupTimeout
  <2>1. Slotted(joined, joinedCount, out)  BY DEF Slotted, TypeOK
  <2>4. state = "waiting" /\ ~done  BY <1>1 DEF WarmupTimeout, TypeOK
  <2>2. CASE Start(joined, joinedCount, out) /\ UNCHANGED <<inbox, conn>>
    BY <1>1, <2>1, <2>2, <2>4, StartType DEF WarmupTimeout, TypeOK, SlottedPrime
  <2>3. CASE StartAborts(joined, joinedCount, out, None)
    <3>1. SlottedPrime /\ state' = "ended" /\ conn' \in [Conns -> ConnState] /\ inbox' = <<>>
      BY <2>1, <2>3, AbortType, DrainType DEF StartAborts
    <3> QED BY <1>1, <2>3, <2>4, <3>1, EmptyInbox
            DEF WarmupTimeout, StartAborts, TypeOK, SlottedPrime
  <2> QED BY <1>1, <2>2, <2>3 DEF WarmupTimeout
<1>2. CASE JoinAccepted
  <2> DEFINE c == Head(inbox).conn
             p == token[c]
             j == joined \cup {p}
             n == joinedCount + 1
             o == [out EXCEPT ![p] = c]
  <2>1. c \in Conns /\ p \in Players
    BY <1>2, HeadFields DEF JoinAccepted, Receive, TypeOK
  <2>2. Slotted(j, n, o)  BY <2>1 DEF Slotted, TypeOK
  <2>3. inbox # <<>>  BY <1>2 DEF JoinAccepted, Receive
  <2>4. [conn EXCEPT ![c] = "open"] \in [Conns -> ConnState]  BY <2>1 DEF TypeOK
  <2>8. /\ bySession' = bySession \ {p}
        /\ \/ Start(j, n, o) /\ inbox' = Tail(inbox) /\ conn' = [conn EXCEPT ![c] = "open"]
           \/ StartAborts(j, n, o, c)
           \/ /\ SendFrameTo({p}, j, n, o) /\ inbox' = Tail(inbox)
              /\ conn' = [conn EXCEPT ![c] = "open"]
              /\ UNCHANGED <<state, dcDeadline, dcTokens, inSim, startCount>>
    BY <1>2 DEF JoinAccepted, Reply
  <2> HIDE DEF c, p, j, n, o
  <2>5. CASE Start(j, n, o) /\ inbox' = Tail(inbox) /\ conn' = [conn EXCEPT ![c] = "open"]
    BY <1>2, <2>2, <2>3, <2>4, <2>5, <2>8, StartType, TailType
       DEF JoinAccepted, ReturnIfEnded, TypeOK, SlottedPrime
  <2>6. CASE StartAborts(j, n, o, c)
    <3>1. SlottedPrime /\ state' = "ended" /\ conn' \in [Conns -> ConnState] /\ inbox' = <<>>
      BY <2>2, <2>6, AbortType, DrainType DEF StartAborts
    <3> QED BY <1>2, <2>6, <2>8, <3>1, EmptyInbox
            DEF JoinAccepted, StartAborts, ReturnIfEnded, TypeOK, SlottedPrime
  <2>7. CASE /\ SendFrameTo({p}, j, n, o) /\ inbox' = Tail(inbox)
             /\ conn' = [conn EXCEPT ![c] = "open"]
             /\ UNCHANGED <<state, dcDeadline, dcTokens, inSim, startCount>>
    <3>1. {p} \in SUBSET Players  BY <2>1
    <3>2. SlottedPrime  BY <2>2, <2>7, <3>1, SendFrameToType
    <3> QED BY <1>2, <2>3, <2>7, <2>8, <2>4, <3>2, TailType
            DEF JoinAccepted, ReturnIfEnded, TypeOK, SlottedPrime
  <2> QED BY <2>5, <2>6, <2>7, <2>8
<1>3. CASE JoinRefused
  BY <1>3, TailType, HeadFields DEF JoinRefused, Receive, Reply, TypeOK, simVars
<1>4. CASE Reconnect
  <2> DEFINE c == Head(inbox).conn
             p == token[c]
             o == [out EXCEPT ![p] = c]
  <2>1. c \in Conns /\ p \in Players
    BY <1>4, HeadFields DEF Reconnect, Receive, TypeOK
  <2>2. Slotted(joined, joinedCount, o)  BY <2>1 DEF Slotted, TypeOK
  <2>3. joined \cup {p} \in SUBSET Players  BY <2>1 DEF TypeOK
  <2>4. inbox # <<>>  BY <1>4 DEF Reconnect, Receive
  <2>5. conn' \in [Conns -> ConnState]  BY <1>4, <2>1 DEF Reconnect, Reply, TypeOK
  <2>6. dcDeadline' \in [Players -> Nat]
    <3>1. dcDeadline' = [dcDeadline EXCEPT ![p] = 0] \/ dcDeadline' = dcDeadline
      BY <1>4 DEF Reconnect
    <3>2. dcDeadline \in [Players -> Nat]  BY DEF TypeOK
    <3>3. p \in Players  BY <2>1
    <3> HIDE DEF p
    <3>4. [dcDeadline EXCEPT ![p] = 0] \in [Players -> Nat]  BY <3>2, <3>3
    <3> QED BY <3>1, <3>2, <3>4
  <2>7. CASE Reconnectable(p)
    <3>1. SendFrameTo(joined \cup {p}, joined, joinedCount, o)
      BY <1>4, <2>7 DEF Reconnect
    <3>2. SlottedPrime  BY <2>2, <2>3, <3>1, SendFrameToType
    <3> QED BY <1>4, <2>4, <2>5, <2>6, <2>7, <3>2, TailType
            DEF Reconnect, TypeOK, SlottedPrime, simVars
  <2>8. CASE ~Reconnectable(p)
    BY <1>4, <2>4, <2>5, <2>8, TailType DEF Reconnect, TypeOK, simVars
  <2> QED BY <2>7, <2>8
<1>5. CASE HandleDC
  <2> DEFINE p == Head(inbox).player
             o == [out EXCEPT ![p] = None]
  <2>1. p \in Players  BY <1>5, HeadFields DEF HandleDC, Receive
  <2>2. Slotted(joined, joinedCount, o)  BY <2>1 DEF Slotted, TypeOK
  <2>3. joined \in SUBSET Players  BY DEF TypeOK
  <2>4. inbox # <<>>  BY <1>5 DEF HandleDC, Receive
  <2>5. CASE p \in slots \cap joined /\ p \notin dc
    <3>1. SendFrameTo(joined, joined, joinedCount, o)  BY <1>5, <2>5 DEF HandleDC
    <3>2. SlottedPrime  BY <2>2, <2>3, <3>1, SendFrameToType
    <3>3. dcDeadline' \in [Players -> Nat]
      <4>1. tick + Grace \in Nat  BY MatchAssumption DEF TypeOK
      <4>2. \/ dcDeadline' = [dcDeadline EXCEPT ![p] = tick + Grace]
            \/ dcDeadline' = dcDeadline
        BY <1>5, <2>5 DEF HandleDC
      <4> HIDE DEF p
      <4> QED BY <2>1, <4>1, <4>2 DEF TypeOK
    <3> QED BY <1>5, <2>1, <2>4, <2>5, <3>2, <3>3, TailType
            DEF HandleDC, Quiet, TypeOK, SlottedPrime, simVars
  <2>6. CASE ~(p \in slots \cap joined /\ p \notin dc)
    BY <1>5, <2>4, <2>6, TailType DEF HandleDC, Quiet, TypeOK, simVars
  <2> QED BY <2>5, <2>6
<1>6. CASE HandleInput
  BY <1>6, TailType, HeadFields DEF HandleInput, Receive, Quiet, TypeOK, simVars
<1>7. CASE HandleClientPing
  <2> DEFINE S == {Head(inbox).player} \cap slots \cap joined
  <2>1. S \in SUBSET Players /\ Slotted(joined, joinedCount, out)  BY DEF Slotted, TypeOK
  <2>2. SendFrameTo(S, joined, joinedCount, out) /\ inbox # <<>>
    BY <1>7 DEF HandleClientPing, Receive
  <2>3. SlottedPrime  BY <2>1, <2>2, SendFrameToType
  <2> QED BY <1>7, <2>2, <2>3, TailType DEF HandleClientPing, Quiet, TypeOK, SlottedPrime, simVars
<1>8. CASE HandleChat
  <2> DEFINE to == {c \in Bound(out, slots) : queue[c] < OutCap}
  <2>1. queue' \in [Conns -> 0..OutCap]
    <3>1. \A c \in Conns : queue[c] \in 0..OutCap  BY DEF TypeOK
    <3>2. \A c \in Conns : c \in to => queue[c] + 1 \in 0..OutCap
      BY <3>1, MatchAssumption
    <3>3. CASE UNCHANGED queue  BY <3>3 DEF TypeOK
    <3>4. CASE Enqueue(to)  BY <3>1, <3>2, <3>4 DEF Enqueue
    <3> QED BY <1>8, <3>3, <3>4 DEF HandleChat
  <2> QED BY <1>8, <2>1, TailType DEF HandleChat, Receive, Quiet, TypeOK, simVars
<1>9. CASE HandleRevoke
  BY <1>9, TailType, HeadFields DEF HandleRevoke, Receive, Quiet, TypeOK, simVars
<1>10. CASE Shutdown
  <2>1. /\ {p \in slots : out[p] # None} \in SUBSET Players
        /\ {} \in SUBSET Players /\ Slotted(joined, joinedCount, out)
    BY DEF Slotted, TypeOK
  <2>2. SlottedPrime /\ state' = "ended" /\ conn' \in [Conns -> ConnState] /\ inbox' = <<>>
    BY <1>10, <2>1, CloseAllType, DrainType DEF Shutdown
  <2> QED BY <1>10, <2>2, EmptyInbox DEF Shutdown, ReturnIfEnded, TypeOK, SlottedPrime, simVars
<1>11. CASE Tick
  <2>1. PICK fallen \in SUBSET (inSim \ eliminated), early \in SUBSET joined,
             cleared \in BOOLEAN : TickWith(fallen, early, cleared)
    BY <1>11 DEF Tick
  <2> DEFINE j == joined \ Expired
             n == joinedCount - Cardinality(joined \cap Expired)
  <2>2. joined \cap Expired \in SUBSET Players /\ j \in SUBSET Players  BY DEF TypeOK
  <2>7. n \in Int
    <3>1. Cardinality(joined \cap Expired) \in Nat  BY <2>2, Sets
    <3> QED BY <3>1 DEF TypeOK
  <2>3. Slotted(j, n, out)  BY <2>2, <2>7 DEF Slotted, TypeOK
  <2>4. PICK told \in {{}, j} :
          IF MatchEnds(Contenders(slots \ Expired, inSim \ Expired, eliminated \cup fallen),
                       tick + 1, cleared)
            THEN CloseAll(j, j, n, out, j) /\ DrainInboxAfterEnd(None)
            ELSE SendFrameTo(told, j, n, out) /\ UNCHANGED <<state, inbox, conn>>
    BY <2>1 DEF TickWith
  <2>5. SlottedPrime
    BY <2>2, <2>3, <2>4, CloseAllType, SendFrameToType
  <2>6. /\ state' \in {"waiting", "live", "ended"} /\ conn' \in [Conns -> ConnState]
        /\ inbox' \in Seq(Message) /\ Len(inbox') <= InboxCap
    <3>1. CASE CloseAll(j, j, n, out, j) /\ DrainInboxAfterEnd(None)
      BY <2>2, <2>3, <3>1, CloseAllType, DrainType, EmptyInbox
    <3>2. CASE UNCHANGED <<state, inbox, conn>>
      BY <3>2 DEF TypeOK
    <3> QED BY <2>4, <3>1, <3>2
  <2> QED BY <1>11, <2>1, <2>5, <2>6
          DEF Tick, TickWith, DropDCSlots, ReturnIfEnded, TypeOK, SlottedPrime
<1>12. CASE TickFails
  <2>1. Slotted(joined, joinedCount, out)  BY DEF Slotted, TypeOK
  <2>2. SlottedPrime /\ state' = "ended" /\ conn' \in [Conns -> ConnState] /\ inbox' = <<>>
    BY <1>12, <2>1, AbortType, DrainType DEF TickFails
  <2> QED BY <1>12, <2>2, EmptyInbox DEF TickFails, ReturnIfEnded, TypeOK, SlottedPrime, simVars
<1>13. CASE HandleAbort
  <2>1. Slotted(joined, joinedCount, out)  BY DEF Slotted, TypeOK
  <2>2. SlottedPrime /\ state' = "ended" /\ conn' \in [Conns -> ConnState] /\ inbox' = <<>>
    BY <1>13, <2>1, AbortType, DrainType DEF HandleAbort
  <2> QED BY <1>13, <2>2, EmptyInbox DEF HandleAbort, ReturnIfEnded, TypeOK, SlottedPrime, simVars
<1>14. CASE HandleLast
  BY <1>14, TailType, HeadFields DEF HandleLast, Reply, TypeOK, simVars
<1> QED BY <1>1, <1>2, <1>3, <1>4, <1>5, <1>6, <1>7, <1>8, <1>9, <1>10, <1>11, <1>12, <1>13,
           <1>14
        DEF Run, HandleControl

(* A message posted where there is room keeps the inbox well typed.        *)
LEMMA AppendType ==
  ASSUME TypeOK, Room, NEW m \in Message
  PROVE  Append(inbox, m) \in Seq(Message) /\ Len(Append(inbox, m)) <= InboxCap
BY MatchAssumption DEF TypeOK, Room

(* Whatever a producer does to the inbox keeps it well typed.              *)
LEMMA PostType ==
  ASSUME TypeOK, NEW m \in Message, (Room /\ Post(m)) \/ PostOrDrop(m) \/ UNCHANGED inbox
  PROVE  inbox' \in Seq(Message) /\ Len(inbox') <= InboxCap
<1>1. CASE Room /\ inbox' = Append(inbox, m)  BY <1>1, AppendType
<1>2. CASE inbox' = inbox  BY <1>2 DEF TypeOK
<1> QED BY <1>1, <1>2 DEF Post, PostOrDrop

(* The messages a producer can post. *)
LEMMA Messages ==
  /\ \A c \in Conns : [kind |-> "join", conn |-> c] \in Message
  /\ \A p \in Players, k \in {"input", "ping", "chat", "dc", "revoke"} :
        [kind |-> k, player |-> p] \in Message
  /\ [kind |-> "shutdown"] \in Message /\ [kind |-> "abort"] \in Message
BY DEF Message

(* Every step of a connection, the lobby or the registry keeps the types.  *)
LEMMA NetTypeCorrect == TypeOK /\ Net => TypeOK'
<1> SUFFICES ASSUME TypeOK, Net PROVE TypeOK'  OBVIOUS
<1> USE DEF ConnState
<1>1. ASSUME NEW c \in Conns, Dial(c) \/ JoinTimeout(c) \/ WriterSend(c) \/ WriterClose(c)
      PROVE  TypeOK'
  <2>1. CASE WriterSend(c)
    <3>1. queue[c] \in 0..OutCap /\ queue[c] > 0  BY <1>1, <2>1 DEF TypeOK, WriterSend
    <3>2. queue[c] - 1 \in 0..OutCap  BY <3>1, MatchAssumption
    <3>3. queue' \in [Conns -> 0..OutCap]  BY <2>1, <3>2 DEF WriterSend, TypeOK
    <3> QED BY <2>1, <3>3 DEF WriterSend, Producer, TypeOK, slotVars, simVars
  <2>2. CASE Dial(c)  BY <2>2 DEF Dial, Reply, Producer, TypeOK, slotVars, simVars
  <2>3. CASE JoinTimeout(c)  BY <2>3 DEF JoinTimeout, Reply, Producer, TypeOK, slotVars, simVars
  <2>4. CASE WriterClose(c)  BY <2>4 DEF WriterClose, Producer, TypeOK, slotVars, simVars
  <2> QED BY <1>1, <2>1, <2>2, <2>3, <2>4
<1>2. ASSUME NEW c \in Conns,
             SubmitJoin(c) \/ ClientFrame(c) \/ UnblockInput(c) \/ Disconnect(c)
      PROVE  TypeOK'
  <2>1. token[c] \in Players  BY DEF TypeOK
  <2>2. \A k \in {"open", "gone", "joining", "blocked"} :
           [conn EXCEPT ![c] = k] \in [Conns -> ConnState]
    BY DEF TypeOK
  <2>3. CASE SubmitJoin(c)
    <3>1. inbox' \in Seq(Message) /\ Len(inbox') <= InboxCap
      BY <2>3, PostType, Messages DEF SubmitJoin
    <3>2. conn' \in [Conns -> ConnState]  BY <2>2, <2>3 DEF SubmitJoin, Reply
    <3> QED BY <2>3, <3>1, <3>2 DEF SubmitJoin, Producer, TypeOK, slotVars, simVars
  <2>4. CASE ClientFrame(c)
    <3>1. PICK k \in ClientFrames : /\ PostOrDrop([kind |-> k, player |-> token[c]])
                                    /\ Reply(c, "blocked") \/ UNCHANGED conn
      BY <2>4 DEF ClientFrame
    <3>2. [kind |-> k, player |-> token[c]] \in Message
      BY <2>1, Messages, MatchAssumption
    <3>3. inbox' \in Seq(Message) /\ Len(inbox') <= InboxCap  BY <3>1, <3>2, PostType
    <3>4. conn' \in [Conns -> ConnState]  BY <2>2, <3>1 DEF Reply, TypeOK
    <3> QED BY <2>4, <3>3, <3>4 DEF ClientFrame, Producer, TypeOK, slotVars, simVars
  <2>5. CASE UnblockInput(c)
    <3>1. inbox' \in Seq(Message) /\ Len(inbox') <= InboxCap
      BY <2>1, <2>5, PostType, Messages DEF UnblockInput
    <3>2. conn' \in [Conns -> ConnState]  BY <2>2, <2>5 DEF UnblockInput, Reply
    <3> QED BY <2>5, <3>1, <3>2 DEF UnblockInput, Producer, TypeOK, slotVars, simVars
  <2>6. CASE Disconnect(c)
    <3>1. inbox' \in Seq(Message) /\ Len(inbox') <= InboxCap
      BY <2>1, <2>6, PostType, Messages DEF Disconnect
    <3>2. conn' \in [Conns -> ConnState]  BY <2>2, <2>6 DEF Disconnect, Reply
    <3> QED BY <2>6, <3>1, <3>2 DEF Disconnect, Producer, TypeOK, slotVars, simVars
  <2> QED BY <1>2, <2>3, <2>4, <2>5, <2>6
<1>3. ASSUME NEW p \in Players, RevokeToken(p)
      PROVE  TypeOK'
  <2>1. inbox' \in Seq(Message) /\ Len(inbox') <= InboxCap
    BY <1>3, PostType, Messages DEF RevokeToken
  <2> QED BY <1>3, <2>1 DEF RevokeToken, Producer, TypeOK, slotVars, simVars
<1>4. CASE StopAll
  <2>1. inbox' \in Seq(Message) /\ Len(inbox') <= InboxCap
    BY <1>4, PostType, Messages DEF StopAll
  <2> QED BY <1>4, <2>1 DEF StopAll, Producer, TypeOK, slotVars, simVars
<1>5. CASE SweepZeroPlayers
  <2>1. inbox' \in Seq(Message) /\ Len(inbox') <= InboxCap
    BY <1>5, PostType, Messages DEF SweepZeroPlayers
  <2> QED BY <1>5, <2>1 DEF SweepZeroPlayers, Producer, TypeOK, slotVars, simVars
<1> QED BY <1>1, <1>2, <1>3, <1>4, <1>5 DEF Net

(* TypeOK is inductive.                                                    *)
LEMMA NextTypeCorrect == TypeOK /\ [Next]_vars => TypeOK'
<1> SUFFICES ASSUME TypeOK, [Next]_vars PROVE TypeOK'  OBVIOUS
<1>1. CASE Absorb
  BY <1>1, TailType, HeadFields DEF Absorb, TypeOK, ConnState, slotVars, simVars
<1>2. CASE UNCHANGED vars
  BY <1>2 DEF vars, TypeOK, slotVars, simVars, netVars
<1> QED BY <1>1, <1>2, RunTypeCorrect, NetTypeCorrect DEF Next, Terminated

(* Every variable keeps its type, in particular no channel and no inbox    *)
(* ever holds more than its capacity, for any players and connections.     *)
THEOREM TypeCorrect == Safety => []TypeOK
<1>1. Init => TypeOK
  <2> SUFFICES ASSUME Init PROVE TypeOK  OBVIOUS
  <2>1. queue \in [Conns -> 0..OutCap]
    <3>1. 0 \in 0..OutCap  BY MatchAssumption
    <3> QED BY <3>1 DEF Init
  <2>2. inbox \in Seq(Message) /\ Len(inbox) <= InboxCap
    BY EmptyInbox DEF Init, NewMatch
  <2>3. /\ dcDeadline \in [Players -> Nat] /\ out \in [Players -> Conns \cup {None}]
        /\ conn \in [Conns -> ConnState]
    BY DEF Init, NewMatch, ConnState
  <2>4. joinedCount \in Int /\ startCount \in Nat /\ tick \in Nat
    BY DEF Init, NewMatch
  <2>6. graceful \in BOOLEAN /\ stopping \in BOOLEAN /\ done \in BOOLEAN /\ ~done
    BY Zenon DEF Init, NewMatch
  <2>5. /\ state \in {"waiting", "live", "ended"} /\ token \in [Conns -> Players]
        /\ slots \subseteq Players /\ joined \subseteq Players /\ deadCam \subseteq Players
        /\ dc \subseteq Players /\ sealed \subseteq Players /\ bySession \subseteq Players
        /\ dcTokens \subseteq Players /\ pending \subseteq Players
        /\ inSim \subseteq Players /\ eliminated \subseteq Players
        /\ closed \subseteq Conns /\ hungUp \subseteq Conns
    BY DEF Init, NewMatch
  <2> QED BY <2>1, <2>2, <2>3, <2>4, <2>5, <2>6 DEF TypeOK
<1> QED BY <1>1, NextTypeCorrect, PTL DEF Safety

-----------------------------------------------------------------------------
(***************************************************************************)
(* The count of joined players.                                            *)
(***************************************************************************)

(* Taking S out of the joined slots takes their share off the count.       *)
LEMMA CardinalityDiff ==
  ASSUME NEW S, NEW j \in SUBSET Players
  PROVE  Cardinality(j \ S) = Cardinality(j) - Cardinality(S \cap j)
<1>1. IsFiniteSet(j)  BY Sets
<1>2. /\ Cardinality(j \ S) = Cardinality(j) - Cardinality(j \cap S)
  BY <1>1, FS_Difference
<1>3. j \cap S = S \cap j  OBVIOUS
<1> QED BY <1>2, <1>3

(* Releasing slots releases the count once for each joined one.            *)
LEMMA MarkUnjoinedCount ==
  ASSUME NEW S, NEW j \in SUBSET Players, MarkUnjoined(S, j, Cardinality(j))
  PROVE  joined' = j \ S /\ joinedCount' = Cardinality(joined')
BY CardinalityDiff DEF MarkUnjoined

(* A handler that sends to or closes slots, from the joined slots j and    *)
(* their count n.                                                          *)
LEMMA SendCount ==
  ASSUME NEW j \in SUBSET Players, NEW n, n = Cardinality(j), NEW o, NEW S,
         \/ SendFrameTo(S, j, n, o) \/ Start(j, n, o)
         \/ Abort(j, n, o) \/ \E C, last : CloseAll(C, j, n, o, last)
  PROVE  joined' \subseteq j /\ joinedCount' = Cardinality(joined')
<1>1. PICK T : MarkUnjoined(T, j, n)
  BY Zenon DEF SendFrameTo, Start, Abort, CloseAll
<1> QED BY <1>1, MarkUnjoinedCount

(* CountMatchesSlots is inductive, given TypeOK.                           *)
LEMMA CountStep == TypeOK /\ CountMatchesSlots /\ [Next]_vars => CountMatchesSlots'
<1> SUFFICES ASSUME TypeOK, CountMatchesSlots, [Next]_vars PROVE CountMatchesSlots'
  OBVIOUS
<1>1. /\ joined \in SUBSET Players /\ joined \subseteq slots
      /\ joinedCount = Cardinality(joined)
  BY DEF TypeOK, CountMatchesSlots
<1>2. CASE UNCHANGED <<slots, joined, joinedCount>>
  BY <1>2 DEF CountMatchesSlots
<1>3. CASE JoinAccepted
  <2> DEFINE c == Head(inbox).conn
             p == token[c]
             j == joined \cup {p}
             n == joinedCount + 1
             o == [out EXCEPT ![p] = c]
  <2>1. p \in slots /\ p \notin joined  BY <1>3 DEF JoinAccepted, Admissible
  <2>2. j \in SUBSET Players /\ j \subseteq slots  BY <1>1, <2>1 DEF TypeOK
  <2>3. n = Cardinality(j)
    BY <1>1, <2>1, Sets, FS_AddElement
  <2>4. \/ Start(j, n, o) \/ Abort(j, n, o) \/ SendFrameTo({p}, j, n, o)
    BY <1>3 DEF JoinAccepted, StartAborts
  <2>5. joined' \subseteq j /\ joinedCount' = Cardinality(joined')
    <3> HIDE DEF j, n, o, p
    <3> QED BY <2>2, <2>3, <2>4, SendCount
  <2>6. slots' = slots  BY <1>3 DEF JoinAccepted
  <2> QED BY <2>2, <2>5, <2>6 DEF CountMatchesSlots
<1>4. CASE Tick
  <2> DEFINE j == joined \ Expired
             n == joinedCount - Cardinality(joined \cap Expired)
  <2>1. slots' = slots \ Expired  BY <1>4 DEF Tick, TickWith, DropDCSlots
  <2>2. \/ \E told : SendFrameTo(told, j, n, out)
        \/ \E C, last : CloseAll(C, j, n, out, last)
    BY <1>4 DEF Tick, TickWith
  <2>3. j \in SUBSET Players /\ j \subseteq slots \ Expired  BY <1>1
  <2>4. n = Cardinality(j)
    <3>1. joined \cap Expired = Expired \cap joined  OBVIOUS
    <3> QED BY <1>1, <3>1, CardinalityDiff
  <2>5. joined' \subseteq j /\ joinedCount' = Cardinality(joined')
    <3> HIDE DEF j, n
    <3> QED BY <2>2, <2>3, <2>4, SendCount
  <2> QED BY <2>1, <2>3, <2>5 DEF CountMatchesSlots
<1>5. CASE /\ slots' = slots
           /\ \/ Start(joined, joinedCount, out) \/ Abort(joined, joinedCount, out)
              \/ \E S, o : SendFrameTo(S, joined, joinedCount, o)
              \/ \E C, last : CloseAll(C, joined, joinedCount, out, last)
  <2>1. joined' \subseteq joined /\ joinedCount' = Cardinality(joined')
    BY <1>1, <1>5, SendCount
  <2> QED BY <1>1, <1>5, <2>1 DEF CountMatchesSlots
<1>6. CASE WarmupTimeout
  BY <1>5, <1>6 DEF WarmupTimeout, StartAborts
<1>7. CASE Reconnect
  BY <1>2, <1>5, <1>7 DEF Reconnect
<1>8. CASE HandleDC
  BY <1>2, <1>5, <1>8 DEF HandleDC, Quiet
<1>9. CASE HandleClientPing
  BY <1>5, <1>9 DEF HandleClientPing, Quiet
<1>10. CASE Shutdown \/ TickFails \/ HandleAbort
  BY <1>5, <1>10 DEF Shutdown, TickFails, HandleAbort
<1>11. CASE JoinRefused \/ HandleInput \/ HandleChat \/ HandleRevoke \/ HandleLast
  BY <1>2, <1>11 DEF JoinRefused, HandleInput, HandleChat, HandleRevoke, HandleLast, Quiet
<1>12. CASE Absorb \/ Net \/ UNCHANGED vars
  BY <1>2, <1>12 DEF Absorb, Net, vars, slotVars, Producer, Dial, SubmitJoin, JoinTimeout,
     ClientFrame, UnblockInput, Disconnect, WriterSend, WriterClose, RevokeToken,
     SweepZeroPlayers, StopAll
<1> QED BY <1>3, <1>4, <1>6, <1>7, <1>8, <1>9, <1>10, <1>11, <1>12
        DEF Next, Run, HandleControl, Terminated

(* The count of joined players, which the metrics and the registry read    *)
(* from other goroutines, is the number of joined slots at all times.      *)
THEOREM CountCorrect == Safety => []CountMatchesSlots
<1>1. Init => CountMatchesSlots
  BY FS_EmptySet DEF Init, NewMatch, CountMatchesSlots
<1> QED BY <1>1, CountStep, TypeCorrect, PTL DEF Safety

-----------------------------------------------------------------------------
(***************************************************************************)
(* Who can still win.                                                      *)
(***************************************************************************)

(* Nobody is eliminated, and nothing ticks, before the sim runs. *)
ContendersInv == ContendersRemain /\ (state = "waiting" => eliminated = {} /\ tick = 0)

(* The sim starts with the joined players, at least MinPlayers of them. *)
LEMMA ContendersStart ==
  ASSUME NEW j \in SUBSET Players, NEW n, NEW o, Start(j, n, o), j \subseteq slots,
         Cardinality(j) >= MinPlayers, eliminated = {}, tick = 0,
         UNCHANGED <<slots, eliminated, tick>>
  PROVE  ContendersInv'
<1>1. Cardinality(j) \in Nat /\ MinPlayers \in {1, 2}  BY Sets DEF MinPlayers
<1>2. j # {}  BY <1>1, FS_EmptySet
<1>3. /\ state' = "live" /\ inSim' = j /\ startCount' = Cardinality(j)
  BY DEF Start
<1>4. Contenders(slots', inSim', eliminated') = j  BY <1>3 DEF Contenders
<1>5. tick' < MatchTimer  BY MatchAssumption
<1> QED BY <1>2, <1>3, <1>4, <1>5 DEF ContendersInv, ContendersRemain

(* The strengthened ContendersRemain is inductive.                         *)
LEMMA ContendersStep ==
  TypeOK /\ TypeOK' /\ CountMatchesSlots /\ ContendersInv /\ [Next]_vars => ContendersInv'
<1> SUFFICES ASSUME TypeOK, TypeOK', CountMatchesSlots, ContendersInv, [Next]_vars
             PROVE  ContendersInv'
  OBVIOUS
<1>1. CASE UNCHANGED <<state, slots, startCount, inSim, eliminated, tick>>
  BY <1>1 DEF ContendersInv, ContendersRemain
<1>2. CASE state' = "ended"
  BY <1>2 DEF ContendersInv, ContendersRemain
<1>3. CASE WarmupTimeout
  <2>1. CASE Start(joined, joinedCount, out) /\ Cardinality(joined) >= MinPlayers
    <3>1. UNCHANGED <<slots, eliminated, tick>> /\ state = "waiting"
      BY <1>3, <2>1 DEF WarmupTimeout
    <3>2. joined \in SUBSET Players /\ joined \subseteq slots /\ eliminated = {} /\ tick = 0
      BY <3>1 DEF TypeOK, CountMatchesSlots, ContendersInv
    <3> QED BY <2>1, <3>1, <3>2, ContendersStart
  <2>2. CASE StartAborts(joined, joinedCount, out, None)
    <3>1. state' = "ended"  BY <2>2 DEF StartAborts, Abort, CloseAll
    <3> QED BY <1>2, <3>1
  <2> QED BY <1>3, <2>1, <2>2 DEF WarmupTimeout
<1>4. CASE JoinAccepted
  <2> DEFINE c == Head(inbox).conn
             p == token[c]
             j == joined \cup {p}
             n == joinedCount + 1
             o == [out EXCEPT ![p] = c]
  <2>1. /\ p \in slots /\ state = "waiting" /\ UNCHANGED <<slots, eliminated, tick>>
    BY <1>4 DEF JoinAccepted, Admissible
  <2>2. j \in SUBSET Players /\ j \subseteq slots /\ eliminated = {} /\ tick = 0
    BY <2>1 DEF TypeOK, CountMatchesSlots, ContendersInv
  <2>3. \/ Start(j, n, o) /\ Cardinality(j) >= MinPlayers
        \/ state' = "ended"
        \/ UNCHANGED <<state, inSim, startCount>>
    BY <1>4 DEF JoinAccepted, StartAborts, Abort, CloseAll
  <2>4. CASE Start(j, n, o) /\ Cardinality(j) >= MinPlayers
    <3> HIDE DEF j, n, o
    <3> QED BY <2>1, <2>2, <2>4, ContendersStart
  <2> QED BY <1>1, <1>2, <2>1, <2>3, <2>4
<1>5. CASE Tick
  <2>1. PICK fallen \in SUBSET (inSim \ eliminated), early \in SUBSET joined,
             cleared \in BOOLEAN : TickWith(fallen, early, cleared)
    BY <1>5 DEF Tick
  <2> DEFINE live == Contenders(slots \ Expired, inSim \ Expired, eliminated \cup fallen)
  <2>2. /\ state = "live" /\ startCount' = startCount
        /\ live = Contenders(slots', inSim', eliminated') /\ tick' = tick + 1
    BY <1>5, <2>1 DEF Tick, TickWith, DropDCSlots
  <2>3. state' = "ended" \/ (state' = state /\ ~MatchEnds(live, tick + 1, cleared))
    BY <2>1 DEF TickWith, CloseAll
  <2>4. CASE state' = state /\ ~MatchEnds(live, tick + 1, cleared)
    <3>1. live \in SUBSET Players  BY DEF Contenders, TypeOK
    <3>2. IsFiniteSet(live) /\ Cardinality(live) \in Nat  BY <3>1, Sets
    <3>3. live # {} /\ ~(Cardinality(live) = 1 /\ startCount >= 2)  BY <2>4 DEF MatchEnds
    <3>4. Cardinality(live) # 0  BY <3>2, <3>3, FS_EmptySet
    <3>5. startCount >= 2 => Cardinality(live) >= 2  BY <3>2, <3>3, <3>4
    <3>6. tick + 1 < MatchTimer
      <4>1. tick \in Nat /\ MatchTimer \in Nat  BY MatchAssumption DEF TypeOK
      <4> QED BY <2>4, <4>1 DEF MatchEnds
    <3> HIDE DEF live
    <3> QED BY <2>2, <2>4, <3>3, <3>5, <3>6 DEF ContendersInv, ContendersRemain
  <2> QED BY <1>2, <2>3, <2>4
<1>6. CASE TickFails \/ Shutdown \/ HandleAbort
  BY <1>2, <1>6 DEF TickFails, Shutdown, HandleAbort, Abort, CloseAll
<1>7. CASE JoinRefused \/ Reconnect \/ HandleLast
  BY <1>1, <1>7 DEF JoinRefused, Reconnect, HandleLast, simVars
<1>8. CASE HandleDC \/ HandleInput \/ HandleClientPing \/ HandleChat \/ HandleRevoke
  BY <1>1, <1>8 DEF HandleDC, HandleInput, HandleClientPing, HandleChat, HandleRevoke, Quiet,
     simVars
<1>9. CASE Absorb \/ Net \/ UNCHANGED vars
  BY <1>1, <1>9 DEF Absorb, Net, vars, slotVars, simVars, Producer, Dial, SubmitJoin,
     JoinTimeout, ClientFrame, UnblockInput, Disconnect, WriterSend, WriterClose, RevokeToken,
     SweepZeroPlayers, StopAll
<1> QED BY <1>3, <1>4, <1>5, <1>6, <1>7, <1>8, <1>9
        DEF Next, Run, HandleControl, Terminated

(* A match that goes on has time left and someone to win it, and two of    *)
(* them when it started with two, however many started.                    *)
THEOREM ContendersCorrect == Safety => []ContendersRemain
<1>1. Init => ContendersInv
  BY DEF Init, NewMatch, ContendersInv, ContendersRemain
<1>2. ContendersInv => ContendersRemain  BY DEF ContendersInv
<1> QED BY <1>1, <1>2, ContendersStep, TypeCorrect, CountCorrect, PTL DEF Safety

-----------------------------------------------------------------------------
(***************************************************************************)
(* Dead-cam.                                                               *)
(***************************************************************************)

(* Nobody is eliminated before the sim runs. *)
DeadCamInv == DeadCamFiltersInput /\ (state = "waiting" => eliminated = {})

(* A tick that lets the match go on puts whoever is out and keeps its seat *)
(* into dead-cam: a slot that the pass skips for a full channel loses its  *)
(* seat in the same tick.  And it leaves no input waiting.                 *)
LEMMA DeadCamTick == ASSUME Tick PROVE DeadCamInv'
<1>1. PICK fallen \in SUBSET (inSim \ eliminated), early \in SUBSET joined,
           cleared \in BOOLEAN : TickWith(fallen, early, cleared)
  BY DEF Tick
<1> DEFINE j == joined \ Expired
           n == joinedCount - Cardinality(joined \cap Expired)
           live == Contenders(slots \ Expired, inSim \ Expired, eliminated \cup fallen)
<1>2. state = "live"  BY DEF Tick
<1>3. /\ pending' = {} /\ eliminated' = eliminated \cup fallen
      /\ deadCam' = deadCam \cup ((joined \ early) \cap (eliminated \cup fallen))
  BY <1>1 DEF TickWith
<1>4. PICK told \in {{}, j} :
        /\ early \subseteq Full(told, out)
        /\ IF MatchEnds(live, tick + 1, cleared)
             THEN CloseAll(j, j, n, out, j) /\ DrainInboxAfterEnd(None)
             ELSE SendFrameTo(told, j, n, out) /\ UNCHANGED <<state, inbox, conn>>
  BY <1>1 DEF TickWith
<1>5. CASE CloseAll(j, j, n, out, j)
  BY <1>5 DEF CloseAll, DeadCamInv, DeadCamFiltersInput
<1>6. CASE SendFrameTo(told, j, n, out) /\ state' = state
  <2>1. joined' = j \ Full(told, out)  BY <1>6 DEF SendFrameTo, MarkUnjoined
  <2>2. joined' \subseteq joined \ early  BY <1>4, <2>1
  <2> HIDE DEF j, n, live
  <2> QED BY <1>2, <1>3, <1>6, <2>2 DEF DeadCamInv, DeadCamFiltersInput
<1> QED BY <1>4, <1>5, <1>6

(* The strengthened DeadCamFiltersInput is inductive: outside ticks nobody *)
(* gains a seat in a running match, and only HandleInput adds an input.    *)
LEMMA DeadCamStep == DeadCamInv /\ [Next]_vars => DeadCamInv'
<1> SUFFICES ASSUME DeadCamInv, [Next]_vars  PROVE DeadCamInv'
  OBVIOUS
<1>1. CASE state' = "ended"
  BY <1>1 DEF DeadCamInv, DeadCamFiltersInput
<1>2. CASE /\ UNCHANGED <<state, deadCam, eliminated, pending>>
           /\ joined' \subseteq joined \/ state # "live"
  BY <1>2 DEF DeadCamInv, DeadCamFiltersInput
<1>3. CASE Tick  BY <1>3, DeadCamTick
<1>4. CASE HandleInput
  <2>1. /\ UNCHANGED <<state, joined, deadCam, eliminated>>
        /\ pending' \cap deadCam \subseteq pending
    BY <1>4 DEF HandleInput, Quiet, simVars
  <2> QED BY <2>1 DEF DeadCamInv, DeadCamFiltersInput
<1>5. CASE WarmupTimeout \/ JoinAccepted
  <2>1. state = "waiting" /\ UNCHANGED <<deadCam, eliminated, pending>>
    BY <1>5 DEF WarmupTimeout, JoinAccepted
  <2> QED BY <2>1 DEF DeadCamInv, DeadCamFiltersInput
<1>6. CASE Reconnect \/ HandleDC \/ HandleClientPing
  <2>1. UNCHANGED <<state, deadCam, eliminated, pending>>
    BY <1>6 DEF Reconnect, HandleDC, HandleClientPing, Quiet, simVars
  <2>2. joined' \subseteq joined
    BY <1>6 DEF Reconnect, HandleDC, HandleClientPing, SendFrameTo, MarkUnjoined
  <2> QED BY <1>2, <2>1, <2>2
<1>7. CASE JoinRefused \/ HandleChat \/ HandleRevoke \/ HandleLast
  BY <1>2, <1>7 DEF JoinRefused, HandleChat, HandleRevoke, HandleLast, Quiet, simVars
<1>8. CASE TickFails \/ Shutdown \/ HandleAbort
  BY <1>1, <1>8 DEF TickFails, Shutdown, HandleAbort, Abort, CloseAll
<1>9. CASE Absorb \/ Net \/ UNCHANGED vars
  BY <1>2, <1>9 DEF Absorb, Net, vars, slotVars, simVars, Producer, Dial, SubmitJoin,
     JoinTimeout, ClientFrame, UnblockInput, Disconnect, WriterSend, WriterClose, RevokeToken,
     SweepZeroPlayers, StopAll
<1> QED BY <1>3, <1>4, <1>5, <1>6, <1>7, <1>8, <1>9 DEF Next, Run, HandleControl, Terminated

(* In a running match an eliminated player that still has its seat is in   *)
(* dead-cam and has no input waiting for the sim, whatever overflowed or   *)
(* was under way when it was eliminated.                                   *)
THEOREM DeadCamCorrect == Safety => []DeadCamFiltersInput
<1>1. Init => DeadCamInv
  BY DEF Init, NewMatch, DeadCamInv, DeadCamFiltersInput
<1>2. DeadCamInv => DeadCamFiltersInput  BY DEF DeadCamInv
<1> QED BY <1>1, <1>2, DeadCamStep, PTL DEF Safety
=============================================================================
