-------------------------- MODULE MatchGraceProofs --------------------------
(***************************************************************************)
(* Proofs about MatchActor: the seats in DC-grace.  GraceInv is inductive. *)
(***************************************************************************)
EXTENDS MatchActorProofs

(* A burst unjoins only slots that have a channel. *)
LEMMA SendKeepsUnbound ==
  ASSUME NEW S, NEW j, NEW n, NEW o, SendFrameTo(S, j, n, o)
  PROVE  /\ joined' \subseteq j
         /\ \A p \in Players : o[p] = None => out'[p] = None /\ (p \in j => p \in joined')
BY DEF SendFrameTo, MarkUnjoined, CloseSlot, Full

(* What leaves GraceInv alone: the same match, with other inputs, tokens   *)
(* or connections.                                                         *)
LEMMA GraceQuiet ==
  ASSUME GraceInv, UNCHANGED <<state, slots, joined, dc, dcDeadline, out, dcTokens, tick, inSim>>
  PROVE  GraceInv'
BY DEF GraceInv

(* A burst to slots of a match that goes on as it was.                     *)
LEMMA GraceBurst ==
  ASSUME TypeOK, GraceInv, CountMatchesSlots', NEW S, SendFrameTo(S, joined, joinedCount, out),
         UNCHANGED <<state, slots, dc, dcDeadline, dcTokens, tick, inSim>>
  PROVE  GraceInv'
<1>1. /\ joined' \subseteq joined
      /\ \A p \in Players : out[p] = None => out'[p] = None /\ (p \in joined => p \in joined')
  BY SendKeepsUnbound
<1>2. dc \subseteq Players  BY DEF TypeOK
<1> QED BY <1>1, <1>2 DEF GraceInv, CountMatchesSlots

(* startOrAbort arms the slots that dropped during warmup. *)
LEMMA GraceStart ==
  ASSUME TypeOK, GraceInv, CountMatchesSlots', state = "waiting", NEW j, NEW n, NEW o,
         joined \subseteq j, j \subseteq Players, \A p \in dc : o[p] = None,
         Start(j, n, o), UNCHANGED <<dc, tick>>
  PROVE  GraceInv'
<1>1. SendFrameTo(j, j, n, o)  BY DEF Start
<1>2. /\ joined' \subseteq j
      /\ \A p \in Players : o[p] = None => out'[p] = None /\ (p \in j => p \in joined')
  BY <1>1, SendKeepsUnbound
<1>3. dc \subseteq joined /\ dc \subseteq Players  BY DEF GraceInv, TypeOK
<1>4. dc' \subseteq joined' /\ \A p \in dc' : out'[p] = None  BY <1>2, <1>3
<1>5. dcTokens = {} /\ \A p \in Players : dcDeadline[p] = 0  BY DEF GraceInv
<1>6. dcTokens' = dc' /\ joined' \subseteq inSim'  BY <1>2, <1>3, <1>5 DEF Start
<1>7. tick + Grace \in Nat /\ tick < tick + Grace /\ tick' = tick
  BY MatchAssumption DEF TypeOK
<1>8. \A p \in dc' : dcDeadline'[p] = tick + Grace  BY <1>3, <1>5 DEF Start
<1>9. state' = "live"  BY DEF Start
<1> QED BY <1>4, <1>6, <1>7, <1>8, <1>9 DEF GraceInv, CountMatchesSlots

(* GraceInv is inductive, given TypeOK and CountMatchesSlots.              *)
LEMMA GraceStep ==
  TypeOK /\ TypeOK' /\ CountMatchesSlots' /\ GraceInv /\ [Next]_vars => GraceInv'
<1> SUFFICES ASSUME TypeOK, TypeOK', CountMatchesSlots', GraceInv, [Next]_vars
             PROVE  GraceInv'
  OBVIOUS
<1>1. CASE state' = "ended"
  BY <1>1 DEF GraceInv, CountMatchesSlots
<1>2. CASE WarmupTimeout /\ state' # "ended"
  <2>1. state = "waiting" /\ Start(joined, joinedCount, out) /\ UNCHANGED <<dc, tick>>
    BY <1>2 DEF WarmupTimeout, StartAborts, Abort, CloseAll
  <2>2. joined \subseteq Players /\ \A p \in dc : out[p] = None
    BY <2>1 DEF TypeOK, GraceInv
  <2> QED BY <2>1, <2>2, GraceStart
<1>3. CASE JoinAccepted /\ state' # "ended"
  <2> DEFINE c == Head(inbox).conn
             p == token[c]
             j == joined \cup {p}
             n == joinedCount + 1
             o == [out EXCEPT ![p] = c]
  <2>1. /\ p \in slots /\ p \notin joined /\ state = "waiting" /\ tick' = tick /\ dc' = dc
        /\ slots' = slots
    BY <1>3 DEF JoinAccepted, Admissible
  <2>2. p \in Players /\ p \notin dc /\ j \subseteq Players /\ dc \subseteq Players
    BY <2>1 DEF TypeOK, GraceInv
  <2>3. \A q \in dc : o[q] = None
    <3>1. \A q \in dc : q \in Players /\ q # p /\ out[q] = None  BY <2>1, <2>2 DEF GraceInv
    <3>2. out \in [Players -> Conns \cup {None}]  BY DEF TypeOK
    <3> QED BY <3>1, <3>2
  <2>4. CASE Start(j, n, o)
    <3> HIDE DEF j, n, o
    <3>1. joined \subseteq j  BY DEF j
    <3> QED BY <2>1, <2>2, <2>3, <2>4, <3>1, GraceStart
  <2>5. CASE /\ SendFrameTo({p}, j, n, o)
             /\ UNCHANGED <<state, dcDeadline, dcTokens, inSim, startCount>>
    <3> HIDE DEF o, n
    <3>1. \A q \in Players : o[q] = None => out'[q] = None /\ (q \in j => q \in joined')
      BY <2>5, SendKeepsUnbound
    <3>2. dc \subseteq joined  BY <2>1 DEF GraceInv
    <3>3. dc' \subseteq joined' /\ \A q \in dc' : out'[q] = None
      BY <2>1, <2>2, <2>3, <3>1, <3>2
    <3> QED BY <2>1, <2>5, <3>3 DEF GraceInv, CountMatchesSlots
  <2>6. Start(j, n, o) \/ (/\ SendFrameTo({p}, j, n, o)
                           /\ UNCHANGED <<state, dcDeadline, dcTokens, inSim, startCount>>)
    BY <1>3 DEF JoinAccepted, StartAborts, Abort, CloseAll
  <2> QED BY <2>4, <2>5, <2>6
<1>4. CASE Reconnect
  <2> DEFINE c == Head(inbox).conn
             p == token[c]
             o == [out EXCEPT ![p] = c]
  <2>1. CASE Reconnectable(p)
    <3>1. /\ dc' = dc \ {p} /\ dcDeadline' = [dcDeadline EXCEPT ![p] = 0]
          /\ dcTokens' = dcTokens \ {p} /\ SendFrameTo(joined \cup {p}, joined, joinedCount, o)
          /\ UNCHANGED <<state, slots, tick, inSim>> /\ state = "live"
      BY <1>4, <2>1 DEF Reconnect, Reconnectable, simVars
    <3>2. dc \subseteq Players /\ dcDeadline \in [Players -> Nat]
          /\ out \in [Players -> Conns \cup {None}]
      BY DEF TypeOK
    <3>3. /\ joined' \subseteq joined
          /\ \A q \in Players : o[q] = None => out'[q] = None /\ (q \in joined => q \in joined')
      <4> HIDE DEF o
      <4> QED BY <3>1, SendKeepsUnbound
    <3>4. \A q \in dc \ {p} : o[q] = None /\ q \in joined /\ dcDeadline'[q] = dcDeadline[q]
      <4> HIDE DEF p, c
      <4> QED BY <3>1, <3>2 DEF GraceInv
    <3>5. dc' \subseteq joined' /\ \A q \in dc' : out'[q] = None  BY <3>1, <3>2, <3>3, <3>4
    <3>6. dcTokens' = dc' /\ joined' \subseteq inSim'  BY <3>1, <3>3 DEF GraceInv
    <3>7. \A q \in dc' : tick' < dcDeadline'[q] /\ dcDeadline'[q] <= tick' + Grace
      BY <3>1, <3>4 DEF GraceInv
    <3> QED BY <3>1, <3>5, <3>6, <3>7 DEF GraceInv, CountMatchesSlots
  <2>2. CASE ~Reconnectable(p)
    BY <1>4, <2>2, GraceQuiet DEF Reconnect, simVars
  <2> QED BY <2>1, <2>2
<1>5. CASE HandleDC
  <2> DEFINE p == Head(inbox).player
             o == [out EXCEPT ![p] = None]
  <2>1. CASE p \in slots \cap joined /\ p \notin dc
    <3>1. /\ dc' = dc \cup {p} /\ SendFrameTo(joined, joined, joinedCount, o)
          /\ UNCHANGED <<state, slots, tick, inSim>> /\ state # "ended"
          /\ \/ /\ state = "live" /\ dcTokens' = dcTokens \cup {p}
                /\ dcDeadline' = [dcDeadline EXCEPT ![p] = tick + Grace]
             \/ state # "live" /\ UNCHANGED <<dcDeadline, dcTokens>>
      BY <1>5, <2>1 DEF HandleDC, Receive, Quiet, simVars
    <3>2. dc \subseteq Players /\ dcDeadline \in [Players -> Nat] /\ p \in Players
          /\ out \in [Players -> Conns \cup {None}]
      BY <2>1 DEF TypeOK
    <3>3. /\ joined' \subseteq joined
          /\ \A q \in Players : o[q] = None => out'[q] = None /\ (q \in joined => q \in joined')
      <4> HIDE DEF o
      <4> QED BY <3>1, SendKeepsUnbound
    <3>4. \A q \in dc' : o[q] = None /\ q \in joined /\ q \in Players
      <4> HIDE DEF p
      <4> QED BY <2>1, <3>1, <3>2 DEF GraceInv
    <3>5. dc' \subseteq joined' /\ \A q \in dc' : out'[q] = None  BY <3>3, <3>4
    <3>6. tick \in Nat /\ Grace \in Nat \ {0}  BY MatchAssumption DEF TypeOK
    <3>7. CASE state = "live"
      <4>1. \A q \in dc' : dcDeadline'[q] = IF q = p THEN tick + Grace ELSE dcDeadline[q]
        <5> HIDE DEF p
        <5> QED BY <3>1, <3>2, <3>7
      <4>2. \A q \in dc' : tick' < dcDeadline'[q] /\ dcDeadline'[q] <= tick' + Grace
        <5> HIDE DEF p
        <5> QED BY <3>1, <3>6, <3>7, <4>1 DEF GraceInv
      <4> QED BY <3>1, <3>3, <3>5, <3>7, <4>2 DEF GraceInv, CountMatchesSlots
    <3>8. CASE state # "live"
      BY <3>1, <3>5, <3>8 DEF GraceInv, CountMatchesSlots
    <3> QED BY <3>7, <3>8
  <2>2. CASE ~(p \in slots \cap joined /\ p \notin dc)
    BY <1>5, <2>2, GraceQuiet DEF HandleDC, Quiet, simVars
  <2> QED BY <2>1, <2>2
<1>6. CASE HandleClientPing
  BY <1>6, GraceBurst DEF HandleClientPing, Quiet, simVars
<1>7. CASE Tick /\ state' # "ended"
  <2> DEFINE j == joined \ Expired
             n == joinedCount - Cardinality(joined \cap Expired)
  <2>1. /\ state = "live" /\ UNCHANGED dcDeadline /\ tick' = tick + 1
        /\ slots' = slots \ Expired /\ dc' = dc \ Expired
        /\ dcTokens' = dcTokens \ Expired /\ inSim' = inSim \ Expired
    BY <1>7 DEF Tick, TickWith, DropDCSlots
  <2>2. PICK told : SendFrameTo(told, j, n, out) /\ UNCHANGED state
    BY <1>7 DEF Tick, TickWith, CloseAll
  <2>3. /\ joined' \subseteq j
        /\ \A q \in Players : out[q] = None => out'[q] = None /\ (q \in j => q \in joined')
    <3> HIDE DEF j, n
    <3> QED BY <2>2, SendKeepsUnbound
  <2>4. /\ dc \subseteq Players /\ dc \subseteq joined /\ dc \subseteq slots
        /\ \A p \in dc : out[p] = None
    BY <2>1 DEF TypeOK, GraceInv
  <2>5. dc' \subseteq joined' /\ \A q \in dc' : out'[q] = None  BY <2>1, <2>3, <2>4
  <2>6. \A q \in dc' : tick + 1 < dcDeadline[q] /\ dcDeadline[q] <= tick + 1 + Grace
    <3>1. \A q \in dc : /\ dcDeadline[q] \in Nat /\ tick < dcDeadline[q]
                        /\ dcDeadline[q] <= tick + Grace
      BY <2>1, <2>4 DEF GraceInv, TypeOK
    <3>2. tick \in Nat /\ Grace \in Nat  BY MatchAssumption DEF TypeOK
    <3>3. \A q \in dc' : q \in dc /\ ~(dcDeadline[q] # 0 /\ tick + 1 >= dcDeadline[q])
      BY <2>1, <2>4 DEF Expired
    <3> QED BY <3>1, <3>2, <3>3
  <2>7. dcTokens' = dc' /\ joined' \subseteq inSim'  BY <2>1, <2>3 DEF GraceInv
  <2> QED BY <2>1, <2>2, <2>5, <2>6, <2>7 DEF GraceInv, CountMatchesSlots
<1>8. CASE Shutdown \/ TickFails \/ HandleAbort
  BY <1>1, <1>8 DEF Shutdown, TickFails, HandleAbort, Abort, CloseAll
<1>9. CASE JoinRefused \/ HandleInput \/ HandleChat \/ HandleRevoke \/ HandleLast
  BY <1>9, GraceQuiet
     DEF JoinRefused, HandleInput, HandleChat, HandleRevoke, HandleLast, Quiet, simVars
<1>10. CASE Absorb \/ Net \/ UNCHANGED vars
  BY <1>10, GraceQuiet DEF Absorb, Net, vars, slotVars, simVars, Producer, Dial, SubmitJoin,
     JoinTimeout, ClientFrame, UnblockInput, Disconnect, WriterSend, WriterClose, RevokeToken,
     SweepZeroPlayers, StopAll
<1> QED BY <1>1, <1>2, <1>3, <1>4, <1>5, <1>6, <1>7, <1>8, <1>9, <1>10
        DEF Next, Run, HandleControl, Terminated

(* A dropped slot keeps its seat, its entity and an armed deadline, from   *)
(* the drop on, through warmup and start, in every match (GraceInv).       *)
THEOREM GraceInvCorrect == Safety => []GraceInv
<1>1. Init => GraceInv
  BY DEF Init, NewMatch, GraceInv
<1> QED BY <1>1, GraceStep, TypeCorrect, CountCorrect, PTL DEF Safety
=============================================================================
