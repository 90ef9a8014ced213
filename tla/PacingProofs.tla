---------------------------- MODULE PacingProofs ----------------------------
(***************************************************************************)
(* What a match sends, and how often, for any players, intervals, bucket   *)
(* sizes and bounds: proofs of the invariants that module Pacing states.   *)
(***************************************************************************)
EXTENDS Pacing, TLAPS

LEMMA FullNat == Full \in Nat
BY PacingAssumption DEF Full

LEMMA FilledType ==
  ASSUME PacingTypeOK, NEW p \in Talkers
  PROVE  /\ Filled(p) \in 0 .. Full
         /\ Filled(p) <= tokens[p] + (tick - filledAt[p])
BY PacingAssumption, FullNat DEF PacingTypeOK, Filled

LEMMA RisesType ==
  ASSUME PacingTypeOK, NEW up \in SUBSET Players, NEW out \in SUBSET Players,
         \A p \in up : score[p] \in 0 .. (MaxScore - 1)
  PROVE  Rises(up, out) \in [Players -> Missing .. MaxScore]
BY PacingAssumption DEF PacingTypeOK, Rises, Missing

-----------------------------------------------------------------------------
(* The variables keep their types; in particular no bucket of chat tokens  *)
(* ever holds more than its burst.                                         *)
THEOREM PacingTypeCorrect == Spec => []PacingTypeOK
<1>1. ASSUME Init PROVE PacingTypeOK
  <2>1. score = [p \in Players |-> 0] /\ score \in [Players -> Missing .. MaxScore]
    BY <1>1, PacingAssumption DEF Init, Missing
  <2>2. board \in [Players -> [Players -> Missing .. MaxScore]]
    BY <1>1, <2>1 DEF Init
  <2>3. lastScores \in [Players -> Missing .. MaxScore]
    BY <1>1, PacingAssumption DEF Init, Missing
  <2>4. watch \in [Talkers -> [from : 0 .. tick, said : Nat \cup {-1}]]
    BY <1>1 DEF Init, Closed
  <2>5. /\ tokens \in [Talkers -> 0 .. Full] /\ filledAt \in [Talkers -> 0 .. tick]
        /\ snapAt \in [Players -> 0 .. tick] /\ misses \in [Players -> Nat]
    BY <1>1, FullNat DEF Init
  <2>6. /\ tick \in 0 .. MaxTick /\ lastBoard \in 0 .. tick
        /\ conn \in [Players -> {"on", "away", "dropped", "expired"}]
    BY <1>1, PacingAssumption DEF Init
  <2>7. pending \in BOOLEAN /\ overBudget \in BOOLEAN
    BY <1>1, Zenon DEF Init
  <2> QED BY <2>1, <2>2, <2>3, <2>4, <2>5, <2>6, <2>7 DEF PacingTypeOK
<1>2. PacingTypeOK /\ [Next]_vars => PacingTypeOK'
  <2> SUFFICES ASSUME PacingTypeOK, [Next]_vars PROVE PacingTypeOK'
    OBVIOUS
  <2> USE DEF PacingTypeOK
  <2>1. ASSUME NEW up \in SUBSET Players, NEW expired \in SUBSET Players,
               NEW out \in SUBSET Players, NEW slow \in BOOLEAN, Tick(up, expired, out, slow)
        PROVE  PacingTypeOK'
    <3>1. tick' \in 0 .. MaxTick /\ tick' = tick + 1 /\ tick \in Nat
      BY <2>1, PacingAssumption DEF Tick
    <3>2. conn' \in [Players -> {"on", "away", "dropped", "expired"}]
      BY <2>1 DEF Tick
    <3>3. score' \in [Players -> Missing .. MaxScore]
      BY <2>1, RisesType DEF Tick
    <3>4. /\ lastScores' \in [Players -> Missing .. MaxScore]
          /\ pending' \in BOOLEAN /\ lastBoard' \in 0 .. tick'
          /\ board' \in [Players -> [Players -> Missing .. MaxScore]]
      <4>1. CASE (pending \/ score' # lastScores) /\ tick' >= lastBoard + Interval
        <5>1. /\ board' = [c \in Players |-> IF conn'[c] = "on" THEN score' ELSE board[c]]
              /\ lastBoard' = tick' /\ lastScores' = score' /\ pending' = FALSE
          BY <2>1, <4>1 DEF Tick, Scoreboard
        <5>2. board' \in [Players -> [Players -> Missing .. MaxScore]]
          BY <3>3, <5>1
        <5>3. lastBoard' \in 0 .. tick'
          BY <3>1, <5>1
        <5>4. pending' \in BOOLEAN
          BY <5>1, Zenon
        <5> QED BY <3>3, <5>1, <5>2, <5>3, <5>4
      <4>2. CASE ~((pending \/ score' # lastScores) /\ tick' >= lastBoard + Interval)
        <5>1. /\ UNCHANGED <<board, lastBoard, lastScores>>
              /\ pending' = (pending \/ score' # lastScores)
          BY <2>1, <4>2 DEF Tick, Scoreboard
        <5>2. pending' \in BOOLEAN
          BY <5>1, Zenon
        <5> QED BY <5>1, <5>2, <3>1
      <4> QED BY <4>1, <4>2
    <3>5. /\ overBudget' \in BOOLEAN
          /\ snapAt' \in [Players -> 0 .. tick'] /\ misses' \in [Players -> Nat]
      <4>1. AfterBeat \in BOOLEAN
        BY DEF AfterBeat
      <4>2. overBudget' = (slow \/ AfterBeat)
        BY <2>1 DEF Tick, Snapshot
      <4>3. overBudget' \in BOOLEAN
        BY <4>2, Zenon
      <4> QED BY <2>1, <3>1, <4>3 DEF Tick, Snapshot
    <3> QED BY <2>1, <3>1, <3>2, <3>3, <3>4, <3>5 DEF Tick, chat
  <2>2. ASSUME NEW p \in Players, Drops(p) \/ Overflows(p) PROVE PacingTypeOK'
    BY <2>2 DEF Drops, Overflows, scores, snaps, chat
  <2>3. ASSUME NEW p \in Players, Reconnects(p) PROVE PacingTypeOK'
    BY <2>3, PacingAssumption DEF Reconnects, Resynced, chat
  <2>4. ASSUME NEW p \in Talkers, Says(p) PROVE PacingTypeOK'
    <3>1. Filled(p) - Refill \in 0 .. Full /\ tick \in 0 .. tick
      BY <2>4, FilledType, FullNat, PacingAssumption DEF Says
    <3>2. watch' \in [Talkers -> [from : 0 .. tick, said : Nat \cup {-1}]]
      <4>1. PICK w \in IF watch[p] = Closed THEN {Closed, [from |-> tick, said |-> 1]}
                       ELSE {[watch[p] EXCEPT !.said = @ + 1]} :
               watch' = [watch EXCEPT ![p] = w]
        BY <2>4 DEF Says
      <4>2. w \in [from : 0 .. tick, said : Nat \cup {-1}]
        <5>1. CASE watch[p] = Closed
          BY <3>1, <4>1, <5>1 DEF Closed
        <5>2. CASE watch[p] # Closed
          <6>1. w = [watch[p] EXCEPT !.said = @ + 1] /\ watch[p] \in [from : 0 .. tick, said : Nat \cup {-1}]
            BY <4>1, <5>2
          <6>2. watch[p].said + 1 \in Nat \cup {-1}
            BY <6>1
          <6> QED BY <6>1, <6>2
        <5> QED BY <5>1, <5>2
      <4> QED BY <4>1, <4>2
    <3> QED BY <2>4, <3>1, <3>2 DEF Says, scores, snaps
  <2>5. ASSUME NEW p \in Talkers, Refused(p) PROVE PacingTypeOK'
    BY <2>5, FilledType, FullNat DEF Refused, scores, snaps
  <2>6. CASE UNCHANGED vars
    BY <2>6 DEF vars, scores, snaps, chat
  <2> HIDE DEF PacingTypeOK
  <2> QED BY <2>1, <2>2, <2>3, <2>4, <2>5, <2>6 DEF Next
<1> QED BY <1>1, <1>2, PTL DEF Spec

-----------------------------------------------------------------------------
(* The scoreboard.  While nothing is pending every connected client has    *)
(* been told the scores as they are; while something is, the last board is *)
(* younger than the interval.                                              *)

BoardInv ==
  /\ pending => tick < lastBoard + Interval
  /\ ~pending => \A c \in On : board[c] = score
  /\ ~pending => score = lastScores \/ \A p \in Players : lastScores[p] = Missing
  /\ \A p \in Players : conn[p] # "expired" => score[p] # Missing

LEMMA BoardStep ==
  ASSUME PacingTypeOK, PacingTypeOK', BoardInv, [Next]_vars
  PROVE  BoardInv'
<1>1. ASSUME NEW up \in SUBSET Players, NEW expired \in SUBSET Players,
             NEW out \in SUBSET Players, NEW slow \in BOOLEAN, Tick(up, expired, out, slow)
      PROVE  BoardInv'
  <2>1. \A p \in Players : conn'[p] # "expired" =>
          conn'[p] = conn[p] /\ p \notin out /\ score'[p] # Missing
    BY <1>1 DEF Tick, Rises, PacingTypeOK, BoardInv, Missing
  <2>2. On' \subseteq On
    BY <2>1 DEF On
  <2>3. CASE (pending \/ score' # lastScores) /\ tick' >= lastBoard + Interval
    <3>1. /\ board' = [c \in Players |-> IF conn'[c] = "on" THEN score' ELSE board[c]]
          /\ lastScores' = score' /\ pending' = FALSE
      BY <1>1, <2>3 DEF Tick, Scoreboard
    <3> QED BY <2>1, <3>1 DEF BoardInv, On
  <2>4. CASE (pending \/ score' # lastScores) /\ ~(tick' >= lastBoard + Interval)
    <3>1. pending' /\ lastBoard' = lastBoard
      BY <1>1, <2>4 DEF Tick, Scoreboard
    <3>2. tick' < lastBoard' + Interval
      BY <2>4, <3>1, PacingAssumption DEF PacingTypeOK
    <3> QED BY <2>1, <3>1, <3>2 DEF BoardInv
  <2>5. CASE ~(pending \/ score' # lastScores)
    <3>1. ~pending' /\ board' = board /\ lastScores' = lastScores /\ score' = lastScores
      BY <1>1, <2>5 DEF Tick, Scoreboard
    <3>2. ASSUME NEW c \in On' PROVE board'[c] = score'
      <4>1. c \in On /\ lastScores[c] # Missing
        BY <2>1, <2>2, <3>1, <3>2 DEF On
      <4>2. board[c] = score /\ score = lastScores
        BY <2>5, <4>1 DEF BoardInv, On
      <4> QED BY <3>1, <4>2
    <3> QED BY <2>1, <3>1, <3>2 DEF BoardInv
  <2> QED BY <2>3, <2>4, <2>5
<1>2. ASSUME NEW p \in Players, Drops(p) \/ Overflows(p) PROVE BoardInv'
  BY <1>2 DEF Drops, Overflows, BoardInv, On, scores, PacingTypeOK
<1>3. ASSUME NEW p \in Players, Reconnects(p) PROVE BoardInv'
  BY <1>3 DEF Reconnects, Resynced, BoardInv, On, PacingTypeOK
<1>4. ASSUME NEW p \in Talkers, Says(p) \/ Refused(p) PROVE BoardInv'
  BY <1>4 DEF Says, Refused, BoardInv, On, scores
<1>5. CASE UNCHANGED vars
  BY <1>5 DEF vars, BoardInv, On, scores
<1> QED BY <1>1, <1>2, <1>3, <1>4, <1>5 DEF Next

(* What a connected client was last told of the players with a seat is out *)
(* of date for less than the scoreboard interval.                          *)
THEOREM BoardFreshCorrect == Spec => []BoardFresh
<1>1. ASSUME Init PROVE BoardInv
  <2>1. \A c \in Players : board[c] = score
    BY <1>1 DEF Init
  <2>2. /\ \A p \in Players : lastScores[p] = Missing
        /\ \A p \in Players : score[p] # Missing
    <3>1. lastScores = [p \in Players |-> Missing] /\ score = [p \in Players |-> 0]
      BY <1>1 DEF Init
    <3> QED BY <3>1 DEF Missing
  <2> QED BY <1>1, <2>1, <2>2 DEF Init, BoardInv, On
<1>2. PacingTypeOK /\ BoardInv => BoardFresh
  BY DEF BoardInv, BoardFresh
<1>3. PacingTypeOK /\ PacingTypeOK' /\ BoardInv /\ [Next]_vars => BoardInv'
  BY BoardStep
<1> QED BY <1>1, <1>2, <1>3, PacingTypeCorrect, PTL DEF Spec

-----------------------------------------------------------------------------
(* The snapshots.  A snapshot is as old as the beats that late ticks have  *)
(* cost it, not counting the one whose flag is still up, and the time      *)
(* since the last beat.                                                    *)

Flagged == IF overBudget THEN 1 ELSE 0

AgeInv ==
  \A c \in On : tick - snapAt[c] <= Every * (misses[c] - Flagged) + (tick % Every)

LEMMA Division ==
  ASSUME NEW t \in Nat, NEW e \in Nat \ {0}
  PROVE  t = e * (t \div e) + (t % e)
OBVIOUS

LEMMA NextMultiple ==
  ASSUME NEW e \in Nat \ {0}, NEW q \in Int, NEW p \in Int, q < p
  PROVE  e * q + e <= e * p
OBVIOUS

LEMMA Distribute ==
  ASSUME NEW e \in Nat, NEW n \in Int
  PROVE  /\ (n + 1) * e = n * e + e /\ n * e \in Int
         /\ e * (n - 1) = e * n - e /\ e * n \in Int
OBVIOUS

(* The phase of the beat counts up and starts over.                        *)
LEMMA Phase ==
  ASSUME NEW t \in Nat, NEW e \in Nat \ {0}
  PROVE  /\ t % e \in 0 .. (e - 1)
         /\ (t + 1) % e = 0 => t % e = e - 1
         /\ (t + 1) % e # 0 => (t + 1) % e = (t % e) + 1
<1> DEFINE q == t \div e
           p == (t + 1) \div e
           r == t % e
           s == (t + 1) % e
<1>1. /\ q \in Int /\ p \in Int
      /\ r \in 0 .. (e - 1) /\ s \in 0 .. (e - 1)
      /\ t = e * q + r /\ t + 1 = e * p + s
  BY Division
<1> SUFFICES (s = 0 => r = e - 1) /\ (s # 0 => s = r + 1)
  BY <1>1
<1> HIDE DEF q, p, r, s
<1>2. CASE p = q
  BY <1>1, <1>2
<1>3. CASE p < q
  <2>1. e * p + e <= e * q
    BY <1>1, <1>3, NextMultiple
  <2> QED BY <1>1, <2>1
<1>4. CASE q < p
  <2>1. e * q + e <= e * p
    BY <1>1, <1>4, NextMultiple
  <2> QED BY <1>1, <2>1
<1> QED BY <1>1, <1>2, <1>3, <1>4

LEMMA AgeStep ==
  ASSUME PacingTypeOK, PacingTypeOK', AgeInv, [Next]_vars
  PROVE  AgeInv'
<1> USE PacingAssumption DEF PacingTypeOK
<1>1. ASSUME NEW up \in SUBSET Players, NEW expired \in SUBSET Players,
             NEW out \in SUBSET Players, NEW slow \in BOOLEAN, Tick(up, expired, out, slow),
             NEW c \in On'
      PROVE  tick' - snapAt'[c] <= Every * (misses'[c] - Flagged') + (tick' % Every)
  <2>1. c \in On /\ c \in Players /\ conn'[c] = "on"
    BY <1>1 DEF On, Tick
  <2>2. tick' = tick + 1 /\ tick \in Nat
    BY <1>1 DEF Tick
  <2>3. /\ tick % Every \in 0 .. (Every - 1)
        /\ tick' % Every = 0 => tick % Every = Every - 1
        /\ tick' % Every # 0 => tick' % Every = (tick % Every) + 1
    BY <2>2, Phase
  <2>4. tick - snapAt[c] <= Every * (misses[c] - Flagged) + (tick % Every)
    BY <2>1 DEF AgeInv
  <2>5. /\ misses[c] \in Nat /\ misses'[c] \in Nat /\ snapAt[c] \in Nat
        /\ Flagged \in {0, 1} /\ Every \in Nat
    BY <2>1 DEF Flagged
  <2>6. CASE tick' % Every = 0 /\ ~overBudget
    <3>1. snapAt'[c] = tick' /\ misses'[c] = Flagged'
      BY <1>1, <2>1, <2>6 DEF Tick, Snapshot, AfterBeat, Flagged
    <3>2. Every * (misses'[c] - Flagged') = 0
      BY <2>5, <3>1
    <3> QED BY <2>2, <2>6, <3>1, <3>2
  <2>7. CASE tick' % Every = 0 /\ overBudget
    <3>1. snapAt'[c] = snapAt[c] /\ Flagged = 1 /\ misses'[c] - Flagged' = misses[c]
      BY <1>1, <2>1, <2>5, <2>7 DEF Tick, Snapshot, AfterBeat, Flagged
    <3>2. Every * (misses[c] - 1) = Every * misses[c] - Every /\ Every * misses[c] \in Int
      BY <2>5, Distribute
    <3>3. tick - snapAt[c] <= (Every * misses[c] - Every) + (Every - 1)
      BY <2>3, <2>4, <2>7, <3>1, <3>2
    <3>4. tick' - snapAt'[c] <= Every * misses[c]
      BY <2>2, <2>5, <3>1, <3>2, <3>3
    <3>5. Every * (misses'[c] - Flagged') = Every * misses[c]
      BY <3>1
    <3>6. Every * (misses'[c] - Flagged') + (tick' % Every) = Every * misses[c] + 0
      BY <2>7, <3>5
    <3> QED BY <3>2, <3>4, <3>6
  <2>8. CASE tick' % Every # 0
    <3>1. snapAt'[c] = snapAt[c] /\ misses'[c] - Flagged' = misses[c] - Flagged
      BY <1>1, <2>1, <2>5, <2>8 DEF Tick, Snapshot, AfterBeat, Flagged
    <3>2. Every * (misses[c] - Flagged) \in Int
      BY <2>5
    <3>3. tick' - snapAt'[c] <= Every * (misses[c] - Flagged) + (tick' % Every)
      BY <2>2, <2>3, <2>4, <2>5, <2>8, <3>1, <3>2
    <3> QED BY <3>1, <3>3
  <2> QED BY <2>6, <2>7, <2>8
<1>2. ASSUME NEW p \in Players, Drops(p) \/ Overflows(p) PROVE AgeInv'
  BY <1>2 DEF Drops, Overflows, AgeInv, On, snaps, Flagged
<1>3. ASSUME NEW p \in Players, Reconnects(p), NEW c \in On'
      PROVE  tick' - snapAt'[c] <= Every * (misses'[c] - Flagged') + (tick' % Every)
  <2>1. CASE c = p
    <3>1. misses'[c] - Flagged' = 0 /\ snapAt'[c] = tick /\ tick' = tick
      BY <1>3, <2>1 DEF Reconnects, Flagged, On
    <3>2. tick % Every >= 0 /\ tick \in Nat
      BY Phase
    <3> QED BY <3>1, <3>2
  <2>2. CASE c # p
    BY <1>3, <2>2 DEF Reconnects, AgeInv, Flagged, On
  <2> QED BY <2>1, <2>2
<1>4. ASSUME NEW p \in Talkers, Says(p) \/ Refused(p) PROVE AgeInv'
  BY <1>4 DEF Says, Refused, AgeInv, On, snaps, Flagged
<1>5. CASE UNCHANGED vars
  BY <1>5 DEF vars, AgeInv, On, snaps, Flagged
<1>6. (\A c \in On' : tick' - snapAt'[c] <= Every * (misses'[c] - Flagged') + (tick' % Every))
        => AgeInv'
  BY DEF AgeInv
<1> HIDE DEF PacingTypeOK
<1> QED BY <1>1, <1>2, <1>3, <1>4, <1>5, <1>6 DEF Next

(* A connected client's last snapshot is younger than a beat, and a beat   *)
(* for each interval with a late tick.                                     *)
THEOREM SnapshotAgeCorrect == Spec => []SnapshotAge
<1>1. ASSUME Init PROVE AgeInv
  <2>1. Every * 0 = 0
    BY PacingAssumption
  <2>2. tick = 0 /\ Flagged = 0 /\ \A c \in Players : snapAt[c] = 0 /\ misses[c] = 0
    BY <1>1 DEF Init, Flagged
  <2>3. ASSUME NEW c \in On
        PROVE  tick - snapAt[c] <= Every * (misses[c] - Flagged) + (tick % Every)
    <3>1. tick - snapAt[c] = 0 /\ misses[c] - Flagged = 0
      BY <2>2 DEF On
    <3>2. tick % Every \in 0 .. (Every - 1)
      BY <2>2, PacingAssumption, Phase
    <3> QED BY <2>1, <3>1, <3>2, PacingAssumption
  <2> QED BY <2>3 DEF AgeInv
<1>2. ASSUME PacingTypeOK, AgeInv PROVE SnapshotAge
  <2>1. SUFFICES ASSUME NEW c \in On PROVE tick - snapAt[c] < Every * (1 + misses[c])
    BY DEF SnapshotAge
  <2>2. tick \in Nat /\ snapAt[c] \in Nat /\ misses[c] \in Nat /\ Every \in Nat \ {0}
    BY <1>2, <2>1, PacingAssumption DEF PacingTypeOK, On
  <2>3. tick % Every \in 0 .. (Every - 1)
    BY <2>2, Phase
  <2>4. Every * (misses[c] - Flagged) <= Every * misses[c]
    BY <2>2 DEF Flagged
  <2>5. tick - snapAt[c] <= Every * (misses[c] - Flagged) + (tick % Every)
    BY <1>2, <2>1 DEF AgeInv
  <2>6. Every * (1 + misses[c]) = Every + Every * misses[c]
    BY <2>2
  <2>7. Every * misses[c] \in Int /\ Every * (misses[c] - Flagged) \in Int
    BY <2>2 DEF Flagged
  <2> QED BY <2>2, <2>3, <2>4, <2>5, <2>6, <2>7
<1>3. PacingTypeOK /\ PacingTypeOK' /\ AgeInv /\ [Next]_vars => AgeInv'
  BY AgeStep
<1> QED BY <1>1, <1>2, <1>3, PacingTypeCorrect, PTL DEF Spec

-----------------------------------------------------------------------------
(* Chat.  What has been said in a window, and what the bucket still holds, *)
(* is at most a full bucket and what has flowed into it since.             *)

MeterInv ==
  \A p \in Talkers : watch[p] # Closed =>
    /\ watch[p].from <= filledAt[p]
    /\ watch[p].said * Refill + tokens[p] <= Full + (filledAt[p] - watch[p].from)

LEMMA MeterStep ==
  ASSUME PacingTypeOK, PacingTypeOK', MeterInv, [Next]_vars
  PROVE  MeterInv'
<1> USE PacingAssumption, FullNat DEF PacingTypeOK
<1>1. ASSUME NEW p \in Talkers, Says(p), NEW q \in Talkers, watch'[q] # Closed
      PROVE  /\ watch'[q].from <= filledAt'[q]
             /\ watch'[q].said * Refill + tokens'[q] <= Full + (filledAt'[q] - watch'[q].from)
  <2>1. PICK w \in IF watch[p] = Closed THEN {Closed, [from |-> tick, said |-> 1]}
                   ELSE {[watch[p] EXCEPT !.said = @ + 1]} :
           watch' = [watch EXCEPT ![p] = w]
    BY <1>1 DEF Says
  <2>2. CASE q # p
    BY <1>1, <2>1, <2>2 DEF Says, MeterInv
  <2>3. CASE q = p /\ watch[p] = Closed
    <3>1. watch'[q] = [from |-> tick, said |-> 1]
      BY <1>1, <2>1, <2>3
    <3>2. Filled(p) \in 0 .. Full /\ tokens'[q] = Filled(p) - Refill /\ filledAt'[q] = tick
      BY <1>1, <2>3, FilledType DEF Says
    <3> QED BY <3>1, <3>2
  <2>4. CASE q = p /\ watch[p] # Closed
    <3> DEFINE said == watch[p].said
               from == watch[p].from
    <3>1. said \in Int /\ from \in Nat /\ watch'[q].said = said + 1 /\ watch'[q].from = from
      <4>1. watch[p] \in [from : 0 .. tick, said : Nat \cup {-1}]
        OBVIOUS
      <4> QED BY <2>1, <2>4, <4>1
    <3>2. /\ Filled(p) \in 0 .. Full /\ tokens'[q] = Filled(p) - Refill /\ filledAt'[q] = tick
          /\ Filled(p) <= tokens[p] + (tick - filledAt[p])
      BY <1>1, <2>4, FilledType DEF Says
    <3>3. from <= filledAt[p] /\ said * Refill + tokens[p] <= Full + (filledAt[p] - from)
      BY <2>4 DEF MeterInv
    <3>4. (said + 1) * Refill = said * Refill + Refill /\ said * Refill \in Int
      BY <3>1, Distribute
    <3> HIDE DEF said, from
    <3> QED BY <3>1, <3>2, <3>3, <3>4
  <2> QED BY <2>2, <2>3, <2>4
<1>2. ASSUME NEW p \in Talkers, Refused(p), NEW q \in Talkers, watch'[q] # Closed
      PROVE  /\ watch'[q].from <= filledAt'[q]
             /\ watch'[q].said * Refill + tokens'[q] <= Full + (filledAt'[q] - watch'[q].from)
  <2>1. /\ watch' = watch
        /\ Filled(p) \in 0 .. Full /\ Filled(p) <= tokens[p] + (tick - filledAt[p])
        /\ tokens' = [tokens EXCEPT ![p] = Filled(p)] /\ filledAt' = [filledAt EXCEPT ![p] = tick]
    BY <1>2, FilledType DEF Refused
  <2>2. watch[q].from \in Nat /\ watch[q].said * Refill \in Int
    <3>1. watch[q] \in [from : 0 .. tick, said : Nat \cup {-1}]
      OBVIOUS
    <3> QED BY <3>1
  <2>3. /\ watch[q].from <= filledAt[q]
        /\ watch[q].said * Refill + tokens[q] <= Full + (filledAt[q] - watch[q].from)
    BY <1>2, <2>1 DEF MeterInv
  <2> QED BY <2>1, <2>2, <2>3
<1>3. ASSUME UNCHANGED chat PROVE MeterInv'
  BY <1>3 DEF chat, MeterInv
<1> QED BY <1>1, <1>2, <1>3 DEF Next, MeterInv, Tick, Drops, Overflows, Reconnects, vars

(* In any window of time a player says no more than the burst and what the *)
(* bucket was refilled with.                                               *)
THEOREM RateBoundCorrect == Spec => []RateBound
<1>1. Init => MeterInv
  BY DEF Init, MeterInv
<1>2. ASSUME PacingTypeOK, MeterInv PROVE RateBound
  <2>1. SUFFICES ASSUME NEW p \in Talkers, watch[p] # Closed
                 PROVE  watch[p].said * Refill <= Full + (tick - watch[p].from)
    BY DEF RateBound
  <2>2. watch[p].from \in Nat /\ watch[p].said * Refill \in Int
    <3>1. watch[p] \in [from : 0 .. tick, said : Nat \cup {-1}]
      BY <1>2 DEF PacingTypeOK
    <3> QED BY <3>1, PacingAssumption
  <2>3. tokens[p] \in 0 .. Full /\ filledAt[p] \in 0 .. tick /\ tick \in Nat
    BY <1>2, PacingAssumption DEF PacingTypeOK
  <2>4. watch[p].said * Refill + tokens[p] <= Full + (filledAt[p] - watch[p].from)
    BY <1>2, <2>1 DEF MeterInv
  <2> QED BY <2>2, <2>3, <2>4, FullNat
<1>3. PacingTypeOK /\ PacingTypeOK' /\ MeterInv /\ [Next]_vars => MeterInv'
  BY MeterStep
<1> QED BY <1>1, <1>2, <1>3, PacingTypeCorrect, PTL DEF Spec
=============================================================================
