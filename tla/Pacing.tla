------------------------------- MODULE Pacing -------------------------------
(***************************************************************************)
(* What a live match sends its players and how often: scoreboards at most  *)
(* every few ticks, a snapshot on every beat unless a tick was late, chat  *)
(* as each player's token bucket allows.  Players drop, come back within   *)
(* their grace, lose their seat to a full channel, or are dropped for good.*)
(*                                                                         *)
(* What a scoreboard says of a player, its lives and score, only ever      *)
(* moves on: lives never rise and the score only falls with a life.  It is *)
(* a number that grows here.                                               *)
(***************************************************************************)
EXTENDS Integers

CONSTANTS
  Players,
  Talkers,      \* the players that chat
  Interval,     \* ScoreboardMinIntervalTicks
  Every,        \* snapshotEveryTicks
  Burst,        \* chatBurst
  Refill,       \* chatRefillTicks
  MaxScore, MaxTick   \* bounds of the model

ASSUME PacingAssumption ==
  /\ Talkers \subseteq Players
  /\ Interval \in Nat \ {0} /\ Every \in Nat \ {0}
  /\ Burst \in Nat \ {0} /\ Refill \in Nat \ {0}
  /\ MaxScore \in Nat /\ MaxTick \in Nat

VARIABLES
  tick,
  conn,        \* "on", "away" (DC-grace), "dropped" (channel full), "expired"
  score,       \* what the sim says of a player, Missing when it has no record
  lastScores,  \* m.lastScores
  pending,     \* m.pendingScoreboard
  lastBoard,   \* m.lastScoreboardTick
  board,       \* the scoreboard a client was last sent
  overBudget,
  snapAt,      \* the tick of the snapshot a client was last sent
  misses,      \* auxiliary: beats since then that a late tick may have cost it
  tokens,      \* chatBuckets, in refill ticks: a line costs Refill
  filledAt,    \* chatBuckets.lastTick
  watch        \* auxiliary: a window opened with any line, and the lines said in it

scores == <<score, lastScores, pending, lastBoard, board>>
snaps  == <<overBudget, snapAt, misses>>
chat   == <<tokens, filledAt, watch>>
vars   == <<tick, conn, scores, snaps, chat>>

Missing == -1
On      == {p \in Players : conn[p] = "on"}
Seats   == {p \in Players : conn[p] \in {"on", "away"}}      \* slot.Joined
Full    == Burst * Refill
Closed  == [from |-> 0, said |-> -1]                         \* no window is open

Init ==
  /\ tick = 0 /\ conn = [p \in Players |-> "on"]
  /\ score = [p \in Players |-> 0] /\ lastScores = [p \in Players |-> Missing]
  /\ pending = FALSE /\ lastBoard = 0
  /\ board = [c \in Players |-> score]
  /\ overBudget = FALSE
  /\ snapAt = [c \in Players |-> 0] /\ misses = [c \in Players |-> 0]
  /\ tokens = [p \in Talkers |-> Full] /\ filledAt = [p \in Talkers |-> 0]
  /\ watch = [p \in Talkers |-> Closed]

-----------------------------------------------------------------------------
(* A tick: lives and scores change, players whose grace is over are        *)
(* removed (the sim keeps the record of one that is eliminated), the       *)
(* scoreboard is considered, then the snapshot; the time it took is        *)
(* recorded last.                                                          *)

Rises(up, out) ==
  [p \in Players |-> IF p \in out THEN Missing
                     ELSE IF p \in up THEN score[p] + 1 ELSE score[p]]

Scoreboard ==
  IF (pending \/ score' # lastScores) /\ tick' >= lastBoard + Interval
  THEN /\ board' = [c \in Players |-> IF conn'[c] = "on" THEN score' ELSE board[c]]
       /\ lastBoard' = tick' /\ lastScores' = score' /\ pending' = FALSE
  ELSE /\ pending' = (pending \/ score' # lastScores)
       /\ UNCHANGED <<board, lastBoard, lastScores>>

(* Mutation: a suppressed beat leaves the flag up. *)
AfterBeatSticky == overBudget
AfterBeat == IF tick' % Every = 0 THEN FALSE ELSE overBudget

Snapshot(slow) ==
  LET sent == {c \in Players : tick' % Every = 0 /\ ~overBudget /\ conn'[c] = "on"}
  IN /\ snapAt' = [c \in Players |-> IF c \in sent THEN tick' ELSE snapAt[c]]
     /\ misses' = [c \in Players |->
                     (IF c \in sent THEN 0 ELSE misses[c])
                       + (IF slow /\ ~AfterBeat THEN 1 ELSE 0)]
     /\ overBudget' = (slow \/ AfterBeat)

Tick(up, expired, out, slow) ==
  /\ tick < MaxTick
  /\ expired \subseteq Seats \ On /\ out \subseteq expired
  /\ \A p \in up : score[p] \in 0 .. (MaxScore - 1)
  /\ tick' = tick + 1
  /\ conn' = [p \in Players |-> IF p \in expired THEN "expired" ELSE conn[p]]
  /\ score' = Rises(up, out)
  /\ Scoreboard
  /\ Snapshot(slow)
  /\ UNCHANGED chat

-----------------------------------------------------------------------------
(* Between ticks.                                                          *)

Drops(p) ==              \* handleDC
  /\ conn[p] = "on"
  /\ conn' = [conn EXCEPT ![p] = "away"]
  /\ UNCHANGED <<tick, scores, snaps, chat>>

Overflows(p) ==          \* a frame finds the channel full: the seat is lost
  /\ conn[p] = "on"
  /\ conn' = [conn EXCEPT ![p] = "dropped"]
  /\ UNCHANGED <<tick, scores, snaps, chat>>

(* Mutation: a client that comes back is not sent the scoreboard. *)
ResyncedWithoutBoard(c) == board
Resynced(c) == [board EXCEPT ![c] = score]

Reconnects(p) ==         \* Resync, MapInit, Snapshot, Scoreboard
  /\ conn[p] = "away"
  /\ conn' = [conn EXCEPT ![p] = "on"]
  /\ board' = Resynced(p)
  /\ snapAt' = [snapAt EXCEPT ![p] = tick]
  /\ misses' = [misses EXCEPT ![p] = IF overBudget THEN 1 ELSE 0]
  /\ UNCHANGED <<tick, score, lastScores, pending, lastBoard, overBudget, chat>>

(* Mutation: a bucket fills beyond its size. *)
FilledOver(p) == tokens[p] + (tick - filledAt[p])
Filled(p) ==
  LET t == tokens[p] + (tick - filledAt[p]) IN IF t > Full THEN Full ELSE t

(* With exactly one token the sum of fractions may come out below it.  A   *)
(* window of time may be opened with any line.                             *)
Says(p) ==
  /\ conn[p] # "expired" /\ Filled(p) >= Refill
  /\ tokens' = [tokens EXCEPT ![p] = Filled(p) - Refill]
  /\ filledAt' = [filledAt EXCEPT ![p] = tick]
  /\ watch' \in
       {[watch EXCEPT ![p] = w] :
          w \in IF watch[p] = Closed THEN {Closed, [from |-> tick, said |-> 1]}
               ELSE {[watch[p] EXCEPT !.said = @ + 1]}}
  /\ UNCHANGED <<tick, conn, scores, snaps>>

Refused(p) ==
  /\ conn[p] # "expired" /\ Filled(p) <= Refill
  /\ tokens' = [tokens EXCEPT ![p] = Filled(p)]
  /\ filledAt' = [filledAt EXCEPT ![p] = tick]
  /\ UNCHANGED <<tick, conn, scores, snaps, watch>>

Next ==
  \/ \E up, expired, out \in SUBSET Players, slow \in BOOLEAN : Tick(up, expired, out, slow)
  \/ \E p \in Players : Drops(p) \/ Overflows(p) \/ Reconnects(p)
  \/ \E p \in Talkers : Says(p) \/ Refused(p)

Spec == Init /\ [][Next]_vars

-----------------------------------------------------------------------------
(* Every variable has its type; no bucket holds more than its burst.       *)
PacingTypeOK ==
  /\ tick \in 0 .. MaxTick
  /\ conn \in [Players -> {"on", "away", "dropped", "expired"}]
  /\ score \in [Players -> Missing .. MaxScore]
  /\ lastScores \in [Players -> Missing .. MaxScore]
  /\ pending \in BOOLEAN /\ lastBoard \in 0 .. tick
  /\ board \in [Players -> [Players -> Missing .. MaxScore]]
  /\ overBudget \in BOOLEAN
  /\ snapAt \in [Players -> 0 .. tick] /\ misses \in [Players -> Nat]
  /\ tokens \in [Talkers -> 0 .. Full] /\ filledAt \in [Talkers -> 0 .. tick]
  /\ watch \in [Talkers -> [from : 0 .. tick, said : Nat \cup {-1}]]

(* What a connected client was last told of the players that still have a  *)
(* seat is out of date for less than the scoreboard interval: no change is *)
(* forgotten by the rate limit, nor by a drop and a reconnect around it.   *)
BoardFresh ==
  \A c \in On, p \in Seats :
    board[c][p] # score[p] => tick < lastBoard + Interval

(* A connected client's last snapshot is younger than a beat, and a beat   *)
(* for each interval with a late tick: one late tick, or many in one beat, *)
(* cost one snapshot, and a reconnect costs none.                          *)
SnapshotAge == \A c \in On : tick - snapAt[c] < Every * (1 + misses[c])

(* In any window of time, whichever line opens it, a player says no more   *)
(* than the burst and what the bucket was refilled with, also across a     *)
(* reconnect.                                                              *)
RateBound ==
  \A p \in Talkers : watch[p] # Closed =>
    watch[p].said * Refill <= Full + (tick - watch[p].from)
=============================================================================
