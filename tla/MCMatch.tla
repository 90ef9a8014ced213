------------------------------ MODULE MCMatch ------------------------------
(* Small instances of MatchActor. *)
EXTENDS MatchActor, TLC

CONSTANTS p1, p2, p3, c1, c2, c3

TwoPlayers == {p1, p2}
ThreePlayers == {p1, p2, p3}
TwoConns   == {c1, c2}
ThreeConns == {c1, c2, c3}

InputOnly  == {"input"}
PingOnly   == {"ping"}
InputPing  == {"input", "ping"}
InputChat  == {"input", "chat"}

Nobody == {}
OnlyP1 == {p1}
Both   == {p1, p2}

(* Connections are interchangeable in the safety runs, and so are the      *)
(* players, of whom all or none may be kicked.                             *)
DuelSymmetry == Permutations(ThreeConns) \cup Permutations(TwoPlayers)
FullSymmetry == Permutations(ThreeConns) \cup Permutations(ThreePlayers)
=============================================================================
