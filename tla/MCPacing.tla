------------------------------ MODULE MCPacing ------------------------------
(* Small instances of Pacing. *)
EXTENDS Pacing

CONSTANTS p1, p2

TwoPlayers == {p1, p2}
OnlyP1 == {p1}
=============================================================================
