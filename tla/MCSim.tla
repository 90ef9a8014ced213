------------------------------- MODULE MCSim -------------------------------
(* Small instances of Sim. *)
EXTENDS Sim

TwoPlayers == {1, 2}
OneGenerator == {3}
NoGenerators == {}
=============================================================================
