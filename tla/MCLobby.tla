------------------------------ MODULE MCLobby ------------------------------
(* Small instances of Lobby. *)
EXTENDS Lobby, TLC

CONSTANTS s1, s2, s3, r1, r2

TwoSessions   == {s1, s2}
ThreeSessions == {s1, s2, s3}
OneRoom  == {r1}
TwoRooms == {r1, r2}

(* Sessions and rooms are interchangeable. *)
FullSymmetry == Permutations({s1, s2, s3}) \cup Permutations({r1, r2})
=============================================================================
