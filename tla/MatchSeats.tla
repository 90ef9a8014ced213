----------------------------- MODULE MatchSeats -----------------------------
(***************************************************************************)
(* What a match promises about the seats it reserves, without connections, *)
(* queues, tokens or ticks.  A seat is reserved until its player takes it, *)
(* which is only possible while the match waits; a player may go away and, *)
(* once the match runs, come back; a seat that is void stays void; and the *)
(* end of the match, which is final, voids them all.                       *)
(***************************************************************************)
CONSTANT Players

VARIABLES phase, seat

Init ==
  /\ phase = "waiting"
  /\ seat = [p \in Players |-> "reserved"]

(* Where a seat may be after a step that leads to the phase `next`.        *)
Reach(s, next) ==
  IF next = "ended" THEN {"void"}
  ELSE CASE s = "reserved" /\ phase = "waiting" ->
              IF next = "waiting" THEN {"reserved", "seated", "void"} ELSE {"seated", "void"}
         [] s = "seated" -> {"seated", "away", "void"}
         [] s = "away" /\ phase = "waiting" -> {"away"}
         [] s = "away" /\ phase = "live" -> {"away", "seated", "void"}
         [] OTHER -> {"void"}

NextPhases ==
  CASE phase = "waiting" -> {"waiting", "live", "ended"}
    [] phase = "live" -> {"live", "ended"}
    [] OTHER -> {}

Step ==
  \E next \in NextPhases :
    /\ phase' = next
    /\ seat' \in [Players -> {"reserved", "seated", "away", "void"}]
    /\ \A p \in Players : seat'[p] \in Reach(seat[p], next)

Spec == Init /\ [][Step]_<<phase, seat>>
=============================================================================
