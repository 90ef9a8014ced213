---------------------------- MODULE MatchCensus ----------------------------
(***************************************************************************)
(* What the registry promises about the matches of a process, without      *)
(* locks, goroutines, lobby or shutdown order: never more than the cap,    *)
(* none twice, none once it has closed, and when it says it has drained    *)
(* there is none and there will be none.                                   *)
(***************************************************************************)
EXTENDS FiniteSets, Naturals

CONSTANTS Matches, MaxMatches

VARIABLES live, used, door

Init == live = {} /\ used = {} /\ door = "open"

Open(m) ==
  /\ door = "open" /\ m \notin used /\ Cardinality(live) < MaxMatches
  /\ live' = live \cup {m} /\ used' = used \cup {m} /\ UNCHANGED door

End(m) == m \in live /\ live' = live \ {m} /\ UNCHANGED <<used, door>>

Close   == door = "open" /\ door' = "closed" /\ UNCHANGED <<live, used>>
Drained == door = "closed" /\ live = {} /\ door' = "drained" /\ UNCHANGED <<live, used>>

Next == (\E m \in Matches : Open(m) \/ End(m)) \/ Close \/ Drained

Spec == Init /\ [][Next]_<<live, used, door>>
=============================================================================
