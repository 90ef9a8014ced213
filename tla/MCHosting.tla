----------------------------- MODULE MCHosting -----------------------------
(* Small instances of Hosting. *)
EXTENDS Hosting

BothOrders == {"main", "harness"}
MainOnly == {"main"}
=============================================================================
