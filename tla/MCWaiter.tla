------------------------------ MODULE MCWaiter ------------------------------
(***************************************************************************)
(* Waiter for TLC: three tickets, so that one may stand between two alike, *)
(* and a poll set that grows at every second one.                          *)
(***************************************************************************)
EXTENDS Waiter
=============================================================================
