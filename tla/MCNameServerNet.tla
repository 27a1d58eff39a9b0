-------------------------- MODULE MCNameServerNet ---------------------------
(* Instances of NameServerNet for TLC: two nodes. *)
EXTENDS NameServerNet

Srv(s, i) == [service |-> s, instance |-> i]

\* Port 1 of node 1 changes its service; port 2 of node 2 observes it.
Changing == [a \in Addrs |-> IF a = <<1, 1>> THEN {Srv(1, 1), Srv(1, 2)} ELSE {}]
AllOfOne == [a \in Addrs |-> IF a = <<2, 2>> THEN {Srv(1, 0)} ELSE {}]
=============================================================================
