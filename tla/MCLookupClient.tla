--------------------------- MODULE MCLookupClient ---------------------------
(***************************************************************************)
(* An instance of LookupClient for TLC: a server on the other node, and    *)
(* runs of qrtr-lookup that list everything, or one service.               *)
(***************************************************************************)
EXTENDS LookupClient

Srv(s, i) == [service |-> s, instance |-> i]

\* Port 1 of the other node offers one service, then perhaps another.
Changing == [a \in Addrs |-> IF a = <<0, 1>> THEN {Srv(1, 1), Srv(2, 1)} ELSE {}]

\* qrtr-lookup without arguments, or with one service.
Lookups == [p \in Ports |-> IF p = Asker THEN {Srv(0, 0), Srv(2, 0)} ELSE {}]

Pkt(cmd, from, addr, s, i) ==
  [cmd |-> cmd, from |-> from, addr |-> addr, service |-> s, instance |-> i]

\* A server without a service, a remote lookup and its end.
Misaddressed ==
  { Pkt("new_server", <<0, CtrlPort>>, <<0, 1>>, 0, 0),
    Pkt("new_lookup", <<0, CtrlPort>>, <<0, 0>>, 0, 0),
    Pkt("del_lookup", <<0, CtrlPort>>, <<0, 0>>, 0, 0),
    Pkt("ping", <<0, CtrlPort>>, <<0, 0>>, 0, 0) }
=============================================================================
