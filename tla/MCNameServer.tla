---------------------------- MODULE MCNameServer ----------------------------
(***************************************************************************)
(* Instances of NameServer for TLC: the local node 1 (as qrtr-ns is        *)
(* started), at most one remote node, one or two ports.                    *)
(***************************************************************************)
EXTENDS NameServer

Srv(s, i) == [service |-> s, instance |-> i]

\* Port 1 is a server on either node, one service each; port 2 is a client.
OneEach == [a \in Addrs |-> IF a[2] = 1 THEN {Srv(a[1] + 1, 1)} ELSE {}]

\* Local port 1 publishes one instance of a service, or another.
Changing == [a \in Addrs |-> IF a = <<1, 1>> THEN {Srv(1, 1), Srv(1, 2)} ELSE {}]

\* Local port 2 observes everything, one instance of a service, or all of them.
ObserveSome == [p \in Ports |-> IF p = 2 THEN {Srv(0, 0), Srv(1, 1), Srv(2, 0)} ELSE {}]
ObserveTwo  == [p \in Ports |-> IF p = 2 THEN {Srv(0, 0), Srv(2, 0)} ELSE {}]
ObserveOne  == [p \in Ports |-> IF p = 2 THEN {Srv(1, 1)} ELSE {}]

\* Port 2 of either node opens sessions with local servers.
BothClients == {<<1, 2>>, <<0, 2>>}

Pkt(cmd, from, addr, s, i) ==
  [cmd |-> cmd, from |-> from, addr |-> addr, service |-> s, instance |-> i]

\* Misaddressed packets: the remote node names local addresses, a local socket
\* reports the close of another, service 0, a remote lookup, an ignored packet.
Misaddressed ==
  { Pkt("new_server", <<0, CtrlPort>>, <<1, 1>>, 7, 1),
    Pkt("del_server", <<0, CtrlPort>>, <<1, 1>>, 1, 1),
    Pkt("del_client", <<0, CtrlPort>>, <<1, 1>>, 0, 0),
    Pkt("del_client", <<1, 2>>, <<1, 1>>, 0, 0),
    Pkt("new_server", <<0, CtrlPort>>, <<0, 1>>, 0, 0),
    Pkt("new_lookup", <<0, CtrlPort>>, <<0, 0>>, 0, 0),
    Pkt("ping", <<0, CtrlPort>>, <<0, 0>>, 0, 0) }
=============================================================================
