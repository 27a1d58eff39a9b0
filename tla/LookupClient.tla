---------------------------- MODULE LookupClient ----------------------------
(***************************************************************************)
(* qrtr/src/lookup.c: a run of qrtr-lookup, composed with the name server  *)
(* it asks.  A run opens a socket, sends NEW_LOOKUP and prints every       *)
(* NEW_SERVER it receives, until the end marker (exit 0) or one second     *)
(* without a packet (exit 1).                                              *)
(*                                                                         *)
(* Here the packets that ns.c sends to the client are kept one by one, in  *)
(* `mail`, and the runs follow one another on one port: the kernel gives a *)
(* new socket the lowest free port, so packets about the previous run may  *)
(* still be queued at the name server when the next one asks.              *)
(***************************************************************************)
EXTENDS NameServer, SequencesExt

CONSTANTS
  Asker,      \* the port the runs get, used by nothing else
  MaxMail     \* bound: the name server waits when a client in its loop has this much to read

ASSUME ClientConstants ==
  /\ IsFiniteSet(RemoteNodes) /\ IsFiniteSet(Ports)
  /\ Asker \in Ports
  /\ Offers[<<LocalNode, Asker>>] = {}
  /\ MaxMail \in Nat \ {0}

VARIABLES
  phase,      \* "idle", "open" (the socket), "asked" (in the loop), "done"
  mail,       \* packets waiting at the client's socket
  printed,    \* the entries printed
  result,     \* "listed" (exit 0), "timeout" or "failed" (exit 1), or "none" yet
  \* What the properties compare with:
  fresh,      \* whether nothing of an earlier run was left when this one asked
  seen,       \* every entry registered at some moment of this run
  snapshot    \* what matched when the name server took up the request

client     == <<phase, mail, printed, result, fresh, seen, snapshot>>
clientVars == <<vars, client>>

Socket == Local(Asker)

\* A packet to the client; the end marker is a NEW_SERVER with all fields zero.
Notice(cmd, a, srv) == [cmd |-> cmd, addr |-> a, server |-> srv]
EndMarker == Notice("new_server", Unset, Nothing)

IsEnd(pkt) == pkt.server = Nothing /\ pkt.addr = Unset

\* Entries of a registry, all of them and those that match filter f.
Entries(reg)     == { [addr |-> a, server |-> reg[a]] : a \in { b \in Addrs : reg[b] # NoServer } }
Matching(reg, f) == { e \in Entries(reg) : Observes(f, e.server) }

-----------------------------------------------------------------------------
(* What the name server sends to the client's socket.                      *)

Reads == phase \in {"open", "asked"}

\* sendto, which fails when nobody has the port; a run that left its loop reads
\* no more.
Deliver(pkts) == mail' = IF Reads THEN mail \o pkts ELSE mail

\* The answer to NEW_LOOKUP: what matches, then the end marker (ns.c:529-543).
AnswerEndFirst(f) ==
  LET found == { a \in Addrs : Registered(a) /\ ServerMatch(servers[a], f) }
  IN  <<EndMarker>> \o SetToSeq({ Notice("new_server", a, servers[a]) : a \in found })

Answer(f) ==
  LET found == { a \in Addrs : Registered(a) /\ ServerMatch(servers[a], f) }
  IN  SetToSeq({ Notice("new_server", a, servers[a]) : a \in found }) \o <<EndMarker>>

\* The loop at the end of ctrl_cmd_new_server, reached once server_add
\* succeeded (ns.c:463-480).
NewsUnchecked(pkt) ==
  LET a == Subject(pkt)
      srv == [service |-> pkt.service, instance |-> pkt.instance]
  IN  IF Genuine(pkt, a) /\ Asker \in Reached(lookups, srv)
      THEN <<Notice("new_server", a, srv)>> ELSE << >>

News(pkt) ==
  LET a == Subject(pkt)
      srv == [service |-> pkt.service, instance |-> pkt.instance]
  IN  IF Genuine(pkt, a) /\ Addable(pkt.service, a[2]) /\ Asker \in Reached(lookups, srv)
      THEN <<Notice("new_server", a, srv)>> ELSE << >>

\* server_del: the servers this step removes, to the lookups it leaves.
Departures ==
  LET gone == { a \in Addrs : Registered(a) /\ servers'[a] = NoServer }
  IN  SetToSeq({ Notice("del_server", a, servers[a]) :
                   a \in { b \in gone : Asker \in Reached(lookups', servers[b]) } })

\* What has been registered while a run lasts.
Remember == seen' = IF Reads THEN seen \cup Entries(servers') ELSE seen

Request(pkt) == [service |-> pkt.service, instance |-> pkt.instance]

\* ctrl_port_fn, with what it sends to the client.
Serve ==
  /\ phase = "asked" => Len(mail) < MaxMail
  /\ \/ NewServer /\ Deliver(News(Head(inbox))) /\ UNCHANGED snapshot
     \/ /\ NewLookup
        /\ IF Head(inbox).from = Socket /\ Reads
           THEN /\ Deliver(Answer(Request(Head(inbox))))
                /\ snapshot' = Matching(servers, Request(Head(inbox)))
           ELSE UNCHANGED <<mail, snapshot>>
     \/ (Bye \/ DelClient \/ DelServer) /\ Deliver(Departures) /\ UNCHANGED snapshot
     \/ (Hello \/ DelLookup \/ Ignored) /\ UNCHANGED <<mail, snapshot>>
  /\ Remember
  /\ UNCHANGED <<phase, printed, result, fresh>>

\* The name server exits and is started again: the request may be lost.
ServerRestarts ==
  /\ Restart
  /\ Remember
  /\ UNCHANGED <<phase, mail, printed, result, fresh, snapshot>>

-----------------------------------------------------------------------------
(* lookup.c, main.                                                         *)

\* socket() up to setsockopt(SO_RCVTIMEO).
Begin ==
  /\ phase = "idle"
  /\ OpenSocket(Socket)
  /\ phase' = "open"
  /\ seen' = Entries(servers)
  /\ UNCHANGED <<mail, printed, result, fresh, snapshot>>

\* sendto() of NEW_LOOKUP to the control port.
Ask(f) ==
  /\ phase = "open"
  /\ AskLookup("new_lookup", Asker, f)
  /\ phase' = "asked"
  /\ fresh' = /\ mail = << >>
              /\ \A l \in lookups : l.port # Asker
              /\ \A i \in DOMAIN inbox : inbox[i].from # Socket
  /\ UNCHANGED <<mail, printed, result, seen, snapshot>>

\* The loop is left; what is still queued is never read.
Leave(how) ==
  /\ phase' = "done"
  /\ result' = how
  /\ mail' = << >>

\* sendto() fails: exit(1).
AskFails ==
  /\ phase = "open"
  /\ Leave("failed")
  /\ UNCHANGED <<vars, printed, fresh, seen, snapshot>>

\* recv() returns a packet: skipped unless it is a NEW_SERVER, the end of the
\* list when all its fields are zero, printed otherwise.
ReadPacket ==
  /\ phase = "asked"
  /\ mail # << >>
  /\ LET pkt == Head(mail)
     IN  \/ /\ pkt.cmd # "new_server"
            /\ mail' = Tail(mail)
            /\ UNCHANGED <<phase, printed, result>>
         \/ /\ pkt.cmd = "new_server" /\ IsEnd(pkt)
            /\ Leave("listed")
            /\ UNCHANGED printed
         \/ /\ pkt.cmd = "new_server" /\ ~ IsEnd(pkt)
            /\ printed' = printed \cup {[addr |-> pkt.addr, server |-> pkt.server]}
            /\ mail' = Tail(mail)
            /\ UNCHANGED <<phase, result>>
  /\ UNCHANGED <<vars, fresh, seen, snapshot>>

TimeoutNever == FALSE /\ UNCHANGED clientVars

\* recv() fails after a second without a packet: exit(1).
Timeout ==
  /\ phase = "asked"
  /\ mail = << >>
  /\ Leave("timeout")
  /\ UNCHANGED <<vars, printed, fresh, seen, snapshot>>

\* close(), or the end of the process.
Exit ==
  /\ phase = "done"
  /\ CloseSocket(Socket)
  /\ phase' = "idle"
  /\ printed' = {} /\ result' = "none"
  /\ fresh' = FALSE /\ seen' = {} /\ snapshot' = {}
  /\ UNCHANGED mail

-----------------------------------------------------------------------------

Providers == { a \in Addrs : Offers[a] # {} }

\* The sockets of servers, links and nodes.
Others ==
  /\ \/ \E a \in Providers : OpenSocket(a) \/ CloseSocket(a) \/ Withdraw(a) \/ Announce(a)
     \/ \E a \in Providers : \E srv \in Offers[a] : Publish(a, srv)
     \/ \E n \in RemoteNodes : LinkUp(n) \/ LinkDown(n)
     \/ \E pkt \in Strays : Stray(pkt)
  /\ UNCHANGED client

ClientInit ==
  /\ Init
  /\ phase = "idle" /\ mail = << >> /\ printed = {} /\ result = "none"
  /\ fresh = FALSE /\ seen = {} /\ snapshot = {}

ClientNext ==
  \/ Serve \/ ServerRestarts \/ Others
  \/ Begin \/ (\E f \in Filters[Asker] : Ask(f)) \/ AskFails
  \/ ReadPacket \/ Timeout \/ Exit

ClientSpec == ClientInit /\ [][ClientNext]_clientVars

\* Both programs run: the name server handles what is queued, the client reads
\* or times out, sends its request or fails to, and the report of its close
\* finds room on the control socket.
FairClientSpec ==
  /\ ClientSpec
  /\ WF_clientVars(Serve)
  /\ WF_clientVars(ReadPacket \/ Timeout)
  /\ WF_clientVars(AskFails \/ \E f \in Filters[Asker] : Ask(f))
  /\ SF_clientVars(Exit)

-----------------------------------------------------------------------------
(* Properties.                                                             *)

\* Type invariant of the client; the socket is open while a process runs.
ClientTypeOK ==
  /\ phase \in {"idle", "open", "asked", "done"}
  /\ (phase # "idle") = (Socket \in open)
  /\ \A i \in DOMAIN mail : IsEnd(mail[i]) \/ [addr |-> mail[i].addr, server |-> mail[i].server] \in Entry
  /\ printed \subseteq Entry
  /\ result \in {"none", "listed", "timeout", "failed"}
  /\ (result # "none") = (phase = "done")
  /\ fresh \in BOOLEAN
  /\ seen \subseteq Entry
  /\ snapshot \subseteq Entry

\* lookup.c prints what it is told without looking at its own arguments, also
\* what is meant for an earlier run on the same port: even then every line
\* printed is of a server that was registered while this run lasted.
ListedWasRegistered == printed \subseteq seen

\* A run that starts clean and reaches the end marker has printed exactly the
\* servers that matched at one moment while it waited: the answer is a
\* snapshot, with no notification mixed into it, however servers come and go.
ExactWhenFresh ==
  fresh /\ result = "listed" => printed = snapshot

\* Every run ends, also when the name server exits with the request unread
\* (SO_RCVTIMEO, lookup.c:173-178).
LookupEnds == (phase # "idle") ~> (phase = "idle")
=============================================================================
