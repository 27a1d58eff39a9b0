--------------------------- MODULE NameServerNet ----------------------------
(***************************************************************************)
(* Nodes that each run qrtr/src/ns.c, linked to one another: what         *)
(* NameServer takes a remote name server to do is here what ns.c does.     *)
(* Every node keeps a registry of all nodes, announces its own servers by  *)
(* broadcasts and in answer to a greeting, greets when it starts, and      *)
(* notifies its local observers.                                           *)
(*                                                                         *)
(* Links stay up, and observers withdraw by closing (NameServer has links  *)
(* and DEL_LOOKUP).  Packets of one node reach another in the order they   *)
(* are sent; they are queued there at once.  Control packets, the tests    *)
(* and the notifications are those of NameServer.                          *)
(***************************************************************************)
EXTENDS Naturals, Sequences, FiniteSets, SequencesExt

CONSTANTS
  Node,       \* nodes of the network
  Ports,      \* port numbers of sockets
  CtrlPort,   \* QRTR_PORT_CTRL
  Offers,     \* Offers[a]: the services the socket at address a may register
  Filters,    \* Filters[a]: the lookups the socket at address a may ask for
  NoServer,   \* the registry entry of an address without a server
  MaxInbox,   \* bound: sockets send while no queue is longer
  MaxStarts   \* bound: starts of name servers

VARIABLES
  running,    \* nodes whose name server runs
  registry,   \* registry[n][a]: what node n has registered at address a
  lookups,    \* lookups[n]: ctx->lookups of node n
  told,       \* told[n][p]: what the notifications to port p of node n add up to
  inbox,      \* inbox[n]: packets queued on the control socket of n
  open,       \* addresses with an open socket
  want,       \* want[a]: the server the owner of address a last asked for
  owed,       \* <<k, n>>: k started, and n has not announced its servers to it
  forgot,     \* addresses whose server was lost by a restart of its own node
  starts      \* starts of name servers so far

vars == <<running, registry, lookups, told, inbox, open, want, owed, forgot, starts>>

\* Node n as NameServer sees it.
NS(n) == INSTANCE NameServer WITH
  LocalNode <- n, RemoteNodes <- Node \ {n}, Clients <- {}, Strays <- {},
  Filters <- [p \in Ports |-> Filters[<<n, p>>]], MayRestart <- TRUE,
  servers <- registry[n], inbox <- inbox[n], lookups <- lookups[n], told <- told[n],
  up <- running \ {n},
  owes <- {}, announced <- << >>, sessions <- {}

Addrs   == Node \X Ports

ASSUME NetConstants ==
  /\ Node \subseteq Nat /\ IsFiniteSet(Node)
  /\ Ports \subseteq Nat \ {0} /\ IsFiniteSet(Ports)
  /\ CtrlPort \in Nat \ Ports
  /\ Offers \in [Addrs -> SUBSET [service : Nat \ {0}, instance : Nat]]
  /\ Filters \in [Addrs -> SUBSET [service : Nat, instance : Nat]]
  /\ NoServer \notin [service : Nat \ {0}, instance : Nat]
  /\ MaxInbox \in Nat /\ MaxStarts \in Nat

Ctrl(n) == <<n, CtrlPort>>
Nothing == [service |-> 0, instance |-> 0]

Packet(cmd, from, a, srv) ==
  [cmd |-> cmd, from |-> from, addr |-> a,
   service |-> srv.service, instance |-> srv.instance]

Greeting(n) == Packet("hello", Ctrl(n), <<0, 0>>, Nothing)

Empty == [a \in Addrs |-> NoServer]

-----------------------------------------------------------------------------
(* Sending.                                                                *)

\* Packets for the control port of a node whose name server is not running
\* have no receiver.
DeliveredAnyway(k, pkts) == pkts

Delivered(k, pkts) == IF k \in running THEN pkts ELSE << >>

\* Node n takes a packet from its queue and sends out[k] to each node k.
Handled(n, out) ==
  inbox' = [k \in Node |->
             IF k = n THEN Tail(inbox[n]) ELSE inbox[k] \o Delivered(k, out[k])]

Silence        == [k \in Node |-> << >>]
ToAll(pkt)     == [k \in Node |-> <<pkt>>]
To(m, pkts)    == [Silence EXCEPT ![m] = pkts]

\* annouce_servers: the local servers, in the order of the map, on which
\* nothing depends.
AnnounceNothing(n) == << >>

Announcements(n) ==
  LET mine == SetToSeq({ a \in Addrs : a[1] = n /\ registry[n][a] # NoServer })
  IN  [i \in DOMAIN mine |-> Packet("new_server", Ctrl(n), mine[i], registry[n][mine[i]])]

\* What ctrl_cmd_hello sends back.
AnswerTwice(n) == <<Greeting(n), Greeting(n)>> \o Announcements(n)

Answer(n) == <<Greeting(n)>> \o Announcements(n)

\* The broadcast of server_del: only of local servers, and of registered ones.
RemovalUntold(n, a) == Silence

Removal(n, a) ==
  IF a[1] = n /\ registry[n][a] # NoServer
  THEN ToAll(Packet("del_server", Ctrl(n), a, registry[n][a]))
  ELSE Silence

-----------------------------------------------------------------------------
(* ctrl_port_fn of node n.                                                 *)

First(n)         == Head(inbox[n])
Receives(n, cmd) == inbox[n] # << >> /\ First(n).cmd = cmd

\* server_del with observers L: the entry goes, other nodes and observers hear.
Unregister(n, a, L) ==
  /\ registry' = [registry EXCEPT ![n][a] = NoServer]
  /\ Handled(n, Removal(n, a))
  /\ told' = [told EXCEPT ![n] =
                NS(n)!TellGone(L, IF registry[n][a] # NoServer THEN {a} ELSE {})]

Refuse(n) == Handled(n, Silence) /\ UNCHANGED <<registry, told>>

\* ctrl_cmd_hello.
Hello(n) ==
  /\ Receives(n, "hello")
  /\ LET m == First(n).from[1]
     IN  /\ Handled(n, To(m, Answer(n)))
         /\ owed' = owed \ {<<m, n>>}
  /\ UNCHANGED <<running, registry, lookups, told, open, want, forgot, starts>>

\* ctrl_cmd_new_server with server_add.
NewServer(n) ==
  /\ Receives(n, "new_server")
  /\ LET pkt == First(n)
         a   == NS(n)!Subject(pkt)
         srv == [service |-> pkt.service, instance |-> pkt.instance]
         out == IF a[1] = n THEN ToAll(Packet("new_server", Ctrl(n), a, srv)) ELSE Silence
     IN  IF NS(n)!Genuine(pkt, a) /\ NS(n)!Addable(pkt.service, a[2])
         THEN /\ registry' = [registry EXCEPT ![n][a] = srv]
              /\ Handled(n, out)
              /\ told' = [told EXCEPT ![n] = NS(n)!TellNew(lookups[n], a, srv)]
              /\ forgot' = IF a[1] = n THEN forgot \ {a} ELSE forgot
         ELSE Refuse(n) /\ UNCHANGED forgot
  /\ UNCHANGED <<running, lookups, open, want, owed, starts>>

\* ctrl_cmd_del_server.
DelServer(n) ==
  /\ Receives(n, "del_server")
  /\ LET a == NS(n)!Subject(First(n))
     IN  IF NS(n)!Genuine(First(n), a) THEN Unregister(n, a, lookups[n]) ELSE Refuse(n)
  /\ UNCHANGED <<running, lookups, open, want, owed, forgot, starts>>

\* ctrl_cmd_del_client; the loop over the lookups removes those of local ports.
DelClient(n) ==
  /\ Receives(n, "del_client")
  /\ LET a    == First(n).addr
         rest == NS(n)!LookupsWithout(a)
     IN  IF NS(n)!Genuine(First(n), a)
         THEN lookups' = [lookups EXCEPT ![n] = rest] /\ Unregister(n, a, rest)
         ELSE Refuse(n) /\ UNCHANGED lookups
  /\ UNCHANGED <<running, open, want, owed, forgot, starts>>

\* ctrl_cmd_new_lookup: a local socket observes, and hears what matches now.
NewLookup(n) ==
  /\ Receives(n, "new_lookup")
  /\ LET pkt   == First(n)
         f     == [service |-> pkt.service, instance |-> pkt.instance]
         found == { a \in Addrs : /\ registry[n][a] # NoServer
                                  /\ NS(n)!ServerMatch(registry[n][a], f) }
     IN  IF pkt.from[1] = n
         THEN /\ lookups' = [lookups EXCEPT ![n] = @ \cup
                   {[port |-> pkt.from[2], service |-> f.service, instance |-> f.instance]}]
              /\ told' = IF pkt.from \in open
                         THEN [told EXCEPT ![n][pkt.from[2]] =
                                { e \in @ : ~ NS(n)!ServerMatch(e.server, f) }
                                  \cup { NS(n)!EntryOf(a) : a \in found }]
                         ELSE told
         ELSE UNCHANGED <<lookups, told>>
  /\ Handled(n, Silence)
  /\ UNCHANGED <<running, registry, open, want, owed, forgot, starts>>

Handle(n) == Hello(n) \/ NewServer(n) \/ DelServer(n) \/ DelClient(n) \/ NewLookup(n)

\* main: an empty registry, and a greeting broadcast to those that run.
Start(n) ==
  /\ n \notin running
  /\ starts < MaxStarts
  /\ starts' = starts + 1
  /\ inbox' = [k \in Node |-> inbox[k] \o Delivered(k, <<Greeting(n)>>)]
  /\ running' = running \cup {n}
  /\ owed' = owed \cup { <<n, k>> : k \in running }
  /\ UNCHANGED <<registry, lookups, told, open, want, forgot>>

\* recvfrom fails: the loop of main ends, the maps and what is queued are gone.
Stop(n) ==
  /\ n \in running
  /\ running' = running \ {n}
  /\ inbox' = [inbox EXCEPT ![n] = << >>]
  /\ registry' = [registry EXCEPT ![n] = Empty]
  /\ lookups' = [lookups EXCEPT ![n] = {}]
  /\ owed' = { o \in owed : n \notin {o[1], o[2]} }
  /\ forgot' = forgot \cup { a \in Addrs : a[1] = n /\ registry[n][a] # NoServer }
  /\ UNCHANGED <<told, open, want, starts>>

-----------------------------------------------------------------------------
(* Sockets and the kernel.                                                 *)

Room == \A k \in Node : Len(inbox[k]) < MaxInbox

\* A socket that neither registers nor asks is of no account.
OpenSocket(a) ==
  /\ Offers[a] \cup Filters[a] # {}
  /\ a \notin open
  /\ open' = open \cup {a}
  /\ UNCHANGED <<running, registry, lookups, told, inbox, want, owed, forgot, starts>>

\* The kernel tells every name server of the network itself, past what the
\* node's own name server still has queued about the socket.
CloseSocket(a) ==
  /\ a \in open
  /\ Room
  /\ inbox' = [k \in Node |-> inbox[k] \o Delivered(k, <<Packet("del_client", a, a, Nothing)>>)]
  /\ open' = open \ {a}
  /\ want' = [want EXCEPT ![a] = NoServer]
  /\ told' = [told EXCEPT ![a[1]][a[2]] = {}]
  /\ forgot' = forgot \ {a}
  /\ UNCHANGED <<running, registry, lookups, owed, starts>>

\* qrtr_publish, qrtr_bye and qrtr_new_lookup, which fail when no name server runs.
Request(cmd, a, srv) ==
  /\ a \in open /\ a[1] \in running
  /\ Room
  /\ inbox' = [inbox EXCEPT ![a[1]] = Append(@, Packet(cmd, a, <<0, 0>>, srv))]
  /\ UNCHANGED <<running, registry, lookups, told, open, owed, forgot, starts>>

Publish(a, srv) ==
  /\ Request("new_server", a, srv)
  /\ want' = [want EXCEPT ![a] = srv]

Withdraw(a) ==
  /\ want[a] # NoServer
  /\ Request("del_server", a, want[a])
  /\ want' = [want EXCEPT ![a] = NoServer]

AskLookup(a, f) == Request("new_lookup", a, f) /\ UNCHANGED want

Init ==
  /\ running = {}
  /\ registry = [n \in Node |-> Empty]
  /\ lookups = [n \in Node |-> {}]
  /\ told = [n \in Node |-> [p \in Ports |-> {}]]
  /\ inbox = [n \in Node |-> << >>]
  /\ open = {}
  /\ want = Empty
  /\ owed = {} /\ forgot = {}
  /\ starts = 0

Next ==
  \/ \E n \in Node : Handle(n) \/ Start(n) \/ Stop(n)
  \/ \E a \in Addrs : OpenSocket(a) \/ CloseSocket(a) \/ Withdraw(a)
  \/ \E a \in Addrs : \E srv \in Offers[a] : Publish(a, srv)
  \/ \E a \in Addrs : \E f \in Filters[a] : AskLookup(a, f)

Spec == Init /\ [][Next]_vars

\* The event loop of every name server runs whenever a packet is queued.
FairSpec == Spec /\ \A n \in Node : WF_vars(Handle(n))

-----------------------------------------------------------------------------
(* Properties.                                                             *)

\* Type invariant; only name servers that run have a queue and entries.
TypeOK ==
  /\ running \subseteq Node
  /\ registry \in [Node -> [Addrs -> (UNION { Offers[a] : a \in Addrs }) \cup {NoServer}]]
  /\ \A n \in Node : lookups[n] \subseteq NS(n)!Lookup /\ told[n] \in [Ports -> SUBSET NS(n)!Entry]
  /\ \A n \in Node \ running : inbox[n] = << >> /\ registry[n] = Empty /\ lookups[n] = {}
  /\ open \subseteq Addrs /\ forgot \subseteq Addrs
  /\ \A a \in Addrs : want[a] \in Offers[a] \cup {NoServer}
  /\ owed \subseteq running \X running
  /\ starts \in 0..MaxStarts

\* When node k has handled what is queued about address a, it holds w there.
WillHold(k, a, w) ==
  \/ NS(k)!LastWord(inbox[k], a, w)
  \/ NS(k)!Quiet(inbox[k], a) /\ registry[k][a] = w

\* The kernel's report of a close is queued at the socket's own node.
Closing(a) == \E i \in DOMAIN inbox[a[1]] :
                /\ inbox[a[1]][i].cmd = "del_client" /\ inbox[a[1]][i].addr = a

\* Name servers agree about every address with that of its node, up to what is
\* queued: through starts in any order, crossing greetings, and closes that the
\* kernel reports to remote nodes before the local name server has handled the
\* registration ("Broadcast the removal of local services", ns.c:303).
PeersAgree ==
  \A k \in running : \A a \in Addrs :
    k # a[1] /\ a \notin forgot /\ <<k, a[1]>> \notin owed =>
      \/ WillHold(k, a, registry[a[1]][a])
      \/ Closing(a) /\ WillHold(k, a, NoServer)

\* Greetings are answered by greetings for ever (ns.c:328), but do not multiply:
\* no more are ever on their way than starts have sent, each to all other nodes.
Greetings(n) == { i \in DOMAIN inbox[n] : inbox[n][i].cmd = "hello" }

GreetingsBounded ==
  Cardinality(UNION { {n} \X Greetings(n) : n \in Node })
    <= starts * (Cardinality(Node) - 1)

\* Between the nodes of this network NameServer keeps its word: lookups belong
\* to open sockets, and no observer misses a registered server.
ObserversServed ==
  \A n \in running : NS(n)!LookupsOwned /\ NS(n)!ToldComplete

\* From end to end: a server that its own node keeps registered becomes known to
\* every observer that stays subscribed at any node, also one started later, in
\* spite of endless greetings.
EventuallyTold ==
  \A n \in Node, p \in Ports, a \in Addrs : \A f \in Filters[<<n, p>>] : \A srv \in Offers[a] :
    LET l == [port |-> p, service |-> f.service, instance |-> f.instance]
    IN  NS(n)!Observes(l, srv) =>
          (l \in lookups[n] /\ registry[a[1]][a] = srv)
            ~> \/ [addr |-> a, server |-> srv] \in told[n][p]
               \/ l \notin lookups[n] \/ registry[a[1]][a] # srv
=============================================================================
