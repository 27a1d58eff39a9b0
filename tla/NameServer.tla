----------------------------- MODULE NameServer -----------------------------
(***************************************************************************)
(* qrtr/src/ns.c: the QRTR name server of the local node.  It reads one    *)
(* control packet at a time from its control socket and keeps              *)
(*   servers   which service each (node, port) offers,                     *)
(*   lookups   which local ports observe which services.                   *)
(*                                                                         *)
(* Around it are the parts of the system it reacts to, modelled from how   *)
(* ns.c uses them: the kernel queues control packets in FIFO order, tells  *)
(* the name server when a socket is closed (DEL_CLIENT) and when a link    *)
(* goes down (BYE); remote nodes greet and announce their servers.  What   *)
(* the name server sends is kept as what its readers make of it:           *)
(*   told      the notifications sent to a local port, added up,           *)
(*   announced what a remote node's registry holds of our servers,         *)
(*   sessions  the clients a local server still serves; it drops one when  *)
(*             the name server tells it that the client is gone.           *)
(*                                                                         *)
(* The map of maps behind the registry is abstracted to a function         *)
(* (ServerMap says when that is right), and the lookup list to a set: a    *)
(* repeated lookup only repeats notifications.                             *)
(***************************************************************************)
EXTENDS Naturals, Sequences

CONSTANTS
  LocalNode,    \* ctx->local_node
  RemoteNodes,  \* the other nodes of the network
  Ports,        \* port numbers of sockets, on every node
  CtrlPort,     \* QRTR_PORT_CTRL, the port of the name servers
  Offers,       \* Offers[a]: the services the socket at address a may register
  Filters,      \* Filters[p]: the lookups local port p may ask for
  Clients,      \* the addresses that open sessions with local servers
  Strays,       \* packets that name an address other than the sender's, or no service
  NoServer,     \* the registry entry of an address without a server
  MaxInbox,     \* bound: packets queued on the control socket
  MayRestart    \* whether the name server may exit and be started again

Nodes == {LocalNode} \cup RemoteNodes
Addrs == Nodes \X Ports
Local(p) == <<LocalNode, p>>

\* Service and instance numbers; 0 is the wildcard of lookups.
Server == [service : Nat \ {0}, instance : Nat]
Filter == [service : Nat, instance : Nat]
Lookup == [port : Ports, service : Nat, instance : Nat]
Entry  == [addr : Addrs, server : Server]

Cmds == {"hello", "bye", "new_server", "del_server", "del_client",
         "new_lookup", "del_lookup", "ping"}

\* Control packets come from sockets and from remote name servers.
Sender == Addrs \cup (RemoteNodes \X {CtrlPort})

\* A control packet: its sender and the address, service and instance it names.
\* Greetings and farewells are those of other nodes.
Packet ==
  { pkt \in [cmd : Cmds, from : Sender, addr : Nat \X (Ports \cup {0}),
             service : Nat, instance : Nat] :
      pkt.cmd \in {"hello", "bye"} => pkt.from[1] # LocalNode }

ASSUME NameServerConstants ==
  /\ LocalNode \in Nat \ RemoteNodes
  /\ RemoteNodes \subseteq Nat
  /\ Ports \subseteq Nat \ {0}
  /\ CtrlPort \in Nat \ Ports
  /\ Offers \in [Addrs -> SUBSET Server]
  /\ Filters \in [Ports -> SUBSET Filter]
  /\ Clients \subseteq Addrs
  /\ \A pkt \in Strays :
       /\ pkt \in Packet
       /\ \/ pkt.cmd = "ping"
          \/ pkt.cmd \in {"del_client", "del_server", "new_server"} /\ pkt.from[1] # pkt.addr[1]
               /\ pkt.from[1] # LocalNode
          \/ pkt.cmd = "del_client" /\ pkt.from # pkt.addr /\ pkt.from[1] = LocalNode
          \/ pkt.cmd = "new_server" /\ (pkt.service = 0 \/ pkt.addr[2] = 0)
               /\ pkt.from[1] # LocalNode
          \/ pkt.cmd \in {"new_lookup", "del_lookup"} /\ pkt.from[1] # LocalNode
  /\ NoServer \notin Server
  /\ MaxInbox \in Nat
  /\ MayRestart \in BOOLEAN

VARIABLES
  servers,    \* servers[a]: the server registered at address a, or NoServer
  lookups,    \* ctx->lookups
  inbox,      \* packets queued on the control socket
  open,       \* addresses with an open socket
  up,         \* remote nodes whose link is up
  want,       \* want[a]: the server the owner of address a last asked for
  owes,       \* remote addresses whose server is still to be announced to a greeting
  told, announced, sessions

vars == <<servers, lookups, inbox, open, up, want, owes, told, announced, sessions>>

-----------------------------------------------------------------------------
(* Matching, sending and deleting: the helpers of ns.c.                    *)

\* server_match, used to answer a new lookup: instance 0 masks everything.
ServerMatchUnmasked(srv, f) ==
  /\ f.service # 0 => srv.service = f.service
  /\ srv.instance = f.instance

ServerMatch(srv, f) ==
  /\ f.service # 0 => srv.service = f.service
  /\ (IF f.instance # 0 THEN srv.instance ELSE 0) = f.instance

\* The test of the notification loops (ns.c:310-313 and 472-475).
Observes(l, srv) ==
  /\ l.service # 0 => l.service = srv.service
  /\ l.instance # 0 => l.instance = srv.instance

Registered(a) == servers[a] # NoServer
EntryOf(a)    == [addr |-> a, server |-> servers[a]]

\* The open local ports that the lookups L make observers of srv; what is sent
\* to a closed port is lost.
Reached(L, srv) ==
  { p \in Ports : Local(p) \in open /\ \E l \in L : l.port = p /\ Observes(l, srv) }

\* service_announce_new/_del to the broadcast address: every linked node's name
\* server replaces what it has under that port (server_add, server_del).
Broadcast(p, srv) ==
  announced' = [n \in RemoteNodes |->
                  IF n \in up THEN [announced[n] EXCEPT ![p] = srv] ELSE announced[n]]

\* lookup_notify over the observers among lookups L: srv at a is new, or the
\* servers at the addresses in gone are gone.
TellNewNobody(L, a, srv) == told

TellNew(L, a, srv) ==
  [p \in Ports |-> IF p \in Reached(L, srv)
                   THEN told[p] \cup {[addr |-> a, server |-> srv]}
                   ELSE told[p]]

TellGoneNobody(L, gone) == told

TellGone(L, gone) ==
  [p \in Ports |->
    told[p] \ { EntryOf(a) : a \in { b \in gone : p \in Reached(L, servers[b]) } }]

\* annouce_servers: what node n's registry becomes when it gets all our servers.
AnnounceNone(n) == announced[n]

AnnounceServers(n) ==
  [p \in Ports |-> IF Registered(Local(p)) THEN servers[Local(p)] ELSE announced[n][p]]

\* server_del for every address in A, in a world with lookups L: the entry goes,
\* local ones are broadcast as gone, matching observers are told.
ServerDel(A, L) ==
  LET gone == { a \in Addrs : a \in A /\ Registered(a) }
  IN  /\ servers' = [a \in Addrs |-> IF a \in gone THEN NoServer ELSE servers[a]]
      /\ announced' = [n \in RemoteNodes |-> [p \in Ports |->
                         IF n \in up /\ Local(p) \in gone THEN NoServer ELSE announced[n][p]]]
      /\ told' = TellGone(L, gone)

\* The loops that forward BYE and DEL_CLIENT to every local server: those that
\* are registered after the step drop their sessions with clients in C.
ForwardNothing(C) == UNCHANGED sessions

Forward(C) ==
  sessions' = { s \in sessions : ~ (s[1] \in C /\ servers'[Local(s[2])] # NoServer) }

-----------------------------------------------------------------------------
(* ctrl_port_fn: take the next packet and dispatch on its command.         *)

Receive(cmd) ==
  /\ inbox # << >>
  /\ Head(inbox).cmd = cmd
  /\ inbox' = Tail(inbox)

\* "Ignore specified node and port for local servers" (ns.c:453, 490).
SubjectClaimed(pkt) == pkt.addr

Subject(pkt) == IF pkt.from[1] = LocalNode THEN pkt.from ELSE pkt.addr

\* "Don't accept spoofed messages": a packet speaks for an address of the node
\* it comes from, and locally only for the very socket that sent it.
GenuineAny(pkt, a) == TRUE

Genuine(pkt, a) ==
  /\ pkt.from[1] = a[1]
  /\ pkt.from[1] = LocalNode => pkt.from[2] = a[2]

\* server_add refuses service 0 and port 0.
AddableAny(service, port) == TRUE

Addable(service, port) == service # 0 /\ port # 0

\* The lookups that stay when the socket at address a is gone (ns.c:402-412).
KeepLookups(a) == lookups

LookupsWithout(a) == { l \in lookups : Local(l.port) # a }

\* ctrl_cmd_hello: greet back and, if that could be sent, announce our servers
\* to the greeter, who answers by announcing its own.
Hello ==
  /\ Receive("hello")
  /\ LET n == Head(inbox).from[1]
     IN  IF n \in up
         THEN /\ announced' = [announced EXCEPT ![n] = AnnounceServers(n)]
              /\ owes' = owes \cup { a \in Addrs : a[1] = n /\ want[a] # NoServer }
         ELSE UNCHANGED <<announced, owes>>
  /\ UNCHANGED <<servers, lookups, open, up, want, told, sessions>>

\* ctrl_cmd_bye: a node is gone with all its servers and clients.
Bye ==
  /\ Receive("bye")
  /\ LET n == Head(inbox).from[1]
         theirs == { a \in Addrs : a[1] = n }
     IN  /\ ServerDel(theirs, lookups)
         /\ Forward({ c \in Clients : c[1] = n })
  /\ UNCHANGED <<lookups, open, up, want, owes>>

\* ctrl_cmd_del_client: a port is gone with its lookups and its server.
DelClient ==
  /\ Receive("del_client")
  /\ LET pkt == Head(inbox)
     IN  IF Genuine(pkt, pkt.addr)
         THEN /\ lookups' = LookupsWithout(pkt.addr)
              /\ ServerDel({pkt.addr}, LookupsWithout(pkt.addr))
              /\ Forward({pkt.addr})
         ELSE UNCHANGED <<servers, lookups, told, announced, sessions>>
  /\ UNCHANGED <<open, up, want, owes>>

\* ctrl_cmd_new_server with server_add: register, announce, notify.  A server
\* already at that address is replaced without a word to its observers.
NewServer ==
  /\ Receive("new_server")
  /\ LET pkt == Head(inbox)
         a   == Subject(pkt)
         srv == [service |-> pkt.service, instance |-> pkt.instance]
     IN  IF Genuine(pkt, a) /\ Addable(pkt.service, a[2])
         THEN /\ servers' = [servers EXCEPT ![a] = srv]
              /\ IF a[1] = LocalNode THEN Broadcast(a[2], srv) ELSE UNCHANGED announced
              /\ told' = TellNew(lookups, a, srv)
         ELSE UNCHANGED <<servers, told, announced>>
  /\ UNCHANGED <<lookups, open, up, want, owes, sessions>>

\* ctrl_cmd_del_server.
DelServer ==
  /\ Receive("del_server")
  /\ LET pkt == Head(inbox)
     IN  IF Genuine(pkt, Subject(pkt))
         THEN ServerDel({Subject(pkt)}, lookups)
         ELSE UNCHANGED <<servers, told, announced>>
  /\ UNCHANGED <<lookups, open, up, want, owes, sessions>>

\* ctrl_cmd_new_lookup: remember the observer and answer with the servers that
\* match now, up to an end marker; the client takes the answer as the present
\* state of what it asked for.
NewLookup ==
  /\ Receive("new_lookup")
  /\ LET pkt == Head(inbox)
         p   == pkt.from[2]
         f   == [service |-> pkt.service, instance |-> pkt.instance]
         found == { EntryOf(a) : a \in { b \in Addrs : Registered(b) /\ ServerMatch(servers[b], f) } }
     IN  IF pkt.from[1] = LocalNode
         THEN /\ lookups' = lookups \cup
                   {[port |-> p, service |-> f.service, instance |-> f.instance]}
              /\ told' = IF pkt.from \in open
                         THEN [told EXCEPT ![p] = { e \in @ : ~ ServerMatch(e.server, f) } \cup found]
                         ELSE told
         ELSE UNCHANGED <<lookups, told>>
  /\ UNCHANGED <<servers, open, up, want, owes, announced, sessions>>

\* ctrl_cmd_del_lookup: an all-instances lookup goes with any instance named.
\* The client forgets what only a withdrawn lookup told it.
DelLookup ==
  /\ Receive("del_lookup")
  /\ LET pkt == Head(inbox)
         withdrawn(l) == /\ Local(l.port) = pkt.from
                         /\ l.service = pkt.service
                         /\ l.instance # 0 => l.instance = pkt.instance
     IN  /\ lookups' = { l \in lookups : ~ withdrawn(l) }
         /\ told' = [p \in Ports |->
                       IF Local(p) = pkt.from
                       THEN { e \in told[p] : p \in Reached(lookups', e.server) }
                       ELSE told[p]]
  /\ UNCHANGED <<servers, open, up, want, owes, announced, sessions>>

\* EXIT, PING and RESUME_TX are read and ignored.
Ignored ==
  /\ Receive("ping")
  /\ UNCHANGED <<servers, lookups, open, up, want, owes, told, announced, sessions>>

\* say_hello: every linked node will announce the servers it has.
SayNothing == {}

SayHello == { a \in Addrs : a[1] \in up /\ want[a] # NoServer }

\* recvfrom fails: the name server exits with what is queued and is started
\* again (Restart=always) with empty maps, greeting every linked node.
Restart ==
  /\ MayRestart
  /\ servers' = [a \in Addrs |-> NoServer]
  /\ lookups' = {}
  /\ inbox' = << >>
  /\ owes' = SayHello
  /\ UNCHANGED <<open, up, want, told, announced, sessions>>

Handle == Hello \/ Bye \/ DelClient \/ NewServer \/ DelServer
            \/ NewLookup \/ DelLookup \/ Ignored

-----------------------------------------------------------------------------
(* Sockets, links and remote nodes.                                        *)

\* Remote nodes speak through their name server, local sockets for themselves.
From(a) == IF a[1] = LocalNode THEN a ELSE <<a[1], CtrlPort>>

\* What libqrtr leaves in the address fields of NEW_SERVER and of lookups.
Unset == <<0, 0>>

Send(cmd, from, addr, srv) ==
  /\ Len(inbox) < MaxInbox
  /\ inbox' = Append(inbox, [cmd |-> cmd, from |-> from, addr |-> addr,
                             service |-> srv.service, instance |-> srv.instance])

Nothing == [service |-> 0, instance |-> 0]

Reachable(n) == n = LocalNode \/ n \in up

OpenSocket(a) ==
  /\ a \notin open
  /\ Reachable(a[1])
  /\ open' = open \cup {a}
  /\ UNCHANGED <<servers, lookups, inbox, up, want, owes, told, announced, sessions>>

\* The kernel sends DEL_CLIENT to the name server, and for a local socket also
\* to those of the linked nodes.
CloseSocket(a) ==
  /\ a \in open
  /\ Send("del_client", From(a), a, Nothing)
  /\ open' = open \ {a}
  /\ want' = [want EXCEPT ![a] = NoServer]
  /\ owes' = owes \ {a}
  /\ IF a[1] = LocalNode
     THEN /\ told' = [told EXCEPT ![a[2]] = {}]
          /\ sessions' = { s \in sessions : s[2] # a[2] }
          /\ Broadcast(a[2], NoServer)
     ELSE UNCHANGED <<told, announced, sessions>>
  /\ UNCHANGED <<servers, lookups, up>>

\* qrtr_publish on a socket, or a remote name server passing one on.
Publish(a, srv) ==
  /\ a \in open
  /\ Send("new_server", From(a), IF a[1] = LocalNode THEN Unset ELSE a, srv)
  /\ want' = [want EXCEPT ![a] = srv]
  /\ owes' = owes \ {a}
  /\ UNCHANGED <<servers, lookups, open, up, told, announced, sessions>>

\* qrtr_bye; a local server that withdraws ends its sessions.
Withdraw(a) ==
  /\ a \in open
  /\ want[a] # NoServer
  /\ Send("del_server", From(a), a, want[a])
  /\ want' = [want EXCEPT ![a] = NoServer]
  /\ owes' = owes \ {a}
  /\ sessions' = { s \in sessions : Local(s[2]) # a }
  /\ UNCHANGED <<servers, lookups, open, up, told, announced>>

AskLookup(cmd, p, f) ==
  /\ Local(p) \in open
  /\ Send(cmd, Local(p), Unset, f)
  /\ UNCHANGED <<servers, lookups, open, up, want, owes, told, announced, sessions>>

\* A client opens a session with a server it could find.
Connect(c, p) ==
  /\ c \in open
  /\ c # Local(p)
  /\ Registered(Local(p)) /\ want[Local(p)] # NoServer
  /\ sessions' = sessions \cup {<<c, p>>}
  /\ UNCHANGED <<servers, lookups, inbox, open, up, want, owes, told, announced>>

LinkUp(n) ==
  /\ n \notin up
  /\ Send("hello", <<n, CtrlPort>>, Unset, Nothing)
  /\ up' = up \cup {n}
  /\ UNCHANGED <<servers, lookups, open, want, owes, told, announced, sessions>>

\* The kernel sends BYE on behalf of a node it lost.
LinkDown(n) ==
  /\ n \in up
  /\ Send("bye", <<n, CtrlPort>>, Unset, Nothing)
  /\ up' = up \ {n}
  /\ open' = { a \in open : a[1] # n }
  /\ want' = [a \in Addrs |-> IF a[1] = n THEN NoServer ELSE want[a]]
  /\ owes' = { a \in owes : a[1] # n }
  /\ announced' = [announced EXCEPT ![n] = [p \in Ports |-> NoServer]]
  /\ UNCHANGED <<servers, lookups, told, sessions>>

\* A greeted node announces the servers it has.
Announce(a) ==
  /\ a \in owes
  /\ Send("new_server", From(a), a, want[a])
  /\ owes' = owes \ {a}
  /\ UNCHANGED <<servers, lookups, open, up, want, told, announced, sessions>>

Stray(pkt) ==
  /\ pkt.from[1] \in up \/ pkt.from \in open
  /\ Len(inbox) < MaxInbox
  /\ inbox' = Append(inbox, pkt)
  /\ UNCHANGED <<servers, lookups, open, up, want, owes, told, announced, sessions>>

Environment ==
  \/ \E a \in Addrs : OpenSocket(a) \/ CloseSocket(a) \/ Withdraw(a) \/ Announce(a)
  \/ \E a \in Addrs : \E srv \in Offers[a] : Publish(a, srv)
  \/ \E p \in Ports : \E f \in Filters[p] :
       AskLookup("new_lookup", p, f) \/ AskLookup("del_lookup", p, f)
  \/ \E c \in Clients, p \in Ports : Connect(c, p)
  \/ \E n \in RemoteNodes : LinkUp(n) \/ LinkDown(n)
  \/ \E pkt \in Strays : Stray(pkt)

Init ==
  /\ servers = [a \in Addrs |-> NoServer]
  /\ lookups = {}
  /\ inbox = << >>
  /\ open = {}
  /\ up = {}
  /\ want = [a \in Addrs |-> NoServer]
  /\ owes = {}
  /\ told = [p \in Ports |-> {}]
  /\ announced = [n \in RemoteNodes |-> [p \in Ports |-> NoServer]]
  /\ sessions = {}

Next == Handle \/ Restart \/ Environment

Spec == Init /\ [][Next]_vars

\* The event loop of main runs whenever a packet is queued, and a greeted node
\* does announce its servers: other senders do not keep it off the queue for
\* ever, whose bound stands for a queue with room.
FairSpec == Spec /\ WF_vars(Handle) /\ \A a \in Addrs : SF_vars(Announce(a))

-----------------------------------------------------------------------------
(* Properties.                                                             *)

\* Type invariant.
TypeOK ==
  /\ servers \in [Addrs -> Server \cup {NoServer}]
  /\ lookups \subseteq Lookup
  /\ inbox \in Seq(Packet)
  /\ open \subseteq Addrs
  /\ up \subseteq RemoteNodes
  /\ want \in [Addrs -> Server \cup {NoServer}]
  /\ owes \subseteq { a \in Addrs : a[1] \in up /\ want[a] # NoServer }
  /\ told \in [Ports -> SUBSET Entry]
  /\ announced \in [RemoteNodes -> [Ports -> Server \cup {NoServer}]]
  /\ sessions \subseteq Clients \X Ports

\* Whether handling pkt sets or clears the registry entry of address a, and
\* what it leaves there.
Affects(pkt, a) ==
  \/ pkt.cmd = "new_server" /\ Subject(pkt) = a /\ pkt.from[1] = a[1] /\ pkt.service # 0
  \/ pkt.cmd = "del_server" /\ Subject(pkt) = a /\ pkt.from[1] = a[1]
  \/ /\ pkt.cmd = "del_client" /\ pkt.addr = a /\ pkt.from[1] = a[1]
     /\ a[1] = LocalNode => pkt.from = a
  \/ pkt.cmd = "bye" /\ pkt.from[1] = a[1]

Outcome(pkt) == IF pkt.cmd = "new_server"
                THEN [service |-> pkt.service, instance |-> pkt.instance]
                ELSE NoServer

\* The last packet of queue q about address a leaves w there.
LastWord(q, a, w) ==
  \E i \in DOMAIN q : /\ Affects(q[i], a)
                      /\ \A j \in DOMAIN q : j > i => ~ Affects(q[j], a)
                      /\ Outcome(q[i]) = w

Quiet(q, a) == \A i \in DOMAIN q : ~ Affects(q[i], a)

\* The name server agrees with the owner of address a, or has been promised an
\* announcement, or has lost a local server by a restart.
Settled(a) ==
  \/ servers[a] = want[a]
  \/ a \in owes
  \/ MayRestart /\ a[1] = LocalNode /\ servers[a] = NoServer

\* The kernel's report that the socket at address a was closed is still queued.
Closing(a) == \E i \in DOMAIN inbox : Affects(inbox[i], a) /\ inbox[i].cmd = "del_client"

\* The registry follows the owners: once the queued packets about an address
\* are handled, the name server holds for it exactly what its owner last asked
\* for, through closes, re-opens, link losses and misaddressed packets.  After
\* a restart remote servers come back with the announcements a greeting brings,
\* local ones only when they publish again.
RegistryFollows ==
  \A a \in Addrs : LastWord(inbox, a, want[a]) \/ (Quiet(inbox, a) /\ Settled(a))

\* "Remove any lookups by this client" (ns.c:402): a lookup of a closed socket
\* stays only while the report of the close is queued, whatever that client
\* had sent before it went and whoever re-opens the port.
LookupsOwned == \A l \in lookups : Local(l.port) \in open \/ Closing(Local(l.port))

\* An observer has been told of every registered server that its lookup
\* matches: the answer to NEW_LOOKUP and the later notifications, decided by
\* two different tests, leave no gap.
ToldComplete ==
  \A l \in lookups :
    Local(l.port) \in open /\ ~ Closing(Local(l.port)) =>
      \A a \in Addrs : Registered(a) /\ Observes(l, servers[a]) => EntryOf(a) \in told[l.port]

\* "Announce the service's disappearance to observers" (ns.c:307): what an
\* observer was told and not told to be gone is registered.
ToldCurrent ==
  \A l \in lookups :
    Local(l.port) \in open /\ ~ Closing(Local(l.port)) =>
      \A e \in told[l.port] : Observes(l, e.server) => servers[e.addr] = e.server

\* A linked node whose greeting was handled knows our servers as we do, except
\* that it may hear of a close from the kernel before we do.
AnnouncedExact ==
  \A n \in up :
    (~ \E i \in DOMAIN inbox : inbox[i].cmd = "hello" /\ inbox[i].from[1] = n) =>
      \A p \in Ports :
        \/ announced[n][p] = servers[Local(p)]
        \/ announced[n][p] = NoServer /\ Closing(Local(p))

\* A local server never keeps the session of a client that is gone: it will be
\* or has been told, by DEL_CLIENT or BYE (ns.c:355, 419).
NoSessionLeak ==
  \A s \in sessions :
    \/ s[1] \in open
    \/ \E i \in DOMAIN inbox : /\ inbox[i].cmd \in {"del_client", "bye"}
                               /\ Affects(inbox[i], s[1])

\* "Don't accept spoofed messages" (ns.c:394, 459, 496): only a packet from the
\* node of an address, and for a local address only one from the socket itself,
\* changes what is registered there.
OwnerWrites ==
  \A a \in Addrs : servers'[a] # servers[a] =>
    \/ Restart
    \/ /\ inbox # << >>
       /\ Head(inbox).from[1] = a[1]
       /\ a[1] = LocalNode => Head(inbox).from = a

OnlyOwnerWrites == [][OwnerWrites]_vars

\* A local server whose registration a restart lost, until it publishes again.
Forgotten(a) ==
  MayRestart /\ a[1] = LocalNode /\ servers[a] = NoServer /\ Quiet(inbox, a)

\* A server that stays published becomes known to every observer that stays
\* subscribed, also through a restart and lost links, unless the restart lost
\* either.
EventuallyTold ==
  \A p \in Ports, a \in Addrs : \A f \in Filters[p] : \A srv \in Offers[a] :
    LET l == [port |-> p, service |-> f.service, instance |-> f.instance]
    IN  Observes(l, srv) =>
          (l \in lookups /\ want[a] = srv)
            ~> \/ [addr |-> a, server |-> srv] \in told[p]
               \/ l \notin lookups \/ want[a] # srv \/ Forgotten(a)
=============================================================================
