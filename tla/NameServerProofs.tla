-------------------------- MODULE NameServerProofs --------------------------
(***************************************************************************)
(* Proofs about NameServer for every network, every set of ports and every *)
(* bound of the queue: the registry follows the owners of its addresses;   *)
(* lookups belong to open sockets, observers are told of every server,     *)
(* linked nodes hold the local servers exactly, and local servers drop the *)
(* clients that go.                                                        *)
(***************************************************************************)
EXTENDS NameServer, TLAPS

-----------------------------------------------------------------------------
(* Addresses, packets and the queue.                                       *)

\* Ports and nodes are numbers, so addresses can be put in packets.
LEMMA AddrTypes ==
  /\ \A a \in Addrs : /\ a = <<a[1], a[2]>>
                      /\ a[1] \in Nodes
                      /\ a[2] \in Ports
                      /\ a \in Nat \X (Ports \cup {0})
                      /\ From(a) \in Sender
  /\ \A p \in Ports : Local(p) \in Addrs /\ From(Local(p)) = Local(p)
  /\ \A n \in RemoteNodes : <<n, CtrlPort>> \in Sender
  /\ Unset \in Nat \X (Ports \cup {0})
  <1> USE NameServerConstants DEF NameServerConstants, Addrs, Nodes
  <1>1. \A a \in Addrs : /\ a = <<a[1], a[2]>>
                         /\ a[1] \in Nodes
                         /\ a[2] \in Ports
                         /\ a \in Nat \X (Ports \cup {0})
    <2> SUFFICES ASSUME NEW a \in Nodes \X Ports
                 PROVE  /\ a = <<a[1], a[2]>>
                        /\ a[1] \in Nodes
                        /\ a[2] \in Ports
                        /\ a \in Nat \X (Ports \cup {0})
      OBVIOUS
    <2>1. a = <<a[1], a[2]>> /\ a[1] \in Nodes /\ a[2] \in Ports
      OBVIOUS
    <2>2. a[1] \in Nat
      BY <2>1
    <2> QED BY <2>1, <2>2
  <1>2. \A a \in Addrs : From(a) \in Sender
    BY <1>1 DEF From, Sender
  <1>3. \A p \in Ports : Local(p) \in Addrs /\ From(Local(p)) = Local(p)
    BY DEF From, Local
  <1>4. \A n \in RemoteNodes : <<n, CtrlPort>> \in Sender
    BY DEF Sender
  <1>5. Unset \in Nat \X (Ports \cup {0})
    BY DEF Unset
  <1> QED BY <1>1, <1>2, <1>3, <1>4, <1>5

\* The numbers a packet can name.
LEMMA FilterTypes ==
  /\ Nothing \in Filter
  /\ Server \subseteq Filter
  /\ \A a \in Addrs : Offers[a] \subseteq Filter /\ Offers[a] \subseteq Server
  /\ \A p \in Ports : Filters[p] \subseteq Filter
  BY NameServerConstants DEF NameServerConstants, Nothing, Filter, Server

\* The head of a queue of packets is a packet, and the rest is a queue.
LEMMA QueueTypes ==
  ASSUME TypeOK, NEW cmd, Receive(cmd)
  PROVE  Head(inbox) \in Packet /\ inbox' \in Seq(Packet)
  BY DEF TypeOK, Receive

\* The subject of a genuine packet that names a port is an address.
LEMMA SubjectType ==
  ASSUME NEW pkt \in Packet,
         pkt.from[1] = Subject(pkt)[1],
         Subject(pkt)[2] # 0
  PROVE  Subject(pkt) \in Addrs
  BY NameServerConstants
     DEF NameServerConstants, Packet, Subject, Sender, Addrs, Nodes

\* Packets over known senders, addresses and numbers.
LEMMA PacketType ==
  ASSUME NEW cmd \in Cmds,
         NEW from \in Sender,
         NEW addr \in Nat \X (Ports \cup {0}),
         NEW srv \in Filter,
         cmd \in {"hello", "bye"} => from[1] # LocalNode
  PROVE  [cmd |-> cmd, from |-> from, addr |-> addr,
          service |-> srv.service, instance |-> srv.instance] \in Packet
  BY DEF Packet, Filter

\* Such a packet can be queued.
LEMMA SendType ==
  ASSUME TypeOK,
         NEW cmd \in Cmds,
         NEW from \in Sender,
         NEW addr \in Nat \X (Ports \cup {0}),
         NEW srv \in Filter,
         cmd \in {"hello", "bye"} => from[1] # LocalNode,
         Send(cmd, from, addr, srv)
  PROVE  inbox' \in Seq(Packet)
  <1> DEFINE pkt == [cmd |-> cmd, from |-> from, addr |-> addr,
                     service |-> srv.service, instance |-> srv.instance]
  <1>1. pkt \in Packet
    BY PacketType
  <1>2. inbox \in Seq(Packet) /\ inbox' = Append(inbox, pkt)
    BY DEF TypeOK, Send
  <1> HIDE DEF pkt
  <1> QED BY <1>1, <1>2

\* server_del keeps the types of all it writes.
LEMMA ServerDelType ==
  ASSUME TypeOK, NEW A, NEW L, ServerDel(A, L)
  PROVE  /\ servers' \in [Addrs -> Server \cup {NoServer}]
         /\ announced' \in [RemoteNodes -> [Ports -> Server \cup {NoServer}]]
         /\ told' \in [Ports -> SUBSET Entry]
  BY DEF ServerDel, TellGone, TypeOK

\* Sending to the broadcast address keeps the type of the remote registries.
LEMMA BroadcastType ==
  ASSUME TypeOK, NEW p \in Ports, NEW srv \in Server \cup {NoServer}, Broadcast(p, srv)
  PROVE  announced' \in [RemoteNodes -> [Ports -> Server \cup {NoServer}]]
  BY DEF Broadcast, TypeOK

-----------------------------------------------------------------------------
(* Type correctness.                                                       *)

LEMMA InitTypeOK == Init => TypeOK
  BY NameServerConstants DEF Init, TypeOK, NameServerConstants

\* Each handler keeps the types.
LEMMA HandleTypeOK == TypeOK /\ Handle => TypeOK'
  <1> SUFFICES ASSUME TypeOK, Handle PROVE TypeOK'
    OBVIOUS
  <1>1. CASE Hello
    <2>1. inbox' \in Seq(Packet)
      BY <1>1, QueueTypes DEF Hello
    <2>2. announced' \in [RemoteNodes -> [Ports -> Server \cup {NoServer}]]
      <3> DEFINE n == Head(inbox).from[1]
                 ours == AnnounceServers(n)
      <3>1. \/ announced' = announced
            \/ n \in up /\ announced' = [announced EXCEPT ![n] = ours]
        BY <1>1 DEF Hello
      <3>2. n \in up => ours \in [Ports -> Server \cup {NoServer}]
        BY AddrTypes DEF AnnounceServers, TypeOK, Registered
      <3> HIDE DEF n, ours
      <3> QED BY <3>1, <3>2 DEF TypeOK
    <2>3. owes' \subseteq { a \in Addrs : a[1] \in up /\ want[a] # NoServer }
      BY <1>1 DEF Hello, TypeOK
    <2> QED BY <1>1, <2>1, <2>2, <2>3 DEF Hello, TypeOK
  <1>2. CASE Bye
    <2>1. inbox' \in Seq(Packet)
      BY <1>2, QueueTypes DEF Bye
    <2>2. sessions' \subseteq Clients \X Ports
      BY <1>2 DEF Bye, Forward, TypeOK
    <2>3. PICK A : ServerDel(A, lookups)
      BY <1>2 DEF Bye
    <2> QED BY <1>2, <2>1, <2>2, <2>3, ServerDelType DEF Bye, TypeOK
  <1>3. CASE DelClient
    <2>1. inbox' \in Seq(Packet)
      BY <1>3, QueueTypes DEF DelClient
    <2>2. sessions' \subseteq Clients \X Ports
      BY <1>3 DEF DelClient, Forward, TypeOK
    <2>3. lookups' \subseteq Lookup
      BY <1>3 DEF DelClient, LookupsWithout, TypeOK
    <2>4. \/ \E A, L : ServerDel(A, L)
          \/ UNCHANGED <<servers, told, announced>>
      BY <1>3 DEF DelClient
    <2>5. /\ servers' \in [Addrs -> Server \cup {NoServer}]
          /\ announced' \in [RemoteNodes -> [Ports -> Server \cup {NoServer}]]
          /\ told' \in [Ports -> SUBSET Entry]
      BY <2>4, ServerDelType DEF TypeOK
    <2> QED BY <1>3, <2>1, <2>2, <2>3, <2>5 DEF DelClient, TypeOK
  <1>4. CASE NewServer
    <2> DEFINE pkt == Head(inbox)
               a   == Subject(pkt)
               srv == [service |-> pkt.service, instance |-> pkt.instance]
               ok  == Genuine(pkt, a) /\ Addable(pkt.service, a[2])
    <2>1. pkt \in Packet /\ inbox' \in Seq(Packet)
      BY <1>4, QueueTypes DEF NewServer
    <2>2. CASE ok
      <3>1. a \in Addrs
        BY <2>1, <2>2, SubjectType DEF Genuine, Addable
      <3>2. srv \in Server
        BY <2>1, <2>2 DEF Packet, Server, Addable
      <3>3. /\ servers' = [servers EXCEPT ![a] = srv]
            /\ a[1] = LocalNode => Broadcast(a[2], srv)
            /\ a[1] # LocalNode => announced' = announced
            /\ told' = TellNew(lookups, a, srv)
        BY <1>4, <2>2 DEF NewServer
      <3> HIDE DEF a, srv
      <3>4. servers' \in [Addrs -> Server \cup {NoServer}]
        BY <3>1, <3>2, <3>3 DEF TypeOK
      <3>5. announced' \in [RemoteNodes -> [Ports -> Server \cup {NoServer}]]
        BY <3>1, <3>2, <3>3, BroadcastType, AddrTypes DEF TypeOK
      <3>6. [addr |-> a, server |-> srv] \in Entry
        BY <3>1, <3>2 DEF Entry
      <3>7. told' \in [Ports -> SUBSET Entry]
        BY <3>3, <3>6 DEF TellNew, TypeOK
      <3> QED BY <1>4, <2>1, <3>4, <3>5, <3>7 DEF NewServer, TypeOK
    <2>3. CASE ~ ok
      <3>1. UNCHANGED <<servers, told, announced>>
        BY <1>4, <2>3 DEF NewServer
      <3> QED BY <1>4, <2>1, <3>1 DEF NewServer, TypeOK
    <2> QED BY <2>2, <2>3
  <1>5. CASE DelServer
    <2>1. inbox' \in Seq(Packet)
      BY <1>5, QueueTypes DEF DelServer
    <2>2. \/ \E A, L : ServerDel(A, L)
          \/ UNCHANGED <<servers, told, announced>>
      BY <1>5 DEF DelServer
    <2>3. /\ servers' \in [Addrs -> Server \cup {NoServer}]
          /\ announced' \in [RemoteNodes -> [Ports -> Server \cup {NoServer}]]
          /\ told' \in [Ports -> SUBSET Entry]
      BY <2>2, ServerDelType DEF TypeOK
    <2> QED BY <1>5, <2>1, <2>3 DEF DelServer, TypeOK
  <1>6. CASE NewLookup
    <2> DEFINE pkt == Head(inbox)
               p   == pkt.from[2]
               f   == [service |-> pkt.service, instance |-> pkt.instance]
               found == { EntryOf(a) : a \in { b \in Addrs : Registered(b)
                                                   /\ ServerMatch(servers[b], f) } }
    <2>1. pkt \in Packet /\ inbox' \in Seq(Packet)
      BY <1>6, QueueTypes DEF NewLookup
    <2>2. CASE pkt.from[1] = LocalNode
      <3>1. p \in Ports
        BY <2>1, <2>2, NameServerConstants
           DEF NameServerConstants, Packet, Sender, Addrs, Nodes
      <3>2. [port |-> p, service |-> f.service, instance |-> f.instance] \in Lookup
        BY <2>1, <3>1 DEF Packet, Lookup
      <3>3. lookups' \subseteq Lookup
        BY <1>6, <2>2, <3>2 DEF NewLookup, TypeOK
      <3>4. found \subseteq Entry
        BY DEF EntryOf, Registered, Entry, TypeOK
      <3>5. \/ told' = [told EXCEPT ![p] = { e \in @ : ~ ServerMatch(e.server, f) } \cup found]
            \/ told' = told
        BY <1>6, <2>2 DEF NewLookup
      <3> HIDE DEF found, f, p
      <3>6. told' \in [Ports -> SUBSET Entry]
        BY <3>1, <3>4, <3>5 DEF TypeOK
      <3> QED BY <1>6, <2>1, <3>3, <3>6 DEF NewLookup, TypeOK
    <2>3. CASE pkt.from[1] # LocalNode
      BY <1>6, <2>1, <2>3 DEF NewLookup, TypeOK
    <2> QED BY <2>2, <2>3
  <1>7. CASE DelLookup
    <2>1. inbox' \in Seq(Packet)
      BY <1>7, QueueTypes DEF DelLookup
    <2>2. lookups' \subseteq Lookup
      BY <1>7 DEF DelLookup, TypeOK
    <2>3. told' \in [Ports -> SUBSET Entry]
      BY <1>7 DEF DelLookup, TypeOK
    <2> QED BY <1>7, <2>1, <2>2, <2>3 DEF DelLookup, TypeOK
  <1>8. CASE Ignored
    BY <1>8, QueueTypes DEF Ignored, TypeOK
  <1> QED BY <1>1, <1>2, <1>3, <1>4, <1>5, <1>6, <1>7, <1>8 DEF Handle

\* So do the steps of sockets, links and remote nodes.
LEMMA EnvironmentTypeOK == TypeOK /\ Environment => TypeOK'
  <1> SUFFICES ASSUME TypeOK, Environment PROVE TypeOK'
    OBVIOUS
  <1>0. /\ {"hello", "bye", "new_server", "del_server", "del_client",
            "new_lookup", "del_lookup"} \subseteq Cmds
        /\ NoServer \in Server \cup {NoServer}
    BY DEF Cmds
  <1>1. ASSUME NEW a \in Addrs, OpenSocket(a) PROVE TypeOK'
    BY <1>1 DEF OpenSocket, TypeOK
  <1>2. ASSUME NEW a \in Addrs, CloseSocket(a) PROVE TypeOK'
    <2>1. inbox' \in Seq(Packet)
      BY <1>0, <1>2, SendType, AddrTypes, FilterTypes DEF CloseSocket
    <2>2. a[1] = LocalNode => announced' \in [RemoteNodes -> [Ports -> Server \cup {NoServer}]]
      BY <1>2, BroadcastType, AddrTypes DEF CloseSocket
    <2>3. told' \in [Ports -> SUBSET Entry]
      BY <1>2, AddrTypes DEF CloseSocket, TypeOK
    <2>4. sessions' \subseteq Clients \X Ports
      BY <1>2 DEF CloseSocket, TypeOK
    <2> QED BY <1>2, <2>1, <2>2, <2>3, <2>4 DEF CloseSocket, TypeOK
  <1>3. ASSUME NEW a \in Addrs, Withdraw(a) PROVE TypeOK'
    <2>1. want[a] \in Filter
      BY <1>3, FilterTypes DEF Withdraw, TypeOK
    <2>2. inbox' \in Seq(Packet)
      BY <1>0, <1>3, <2>1, SendType, AddrTypes DEF Withdraw
    <2> QED BY <1>3, <2>2 DEF Withdraw, TypeOK
  <1>4. ASSUME NEW a \in Addrs, Announce(a) PROVE TypeOK'
    <2>1. want[a] \in Server /\ want[a] \in Filter
      BY <1>4, FilterTypes DEF Announce, TypeOK
    <2>2. inbox' \in Seq(Packet)
      BY <1>0, <1>4, <2>1, SendType, AddrTypes DEF Announce
    <2> QED BY <1>4, <2>2 DEF Announce, TypeOK
  <1>5. ASSUME NEW a \in Addrs, NEW srv \in Offers[a], Publish(a, srv) PROVE TypeOK'
    <2>1. srv \in Filter /\ srv \in Server
      BY FilterTypes
    <2>2. inbox' \in Seq(Packet)
      BY <1>0, <1>5, <2>1, SendType, AddrTypes DEF Publish
    <2> QED BY <1>5, <2>1, <2>2 DEF Publish, TypeOK
  <1>6. ASSUME NEW p \in Ports, NEW f \in Filters[p], NEW cmd \in {"new_lookup", "del_lookup"},
               AskLookup(cmd, p, f)
        PROVE  TypeOK'
    <2>1. Local(p) \in Sender
      BY AddrTypes
    <2>2. inbox' \in Seq(Packet)
      BY <1>0, <1>6, <2>1, SendType, AddrTypes, FilterTypes DEF AskLookup
    <2> QED BY <1>6, <2>2 DEF AskLookup, TypeOK
  <1>7. ASSUME NEW c \in Clients, NEW p \in Ports, Connect(c, p) PROVE TypeOK'
    BY <1>7 DEF Connect, TypeOK
  <1>8. ASSUME NEW n \in RemoteNodes, LinkUp(n) PROVE TypeOK'
    <2>1. inbox' \in Seq(Packet)
      BY <1>0, <1>8, SendType, AddrTypes, FilterTypes, NameServerConstants
         DEF LinkUp, NameServerConstants
    <2> QED BY <1>8, <2>1 DEF LinkUp, TypeOK
  <1>9. ASSUME NEW n \in RemoteNodes, LinkDown(n) PROVE TypeOK'
    <2>1. inbox' \in Seq(Packet)
      BY <1>0, <1>9, SendType, AddrTypes, FilterTypes, NameServerConstants
         DEF LinkDown, NameServerConstants
    <2> QED BY <1>9, <2>1 DEF LinkDown, TypeOK
  <1>10. ASSUME NEW pkt \in Strays, Stray(pkt) PROVE TypeOK'
    BY <1>10, NameServerConstants DEF NameServerConstants, Stray, TypeOK
  <1> QED BY <1>1, <1>2, <1>3, <1>4, <1>5, <1>6, <1>7, <1>8, <1>9, <1>10 DEF Environment

LEMMA NextTypeOK == TypeOK /\ [Next]_vars => TypeOK'
  <1> SUFFICES ASSUME TypeOK, [Next]_vars PROVE TypeOK'
    OBVIOUS
  <1>1. CASE Restart
    BY <1>1 DEF Restart, SayHello, TypeOK
  <1>2. CASE UNCHANGED vars
    BY <1>2 DEF vars, TypeOK
  <1> QED BY <1>1, <1>2, HandleTypeOK, EnvironmentTypeOK DEF Next

\* The types of all variables of ns.c and of its environment hold for ever.
THEOREM TypeCorrect == Spec => []TypeOK
  BY InitTypeOK, NextTypeOK, PTL DEF Spec

-----------------------------------------------------------------------------
(* Who may change the registry.                                            *)

\* server_del touches no address outside the set it is given.
LEMMA ServerDelFrame ==
  ASSUME TypeOK, NEW A, NEW L, ServerDel(A, L), NEW a \in Addrs, servers'[a] # servers[a]
  PROVE  a \in A
  BY DEF ServerDel, TypeOK

LEMMA StepOwnerWrites == TypeOK /\ [Next]_vars => OwnerWrites
  <1> SUFFICES ASSUME TypeOK, [Next]_vars,
                      NEW a \in Addrs, servers'[a] # servers[a], ~ Restart
               PROVE  /\ inbox # << >>
                      /\ Head(inbox).from[1] = a[1]
                      /\ a[1] = LocalNode => Head(inbox).from = a
    BY DEF OwnerWrites
  <1> DEFINE pkt == Head(inbox)
  <1>1. Handle
    BY DEF Next, Environment, OpenSocket, CloseSocket, Publish, Withdraw, AskLookup,
           Connect, LinkUp, LinkDown, Announce, Stray, vars
  <1>2. Bye \/ DelClient \/ NewServer \/ DelServer
    BY <1>1 DEF Handle, Hello, NewLookup, DelLookup, Ignored
  <1>3. CASE Bye
    <2>1. a[1] = pkt.from[1] /\ inbox # << >>
      BY <1>3, ServerDelFrame DEF Bye, Receive
    <2>2. pkt.from[1] # LocalNode
      BY <1>3, QueueTypes DEF Bye, Receive, Packet
    <2> QED BY <2>1, <2>2
  <1>4. CASE DelClient
    <2>1. /\ inbox # << >>
          /\ pkt.from[1] = pkt.addr[1]
          /\ pkt.from[1] = LocalNode => pkt.from[2] = pkt.addr[2]
          /\ a = pkt.addr
      BY <1>4, ServerDelFrame DEF DelClient, Receive, Genuine
    <2>2. pkt.from[1] = LocalNode => pkt.from \in Addrs
      BY <1>4, QueueTypes, NameServerConstants
         DEF DelClient, Packet, Sender, NameServerConstants
    <2>3. a[1] = LocalNode => pkt.from = a
      BY <2>1, <2>2, AddrTypes
    <2> QED BY <2>1, <2>3
  <1>5. CASE NewServer
    BY <1>5 DEF NewServer, Receive, Subject, Genuine, TypeOK
  <1>6. CASE DelServer
    <2>1. pkt.from[1] = Subject(pkt)[1] /\ a = Subject(pkt) /\ inbox # << >>
      BY <1>6, ServerDelFrame DEF DelServer, Receive, Genuine
    <2> QED BY <2>1 DEF Subject
  <1> QED BY <1>2, <1>3, <1>4, <1>5, <1>6

\* The guards of ctrl_cmd_new_server, _del_server and _del_client are enough:
\* whatever is queued, only the owner of an address changes its entry.
THEOREM OnlyOwner == Spec => OnlyOwnerWrites
  <1>1. TypeOK /\ [Next]_vars => [OwnerWrites]_vars
    BY StepOwnerWrites
  <1> QED BY <1>1, TypeCorrect, PTL DEF Spec, OnlyOwnerWrites

-----------------------------------------------------------------------------
(* The registry follows the owners.                                        *)

\* Queueing a packet about an address makes it the last word on it.
LEMMA PushAbout ==
  ASSUME NEW q \in Seq(Packet), NEW x \in Packet, NEW a, NEW w,
         Affects(x, a), Outcome(x) = w
  PROVE  LastWord(Append(q, x), a, w)
  <1> DEFINE r == Append(q, x)
  <1>1. DOMAIN r = 1..(Len(q) + 1) /\ r[Len(q) + 1] = x
    OBVIOUS
  <1> HIDE DEF r
  <1> QED BY <1>1 DEF LastWord

\* Queueing any other packet changes neither the last word nor the quiet.
LEMMA PushOther ==
  ASSUME NEW q \in Seq(Packet), NEW x \in Packet, NEW a, NEW w, ~ Affects(x, a)
  PROVE  /\ LastWord(q, a, w) => LastWord(Append(q, x), a, w)
         /\ Quiet(q, a) => Quiet(Append(q, x), a)
  <1> DEFINE r == Append(q, x)
  <1>1. /\ DOMAIN r = 1..(Len(q) + 1)
        /\ DOMAIN q = 1..Len(q)
        /\ r[Len(q) + 1] = x
        /\ \A i \in DOMAIN q : i \in DOMAIN r /\ r[i] = q[i]
        /\ \A i \in DOMAIN r : i \in DOMAIN q \/ i = Len(q) + 1
    OBVIOUS
  <1> HIDE DEF r
  <1> QED BY <1>1 DEF LastWord, Quiet

\* Taking a packet off the queue: the last word stays, unless it is that packet.
LEMMA Pop ==
  ASSUME NEW q \in Seq(Packet), q # << >>, NEW a, NEW w
  PROVE  /\ LastWord(q, a, w) =>
              \/ LastWord(Tail(q), a, w)
              \/ Quiet(Tail(q), a) /\ Affects(Head(q), a) /\ Outcome(Head(q)) = w
         /\ Quiet(q, a) => Quiet(Tail(q), a) /\ ~ Affects(Head(q), a)
  <1> DEFINE r == Tail(q)
  <1>1. /\ DOMAIN r = 1..(Len(q) - 1)
        /\ DOMAIN q = 1..Len(q)
        /\ Len(q) \in Nat /\ Len(q) >= 1
        /\ \A i \in DOMAIN r : i + 1 \in DOMAIN q /\ r[i] = q[i + 1]
        /\ \A i \in DOMAIN q : i = 1 \/ (i - 1 \in DOMAIN r /\ q[i] = r[i - 1])
        /\ Head(q) = q[1]
    OBVIOUS
  <1> HIDE DEF r
  <1>2. Quiet(q, a) => Quiet(r, a) /\ ~ Affects(Head(q), a)
    BY <1>1 DEF Quiet
  <1>3. ASSUME NEW i \in DOMAIN q,
               Affects(q[i], a),
               \A j \in DOMAIN q : j > i => ~ Affects(q[j], a),
               Outcome(q[i]) = w
        PROVE  \/ LastWord(r, a, w)
               \/ Quiet(r, a) /\ Affects(Head(q), a) /\ Outcome(Head(q)) = w
    <2>1. CASE i = 1
      <3>1. ASSUME NEW j \in DOMAIN r PROVE ~ Affects(r[j], a)
        <4>1. j + 1 > i
          BY <1>1, <2>1
        <4> QED BY <1>1, <1>3, <4>1
      <3> QED BY <1>1, <1>3, <2>1, <3>1 DEF Quiet
    <2>2. CASE i # 1
      <3>1. i - 1 \in DOMAIN r /\ r[i - 1] = q[i]
        BY <1>1, <2>2
      <3>2. ASSUME NEW j \in DOMAIN r, j > i - 1 PROVE ~ Affects(r[j], a)
        <4>1. j + 1 > i
          BY <1>1, <3>2
        <4> QED BY <1>1, <1>3, <4>1
      <3> QED BY <1>3, <3>1, <3>2 DEF LastWord
    <2> QED BY <2>1, <2>2
  <1>4. r = Tail(q)
    BY DEF r
  <1>5. LastWord(q, a, w) => \/ LastWord(r, a, w)
                             \/ Quiet(r, a) /\ Affects(Head(q), a) /\ Outcome(Head(q)) = w
    <2> SUFFICES ASSUME LastWord(q, a, w)
                 PROVE  \/ LastWord(r, a, w)
                        \/ Quiet(r, a) /\ Affects(Head(q), a) /\ Outcome(Head(q)) = w
      OBVIOUS
    <2>1. PICK i \in DOMAIN q : /\ Affects(q[i], a)
                                /\ \A j \in DOMAIN q : j > i => ~ Affects(q[j], a)
                                /\ Outcome(q[i]) = w
      BY DEF LastWord
    <2> QED BY <1>3, <2>1
  <1> QED BY <1>2, <1>4, <1>5

\* server_del clears the addresses it is given and no other.
LEMMA ServerDelEffect ==
  ASSUME TypeOK, NEW A, NEW L, ServerDel(A, L), NEW a \in Addrs
  PROVE  servers'[a] = IF a \in A THEN NoServer ELSE servers[a]
  BY DEF ServerDel, TypeOK, Registered

\* What handling a packet does to the entry of an address is what Affects and
\* Outcome say.
LEMMA HandleEffect ==
  ASSUME TypeOK, Handle, NEW a \in Addrs
  PROVE  servers'[a] = IF Affects(Head(inbox), a) THEN Outcome(Head(inbox)) ELSE servers[a]
  <1> DEFINE pkt == Head(inbox)
  <1>1. CASE Hello \/ NewLookup \/ DelLookup \/ Ignored
    BY <1>1 DEF Hello, NewLookup, DelLookup, Ignored, Receive, Affects
  <1>2. CASE Bye
    <2>1. pkt.cmd = "bye" /\ ServerDel({ b \in Addrs : b[1] = pkt.from[1] }, lookups)
      BY <1>2 DEF Bye, Receive
    <2>2. servers'[a] = IF a[1] = pkt.from[1] THEN NoServer ELSE servers[a]
      BY <2>1, ServerDelEffect
    <2> QED BY <2>1, <2>2 DEF Affects, Outcome
  <1>3. CASE DelClient
    <2> DEFINE ok == /\ pkt.from[1] = pkt.addr[1]
                     /\ pkt.from[1] = LocalNode => pkt.from[2] = pkt.addr[2]
    <2>1. pkt.cmd = "del_client" /\ pkt \in Packet
      BY <1>3, QueueTypes DEF DelClient, Receive
    <2>2. CASE ok
      <3>1. \E L : ServerDel({pkt.addr}, L)
        BY <1>3, <2>2 DEF DelClient, Genuine
      <3>2. servers'[a] = IF a = pkt.addr THEN NoServer ELSE servers[a]
        BY <3>1, ServerDelEffect
      <3>3. pkt.from[1] = LocalNode => pkt.from = pkt.addr
        BY <2>1, <2>2, NameServerConstants
           DEF Packet, Sender, Addrs, Nodes, NameServerConstants
      <3>4. Affects(pkt, a) <=> a = pkt.addr
        BY <2>1, <2>2, <3>3 DEF Affects
      <3> QED BY <2>1, <3>2, <3>4 DEF Outcome
    <2>3. CASE ~ ok
      <3>1. servers' = servers
        BY <1>3, <2>3 DEF DelClient, Genuine
      <3>2. ~ Affects(pkt, a)
        BY <2>1, <2>3 DEF Affects
      <3> QED BY <3>1, <3>2
    <2> QED BY <2>2, <2>3
  <1>4. CASE NewServer
    <2> DEFINE s == Subject(pkt)
               srv == [service |-> pkt.service, instance |-> pkt.instance]
    <2>1. pkt.cmd = "new_server" /\ pkt \in Packet
      BY <1>4, QueueTypes DEF NewServer, Receive
    <2>2. servers' = IF pkt.from[1] = s[1] /\ pkt.service # 0 /\ s[2] # 0
                     THEN [servers EXCEPT ![s] = srv] ELSE servers
      BY <1>4 DEF NewServer, Genuine, Addable, Subject
    <2>3. a[2] # 0
      BY AddrTypes, NameServerConstants DEF NameServerConstants
    <2>4. Affects(pkt, a) <=> s = a /\ pkt.from[1] = a[1] /\ pkt.service # 0
      BY <2>1 DEF Affects
    <2>5. Outcome(pkt) = srv
      BY <2>1 DEF Outcome
    <2> HIDE DEF s, srv
    <2> QED BY <2>2, <2>3, <2>4, <2>5 DEF TypeOK
  <1>5. CASE DelServer
    <2>1. pkt.cmd = "del_server"
      BY <1>5 DEF DelServer, Receive
    <2>2. servers'[a] = IF pkt.from[1] = Subject(pkt)[1] /\ a = Subject(pkt)
                        THEN NoServer ELSE servers[a]
      BY <1>5, ServerDelEffect DEF DelServer, Genuine, Subject
    <2> QED BY <2>1, <2>2 DEF Affects, Outcome
  <1> QED BY <1>1, <1>2, <1>3, <1>4, <1>5 DEF Handle

\* Servers are wanted by open sockets only, and remote sockets are open only on
\* linked nodes: what a restart needs to ask every server's node again.
World ==
  /\ \A a \in Addrs : want[a] # NoServer => a \in open
  /\ \A a \in open : a[1] = LocalNode \/ a[1] \in up

LEMMA InitWorld == Init => World
  BY DEF Init, World

LEMMA StepWorld == TypeOK /\ World /\ [Next]_vars => World'
  <1> SUFFICES ASSUME TypeOK, World, [Next]_vars PROVE World'
    OBVIOUS
  <1>1. CASE Handle \/ Restart \/ UNCHANGED vars
    BY <1>1 DEF Handle, Hello, Bye, DelClient, NewServer, DelServer, NewLookup, DelLookup,
                Ignored, Restart, vars, World
  <1>2. CASE \E a \in Addrs : OpenSocket(a)
    BY <1>2 DEF OpenSocket, Reachable, World
  <1>3. CASE \E a \in Addrs : CloseSocket(a)
    BY <1>3 DEF CloseSocket, World, TypeOK
  <1>4. CASE \E a \in Addrs : Withdraw(a)
    BY <1>4 DEF Withdraw, World, TypeOK
  <1>5. CASE \E a \in Addrs : \E srv \in Offers[a] : Publish(a, srv)
    BY <1>5 DEF Publish, World, TypeOK
  <1>6. CASE \E n \in RemoteNodes : LinkUp(n) \/ LinkDown(n)
    BY <1>6 DEF LinkUp, LinkDown, World, TypeOK
  <1>7. CASE \/ \E a \in Addrs : Announce(a)
             \/ \E p \in Ports : \E f \in Filters[p] :
                  AskLookup("new_lookup", p, f) \/ AskLookup("del_lookup", p, f)
             \/ \E c \in Clients, p \in Ports : Connect(c, p)
             \/ \E pkt \in Strays : Stray(pkt)
    BY <1>7 DEF Announce, AskLookup, Connect, Stray, World
  <1> QED BY <1>1, <1>2, <1>3, <1>4, <1>5, <1>6, <1>7 DEF Next, Environment

LEMMA InitFollows == Init => RegistryFollows
  BY DEF Init, RegistryFollows, Quiet, Settled

\* A handler moves at most the head of the queue into the registry.
LEMMA HandleFollows == TypeOK /\ RegistryFollows /\ Handle => RegistryFollows'
  <1> SUFFICES ASSUME TypeOK, RegistryFollows, Handle, NEW a \in Addrs
               PROVE  (LastWord(inbox, a, want[a]) \/ (Quiet(inbox, a) /\ Settled(a)))'
    BY DEF RegistryFollows
  <1>1. inbox \in Seq(Packet) /\ inbox # << >> /\ inbox' = Tail(inbox)
    BY DEF TypeOK, Handle, Hello, Bye, DelClient, NewServer, DelServer, NewLookup,
           DelLookup, Ignored, Receive
  <1>2. want' = want /\ owes \subseteq owes'
    BY DEF Handle, Hello, Bye, DelClient, NewServer, DelServer, NewLookup, DelLookup, Ignored
  <1>3. servers'[a] = IF Affects(Head(inbox), a) THEN Outcome(Head(inbox)) ELSE servers[a]
    BY HandleEffect
  <1>4. CASE LastWord(inbox, a, want[a])
    <2>1. \/ LastWord(Tail(inbox), a, want[a])
          \/ /\ Quiet(Tail(inbox), a)
             /\ Affects(Head(inbox), a)
             /\ Outcome(Head(inbox)) = want[a]
      BY <1>1, <1>4, Pop
    <2>2. \/ LastWord(inbox', a, want'[a])
          \/ Quiet(inbox', a) /\ servers'[a] = want'[a]
      BY <1>1, <1>2, <1>3, <2>1
    <2> QED BY <2>2 DEF LastWord, Quiet, Settled
  <1>5. CASE Quiet(inbox, a) /\ Settled(a)
    <2>1. Quiet(inbox', a) /\ servers'[a] = servers[a]
      BY <1>1, <1>3, <1>5, Pop
    <2>2. Settled(a)'
      BY <1>2, <1>5, <2>1 DEF Settled
    <2> QED BY <2>1, <2>2 DEF Quiet
  <1> QED BY <1>4, <1>5 DEF RegistryFollows

\* A packet that is queued either speaks for the new wish of an owner, or is
\* not about the address.
LEMMA SendFollows ==
  ASSUME TypeOK, RegistryFollows, NEW x \in Packet, NEW a \in Addrs,
         inbox' = Append(inbox, x),
         servers' = servers,
         Affects(x, a) => Outcome(x) = want'[a],
         ~ Affects(x, a) => want'[a] = want[a] /\ (a \in owes => a \in owes')
  PROVE  (LastWord(inbox, a, want[a]) \/ (Quiet(inbox, a) /\ Settled(a)))'
  <1>1. inbox \in Seq(Packet)
    BY DEF TypeOK
  <1>2. CASE Affects(x, a)
    <2>1. LastWord(inbox', a, want'[a])
      BY <1>1, <1>2, PushAbout
    <2> QED BY <2>1 DEF LastWord
  <1>3. CASE ~ Affects(x, a)
    <2>1. /\ LastWord(inbox, a, want[a]) => LastWord(inbox', a, want[a])
          /\ Quiet(inbox, a) => Quiet(inbox', a)
      BY <1>1, <1>3, PushOther
    <2>2. Settled(a) => Settled(a)'
      BY <1>3 DEF Settled
    <2>3. LastWord(inbox', a, want'[a]) \/ (Quiet(inbox', a) /\ Settled(a)')
      BY <1>3, <2>1, <2>2 DEF RegistryFollows
    <2> QED BY <2>3 DEF LastWord, Quiet
  <1> QED BY <1>2, <1>3

\* Sockets, links and remote nodes keep the queue and the wishes in step.
LEMMA EnvironmentFollows == TypeOK /\ RegistryFollows /\ Environment => RegistryFollows'
  <1> SUFFICES ASSUME TypeOK, RegistryFollows, Environment, NEW a \in Addrs
               PROVE  (LastWord(inbox, a, want[a]) \/ (Quiet(inbox, a) /\ Settled(a)))'
    BY DEF RegistryFollows
  <1> DEFINE Goal == (LastWord(inbox, a, want[a]) \/ (Quiet(inbox, a) /\ Settled(a)))'
  <1>0. {"hello", "bye", "new_server", "del_server", "del_client",
         "new_lookup", "del_lookup"} \subseteq Cmds
    BY DEF Cmds
  <1>1. CASE \/ \E b \in Addrs : OpenSocket(b)
             \/ \E c \in Clients, p \in Ports : Connect(c, p)
    <2>1. UNCHANGED <<servers, inbox, want, owes>>
      BY <1>1 DEF OpenSocket, Connect
    <2>2. LastWord(inbox, a, want[a]) \/ (Quiet(inbox, a) /\ Settled(a))
      BY DEF RegistryFollows
    <2> QED BY <2>1, <2>2 DEF LastWord, Quiet, Settled
  <1>2. ASSUME NEW b \in Addrs, CloseSocket(b) PROVE Goal
    <2> DEFINE x == [cmd |-> "del_client", from |-> From(b), addr |-> b,
                     service |-> Nothing.service, instance |-> Nothing.instance]
    <2>1. x \in Packet
      BY <1>0, AddrTypes, FilterTypes, PacketType
    <2>2. inbox' = Append(inbox, x) /\ servers' = servers
      BY <1>2 DEF CloseSocket, Send
    <2>3. Affects(x, a) <=> a = b
      BY AddrTypes DEF Affects, From
    <2>4. Outcome(x) = NoServer
      BY DEF Outcome
    <2>5. /\ a = b => want'[a] = NoServer
          /\ a # b => want'[a] = want[a] /\ (a \in owes => a \in owes')
      BY <1>2 DEF CloseSocket, TypeOK
    <2> HIDE DEF x
    <2> QED BY <2>1, <2>2, <2>3, <2>4, <2>5, SendFollows
  <1>3. ASSUME NEW b \in Addrs, Withdraw(b) PROVE Goal
    <2> DEFINE x == [cmd |-> "del_server", from |-> From(b), addr |-> b,
                     service |-> want[b].service, instance |-> want[b].instance]
    <2>1. want[b] \in Filter
      BY <1>3, FilterTypes DEF Withdraw, TypeOK
    <2>2. x \in Packet
      BY <1>0, <2>1, AddrTypes, PacketType
    <2>3. inbox' = Append(inbox, x) /\ servers' = servers
      BY <1>3 DEF Withdraw, Send
    <2>4. Affects(x, a) <=> a = b
      BY AddrTypes DEF Affects, From, Subject
    <2>5. Outcome(x) = NoServer
      BY DEF Outcome
    <2>6. /\ a = b => want'[a] = NoServer
          /\ a # b => want'[a] = want[a] /\ (a \in owes => a \in owes')
      BY <1>3 DEF Withdraw, TypeOK
    <2> HIDE DEF x
    <2> QED BY <2>2, <2>3, <2>4, <2>5, <2>6, SendFollows
  <1>4. ASSUME NEW b \in Addrs, Announce(b) PROVE Goal
    <2> DEFINE x == [cmd |-> "new_server", from |-> From(b), addr |-> b,
                     service |-> want[b].service, instance |-> want[b].instance]
    <2>1. want[b] \in Server /\ want[b] \in Filter /\ b[1] # LocalNode
      BY <1>4, FilterTypes, NameServerConstants
         DEF Announce, TypeOK, NameServerConstants
    <2>2. x \in Packet
      BY <1>0, <2>1, AddrTypes, PacketType
    <2>3. inbox' = Append(inbox, x) /\ servers' = servers /\ want' = want
      BY <1>4 DEF Announce, Send
    <2>4. Affects(x, a) <=> a = b
      BY <2>1, AddrTypes DEF Affects, From, Subject, Server
    <2>5. Outcome(x) = want[b]
      BY <2>1 DEF Outcome, Server
    <2>6. a # b => (a \in owes => a \in owes')
      BY <1>4 DEF Announce
    <2> HIDE DEF x
    <2> QED BY <2>2, <2>3, <2>4, <2>5, <2>6, SendFollows
  <1>5. ASSUME NEW b \in Addrs, NEW srv \in Offers[b], Publish(b, srv) PROVE Goal
    <2> DEFINE claim == IF b[1] = LocalNode THEN Unset ELSE b
               x == [cmd |-> "new_server", from |-> From(b), addr |-> claim,
                     service |-> srv.service, instance |-> srv.instance]
    <2>1. srv \in Server /\ srv \in Filter
      BY FilterTypes
    <2>2. x \in Packet
      BY <1>0, <2>1, AddrTypes, PacketType
    <2>3. inbox' = Append(inbox, x) /\ servers' = servers
      BY <1>5 DEF Publish, Send
    <2>4. Affects(x, a) <=> a = b
      BY <2>1, AddrTypes DEF Affects, From, Subject, Server
    <2>5. Outcome(x) = srv
      BY <2>1 DEF Outcome, Server
    <2>6. /\ a = b => want'[a] = srv
          /\ a # b => want'[a] = want[a] /\ (a \in owes => a \in owes')
      BY <1>5 DEF Publish, TypeOK
    <2> HIDE DEF x
    <2> QED BY <2>2, <2>3, <2>4, <2>5, <2>6, SendFollows
  <1>6. ASSUME NEW p \in Ports, NEW f \in Filters[p], NEW cmd \in {"new_lookup", "del_lookup"},
               AskLookup(cmd, p, f)
        PROVE  Goal
    <2> DEFINE x == [cmd |-> cmd, from |-> Local(p), addr |-> Unset,
                     service |-> f.service, instance |-> f.instance]
    <2>1. x \in Packet
      BY <1>0, AddrTypes, FilterTypes, PacketType DEF Sender
    <2>2. inbox' = Append(inbox, x) /\ UNCHANGED <<servers, want, owes>>
      BY <1>6 DEF AskLookup, Send
    <2>3. ~ Affects(x, a)
      BY DEF Affects
    <2> HIDE DEF x
    <2> QED BY <2>1, <2>2, <2>3, SendFollows
  <1>7. ASSUME NEW n \in RemoteNodes, LinkUp(n) PROVE Goal
    <2> DEFINE x == [cmd |-> "hello", from |-> <<n, CtrlPort>>, addr |-> Unset,
                     service |-> Nothing.service, instance |-> Nothing.instance]
    <2>1. x \in Packet
      BY <1>0, AddrTypes, FilterTypes, PacketType, NameServerConstants
         DEF NameServerConstants
    <2>2. inbox' = Append(inbox, x) /\ UNCHANGED <<servers, want, owes>>
      BY <1>7 DEF LinkUp, Send
    <2>3. ~ Affects(x, a)
      BY DEF Affects
    <2> HIDE DEF x
    <2> QED BY <2>1, <2>2, <2>3, SendFollows
  <1>8. ASSUME NEW n \in RemoteNodes, LinkDown(n) PROVE Goal
    <2> DEFINE x == [cmd |-> "bye", from |-> <<n, CtrlPort>>, addr |-> Unset,
                     service |-> Nothing.service, instance |-> Nothing.instance]
    <2>1. x \in Packet
      BY <1>0, AddrTypes, FilterTypes, PacketType, NameServerConstants
         DEF NameServerConstants
    <2>2. inbox' = Append(inbox, x) /\ servers' = servers
      BY <1>8 DEF LinkDown, Send
    <2>3. Affects(x, a) <=> a[1] = n
      BY DEF Affects
    <2>4. Outcome(x) = NoServer
      BY DEF Outcome
    <2>5. /\ a[1] = n => want'[a] = NoServer
          /\ a[1] # n => want'[a] = want[a] /\ (a \in owes => a \in owes')
      BY <1>8 DEF LinkDown
    <2> HIDE DEF x
    <2> QED BY <2>1, <2>2, <2>3, <2>4, <2>5, SendFollows
  <1>9. ASSUME NEW x \in Strays, Stray(x) PROVE Goal
    <2>1. x \in Packet /\ ~ Affects(x, a)
      BY AddrTypes, NameServerConstants DEF NameServerConstants, Affects, Subject
    <2>2. inbox' = Append(inbox, x) /\ UNCHANGED <<servers, want, owes>>
      BY <1>9 DEF Stray
    <2> QED BY <2>1, <2>2, SendFollows
  <1> QED BY <1>1, <1>2, <1>3, <1>4, <1>5, <1>6, <1>7, <1>8, <1>9 DEF Environment

\* A restart empties the registry; the greeting makes every linked node owe
\* the announcement of the servers it has.
LEMMA RestartFollows == TypeOK /\ World /\ Restart => RegistryFollows'
  <1> SUFFICES ASSUME TypeOK, World, Restart, NEW a \in Addrs
               PROVE  (Quiet(inbox, a) /\ Settled(a))'
    BY DEF RegistryFollows
  <1>1. inbox' = << >> /\ servers'[a] = NoServer /\ want' = want /\ MayRestart
    BY DEF Restart
  <1>2. Quiet(inbox', a)
    BY <1>1 DEF Quiet
  <1>3. a[1] # LocalNode /\ want[a] # NoServer => a \in owes'
    BY DEF Restart, SayHello, World
  <1> QED BY <1>1, <1>2, <1>3 DEF Settled, Quiet

\* After any run the registry is what its owners made of it, up to the packets
\* still queued, announcements still owed and local servers lost by a restart.
THEOREM RegistryAgrees == Spec => []RegistryFollows
  <1> DEFINE Inv == TypeOK /\ World /\ RegistryFollows
  <1>1. Init => Inv
    BY InitTypeOK, InitWorld, InitFollows
  <1>2. Inv /\ [Next]_vars => Inv'
    <2> SUFFICES ASSUME Inv, [Next]_vars PROVE RegistryFollows'
      BY NextTypeOK, StepWorld
    <2>1. CASE UNCHANGED vars
      BY <2>1 DEF vars, RegistryFollows, LastWord, Quiet, Settled
    <2> QED BY <2>1, HandleFollows, EnvironmentFollows, RestartFollows DEF Next
  <1> QED BY <1>1, <1>2, PTL DEF Spec

-----------------------------------------------------------------------------
(* The kernel's report of a close, and its place in the queue.             *)

\* x reports that the local socket at address a was closed; x asks for a lookup
\* on behalf of it.
Reports(x, a) == x.cmd = "del_client" /\ x.from = a /\ x.addr = a
Asks(x, a)    == x.cmd = "new_lookup" /\ x.from = a

\* A report on a stands behind place k of queue q.
ReportedAfter(q, k, a) == \E j \in DOMAIN q : j > k /\ Reports(q[j], a)

\* Behind every request of a stands a report on it.
Doomed(q, a) == \A i \in DOMAIN q : Asks(q[i], a) => ReportedAfter(q, i, a)

\* Queueing a packet.
LEMMA PushReport ==
  ASSUME NEW q \in Seq(Packet), NEW x \in Packet, NEW a
  PROVE  /\ ReportedAfter(q, 0, a) => ReportedAfter(Append(q, x), 0, a)
         /\ ~ Asks(x, a) /\ Doomed(q, a) => Doomed(Append(q, x), a)
         /\ Reports(x, a) => ReportedAfter(Append(q, x), 0, a) /\ Doomed(Append(q, x), a)
  <1> DEFINE r == Append(q, x)
  <1>1. /\ Len(q) \in Nat
        /\ DOMAIN r = 1..(Len(q) + 1)
        /\ DOMAIN q = 1..Len(q)
        /\ r[Len(q) + 1] = x
        /\ \A i \in DOMAIN q : i \in DOMAIN r /\ r[i] = q[i]
        /\ \A i \in DOMAIN r : i \in DOMAIN q \/ i = Len(q) + 1
    OBVIOUS
  <1> HIDE DEF r
  <1>2. \A k : ReportedAfter(q, k, a) => ReportedAfter(r, k, a)
    BY <1>1 DEF ReportedAfter
  <1>3. ~ Asks(x, a) /\ Doomed(q, a) => Doomed(r, a)
    BY <1>1, <1>2 DEF Doomed
  <1>4. ASSUME Reports(x, a) PROVE ReportedAfter(r, 0, a) /\ Doomed(r, a)
    <2>1. \A k \in DOMAIN q \cup {0} : ReportedAfter(r, k, a)
      BY <1>1, <1>4 DEF ReportedAfter
    <2>2. ~ Asks(x, a)
      BY <1>4 DEF Asks, Reports
    <2> QED BY <1>1, <2>1, <2>2 DEF Doomed
  <1> QED BY <1>2, <1>3, <1>4 DEF r

\* Taking the head packet.
LEMMA PopReport ==
  ASSUME NEW q \in Seq(Packet), q # << >>, NEW a
  PROVE  /\ ReportedAfter(q, 0, a) => Reports(Head(q), a) \/ ReportedAfter(Tail(q), 0, a)
         /\ Doomed(q, a) => Doomed(Tail(q), a)
         /\ Doomed(q, a) /\ Asks(Head(q), a) => ReportedAfter(Tail(q), 0, a)
  <1> DEFINE r == Tail(q)
  <1>1. /\ DOMAIN r = 1..(Len(q) - 1)
        /\ DOMAIN q = 1..Len(q)
        /\ Len(q) \in Nat /\ Len(q) >= 1
        /\ \A i \in DOMAIN r : i + 1 \in DOMAIN q /\ r[i] = q[i + 1]
        /\ \A i \in DOMAIN q : i = 1 \/ (i - 1 \in DOMAIN r /\ q[i] = r[i - 1])
        /\ Head(q) = q[1]
    OBVIOUS
  <1> HIDE DEF r
  <1>2. \A k \in Nat : ReportedAfter(q, k + 1, a) => ReportedAfter(r, k, a)
    <2> SUFFICES ASSUME NEW k \in Nat, NEW j \in DOMAIN q, j > k + 1, Reports(q[j], a)
                 PROVE  ReportedAfter(r, k, a)
      BY DEF ReportedAfter
    <2>1. j - 1 \in DOMAIN r /\ q[j] = r[j - 1] /\ j - 1 > k
      BY <1>1
    <2> QED BY <2>1 DEF ReportedAfter
  <1>3. ReportedAfter(q, 0, a) => Reports(Head(q), a) \/ ReportedAfter(q, 1, a)
    BY <1>1 DEF ReportedAfter
  <1>4. ReportedAfter(q, 1, a) => ReportedAfter(r, 0, a)
    BY <1>2
  <1>5. Doomed(q, a) => Doomed(r, a)
    BY <1>1, <1>2 DEF Doomed
  <1>6. Doomed(q, a) /\ Asks(Head(q), a) => ReportedAfter(q, 1, a)
    BY <1>1 DEF Doomed
  <1> QED BY <1>3, <1>4, <1>5, <1>6 DEF r

\* For local addresses, a queued report is what Closing says.
LEMMA ReportIsClosing ==
  ASSUME TypeOK, NEW p \in Ports
  PROVE  Closing(Local(p)) <=> ReportedAfter(inbox, 0, Local(p))
  <1>1. /\ \A i \in DOMAIN inbox : i > 0
        /\ Local(p)[1] = LocalNode
    BY DEF TypeOK, Local
  <1> QED BY <1>1 DEF Closing, ReportedAfter, Affects, Reports

-----------------------------------------------------------------------------
(* Lookups belong to open sockets.                                         *)

\* What a closed socket asked for, handled or not, will be removed.
Forsaken ==
  \A p \in Ports :
    Local(p) \notin open =>
      /\ Doomed(inbox, Local(p))
      /\ (\E l \in lookups : l.port = p) => ReportedAfter(inbox, 0, Local(p))

LEMMA InitForsaken == Init => Forsaken
  BY DEF Init, Forsaken, Doomed

\* A handler takes up a lookup only by request and drops those of a socket it
\* hears to be closed.
LEMMA HandleLookups ==
  ASSUME TypeOK, Handle, NEW p \in Ports, NEW l \in lookups', l.port = p
  PROVE  \/ l \in lookups /\ ~ Reports(Head(inbox), Local(p))
         \/ Asks(Head(inbox), Local(p))
  <1> DEFINE pkt == Head(inbox)
  <1>1. CASE Hello \/ Bye \/ NewServer \/ DelServer \/ Ignored \/ DelLookup
    BY <1>1 DEF Hello, Bye, NewServer, DelServer, Ignored, DelLookup, Receive, Reports
  <1>2. CASE DelClient
    <2>1. CASE Genuine(pkt, pkt.addr)
      BY <1>2, <2>1 DEF DelClient, LookupsWithout, Reports
    <2>2. CASE ~ Genuine(pkt, pkt.addr)
      BY <1>2, <2>2 DEF DelClient, Genuine, Reports
    <2> QED BY <2>1, <2>2
  <1>3. CASE NewLookup
    <2>1. pkt \in Packet /\ pkt.cmd = "new_lookup"
      BY <1>3, QueueTypes DEF NewLookup, Receive
    <2>2. \/ l \in lookups
          \/ pkt.from[1] = LocalNode /\ l.port = pkt.from[2]
      BY <1>3 DEF NewLookup
    <2>3. pkt.from[1] = LocalNode => pkt.from = Local(pkt.from[2])
      BY <2>1, NameServerConstants
         DEF Packet, Sender, Addrs, Nodes, Local, NameServerConstants
    <2> QED BY <2>1, <2>2, <2>3 DEF Reports, Asks
  <1> QED BY <1>1, <1>2, <1>3 DEF Handle

\* What a step that queues a packet needs to keep: it opens no closed socket's
\* request, and a socket it closes is reported.
LEMMA SendForsaken ==
  ASSUME TypeOK, Forsaken, NEW x \in Packet, inbox' = Append(inbox, x), lookups' = lookups,
         \A p \in Ports : Local(p) \notin open' =>
           \/ Reports(x, Local(p))
           \/ Local(p) \notin open /\ ~ Asks(x, Local(p))
  PROVE  Forsaken'
  <1> SUFFICES ASSUME NEW p \in Ports, Local(p) \notin open'
               PROVE  /\ Doomed(inbox', Local(p))
                      /\ (\E l \in lookups' : l.port = p) => ReportedAfter(inbox', 0, Local(p))
    BY DEF Forsaken
  <1>1. inbox \in Seq(Packet)
    BY DEF TypeOK
  <1> QED BY <1>1, PushReport DEF Forsaken

LEMMA StepForsaken == TypeOK /\ Forsaken /\ [Next]_vars => Forsaken'
  <1> SUFFICES ASSUME TypeOK, Forsaken, [Next]_vars PROVE Forsaken'
    OBVIOUS
  <1>0. {"hello", "bye", "new_server", "del_server", "del_client",
         "new_lookup", "del_lookup"} \subseteq Cmds
    BY DEF Cmds
  <1>1. CASE Handle
    <2> SUFFICES ASSUME NEW p \in Ports, Local(p) \notin open
                 PROVE  /\ Doomed(inbox', Local(p))
                        /\ (\E l \in lookups' : l.port = p) => ReportedAfter(inbox', 0, Local(p))
      BY <1>1 DEF Forsaken, Handle, Hello, Bye, DelClient, NewServer, DelServer, NewLookup,
                  DelLookup, Ignored
    <2>1. inbox \in Seq(Packet) /\ inbox # << >> /\ inbox' = Tail(inbox)
      BY <1>1 DEF TypeOK, Handle, Hello, Bye, DelClient, NewServer, DelServer, NewLookup,
                  DelLookup, Ignored, Receive
    <2>2. Doomed(inbox', Local(p))
      BY <2>1, PopReport DEF Forsaken
    <2>3. ASSUME NEW l \in lookups', l.port = p PROVE ReportedAfter(inbox', 0, Local(p))
      BY <1>1, <2>1, <2>3, HandleLookups, PopReport DEF Forsaken
    <2> QED BY <2>2, <2>3
  <1>2. CASE Restart
    BY <1>2 DEF Restart, Forsaken, Doomed
  <1>3. CASE \/ \E a \in Addrs : OpenSocket(a)
             \/ \E c \in Clients, p \in Ports : Connect(c, p)
             \/ UNCHANGED vars
    BY <1>3 DEF OpenSocket, Connect, vars, Forsaken
  <1>4. ASSUME NEW b \in Addrs, CloseSocket(b) PROVE Forsaken'
    <2> DEFINE x == [cmd |-> "del_client", from |-> From(b), addr |-> b,
                     service |-> Nothing.service, instance |-> Nothing.instance]
    <2>1. x \in Packet
      BY <1>0, AddrTypes, FilterTypes, PacketType
    <2>2. inbox' = Append(inbox, x) /\ lookups' = lookups /\ open' = open \ {b}
      BY <1>4 DEF CloseSocket, Send
    <2>3. ASSUME NEW p \in Ports, b = Local(p) PROVE Reports(x, Local(p))
      BY <2>3, AddrTypes DEF Reports
    <2>4. \A p \in Ports : ~ Asks(x, Local(p))
      BY DEF Asks
    <2> HIDE DEF x
    <2> QED BY <2>1, <2>2, <2>3, <2>4, SendForsaken
  <1>5. ASSUME NEW b \in Addrs, Withdraw(b) PROVE Forsaken'
    <2> DEFINE x == [cmd |-> "del_server", from |-> From(b), addr |-> b,
                     service |-> want[b].service, instance |-> want[b].instance]
    <2>1. want[b] \in Filter
      BY <1>5, FilterTypes DEF Withdraw, TypeOK
    <2>2. x \in Packet
      BY <1>0, <2>1, AddrTypes, PacketType
    <2>3. inbox' = Append(inbox, x) /\ lookups' = lookups /\ open' = open
      BY <1>5 DEF Withdraw, Send
    <2>4. \A p \in Ports : ~ Asks(x, Local(p))
      BY DEF Asks
    <2> HIDE DEF x
    <2> QED BY <2>2, <2>3, <2>4, SendForsaken
  <1>6. ASSUME NEW b \in Addrs, Announce(b) PROVE Forsaken'
    <2> DEFINE x == [cmd |-> "new_server", from |-> From(b), addr |-> b,
                     service |-> want[b].service, instance |-> want[b].instance]
    <2>1. want[b] \in Filter
      BY <1>6, FilterTypes DEF Announce, TypeOK
    <2>2. x \in Packet
      BY <1>0, <2>1, AddrTypes, PacketType
    <2>3. inbox' = Append(inbox, x) /\ lookups' = lookups /\ open' = open
      BY <1>6 DEF Announce, Send
    <2>4. \A p \in Ports : ~ Asks(x, Local(p))
      BY DEF Asks
    <2> HIDE DEF x
    <2> QED BY <2>2, <2>3, <2>4, SendForsaken
  <1>7. ASSUME NEW b \in Addrs, NEW srv \in Offers[b], Publish(b, srv) PROVE Forsaken'
    <2> DEFINE claim == IF b[1] = LocalNode THEN Unset ELSE b
               x == [cmd |-> "new_server", from |-> From(b), addr |-> claim,
                     service |-> srv.service, instance |-> srv.instance]
    <2>1. srv \in Filter
      BY FilterTypes
    <2>2. x \in Packet
      BY <1>0, <2>1, AddrTypes, PacketType
    <2>3. inbox' = Append(inbox, x) /\ lookups' = lookups /\ open' = open
      BY <1>7 DEF Publish, Send
    <2>4. \A p \in Ports : ~ Asks(x, Local(p))
      BY DEF Asks
    <2> HIDE DEF x
    <2> QED BY <2>2, <2>3, <2>4, SendForsaken
  <1>8. ASSUME NEW p \in Ports, NEW f \in Filters[p], NEW cmd \in {"new_lookup", "del_lookup"},
               AskLookup(cmd, p, f)
        PROVE  Forsaken'
    <2> DEFINE x == [cmd |-> cmd, from |-> Local(p), addr |-> Unset,
                     service |-> f.service, instance |-> f.instance]
    <2>1. x \in Packet
      BY <1>0, AddrTypes, FilterTypes, PacketType DEF Sender
    <2>2. /\ inbox' = Append(inbox, x) /\ lookups' = lookups /\ open' = open
          /\ Local(p) \in open
      BY <1>8 DEF AskLookup, Send
    <2>3. \A b : Asks(x, b) => b = Local(p)
      BY DEF Asks
    <2> HIDE DEF x
    <2> QED BY <2>1, <2>2, <2>3, SendForsaken
  <1>9. ASSUME NEW n \in RemoteNodes, LinkUp(n) PROVE Forsaken'
    <2> DEFINE x == [cmd |-> "hello", from |-> <<n, CtrlPort>>, addr |-> Unset,
                     service |-> Nothing.service, instance |-> Nothing.instance]
    <2>1. x \in Packet
      BY <1>0, AddrTypes, FilterTypes, PacketType, NameServerConstants
         DEF NameServerConstants
    <2>2. inbox' = Append(inbox, x) /\ lookups' = lookups /\ open' = open
      BY <1>9 DEF LinkUp, Send
    <2>3. \A p \in Ports : ~ Asks(x, Local(p))
      BY DEF Asks
    <2> HIDE DEF x
    <2> QED BY <2>1, <2>2, <2>3, SendForsaken
  <1>10. ASSUME NEW n \in RemoteNodes, LinkDown(n) PROVE Forsaken'
    <2> DEFINE x == [cmd |-> "bye", from |-> <<n, CtrlPort>>, addr |-> Unset,
                     service |-> Nothing.service, instance |-> Nothing.instance]
    <2>1. x \in Packet
      BY <1>0, AddrTypes, FilterTypes, PacketType, NameServerConstants
         DEF NameServerConstants
    <2>2. inbox' = Append(inbox, x) /\ lookups' = lookups
      BY <1>10 DEF LinkDown, Send
    <2>3. \A p \in Ports : Local(p) \in open => Local(p) \in open'
      BY <1>10, NameServerConstants DEF LinkDown, Local, NameServerConstants
    <2>4. \A p \in Ports : ~ Asks(x, Local(p))
      BY DEF Asks
    <2> HIDE DEF x
    <2> QED BY <2>1, <2>2, <2>3, <2>4, SendForsaken
  <1>11. ASSUME NEW x \in Strays, Stray(x) PROVE Forsaken'
    <2>1. x \in Packet /\ \A p \in Ports : ~ Asks(x, Local(p))
      BY NameServerConstants DEF NameServerConstants, Asks, Local
    <2>2. inbox' = Append(inbox, x) /\ lookups' = lookups /\ open' = open
      BY <1>11 DEF Stray
    <2> QED BY <2>1, <2>2, SendForsaken
  <1> QED
    BY <1>1, <1>2, <1>3, <1>4, <1>5, <1>6, <1>7, <1>8, <1>9, <1>10, <1>11
       DEF Next, Environment

\* A lookup of a closed socket is removed by a report that is queued already,
\* for any interleaving of requests, closes, re-opens and restarts.
THEOREM LookupsBelong == Spec => []LookupsOwned
  <1>1. TypeOK /\ Forsaken => LookupsOwned
    <2> SUFFICES ASSUME TypeOK, Forsaken, NEW l \in lookups, Local(l.port) \notin open
                 PROVE  Closing(Local(l.port))
      BY DEF LookupsOwned
    <2>1. l.port \in Ports
      BY DEF TypeOK, Lookup
    <2> QED BY <2>1, ReportIsClosing DEF Forsaken
  <1>2. Init => TypeOK /\ Forsaken
    BY InitTypeOK, InitForsaken
  <1>3. TypeOK /\ Forsaken /\ [Next]_vars => (TypeOK /\ Forsaken)'
    BY NextTypeOK, StepForsaken
  <1> QED BY <1>1, <1>2, <1>3, PTL DEF Spec

-----------------------------------------------------------------------------
(* Observers are told of every server.                                     *)

\* Sockets, links and nodes only add to the queue.
LEMMA EnvironmentQueue ==
  ASSUME TypeOK, Environment
  PROVE  \/ inbox' = inbox
         \/ \E x \in Packet : inbox' = Append(inbox, x)
  <1>1. inbox' = inbox \/ \E x : inbox' = Append(inbox, x)
    BY DEF Environment, OpenSocket, CloseSocket, Publish, Withdraw, AskLookup, Connect,
           LinkUp, LinkDown, Announce, Stray, Send
  <1>2. inbox' \in Seq(Packet)
    BY NextTypeOK DEF TypeOK, Next
  <1>3. ASSUME NEW x, inbox' = Append(inbox, x) PROVE x \in Packet
    <2>1. inbox \in Seq(Packet)
      BY DEF TypeOK
    <2>2. Len(inbox') = Len(inbox) + 1 /\ inbox'[Len(inbox) + 1] = x /\ Len(inbox) \in Nat
      BY <1>3, <2>1
    <2>3. Len(inbox) + 1 \in 1..Len(inbox')
      BY <2>2
    <2> QED BY <1>2, <2>2, <2>3
  <1> QED BY <1>1, <1>3

LEMMA ClosingStays ==
  ASSUME TypeOK, Environment, NEW p \in Ports, Closing(Local(p))
  PROVE  Closing(Local(p))'
  <1>1. ReportedAfter(inbox, 0, Local(p)) /\ inbox \in Seq(Packet)
    BY ReportIsClosing DEF TypeOK
  <1>2. ReportedAfter(inbox', 0, Local(p))
    BY <1>1, EnvironmentQueue, PushReport
  <1>3. \A i \in DOMAIN inbox' : Reports(inbox'[i], Local(p)) =>
          Affects(inbox'[i], Local(p)) /\ inbox'[i].cmd = "del_client"
    BY DEF Affects, Reports, Local
  <1> QED BY <1>2, <1>3 DEF Closing, ReportedAfter

\* The lookups of a socket whose close has been handled are gone, so a lookup
\* that stays was not about to be removed before.
LEMMA StillWatched ==
  ASSUME TypeOK, Handle, NEW l \in lookups', ~ Closing(Local(l.port))'
  PROVE  l.port \in Ports /\ ~ Closing(Local(l.port))
  <1>1. TypeOK'
    BY NextTypeOK DEF Next
  <1>2. l.port \in Ports
    BY <1>1 DEF TypeOK, Lookup
  <1>3. inbox \in Seq(Packet) /\ inbox # << >> /\ inbox' = Tail(inbox)
    BY DEF TypeOK, Handle, Hello, Bye, DelClient, NewServer, DelServer, NewLookup,
           DelLookup, Ignored, Receive
  <1>4. ASSUME Closing(Local(l.port)) PROVE FALSE
    <2>1. ReportedAfter(inbox, 0, Local(l.port))
      BY <1>2, <1>4, ReportIsClosing
    <2>2. ~ ReportedAfter(inbox', 0, Local(l.port))
      <3>1. \A i \in DOMAIN inbox' : Reports(inbox'[i], Local(l.port)) =>
              Affects(inbox'[i], Local(l.port)) /\ inbox'[i].cmd = "del_client"
        BY DEF Affects, Reports, Local
      <3> QED BY <3>1 DEF Closing, ReportedAfter
    <2>3. Reports(Head(inbox), Local(l.port))
      BY <1>3, <2>1, <2>2, PopReport
    <2>4. Asks(Head(inbox), Local(l.port))
      BY <1>2, <2>3, HandleLookups
    <2> QED BY <2>3, <2>4 DEF Reports, Asks
  <1> QED BY <1>2, <1>4

\* Deleting servers leaves every observer with the others.
LEMMA ServerDelTold ==
  ASSUME TypeOK, NEW A, NEW L, ServerDel(A, L),
         NEW a \in Addrs, NEW p \in Ports, servers'[a] # NoServer
  PROVE  /\ servers'[a] = servers[a]
         /\ EntryOf(a) \in told[p] => EntryOf(a) \in told'[p]
  <1>1. servers'[a] = servers[a] /\ ~ (a \in A /\ Registered(a))
    BY DEF ServerDel, TypeOK, Registered
  <1>2. \A b \in Addrs : EntryOf(b) = EntryOf(a) => b = a
    BY DEF EntryOf
  <1> QED BY <1>1, <1>2 DEF ServerDel, TellGone

\* The two tests of ns.c are one.
LEMMA SameTest ==
  ASSUME NEW f \in Filter, NEW l, l.service = f.service, l.instance = f.instance,
         NEW srv \in Server
  PROVE  Observes(l, srv) <=> ServerMatch(srv, f)
  BY DEF Observes, ServerMatch, Filter, Server

LEMMA HandleTold == TypeOK /\ ToldComplete /\ Handle => ToldComplete'
  <1> SUFFICES ASSUME TypeOK, ToldComplete, Handle,
                      NEW l \in lookups', Local(l.port) \in open, ~ Closing(Local(l.port))',
                      NEW a \in Addrs, servers'[a] # NoServer, Observes(l, servers'[a])
               PROVE  [addr |-> a, server |-> servers'[a]] \in told'[l.port]
    BY DEF ToldComplete, Registered, EntryOf, Handle, Hello, Bye, DelClient, NewServer,
           DelServer, NewLookup, DelLookup, Ignored, Observes
  <1> DEFINE p == l.port
             pkt == Head(inbox)
  <1>1. p \in Ports /\ ~ Closing(Local(p))
    BY StillWatched
  <1>2. ASSUME l \in lookups, servers'[a] = servers[a] PROVE EntryOf(a) \in told[p]
    BY <1>1, <1>2 DEF ToldComplete, Registered
  <1>3. CASE Hello \/ Ignored
    <2>1. UNCHANGED <<servers, lookups, told>>
      BY <1>3 DEF Hello, Ignored
    <2> QED BY <1>2, <2>1 DEF EntryOf
  <1>4. CASE Bye \/ DelClient \/ DelServer
    <2>1. l \in lookups
      BY <1>4 DEF Bye, DelClient, DelServer, LookupsWithout
    <2>2. \/ \E A, L : ServerDel(A, L)
          \/ UNCHANGED <<servers, told>>
      BY <1>4 DEF Bye, DelClient, DelServer
    <2>3. servers'[a] = servers[a] /\ (EntryOf(a) \in told[p] => EntryOf(a) \in told'[p])
      BY <1>1, <2>2, ServerDelTold
    <2> QED BY <1>2, <2>1, <2>3 DEF EntryOf
  <1>5. CASE NewServer
    <2> DEFINE s   == Subject(pkt)
               srv == [service |-> pkt.service, instance |-> pkt.instance]
    <2>1. l \in lookups
      BY <1>5 DEF NewServer
    <2>2. \/ UNCHANGED <<servers, told>>
          \/ servers' = [servers EXCEPT ![s] = srv] /\ told' = TellNew(lookups, s, srv)
      BY <1>5 DEF NewServer
    <2> HIDE DEF s, srv
    <2>3. CASE UNCHANGED <<servers, told>>
      BY <1>2, <2>1, <2>3 DEF EntryOf
    <2>4. CASE servers' = [servers EXCEPT ![s] = srv] /\ told' = TellNew(lookups, s, srv)
      <3>1. told[p] \subseteq told'[p]
        BY <1>1, <2>4 DEF TellNew
      <3>2. CASE a = s
        <4>1. servers'[a] = srv
          BY <2>4, <3>2 DEF TypeOK
        <4>2. p \in Reached(lookups, srv)
          BY <1>1, <2>1, <4>1 DEF Reached
        <4> QED BY <1>1, <2>4, <3>2, <4>1, <4>2 DEF TellNew
      <3>3. CASE a # s
        <4>1. servers'[a] = servers[a]
          BY <2>4, <3>3 DEF TypeOK
        <4> QED BY <1>2, <2>1, <3>1, <4>1 DEF EntryOf
      <3> QED BY <3>2, <3>3
    <2> QED BY <2>2, <2>3, <2>4
  <1>6. CASE NewLookup
    <2> DEFINE f == [service |-> pkt.service, instance |-> pkt.instance]
               found == { EntryOf(b) : b \in { c \in Addrs : Registered(c) /\ ServerMatch(servers[c], f) } }
    <2>0. pkt \in Packet /\ f \in Filter /\ servers' = servers /\ servers[a] \in Server
      BY <1>6, QueueTypes DEF NewLookup, Packet, Filter, TypeOK
    <2>1. CASE pkt.from = Local(p)
      <3>1. told'[p] = { e \in told[p] : ~ ServerMatch(e.server, f) } \cup found
        <4>1. pkt.from[1] = LocalNode /\ pkt.from[2] = p /\ pkt.from \in open
          BY <2>1 DEF Local
        <4>2. told' = [told EXCEPT ![p] = { e \in @ : ~ ServerMatch(e.server, f) } \cup found]
          BY <1>6, <4>1 DEF NewLookup
        <4> HIDE DEF f, found
        <4> QED BY <1>1, <4>2 DEF TypeOK
      <3>2. l \in lookups \/ (l.service = f.service /\ l.instance = f.instance)
        BY <1>6, <2>1 DEF NewLookup, Local
      <3>3. CASE ServerMatch(servers[a], f)
        <4>1. EntryOf(a) \in found
          BY <2>0, <3>3 DEF Registered
        <4>2. EntryOf(a) = [addr |-> a, server |-> servers'[a]]
          BY <2>0 DEF EntryOf
        <4> HIDE DEF found
        <4> QED BY <3>1, <4>1, <4>2
      <3>4. CASE ~ ServerMatch(servers[a], f)
        <4>1. l \in lookups
          BY <2>0, <3>2, <3>4, SameTest
        <4>2. EntryOf(a) \in told[p] /\ EntryOf(a).server = servers[a]
          BY <1>2, <2>0, <4>1 DEF EntryOf
        <4>3. EntryOf(a) = [addr |-> a, server |-> servers'[a]]
          BY <2>0 DEF EntryOf
        <4>4. ~ ServerMatch(EntryOf(a).server, f)
          BY <3>4, <4>2
        <4> HIDE DEF found, f
        <4> QED BY <3>1, <4>2, <4>3, <4>4
      <3> QED BY <3>3, <3>4
    <2>2. CASE pkt.from # Local(p)
      <3>1. pkt.from[1] = LocalNode => pkt.from = Local(pkt.from[2])
        BY <2>0, NameServerConstants
           DEF Packet, Sender, Addrs, Nodes, Local, NameServerConstants
      <3>2. pkt.from[1] = LocalNode => pkt.from[2] # p
        BY <2>2, <3>1
      <3>3. l \in lookups
        BY <1>6, <3>2 DEF NewLookup
      <3>4. told'[p] = told[p]
        BY <1>1, <1>6, <3>2 DEF NewLookup, TypeOK
      <3> QED BY <1>2, <2>0, <3>3, <3>4 DEF EntryOf
    <2> QED BY <2>1, <2>2
  <1>7. CASE DelLookup
    <2>1. l \in lookups /\ servers' = servers
      BY <1>7 DEF DelLookup
    <2>2. EntryOf(a) \in told[p] /\ EntryOf(a).server = servers[a]
      BY <1>2, <2>1 DEF EntryOf
    <2>3. p \in Reached(lookups', servers[a])
      BY <1>1, <2>1 DEF Reached
    <2>4. told'[p] = IF Local(p) = pkt.from
                     THEN { e \in told[p] : p \in Reached(lookups', e.server) }
                     ELSE told[p]
      BY <1>1, <1>7 DEF DelLookup
    <2> QED BY <2>1, <2>2, <2>3, <2>4 DEF EntryOf
  <1> QED BY <1>3, <1>4, <1>5, <1>6, <1>7 DEF Handle

LEMMA EnvironmentTold == TypeOK /\ Forsaken /\ ToldComplete /\ Environment => ToldComplete'
  <1> SUFFICES ASSUME TypeOK, Forsaken, ToldComplete, Environment,
                      NEW l \in lookups', Local(l.port) \in open', ~ Closing(Local(l.port))',
                      NEW a \in Addrs, servers'[a] # NoServer, Observes(l, servers'[a])
               PROVE  [addr |-> a, server |-> servers'[a]] \in told'[l.port]
    BY DEF ToldComplete, Registered, EntryOf, Observes
  <1> DEFINE p == l.port
  <1>1. lookups' = lookups /\ servers' = servers
    BY DEF Environment, OpenSocket, CloseSocket, Publish, Withdraw, AskLookup, Connect,
           LinkUp, LinkDown, Announce, Stray
  <1>2. l \in lookups /\ p \in Ports
    BY <1>1 DEF TypeOK, Lookup
  <1>3. ~ Closing(Local(p))
    BY <1>2, ClosingStays
  <1>4. Local(p) \in open
    BY <1>2, <1>3, ReportIsClosing DEF Forsaken
  <1>5. told'[p] = told[p]
    <2>1. CASE \E b \in Addrs : CloseSocket(b)
      <3>1. PICK b \in Addrs : CloseSocket(b)
        BY <2>1
      <3>2. b # Local(p)
        BY <3>1 DEF CloseSocket
      <3>3. b[1] = LocalNode => b[2] # p
        BY <3>2, AddrTypes DEF Local
      <3> QED BY <1>2, <3>1, <3>3 DEF CloseSocket, TypeOK
    <2>2. CASE ~ \E b \in Addrs : CloseSocket(b)
      <3>1. told' = told
        BY <2>2 DEF Environment, OpenSocket, Publish, Withdraw, AskLookup, Connect,
                    LinkUp, LinkDown, Announce, Stray
      <3> QED BY <3>1
    <2> QED BY <2>1, <2>2
  <1>6. EntryOf(a) \in told[p]
    BY <1>1, <1>2, <1>3, <1>4 DEF ToldComplete, Registered
  <1> QED BY <1>1, <1>5, <1>6 DEF EntryOf

\* No interleaving of servers, lookups, closes and restarts leaves an observer
\* without news of a registered server it asked for.
THEOREM ToldOfAll == Spec => []ToldComplete
  <1> DEFINE Inv == TypeOK /\ Forsaken /\ ToldComplete
  <1>1. Init => Inv
    BY InitTypeOK, InitForsaken DEF Init, ToldComplete
  <1>2. Inv /\ [Next]_vars => Inv'
    <2> SUFFICES ASSUME Inv, [Next]_vars PROVE ToldComplete'
      BY NextTypeOK, StepForsaken
    <2>1. CASE UNCHANGED vars
      BY <2>1 DEF vars, ToldComplete, Closing, Registered, EntryOf
    <2>2. CASE Restart
      BY <2>2 DEF Restart, ToldComplete
    <2> QED BY <2>1, <2>2, HandleTold, EnvironmentTold DEF Next
  <1> QED BY <1>1, <1>2, PTL DEF Spec

-----------------------------------------------------------------------------
(* Linked nodes hold the local servers exactly.                            *)

Greets(x, n)  == x.cmd = "hello" /\ x.from[1] = n
Greeted(q, n) == \E i \in DOMAIN q : Greets(q[i], n)

\* What a node holds of our servers is never wrong, only incomplete; a node
\* that is not linked starts with nothing.
Mirror ==
  \A n \in RemoteNodes, p \in Ports :
    /\ announced[n][p] \in {NoServer, servers[Local(p)]}
    /\ n \notin up => announced[n][p] = NoServer

\* How a handler changes what node n holds under port p.
LEMMA HandleMirror ==
  ASSUME TypeOK, Handle, NEW n \in RemoteNodes, NEW p \in Ports
  PROVE  /\ n \notin up => announced'[n][p] = announced[n][p]
         /\ \/ n \notin up
            \/ announced'[n][p] = servers'[Local(p)]
            \/ /\ announced'[n][p] = announced[n][p]
               /\ servers'[Local(p)] = servers[Local(p)]
               /\ Greets(Head(inbox), n) => servers[Local(p)] = NoServer
  <1> DEFINE pkt == Head(inbox)
  <1>0. Local(p) \in Addrs /\ \A q \in Ports : Local(q) = Local(p) => q = p
    BY AddrTypes DEF Local
  <1>1. CASE Hello
    <2>1. CASE pkt.from[1] = n /\ n \in up
      <3>1. announced'[n] = AnnounceServers(n) /\ servers' = servers
        BY <1>1, <2>1 DEF Hello, TypeOK
      <3>2. announced'[n][p] = IF servers[Local(p)] # NoServer
                               THEN servers[Local(p)] ELSE announced[n][p]
        BY <3>1 DEF AnnounceServers, Registered
      <3> QED BY <2>1, <3>1, <3>2
    <2>2. CASE ~ (pkt.from[1] = n /\ n \in up)
      <3>1. announced'[n] = announced[n] /\ servers' = servers
        BY <1>1, <2>2 DEF Hello, TypeOK
      <3> QED BY <2>2, <3>1 DEF Greets
    <2> QED BY <2>1, <2>2
  <1>2. CASE NewLookup \/ DelLookup \/ Ignored
    BY <1>2 DEF NewLookup, DelLookup, Ignored, Receive, Greets
  <1>3. CASE Bye \/ DelClient \/ DelServer
    <2>1. ~ Greets(pkt, n)
      BY <1>3 DEF Bye, DelClient, DelServer, Receive, Greets
    <2>2. \/ \E A, L : ServerDel(A, L)
          \/ UNCHANGED <<servers, announced>>
      BY <1>3 DEF Bye, DelClient, DelServer
    <2>3. ASSUME NEW A, NEW L, ServerDel(A, L)
          PROVE  /\ servers'[Local(p)] =
                      IF Local(p) \in A THEN NoServer ELSE servers[Local(p)]
                 /\ announced'[n][p] =
                      IF n \in up /\ Local(p) \in A /\ servers[Local(p)] # NoServer
                      THEN NoServer ELSE announced[n][p]
      BY <1>0, <2>3 DEF ServerDel, Registered, TypeOK
    <2> QED BY <2>1, <2>2, <2>3
  <1>4. CASE NewServer
    <2> DEFINE s   == Subject(pkt)
               srv == [service |-> pkt.service, instance |-> pkt.instance]
               ok  == Genuine(pkt, s) /\ Addable(pkt.service, s[2])
    <2>1. ~ Greets(pkt, n)
      BY <1>4 DEF NewServer, Receive, Greets
    <2>2. CASE ~ ok
      <3>1. UNCHANGED <<servers, announced>>
        BY <1>4, <2>2 DEF NewServer
      <3> QED BY <2>1, <3>1
    <2>3. CASE ok
      <3>1. s \in Addrs
        BY <1>4, <2>3, QueueTypes, SubjectType DEF NewServer, Genuine, Addable
      <3>2. /\ servers' = [servers EXCEPT ![s] = srv]
            /\ IF s[1] = LocalNode THEN Broadcast(s[2], srv) ELSE announced' = announced
        BY <1>4, <2>3 DEF NewServer
      <3> HIDE DEF s, srv
      <3>3. CASE s = Local(p)
        <4>1. servers'[Local(p)] = srv /\ Broadcast(p, srv)
          BY <3>1, <3>2, <3>3 DEF TypeOK, Local
        <4>2. announced'[n][p] = IF n \in up THEN srv ELSE announced[n][p]
          BY <4>1 DEF Broadcast, TypeOK
        <4> QED BY <4>1, <4>2
      <3>4. CASE s # Local(p)
        <4>1. servers'[Local(p)] = servers[Local(p)]
          BY <1>0, <3>1, <3>2, <3>4 DEF TypeOK
        <4>2. s[1] = LocalNode => s[2] # p
          BY <3>1, <3>4, AddrTypes DEF Local
        <4>3. announced'[n][p] = announced[n][p]
          BY <3>2, <4>2 DEF Broadcast, TypeOK
        <4> QED BY <2>1, <4>1, <4>3
      <3> QED BY <3>3, <3>4
    <2> QED BY <2>2, <2>3
  <1> QED BY <1>1, <1>2, <1>3, <1>4 DEF Handle

\* Greetings and reports leave the queue at its head.
LEMMA PopNotice ==
  ASSUME NEW q \in Seq(Packet), q # << >>, NEW n, NEW a
  PROVE  /\ Greeted(q, n) => Greets(Head(q), n) \/ Greeted(Tail(q), n)
         /\ \A i \in DOMAIN q : q[i] = Head(q) \/ \E j \in DOMAIN Tail(q) : Tail(q)[j] = q[i]
  <1> DEFINE r == Tail(q)
  <1>1. /\ DOMAIN q = 1..Len(q)
        /\ \A i \in DOMAIN q : i = 1 \/ (i - 1 \in DOMAIN r /\ q[i] = r[i - 1])
        /\ Head(q) = q[1]
    OBVIOUS
  <1> HIDE DEF r
  <1>2. \A i \in DOMAIN q : q[i] = Head(q) \/ \E j \in DOMAIN r : r[j] = q[i]
    BY <1>1
  <1> QED BY <1>2 DEF Greeted, r

LEMMA HandleAnnounced ==
  TypeOK /\ Mirror /\ AnnouncedExact /\ Handle => Mirror' /\ AnnouncedExact'
  <1> SUFFICES ASSUME TypeOK, Mirror, AnnouncedExact, Handle PROVE Mirror' /\ AnnouncedExact'
    OBVIOUS
  <1>1. up' = up
    BY DEF Handle, Hello, Bye, DelClient, NewServer, DelServer, NewLookup, DelLookup, Ignored
  <1>2. inbox \in Seq(Packet) /\ inbox # << >> /\ inbox' = Tail(inbox)
    BY DEF TypeOK, Handle, Hello, Bye, DelClient, NewServer, DelServer, NewLookup,
           DelLookup, Ignored, Receive
  <1>3. Mirror'
    BY <1>1, HandleMirror DEF Mirror
  <1>4. ASSUME NEW n \in up, ~ Greeted(inbox', n), NEW p \in Ports
        PROVE  \/ announced'[n][p] = servers'[Local(p)]
               \/ announced'[n][p] = NoServer /\ Closing(Local(p))'
    <2>0. n \in RemoteNodes /\ Local(p) \in Addrs
      BY AddrTypes DEF TypeOK
    <2>1. CASE Greets(Head(inbox), n)
      BY <2>0, <2>1, HandleMirror DEF Mirror
    <2>2. CASE ~ Greets(Head(inbox), n)
      <3>1. ~ Greeted(inbox, n)
        BY <1>2, <1>4, <2>2, PopNotice
      <3>2. \/ announced[n][p] = servers[Local(p)]
            \/ announced[n][p] = NoServer /\ Closing(Local(p))
        BY <3>1 DEF AnnouncedExact, Greeted, Greets
      <3>3. \/ announced'[n][p] = servers'[Local(p)]
            \/ announced'[n][p] = announced[n][p] /\ servers'[Local(p)] = servers[Local(p)]
        BY <2>0, HandleMirror
      <3>4. Closing(Local(p)) => Closing(Local(p))' \/ servers'[Local(p)] = NoServer
        <4>1. SUFFICES ASSUME NEW i \in DOMAIN inbox, Affects(inbox[i], Local(p)),
                              inbox[i].cmd = "del_client"
                       PROVE  Closing(Local(p))' \/ servers'[Local(p)] = NoServer
          BY DEF Closing
        <4>2. CASE inbox[i] = Head(inbox)
          BY <2>0, <4>1, <4>2, HandleEffect DEF Outcome
        <4>3. CASE \E j \in DOMAIN inbox' : inbox'[j] = inbox[i]
          BY <4>1, <4>3 DEF Closing, Affects, Subject
        <4> QED BY <1>2, <4>2, <4>3, PopNotice
      <3> QED BY <3>2, <3>3, <3>4
    <2> QED BY <2>1, <2>2
  <1> QED BY <1>1, <1>3, <1>4 DEF AnnouncedExact, Greeted, Greets, Closing, Affects, Subject

LEMMA EnvironmentAnnounced ==
  TypeOK /\ Mirror /\ AnnouncedExact /\ Environment => Mirror' /\ AnnouncedExact'
  <1> SUFFICES ASSUME TypeOK, Mirror, AnnouncedExact, Environment
               PROVE  Mirror' /\ AnnouncedExact'
    OBVIOUS
  <1> DEFINE
        Unlinked(n) == LinkDown(n) /\ up' = up \ {n} /\ announced'[n] = [p \in Ports |-> NoServer]
                         /\ \A m \in RemoteNodes : m # n => announced'[m] = announced[m]
        Closed(p) == CloseSocket(Local(p)) /\ up' = up
                       /\ \A m \in RemoteNodes, q \in Ports :
                            announced'[m][q] = IF m \in up /\ q = p THEN NoServer ELSE announced[m][q]
        Linked(n) == LinkUp(n) /\ up' = up \cup {n} /\ announced' = announced
  <1>1. servers' = servers
    BY DEF Environment, OpenSocket, CloseSocket, Publish, Withdraw, AskLookup, Connect,
           LinkUp, LinkDown, Announce, Stray
  <1>2. \/ \E n \in RemoteNodes : Unlinked(n) \/ Linked(n)
        \/ \E p \in Ports : Closed(p)
        \/ UNCHANGED <<up, announced>>
    <2>1. ASSUME NEW n \in RemoteNodes, LinkDown(n) PROVE Unlinked(n)
      BY <2>1 DEF LinkDown, TypeOK
    <2>2. ASSUME NEW n \in RemoteNodes, LinkUp(n) PROVE Linked(n)
      BY <2>2 DEF LinkUp
    <2>3. ASSUME NEW b \in Addrs, CloseSocket(b)
          PROVE  UNCHANGED <<up, announced>> \/ \E p \in Ports : Closed(p)
      <3>1. CASE b[1] = LocalNode
        <4>1. b[2] \in Ports /\ b = Local(b[2])
          BY <3>1, AddrTypes DEF Local
        <4>2. Broadcast(b[2], NoServer) /\ up' = up
          BY <2>3, <3>1 DEF CloseSocket
        <4>3. Closed(b[2])
          BY <2>3, <4>1, <4>2 DEF Broadcast, TypeOK
        <4> QED BY <4>1, <4>3
      <3>2. CASE b[1] # LocalNode
        BY <2>3, <3>2 DEF CloseSocket
      <3> QED BY <3>1, <3>2
    <2>4. CASE \/ \E a \in Addrs : OpenSocket(a) \/ Withdraw(a) \/ Announce(a)
               \/ \E a \in Addrs : \E srv \in Offers[a] : Publish(a, srv)
               \/ \E p \in Ports : \E f \in Filters[p] :
                    AskLookup("new_lookup", p, f) \/ AskLookup("del_lookup", p, f)
               \/ \E c \in Clients, p \in Ports : Connect(c, p)
               \/ \E pkt \in Strays : Stray(pkt)
      BY <2>4 DEF OpenSocket, Publish, Withdraw, AskLookup, Connect, Announce, Stray
    <2> QED BY <2>1, <2>2, <2>3, <2>4 DEF Environment
  <1>3. Mirror'
    BY <1>1, <1>2 DEF Mirror
  <1>4. ASSUME NEW n \in up', ~ Greeted(inbox', n), NEW p \in Ports
        PROVE  \/ announced'[n][p] = servers'[Local(p)]
               \/ announced'[n][p] = NoServer /\ Closing(Local(p))'
    <2>1. ~ Linked(n)
      <3>1. ASSUME LinkUp(n) PROVE Greeted(inbox', n)
        <4> DEFINE x == [cmd |-> "hello", from |-> <<n, CtrlPort>>, addr |-> Unset,
                         service |-> Nothing.service, instance |-> Nothing.instance]
        <4>1. inbox' = Append(inbox, x) /\ inbox \in Seq(Packet) /\ Greets(x, n)
          BY <3>1 DEF LinkUp, Send, TypeOK, Greets
        <4> HIDE DEF x
        <4>2. Len(inbox) + 1 \in DOMAIN inbox' /\ inbox'[Len(inbox) + 1] = x
          BY <4>1
        <4> QED BY <4>1, <4>2 DEF Greeted
      <3> QED BY <1>4, <3>1
    <2>2. n \in up /\ n \in RemoteNodes
      BY <1>2, <2>1 DEF TypeOK
    <2>3. ~ Greeted(inbox, n)
      <3>1. inbox \in Seq(Packet)
        BY DEF TypeOK
      <3>2. \A i \in DOMAIN inbox : i \in DOMAIN inbox' /\ inbox'[i] = inbox[i]
        BY <3>1, EnvironmentQueue
      <3> QED BY <1>4, <3>2 DEF Greeted
    <2>4. \/ announced[n][p] = servers[Local(p)]
          \/ announced[n][p] = NoServer /\ Closing(Local(p))
      BY <2>2, <2>3 DEF AnnouncedExact, Greeted, Greets
    <2>5. CASE Closed(p)
      <3> DEFINE x == [cmd |-> "del_client", from |-> From(Local(p)), addr |-> Local(p),
                       service |-> Nothing.service, instance |-> Nothing.instance]
      <3>1. announced'[n][p] = NoServer
        BY <2>2, <2>5
      <3>2. inbox' = Append(inbox, x) /\ inbox \in Seq(Packet)
        BY <2>5 DEF CloseSocket, Send, TypeOK
      <3>3. x.cmd = "del_client" /\ Affects(x, Local(p))
        BY AddrTypes DEF Affects
      <3> HIDE DEF x
      <3>4. Len(inbox) + 1 \in DOMAIN inbox' /\ inbox'[Len(inbox) + 1] = x
        BY <3>2
      <3>5. Closing(Local(p))'
        BY <3>3, <3>4 DEF Closing, Affects, Subject
      <3> QED BY <3>1, <3>5
    <2>6. CASE ~ Closed(p)
      <3>1. announced'[n][p] = announced[n][p]
        BY <1>2, <1>4, <2>2, <2>6
      <3> QED BY <1>1, <2>4, <3>1, ClosingStays
    <2> QED BY <2>5, <2>6
  <1> QED BY <1>3, <1>4 DEF AnnouncedExact, Greeted, Greets, Closing, Affects, Subject

\* A linked node knows our servers as we do once its greeting is handled, while
\* the name server does not exit: what it held before would outlive a restart.
THEOREM NodesHoldServers == ASSUME ~ MayRestart PROVE Spec => []AnnouncedExact
  <1> DEFINE Inv == TypeOK /\ Mirror /\ AnnouncedExact
  <1>1. Init => Inv
    BY InitTypeOK DEF Init, Mirror, AnnouncedExact
  <1>2. Inv /\ [Next]_vars => Inv'
    <2> SUFFICES ASSUME Inv, [Next]_vars PROVE Mirror' /\ AnnouncedExact'
      BY NextTypeOK
    <2>1. CASE UNCHANGED vars
      BY <2>1 DEF vars, Mirror, AnnouncedExact, Closing
    <2>2. ~ Restart
      BY DEF Restart
    <2> QED BY <2>1, <2>2, HandleAnnounced, EnvironmentAnnounced DEF Next
  <1> QED BY <1>1, <1>2, PTL DEF Spec

-----------------------------------------------------------------------------
(* Local servers drop the clients that go.                                 *)

\* x tells that the client at address c is gone.
Gone(x, c) == x.cmd \in {"del_client", "bye"} /\ Affects(x, c)

\* A server will be registered at b when the packet at place j of queue q is
\* handled, e being its entry now.
Served(q, j, b, e) ==
  \/ e # NoServer /\ \A k \in DOMAIN q : k < j => ~ Affects(q[k], b)
  \/ \E i \in DOMAIN q : /\ i < j /\ Affects(q[i], b) /\ Outcome(q[i]) # NoServer
                         /\ \A k \in DOMAIN q : i < k /\ k < j => ~ Affects(q[k], b)

\* News that c is gone will find a server at b.
Noticed(q, c, b, e) == \E j \in DOMAIN q : Gone(q[j], c) /\ Served(q, j, b, e)

\* Sessions are with servers that still want to be registered, and that hear of
\* clients that are gone.
Leaving ==
  \A s \in sessions :
    /\ s[1] # Local(s[2])
    /\ want[Local(s[2])] # NoServer
    /\ s[1] \notin open => Noticed(inbox, s[1], Local(s[2]), servers[Local(s[2])])

\* Queueing a packet does not disturb news before it, and the news itself will
\* find the server that is registered in the end.
LEMMA PushNews ==
  ASSUME NEW q \in Seq(Packet), NEW x \in Packet, NEW c, NEW b, NEW e
  PROVE  /\ Noticed(q, c, b, e) => Noticed(Append(q, x), c, b, e)
         /\ \A w : /\ Gone(x, c) /\ w # NoServer
                   /\ LastWord(q, b, w) \/ (Quiet(q, b) /\ e = w)
                   => Noticed(Append(q, x), c, b, e)
  <1> DEFINE r == Append(q, x)
             n == Len(q)
  <1>1. /\ n \in Nat
        /\ DOMAIN r = 1..(n + 1)
        /\ DOMAIN q = 1..n
        /\ r[n + 1] = x
        /\ \A i \in DOMAIN q : i \in DOMAIN r /\ r[i] = q[i]
    OBVIOUS
  <1> HIDE DEF r, n
  <1>2. ASSUME Noticed(q, c, b, e) PROVE Noticed(r, c, b, e)
    <2>1. PICK j \in DOMAIN q : Gone(q[j], c) /\ Served(q, j, b, e)
      BY <1>2 DEF Noticed
    <2>2. \A k \in DOMAIN r : k < j => k \in DOMAIN q /\ r[k] = q[k]
      BY <1>1
    <2>3. Served(r, j, b, e)
      <3>1. CASE e # NoServer /\ \A k \in DOMAIN q : k < j => ~ Affects(q[k], b)
        BY <2>2, <3>1 DEF Served
      <3>2. CASE \E i \in DOMAIN q : /\ i < j /\ Affects(q[i], b) /\ Outcome(q[i]) # NoServer
                                     /\ \A k \in DOMAIN q : i < k /\ k < j => ~ Affects(q[k], b)
        BY <1>1, <2>2, <3>2 DEF Served
      <3> QED BY <2>1, <3>1, <3>2 DEF Served
    <2> QED BY <1>1, <2>1, <2>3 DEF Noticed
  <1>3. ASSUME NEW w, Gone(x, c), w # NoServer, LastWord(q, b, w) \/ (Quiet(q, b) /\ e = w)
        PROVE  Noticed(r, c, b, e)
    <2>1. n + 1 \in DOMAIN r /\ \A k \in DOMAIN r : k < n + 1 => k \in DOMAIN q /\ r[k] = q[k]
      BY <1>1
    <2>2. CASE LastWord(q, b, w)
      <3>1. PICK i \in DOMAIN q : /\ Affects(q[i], b)
                                  /\ \A j \in DOMAIN q : j > i => ~ Affects(q[j], b)
                                  /\ Outcome(q[i]) = w
        BY <2>2 DEF LastWord
      <3>2. i \in DOMAIN r /\ i < n + 1 /\ r[i] = q[i] /\ i \in Nat
        BY <1>1
      <3>3. ASSUME NEW k \in DOMAIN r, i < k, k < n + 1 PROVE ~ Affects(r[k], b)
        BY <1>1, <2>1, <3>1, <3>3
      <3>4. Served(r, n + 1, b, e)
        BY <1>3, <3>1, <3>2, <3>3 DEF Served
      <3> QED BY <1>1, <1>3, <2>1, <3>4 DEF Noticed
    <2>3. CASE Quiet(q, b) /\ e = w
      <3>1. Served(r, n + 1, b, e)
        BY <1>3, <2>1, <2>3 DEF Served, Quiet
      <3> QED BY <1>1, <1>3, <2>1, <3>1 DEF Noticed
    <2> QED BY <1>3, <2>2, <2>3
  <1> QED BY <1>2, <1>3 DEF r

\* Taking the head packet: it is the news, or the server it leaves hears it.
LEMMA PopNews ==
  ASSUME NEW q \in Seq(Packet), q # << >>, NEW c, NEW b, NEW e, Noticed(q, c, b, e)
  PROVE  \/ Gone(Head(q), c) /\ e # NoServer
         \/ Noticed(Tail(q), c, b, IF Affects(Head(q), b) THEN Outcome(Head(q)) ELSE e)
  <1> DEFINE r == Tail(q)
             left == IF Affects(Head(q), b) THEN Outcome(Head(q)) ELSE e
  <1>1. /\ DOMAIN r = 1..(Len(q) - 1)
        /\ DOMAIN q = 1..Len(q)
        /\ Len(q) \in Nat /\ Len(q) >= 1
        /\ \A i \in DOMAIN r : i + 1 \in DOMAIN q /\ r[i] = q[i + 1]
        /\ \A i \in DOMAIN q : i = 1 \/ (i - 1 \in DOMAIN r /\ q[i] = r[i - 1])
        /\ Head(q) = q[1]
    OBVIOUS
  <1> HIDE DEF r
  <1>2. PICK j \in DOMAIN q : Gone(q[j], c) /\ Served(q, j, b, e)
    BY DEF Noticed
  <1>3. CASE j = 1
    BY <1>1, <1>2, <1>3 DEF Served
  <1>4. CASE j # 1
    <2>1. j - 1 \in DOMAIN r /\ Gone(r[j - 1], c) /\ 1 \in DOMAIN q /\ 1 < j /\ j \in Nat
      BY <1>1, <1>2, <1>4
    <2>2. Served(r, j - 1, b, left)
      <3>1. CASE e # NoServer /\ \A k \in DOMAIN q : k < j => ~ Affects(q[k], b)
        <4>1. left = e
          BY <1>1, <2>1, <3>1
        <4>2. ASSUME NEW k \in DOMAIN r, k < j - 1 PROVE ~ Affects(r[k], b)
          <5>1. k + 1 \in DOMAIN q /\ k + 1 < j /\ r[k] = q[k + 1]
            BY <1>1, <2>1, <4>2
          <5> QED BY <3>1, <5>1
        <4> QED BY <3>1, <4>1, <4>2 DEF Served
      <3>2. ASSUME NEW i \in DOMAIN q, i < j, Affects(q[i], b), Outcome(q[i]) # NoServer,
                   \A k \in DOMAIN q : i < k /\ k < j => ~ Affects(q[k], b)
            PROVE  Served(r, j - 1, b, left)
        <4>1. ASSUME NEW k \in DOMAIN r, i < k + 1, k < j - 1 PROVE ~ Affects(r[k], b)
          <5>1. k + 1 \in DOMAIN q /\ k + 1 < j /\ r[k] = q[k + 1]
            BY <1>1, <2>1, <4>1
          <5> QED BY <3>2, <4>1, <5>1
        <4>2. CASE i = 1
          <5>1. left # NoServer
            BY <1>1, <3>2, <4>2
          <5>2. \A k \in DOMAIN r : i < k + 1
            BY <1>1, <4>2
          <5> QED BY <4>1, <5>1, <5>2 DEF Served
        <4>3. CASE i # 1
          <5>1. i - 1 \in DOMAIN r /\ r[i - 1] = q[i] /\ i - 1 < j - 1
            BY <1>1, <2>1, <3>2, <4>3
          <5>2. \A k \in DOMAIN r : i - 1 < k => i < k + 1
            BY <1>1
          <5> HIDE DEF left
          <5> QED BY <3>2, <4>1, <5>1, <5>2 DEF Served
        <4> QED BY <4>2, <4>3
      <3> QED BY <1>2, <3>1, <3>2 DEF Served
    <2> HIDE DEF left
    <2>3. Noticed(r, c, b, left)
      BY <2>1, <2>2 DEF Noticed
    <2> QED BY <2>3 DEF r, left
  <1> QED BY <1>3, <1>4

LEMMA HandleLeaving == TypeOK /\ Leaving /\ Handle => Leaving'
  <1> SUFFICES ASSUME TypeOK, Leaving, Handle, NEW s \in sessions'
               PROVE  /\ s[1] # Local(s[2])
                      /\ want'[Local(s[2])] # NoServer
                      /\ s[1] \notin open' =>
                           Noticed(inbox', s[1], Local(s[2]), servers'[Local(s[2])])
    BY DEF Leaving, Noticed, Gone, Served, Affects, Subject, Outcome
  <1> DEFINE pkt == Head(inbox)
             b   == Local(s[2])
  <1>1. UNCHANGED <<want, open>>
    BY DEF Handle, Hello, Bye, DelClient, NewServer, DelServer, NewLookup, DelLookup, Ignored
  <1>2. inbox \in Seq(Packet) /\ inbox # << >> /\ inbox' = Tail(inbox) /\ pkt \in Packet
    BY DEF TypeOK, Handle, Hello, Bye, DelClient, NewServer, DelServer, NewLookup,
           DelLookup, Ignored, Receive
  <1>3. s \in sessions
    BY DEF Handle, Hello, Bye, DelClient, NewServer, DelServer, NewLookup, DelLookup, Ignored,
           Forward
  <1>4. s[1] \in Clients /\ s[2] \in Ports /\ b \in Addrs /\ s[1] # b
    BY <1>3, AddrTypes DEF TypeOK, Leaving
  <1>5. servers'[b] = IF Affects(pkt, b) THEN Outcome(pkt) ELSE servers[b]
    BY <1>4, HandleEffect
  <1>6. ASSUME Gone(pkt, s[1]), servers[b] # NoServer PROVE FALSE
    <2>1. CASE pkt.cmd = "bye"
      <3>1. pkt.from[1] = s[1][1] /\ pkt.from[1] # LocalNode
        BY <1>2, <1>6, <2>1 DEF Gone, Affects, Packet
      <3>2. servers'[b] # NoServer
        BY <1>5, <1>6, <2>1, <3>1 DEF Affects, Local
      <3>3. Forward({ c \in Clients : c[1] = pkt.from[1] })
        BY <2>1 DEF Handle, Hello, Bye, DelClient, NewServer, DelServer, NewLookup, DelLookup,
                    Ignored, Receive
      <3> QED BY <1>4, <3>1, <3>2, <3>3 DEF Forward
    <2>2. CASE pkt.cmd = "del_client"
      <3>1. pkt.addr = s[1] /\ pkt.from[1] = s[1][1] /\ (s[1][1] = LocalNode => pkt.from = s[1])
        BY <1>6, <2>2 DEF Gone, Affects
      <3>2. servers'[b] # NoServer
        BY <1>4, <1>5, <1>6, <2>2, <3>1 DEF Affects
      <3>3. DelClient
        BY <2>2 DEF Handle, Hello, Bye, DelClient, NewServer, DelServer, NewLookup, DelLookup,
                    Ignored, Receive
      <3>4. Forward({s[1]})
        BY <3>1, <3>3 DEF DelClient, Genuine
      <3> QED BY <3>2, <3>4 DEF Forward
    <2> QED BY <1>6, <2>1, <2>2 DEF Gone
  <1>7. ASSUME s[1] \notin open PROVE Noticed(inbox', s[1], b, servers'[b])
    <2>1. Noticed(inbox, s[1], b, servers[b])
      BY <1>3, <1>7 DEF Leaving
    <2> HIDE DEF b
    <2> QED BY <1>2, <1>5, <1>6, <2>1, PopNews
  <1> QED BY <1>1, <1>3, <1>7 DEF Leaving

\* A local socket that wants a server has it registered once the packets in
\* the queue are handled, if the name server does not restart.
LEMMA WillBeRegistered ==
  ASSUME TypeOK, RegistryFollows, ~ MayRestart, NEW p \in Ports
  PROVE  \/ LastWord(inbox, Local(p), want[Local(p)])
         \/ Quiet(inbox, Local(p)) /\ servers[Local(p)] = want[Local(p)]
  <1>1. Local(p) \in Addrs /\ Local(p)[1] = LocalNode
    BY AddrTypes DEF Local
  <1>2. Local(p) \notin owes
    BY <1>1, NameServerConstants DEF TypeOK, NameServerConstants
  <1> QED BY <1>1, <1>2 DEF RegistryFollows, Settled

LEMMA EnvironmentLeaving ==
  TypeOK /\ RegistryFollows /\ ~ MayRestart /\ Leaving /\ Environment => Leaving'
  <1> SUFFICES ASSUME TypeOK, RegistryFollows, ~ MayRestart, Leaving, Environment,
                      NEW s \in sessions'
               PROVE  /\ s[1] # Local(s[2])
                      /\ want'[Local(s[2])] # NoServer
                      /\ s[1] \notin open' =>
                           Noticed(inbox', s[1], Local(s[2]), servers'[Local(s[2])])
    BY DEF Leaving, Noticed, Gone, Served, Affects, Subject, Outcome
  <1> DEFINE b == Local(s[2])
  <1>0. {"bye", "del_client"} \subseteq Cmds
    BY DEF Cmds
  <1>1. servers' = servers /\ inbox \in Seq(Packet)
    BY DEF TypeOK, Environment, OpenSocket, CloseSocket, Publish, Withdraw, AskLookup, Connect,
           LinkUp, LinkDown, Announce, Stray
  <1>2. CASE \E c \in Clients, p \in Ports : Connect(c, p)
    <2>1. PICK c \in Clients, p \in Ports : Connect(c, p)
      BY <1>2
    <2>2. UNCHANGED <<want, open, inbox>>
      BY <2>1 DEF Connect
    <2>3. CASE s \in sessions
      BY <1>1, <2>2, <2>3 DEF Leaving
    <2>4. CASE s \notin sessions
      <3>1. s = <<c, p>>
        BY <2>1, <2>4 DEF Connect
      <3>2. s[1] = c /\ s[2] = p
        BY <3>1
      <3> QED BY <2>1, <2>2, <3>2 DEF Connect
    <2> QED BY <2>3, <2>4
  <1>3. CASE ~ \E c \in Clients, p \in Ports : Connect(c, p)
    <2>1. s \in sessions
      BY <1>3 DEF Environment, OpenSocket, CloseSocket, Publish, Withdraw, AskLookup,
                  LinkUp, LinkDown, Announce, Stray
    <2>2. s[1] # b /\ want[b] # NoServer /\ s[1] \in Addrs /\ s[2] \in Ports /\ b \in Addrs
      BY <2>1, AddrTypes, NameServerConstants DEF Leaving, TypeOK, NameServerConstants
    <2>3. want'[b] # NoServer
      <3>1. CASE \E a \in Addrs : CloseSocket(a)
        <4>1. PICK a \in Addrs : CloseSocket(a)
          BY <3>1
        <4>2. a # b
          BY <4>1 DEF CloseSocket, Local
        <4> QED BY <2>2, <4>1, <4>2 DEF CloseSocket, TypeOK
      <3>2. CASE \E a \in Addrs : Withdraw(a)
        <4>1. PICK a \in Addrs : Withdraw(a)
          BY <3>2
        <4>2. a # b
          BY <4>1 DEF Withdraw
        <4> QED BY <2>2, <4>1, <4>2 DEF Withdraw, TypeOK
      <3>3. CASE \E a \in Addrs : \E srv \in Offers[a] : Publish(a, srv)
        <4>0. PICK a \in Addrs : \E srv \in Offers[a] : Publish(a, srv)
          BY <3>3
        <4>1. PICK srv \in Offers[a] : Publish(a, srv)
          BY <4>0
        <4>2. srv # NoServer
          BY FilterTypes, NameServerConstants DEF NameServerConstants
        <4> QED BY <2>2, <4>1, <4>2 DEF Publish, TypeOK
      <3>4. CASE \E n \in RemoteNodes : LinkDown(n)
        <4>1. b[1] = LocalNode /\ LocalNode \notin RemoteNodes
          BY NameServerConstants DEF Local, NameServerConstants
        <4> QED BY <2>2, <3>4, <4>1 DEF LinkDown
      <3>5. CASE \/ \E a \in Addrs : OpenSocket(a) \/ Announce(a)
                 \/ \E p \in Ports : \E f \in Filters[p] :
                      AskLookup("new_lookup", p, f) \/ AskLookup("del_lookup", p, f)
                 \/ \E n \in RemoteNodes : LinkUp(n)
                 \/ \E pkt \in Strays : Stray(pkt)
        BY <2>2, <3>5 DEF OpenSocket, Announce, AskLookup, LinkUp, Stray
      <3> QED BY <1>3, <3>1, <3>2, <3>3, <3>4, <3>5 DEF Environment
    <2>4. ASSUME s[1] \notin open PROVE Noticed(inbox', s[1], b, servers[b])
      <3>1. Noticed(inbox, s[1], b, servers[b])
        BY <2>1, <2>4 DEF Leaving
      <3>2. CASE inbox' = inbox
        BY <3>1, <3>2
      <3>3. CASE \E x \in Packet : inbox' = Append(inbox, x)
        <4>1. PICK x \in Packet : inbox' = Append(inbox, x)
          BY <3>3
        <4> HIDE DEF b
        <4> QED BY <1>1, <3>1, <4>1, PushNews
      <3> QED BY <3>2, <3>3, EnvironmentQueue
    <2>5. ASSUME s[1] \in open, s[1] \notin open' PROVE Noticed(inbox', s[1], b, servers[b])
      <3>1. CloseSocket(s[1]) \/ \E n \in RemoteNodes : LinkDown(n) /\ s[1][1] = n
        <4>1. CASE \E a \in Addrs : CloseSocket(a)
          BY <2>5, <4>1 DEF CloseSocket
        <4>2. CASE \E n \in RemoteNodes : LinkDown(n)
          BY <2>5, <4>2 DEF LinkDown
        <4>3. CASE ~ ((\E a \in Addrs : CloseSocket(a)) \/ \E n \in RemoteNodes : LinkDown(n))
          <5>1. open \subseteq open'
            BY <4>3 DEF Environment, OpenSocket, Publish, Withdraw, AskLookup, Connect,
                        LinkUp, Announce, Stray
          <5> QED BY <2>5, <5>1
        <4> QED BY <4>1, <4>2, <4>3
      <3>2. \E x \in Packet : inbox' = Append(inbox, x) /\ Gone(x, s[1])
        <4>1. CASE CloseSocket(s[1])
          <5> DEFINE x == [cmd |-> "del_client", from |-> From(s[1]), addr |-> s[1],
                           service |-> Nothing.service, instance |-> Nothing.instance]
          <5>1. x \in Packet
            BY <1>0, <2>2, AddrTypes, FilterTypes, PacketType
          <5>2. inbox' = Append(inbox, x)
            BY <4>1 DEF CloseSocket, Send
          <5>3. Gone(x, s[1])
            BY DEF Gone, Affects, From
          <5> HIDE DEF x
          <5> QED BY <5>1, <5>2, <5>3
        <4>2. ASSUME NEW n \in RemoteNodes, LinkDown(n), s[1][1] = n
              PROVE  \E x \in Packet : inbox' = Append(inbox, x) /\ Gone(x, s[1])
          <5> DEFINE x == [cmd |-> "bye", from |-> <<n, CtrlPort>>, addr |-> Unset,
                           service |-> Nothing.service, instance |-> Nothing.instance]
          <5>1. x \in Packet
            BY <1>0, AddrTypes, FilterTypes, PacketType, NameServerConstants
               DEF NameServerConstants
          <5>2. inbox' = Append(inbox, x)
            BY <4>2 DEF LinkDown, Send
          <5>3. Gone(x, s[1])
            BY <4>2 DEF Gone, Affects
          <5> HIDE DEF x
          <5> QED BY <5>1, <5>2, <5>3
        <4> QED BY <3>1, <4>1, <4>2
      <3>3. LastWord(inbox, b, want[b]) \/ (Quiet(inbox, b) /\ servers[b] = want[b])
        BY <2>2, WillBeRegistered
      <3> HIDE DEF b
      <3> QED BY <1>1, <2>2, <3>2, <3>3, PushNews
    <2> QED BY <1>1, <2>2, <2>3, <2>4, <2>5
  <1> QED BY <1>2, <1>3

\* However closes, re-opens and link losses of client and server interleave, no
\* local server keeps the session of a client that is gone, while the name
\* server does not exit.
THEOREM SessionsEnd == ASSUME ~ MayRestart PROVE Spec => []NoSessionLeak
  <1>1. Leaving => NoSessionLeak
    BY DEF Leaving, NoSessionLeak, Noticed, Gone
  <1>2. Init => Leaving
    BY DEF Init, Leaving
  <1>3. TypeOK /\ RegistryFollows /\ Leaving /\ [Next]_vars => Leaving'
    <2> SUFFICES ASSUME TypeOK, RegistryFollows, Leaving, [Next]_vars PROVE Leaving'
      OBVIOUS
    <2>1. CASE UNCHANGED vars
      BY <2>1 DEF vars, Leaving, Noticed, Gone, Served, Affects, Subject, Outcome
    <2>2. ~ Restart
      BY DEF Restart
    <2> QED BY <2>1, <2>2, HandleLeaving, EnvironmentLeaving DEF Next
  <1> QED BY <1>1, <1>2, <1>3, TypeCorrect, RegistryAgrees, PTL DEF Spec

-----------------------------------------------------------------------------
(* Observers are told of the disappearance of servers that are not replaced. *)

\* No socket registers a second service: what server_add does not announce.
OneOffer == \A a \in Addrs : \A x, y \in Offers[a] : x = y

\* Wishes, queued registrations and entries are what the address offers.
Offered ==
  \A a \in Addrs :
    /\ want[a] \in Offers[a] \cup {NoServer}
    /\ servers[a] \in Offers[a] \cup {NoServer}
    /\ \A i \in DOMAIN inbox :
         Affects(inbox[i], a) => Outcome(inbox[i]) \in Offers[a] \cup {NoServer}

LEMMA HandleOffered == TypeOK /\ Offered /\ Handle => Offered'
  <1> SUFFICES ASSUME TypeOK, Offered, Handle, NEW a \in Addrs
               PROVE  /\ want'[a] \in Offers[a] \cup {NoServer}
                      /\ servers'[a] \in Offers[a] \cup {NoServer}
                      /\ \A i \in DOMAIN inbox' :
                           Affects(inbox'[i], a) => Outcome(inbox'[i]) \in Offers[a] \cup {NoServer}
    BY DEF Offered, Affects, Subject, Outcome
  <1>1. want' = want
    BY DEF Handle, Hello, Bye, DelClient, NewServer, DelServer, NewLookup, DelLookup, Ignored
  <1>2. inbox \in Seq(Packet) /\ inbox # << >> /\ inbox' = Tail(inbox)
    BY DEF TypeOK, Handle, Hello, Bye, DelClient, NewServer, DelServer, NewLookup,
           DelLookup, Ignored, Receive
  <1>3. /\ \A i \in DOMAIN inbox' : i + 1 \in DOMAIN inbox /\ inbox'[i] = inbox[i + 1]
        /\ 1 \in DOMAIN inbox /\ Head(inbox) = inbox[1]
    BY <1>2
  <1>4. servers'[a] = IF Affects(Head(inbox), a) THEN Outcome(Head(inbox)) ELSE servers[a]
    BY HandleEffect
  <1> QED BY <1>1, <1>3, <1>4 DEF Offered

\* A packet that is queued about an address says what its owner now wants.
LEMMA EnvironmentOffered ==
  TypeOK /\ Offered /\ RegistryFollows' /\ Environment => Offered'
  <1> SUFFICES ASSUME TypeOK, Offered, RegistryFollows', Environment, NEW a \in Addrs
               PROVE  /\ want'[a] \in Offers[a] \cup {NoServer}
                      /\ servers'[a] \in Offers[a] \cup {NoServer}
                      /\ \A i \in DOMAIN inbox' :
                           Affects(inbox'[i], a) => Outcome(inbox'[i]) \in Offers[a] \cup {NoServer}
    BY DEF Offered, Affects, Subject, Outcome
  <1>1. servers' = servers
    BY DEF Environment, OpenSocket, CloseSocket, Publish, Withdraw, AskLookup, Connect,
           LinkUp, LinkDown, Announce, Stray
  <1>2. want'[a] \in Offers[a] \cup {NoServer}
    <2>1. CASE \E b \in Addrs : CloseSocket(b) \/ Withdraw(b)
      BY <2>1 DEF CloseSocket, Withdraw, Offered, TypeOK
    <2>2. CASE \E b \in Addrs : \E srv \in Offers[b] : Publish(b, srv)
      BY <2>2 DEF Publish, Offered, TypeOK
    <2>3. CASE \E n \in RemoteNodes : LinkDown(n)
      BY <2>3 DEF LinkDown, Offered
    <2>4. CASE \/ \E b \in Addrs : OpenSocket(b) \/ Announce(b)
               \/ \E p \in Ports : \E f \in Filters[p] :
                    AskLookup("new_lookup", p, f) \/ AskLookup("del_lookup", p, f)
               \/ \E c \in Clients, p \in Ports : Connect(c, p)
               \/ \E n \in RemoteNodes : LinkUp(n)
               \/ \E pkt \in Strays : Stray(pkt)
      BY <2>4 DEF OpenSocket, Announce, AskLookup, Connect, LinkUp, Stray, Offered
    <2> QED BY <2>1, <2>2, <2>3, <2>4 DEF Environment
  <1>3. CASE inbox' = inbox
    BY <1>1, <1>2, <1>3 DEF Offered
  <1>4. CASE \E x \in Packet : inbox' = Append(inbox, x)
    <2>1. PICK x \in Packet : inbox' = Append(inbox, x)
      BY <1>4
    <2> DEFINE n == Len(inbox) + 1
    <2>2. /\ DOMAIN inbox' = 1..n /\ n \in Nat /\ inbox'[n] = x
          /\ \A i \in DOMAIN inbox' : i = n \/ (i \in DOMAIN inbox /\ inbox'[i] = inbox[i])
          /\ n \in DOMAIN inbox' /\ \A i \in DOMAIN inbox' : i = n \/ n > i
      BY <2>1 DEF TypeOK
    <2> HIDE DEF n
    <2>3. \/ \E i \in DOMAIN inbox' : /\ Affects(inbox'[i], a)
                                      /\ \A j \in DOMAIN inbox' : j > i => ~ Affects(inbox'[j], a)
                                      /\ Outcome(inbox'[i]) = want'[a]
          \/ \A i \in DOMAIN inbox' : ~ Affects(inbox'[i], a)
      BY DEF RegistryFollows, LastWord, Quiet, Affects, Subject, Outcome
    <2>4. Affects(x, a) => Outcome(x) = want'[a]
      BY <2>2, <2>3
    <2> QED BY <1>1, <1>2, <2>2, <2>4 DEF Offered
  <1> QED BY <1>3, <1>4, EnvironmentQueue

LEMMA HandleCurrent ==
  OneOffer /\ TypeOK /\ Offered /\ Offered' /\ ToldCurrent /\ Handle => ToldCurrent'
  <1> SUFFICES ASSUME OneOffer, TypeOK, Offered, Offered', ToldCurrent, Handle,
                      NEW l \in lookups', Local(l.port) \in open, ~ Closing(Local(l.port))',
                      NEW e \in told'[l.port], Observes(l, e.server)
               PROVE  servers'[e.addr] = e.server
    BY DEF ToldCurrent, Handle, Hello, Bye, DelClient, NewServer,
           DelServer, NewLookup, DelLookup, Ignored, Observes
  <1> DEFINE p == l.port
             pkt == Head(inbox)
  <1>1. p \in Ports /\ ~ Closing(Local(p))
    BY StillWatched
  <1>2. e \in Entry
    BY <1>1, NextTypeOK DEF TypeOK, Next
  <1>3. ASSUME l \in lookups, e \in told[p] PROVE servers[e.addr] = e.server
    BY <1>1, <1>3 DEF ToldCurrent
  <1>4. CASE Hello \/ Ignored
    <2>1. UNCHANGED <<servers, lookups, told>>
      BY <1>4 DEF Hello, Ignored
    <2> QED BY <1>3, <2>1
  <1>5. CASE Bye \/ DelClient \/ DelServer
    <2>1. l \in lookups
      BY <1>5 DEF Bye, DelClient, DelServer, LookupsWithout
    <2>2. \/ \E A : ServerDel(A, lookups')
          \/ UNCHANGED <<servers, told>>
      BY <1>5 DEF Bye, DelClient, DelServer
    <2>3. CASE UNCHANGED <<servers, told>>
      BY <1>3, <2>1, <2>3
    <2>4. ASSUME NEW A, ServerDel(A, lookups') PROVE servers'[e.addr] = e.server
      <3>1. e \in told[p] /\ servers[e.addr] = e.server
        BY <1>1, <1>3, <2>1, <2>4 DEF ServerDel, TellGone
      <3>2. e.addr \in Addrs /\ e = [addr |-> e.addr, server |-> e.server]
        BY <1>2 DEF Entry
      <3>3. CASE e.addr \in A /\ Registered(e.addr)
        <4>1. EntryOf(e.addr) = e
          BY <3>1, <3>2 DEF EntryOf
        <4>2. p \in Reached(lookups', servers[e.addr])
          BY <1>1, <3>1 DEF Reached
        <4>3. e \notin told'[p]
          BY <1>1, <2>4, <3>2, <3>3, <4>1, <4>2 DEF ServerDel, TellGone
        <4> QED BY <4>3
      <3>4. CASE ~ (e.addr \in A /\ Registered(e.addr))
        BY <2>4, <3>1, <3>2, <3>4 DEF ServerDel
      <3> QED BY <3>3, <3>4
    <2> QED BY <2>2, <2>3, <2>4
  <1>6. CASE NewServer
    <2> DEFINE s   == Subject(pkt)
               srv == [service |-> pkt.service, instance |-> pkt.instance]
    <2>1. l \in lookups
      BY <1>6 DEF NewServer
    <2>2. \/ UNCHANGED <<servers, told>>
          \/ servers' = [servers EXCEPT ![s] = srv] /\ told' = TellNew(lookups, s, srv)
      BY <1>6 DEF NewServer
    <2> HIDE DEF s, srv
    <2>3. CASE UNCHANGED <<servers, told>>
      BY <1>3, <2>1, <2>3
    <2>4. CASE servers' = [servers EXCEPT ![s] = srv] /\ told' = TellNew(lookups, s, srv)
      <3>1. e \in told[p] \/ e = [addr |-> s, server |-> srv]
        BY <1>1, <2>4 DEF TellNew
      <3>2. e.addr \in Addrs /\ e.server \in Server
        BY <1>2 DEF Entry
      <3>3. CASE e.addr # s
        BY <1>3, <2>1, <2>4, <3>1, <3>2, <3>3 DEF TypeOK
      <3>4. CASE e.addr = s
        <4>1. servers'[s] = srv
          BY <2>4, <3>2, <3>4 DEF TypeOK
        <4>2. CASE e \in told[p]
          <5>1. servers[s] = e.server /\ e.server # NoServer
            BY <1>3, <2>1, <3>2, <3>4, <4>2, NameServerConstants DEF NameServerConstants
          <5>2. e.server \in Offers[s]
            BY <3>2, <3>4, <5>1 DEF Offered
          <5>3. srv \in Offers[s] \cup {NoServer}
            BY <3>2, <3>4, <4>1 DEF Offered
          <5>4. srv # NoServer
            <6>1. srv \in Filter /\ srv = [service |-> pkt.service, instance |-> pkt.instance]
              BY <1>6, QueueTypes DEF NewServer, Packet, Filter, srv
            <6>2. servers'[s] \in Server \cup {NoServer}
              BY <3>2, <3>4, NextTypeOK DEF TypeOK, Next
            <6>3. (Genuine(pkt, s) /\ Addable(pkt.service, s[2])) \/ servers' = servers
              BY <1>6 DEF NewServer, s
            <6>4. CASE servers' = servers
              BY <4>1, <5>1, <6>4
            <6>5. CASE Genuine(pkt, s) /\ Addable(pkt.service, s[2])
              BY <6>1, <6>5, NameServerConstants
                 DEF Addable, Filter, Server, NameServerConstants
            <6> QED BY <6>3, <6>4, <6>5
          <5> QED BY <3>2, <3>4, <4>1, <5>2, <5>3, <5>4 DEF OneOffer
        <4>3. CASE e = [addr |-> s, server |-> srv]
          BY <4>1, <4>3
        <4> QED BY <3>1, <3>4, <4>2, <4>3
      <3> QED BY <3>3, <3>4
    <2> QED BY <2>2, <2>3, <2>4
  <1>7. CASE NewLookup
    <2> DEFINE f == [service |-> pkt.service, instance |-> pkt.instance]
               found == { EntryOf(b) : b \in { c \in Addrs : Registered(c) /\ ServerMatch(servers[c], f) } }
    <2>0. pkt \in Packet /\ f \in Filter /\ servers' = servers
      BY <1>7, QueueTypes DEF NewLookup, Packet, Filter
    <2>1. CASE pkt.from = Local(p)
      <3>1. told'[p] = { d \in told[p] : ~ ServerMatch(d.server, f) } \cup found
        <4>1. pkt.from[1] = LocalNode /\ pkt.from[2] = p /\ pkt.from \in open
          BY <2>1 DEF Local
        <4>2. told' = [told EXCEPT ![p] = { d \in @ : ~ ServerMatch(d.server, f) } \cup found]
          BY <1>7, <4>1 DEF NewLookup
        <4> HIDE DEF f, found
        <4> QED BY <1>1, <4>2 DEF TypeOK
      <3>2. l \in lookups \/ (l.service = f.service /\ l.instance = f.instance)
        BY <1>7, <2>1 DEF NewLookup, Local
      <3>3. CASE e \in found
        <4>1. PICK c \in Addrs : e = EntryOf(c)
          BY <3>3
        <4> QED BY <2>0, <4>1 DEF EntryOf
      <3>4. CASE e \notin found
        <4> HIDE DEF found
        <4>1. e \in told[p] /\ ~ ServerMatch(e.server, f)
          BY <3>1, <3>4
        <4>2. e.server \in Server
          BY <1>2 DEF Entry
        <4>3. l \in lookups
          BY <2>0, <3>2, <4>1, <4>2, SameTest
        <4> QED BY <1>3, <2>0, <4>1, <4>3
      <3> QED BY <3>3, <3>4
    <2>2. CASE pkt.from # Local(p)
      <3>1. pkt.from[1] = LocalNode => pkt.from = Local(pkt.from[2])
        BY <2>0, NameServerConstants
           DEF Packet, Sender, Addrs, Nodes, Local, NameServerConstants
      <3>2. pkt.from[1] = LocalNode => pkt.from[2] # p
        BY <2>2, <3>1
      <3>3. l \in lookups
        BY <1>7, <3>2 DEF NewLookup
      <3>4. told'[p] = told[p]
        BY <1>1, <1>7, <3>2 DEF NewLookup, TypeOK
      <3> QED BY <1>3, <2>0, <3>3, <3>4
    <2> QED BY <2>1, <2>2
  <1>8. CASE DelLookup
    <2>1. l \in lookups /\ servers' = servers
      BY <1>8 DEF DelLookup
    <2>2. told'[p] \subseteq told[p]
      BY <1>1, <1>8 DEF DelLookup
    <2> QED BY <1>3, <2>1, <2>2
  <1> QED BY <1>4, <1>5, <1>6, <1>7, <1>8 DEF Handle

LEMMA EnvironmentCurrent == TypeOK /\ Forsaken /\ ToldCurrent /\ Environment => ToldCurrent'
  <1> SUFFICES ASSUME TypeOK, Forsaken, ToldCurrent, Environment,
                      NEW l \in lookups', Local(l.port) \in open', ~ Closing(Local(l.port))',
                      NEW e \in told'[l.port], Observes(l, e.server)
               PROVE  servers'[e.addr] = e.server
    BY DEF ToldCurrent, Observes
  <1>1. lookups' = lookups /\ servers' = servers
    BY DEF Environment, OpenSocket, CloseSocket, Publish, Withdraw, AskLookup, Connect,
           LinkUp, LinkDown, Announce, Stray
  <1>2. l \in lookups /\ l.port \in Ports
    BY <1>1 DEF TypeOK, Lookup
  <1>3. ~ Closing(Local(l.port))
    BY <1>2, ClosingStays
  <1>4. Local(l.port) \in open
    BY <1>2, <1>3, ReportIsClosing DEF Forsaken
  <1>5. e \in told[l.port]
    <2>1. CASE \E b \in Addrs : CloseSocket(b)
      BY <1>2, <2>1 DEF CloseSocket, TypeOK
    <2>2. CASE ~ \E b \in Addrs : CloseSocket(b)
      <3>1. told' = told
        BY <2>2 DEF Environment, OpenSocket, Publish, Withdraw, AskLookup, Connect,
                    LinkUp, LinkDown, Announce, Stray
      <3> QED BY <3>1
    <2> QED BY <2>1, <2>2
  <1> QED BY <1>1, <1>2, <1>3, <1>4, <1>5 DEF ToldCurrent

\* If no socket changes the service it registers, what observers know and were
\* not told to be gone is registered; only the silent replacement of server_add
\* stands between the code and this for every socket.
THEOREM ToldOfEnds == ASSUME OneOffer PROVE Spec => []ToldCurrent
  <1> DEFINE Inv == TypeOK /\ Forsaken /\ Offered /\ ToldCurrent
  <1>1. Init => Inv
    BY InitTypeOK, InitForsaken DEF Init, ToldCurrent, Offered
  <1>2. Inv /\ RegistryFollows' /\ [Next]_vars => Inv'
    <2> SUFFICES ASSUME Inv, RegistryFollows', [Next]_vars PROVE Offered' /\ ToldCurrent'
      BY NextTypeOK, StepForsaken
    <2>1. CASE UNCHANGED vars
      BY <2>1 DEF vars, ToldCurrent, Closing, Offered
    <2>2. CASE Restart
      <3>1. ToldCurrent'
        BY <2>2 DEF Restart, ToldCurrent
      <3>2. Offered'
        BY <2>2 DEF Restart, Offered
      <3> QED BY <3>1, <3>2
    <2> QED BY <2>1, <2>2, HandleOffered, EnvironmentOffered, HandleCurrent, EnvironmentCurrent
            DEF Next
  <1>3. Spec => []RegistryFollows
    BY RegistryAgrees
  <1> QED BY <1>1, <1>2, <1>3, PTL DEF Spec
=============================================================================
