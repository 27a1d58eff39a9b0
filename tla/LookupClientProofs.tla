------------------------- MODULE LookupClientProofs -------------------------
(***************************************************************************)
(* Proofs about runs of qrtr-lookup next to the name server, for every     *)
(* network: what a run prints was registered while it lasted, and the list *)
(* of a run that starts clean is exactly what matched at one moment.       *)
(***************************************************************************)
EXTENDS LookupClient, NameServerProofs, ListLemmas

-----------------------------------------------------------------------------
(* The composition is the name server of NameServer in one of its worlds.  *)

\* Every step of a run, and of what is around it, is a step of NameServer.
LEMMA ClientSteps == [ClientNext]_clientVars => [Next]_vars
<1> SUFFICES ASSUME [ClientNext]_clientVars PROVE [Next]_vars
  OBVIOUS
<1>1. Socket \in Addrs /\ Providers \subseteq Addrs
  BY AddrTypes, ClientConstants DEF Socket, Providers, ClientConstants
<1>2. CASE Serve
  BY <1>2 DEF Serve, Next, Handle
<1>3. CASE ServerRestarts
  BY <1>3 DEF ServerRestarts, Next
<1>4. CASE Others
  BY <1>1, <1>4 DEF Others, Next, Environment
<1>5. CASE Begin \/ Exit
  BY <1>1, <1>5 DEF Begin, Exit, Next, Environment
<1>6. ASSUME NEW f \in Filters[Asker], Ask(f) PROVE [Next]_vars
  BY <1>6, ClientConstants DEF Ask, Next, Environment, ClientConstants
<1>7. CASE AskFails \/ ReadPacket \/ Timeout \/ UNCHANGED clientVars
  BY <1>7 DEF AskFails, ReadPacket, Timeout, clientVars
<1> QED BY <1>2, <1>3, <1>4, <1>5, <1>6, <1>7 DEF ClientNext

\* What NameServer shows of the name server for any sockets holds next to runs
\* of qrtr-lookup: to it they are one more client.
THEOREM ClientsAreOrdinary == ClientSpec => Spec
<1>1. ClientInit => Init
  BY DEF ClientInit
<1> QED BY <1>1, ClientSteps, PTL DEF ClientSpec, Spec

-----------------------------------------------------------------------------
(* What the name server sends to the client.                               *)

Line(pkt) == [addr |-> pkt.addr, server |-> pkt.server]

\* A packet at the client's socket: the end marker or about an entry.
NoticeRec ==
  { x \in [cmd : {"new_server", "del_server"}, addr : Addrs \cup {Unset},
           server : Server \cup {Nothing}] : x = EndMarker \/ Line(x) \in Entry }

LEMMA NoticeTypes ==
  /\ EndMarker \in NoticeRec /\ IsEnd(EndMarker) /\ EndMarker.cmd = "new_server"
  /\ \A cmd \in {"new_server", "del_server"}, a \in Addrs, srv \in Server :
       /\ Notice(cmd, a, srv) \in NoticeRec /\ Notice(cmd, a, srv).cmd = cmd
       /\ Line(Notice(cmd, a, srv)) = [addr |-> a, server |-> srv]
  /\ \A x \in NoticeRec : IsEnd(x) \/ Line(x) \in Entry
  /\ \A x : Line(x) \in Entry => ~ IsEnd(x)
<1>1. Unset \notin Addrs
  BY NameServerConstants DEF Unset, Addrs, NameServerConstants
<1>2. EndMarker = [cmd |-> "new_server", addr |-> Unset, server |-> Nothing]
  BY DEF EndMarker, Notice
<1>3. EndMarker \in NoticeRec /\ IsEnd(EndMarker) /\ EndMarker.cmd = "new_server"
  BY <1>2 DEF NoticeRec, IsEnd
<1>4. \A x : Line(x) \in Entry => ~ IsEnd(x)
  BY <1>1 DEF Line, Entry, IsEnd
<1>5. ASSUME NEW cmd \in {"new_server", "del_server"}, NEW a \in Addrs, NEW srv \in Server
      PROVE  /\ Notice(cmd, a, srv) \in NoticeRec /\ Notice(cmd, a, srv).cmd = cmd
             /\ Line(Notice(cmd, a, srv)) = [addr |-> a, server |-> srv]
  BY DEF Notice, Line, NoticeRec, Entry
<1>6. \A x \in NoticeRec : IsEnd(x) \/ Line(x) \in Entry
  BY <1>3 DEF NoticeRec
<1> QED BY <1>3, <1>4, <1>5, <1>6

LEMMA FiniteAddrs == IsFiniteSet(Addrs)
<1>1. IsFiniteSet({LocalNode})
  BY FS_Singleton
<1>2. IsFiniteSet(Nodes)
  BY <1>1, FS_Union, ClientConstants DEF Nodes, ClientConstants
<1> QED BY <1>2, FS_Product, ClientConstants DEF Addrs, ClientConstants

\* SetToSeq of notices about a set of addresses.
LEMMA Listing ==
  ASSUME NEW cmd \in {"new_server", "del_server"}, NEW A, A \subseteq Addrs,
         NEW reg \in [Addrs -> Server \cup {NoServer}], \A a \in A : reg[a] # NoServer
  PROVE  LET q == SetToSeq({ Notice(cmd, a, reg[a]) : a \in A })
         IN  /\ q \in Seq(NoticeRec)
             /\ \A i \in DOMAIN q : \E a \in A : q[i] = Notice(cmd, a, reg[a])
             /\ \A a \in A : \E i \in DOMAIN q : q[i] = Notice(cmd, a, reg[a])
<1> DEFINE S == { Notice(cmd, a, reg[a]) : a \in A }
           q == SetToSeq(S)
<1>1. IsFiniteSet(A)
  BY FiniteAddrs, FS_Subset
<1>2. IsFiniteSet(S)
  <2> DEFINE f == [a \in A |-> Notice(cmd, a, reg[a])]
  <2>1. f \in Surjection(A, S)
    BY DEF Surjection
  <2> HIDE DEF f, S
  <2> QED BY <1>1, <2>1, FS_Surjection
<1>3. S \subseteq NoticeRec
  <2> SUFFICES ASSUME NEW a \in A PROVE Notice(cmd, a, reg[a]) \in NoticeRec
    OBVIOUS
  <2>1. reg[a] \in Server
    OBVIOUS
  <2> QED BY <2>1, NoticeTypes
<1> HIDE DEF S
<1>4. /\ q \in Seq(S) /\ DOMAIN q = 1..Cardinality(S)
      /\ \A x \in S : \E i \in DOMAIN q : q[i] = x
  BY <1>2, SetToSeqIsListing
<1> HIDE DEF q
<1>5. \A i \in DOMAIN q : q[i] \in S
  BY <1>4, LenProperties, ElementOfSeq
<1>6. q \in Seq(NoticeRec)
  <2> HIDE DEF NoticeRec
  <2>1. Len(q) \in Nat /\ q \in [1..Len(q) -> S]
    BY <1>4, LenProperties
  <2>2. q \in [1..Len(q) -> NoticeRec]
    BY <1>3, <2>1
  <2> QED BY <2>1, <2>2, SeqDef
<1> QED BY <1>4, <1>5, <1>6 DEF S, q

\* Entries of a registry, read as the values of a function.
LEMMA RegistryEntries ==
  ASSUME NEW reg \in [Addrs -> Server \cup {NoServer}]
  PROVE  /\ Entries(reg) \subseteq Entry
         /\ \A a \in Addrs : reg[a] # NoServer => [addr |-> a, server |-> reg[a]] \in Entries(reg)
         /\ \A f : Matching(reg, f) \subseteq Entries(reg)
<1>1. \A a \in Addrs : reg[a] # NoServer => [addr |-> a, server |-> reg[a]] \in Entry
  BY DEF Entry
<1> QED BY <1>1 DEF Entries, Matching

\* q holds lines up to an end marker which, with the entries P, make up s.
Before(q, k) == { j \in DOMAIN q : j < k }

Completes(q, P, s) ==
  \E k \in DOMAIN q : /\ q[k] = EndMarker
                      /\ \A j \in Before(q, k) : q[j].cmd = "new_server" /\ Line(q[j]) \in Entry
                      /\ P \cup { Line(q[j]) : j \in Before(q, k) } = s

\* Two tests, one meaning: what answers a lookup is what matches it.
LEMMA SameMatch ==
  ASSUME NEW f \in Filter, NEW srv \in Server
  PROVE  ServerMatch(srv, f) <=> Observes(f, srv)
BY DEF ServerMatch, Observes, Filter, Server

LEMMA AnswerCompletes ==
  ASSUME TypeOK, NEW f \in Filter
  PROVE  /\ Answer(f) \in Seq(NoticeRec)
         /\ \A i \in DOMAIN Answer(f) :
              ~ IsEnd(Answer(f)[i]) => Line(Answer(f)[i]) \in Entries(servers)
         /\ Completes(Answer(f), {}, Matching(servers, f))
<1> DEFINE found == { a \in Addrs : Registered(a) /\ ServerMatch(servers[a], f) }
           d == SetToSeq({ Notice("new_server", a, servers[a]) : a \in found })
           e == <<EndMarker>>
           q == d \o e
<1>0. Answer(f) = q
  BY DEF Answer
<1>1. servers \in [Addrs -> Server \cup {NoServer}]
  BY DEF TypeOK
<1>2. found \subseteq Addrs /\ \A a \in found : servers[a] # NoServer
  BY DEF Registered
<1>3. \A a \in found : LET x == Notice("new_server", a, servers[a])
                       IN  /\ x.cmd = "new_server" /\ Line(x) = EntryOf(a) /\ Line(x) \in Entry
                           /\ Line(x) \in Matching(servers, f)
  <2> SUFFICES ASSUME NEW a \in found
        PROVE  LET x == Notice("new_server", a, servers[a])
               IN  /\ x.cmd = "new_server" /\ Line(x) = EntryOf(a) /\ Line(x) \in Entry
                   /\ Line(x) \in Matching(servers, f)
    OBVIOUS
  <2>1. servers[a] \in Server /\ a \in Addrs /\ Observes(f, servers[a])
    BY <1>1, <1>2, SameMatch
  <2>2. EntryOf(a) \in Entries(servers) /\ EntryOf(a) \in Entry /\ EntryOf(a).server = servers[a]
    BY <1>1, <1>2, RegistryEntries DEF EntryOf
  <2>3. EntryOf(a) \in Matching(servers, f)
    BY <2>1, <2>2 DEF Matching
  <2> QED BY <2>1, <2>2, <2>3, NoticeTypes DEF EntryOf
<1>4. \A x \in Matching(servers, f) : \E a \in found : x = EntryOf(a)
  <2> SUFFICES ASSUME NEW a \in Addrs, servers[a] # NoServer, Observes(f, EntryOf(a).server)
               PROVE  a \in found
    BY DEF Matching, Entries, EntryOf
  <2> QED BY <1>1, SameMatch DEF EntryOf, Registered
<1>5. /\ d \in Seq(NoticeRec)
      /\ \A i \in DOMAIN d : \E a \in found : d[i] = Notice("new_server", a, servers[a])
      /\ \A a \in found : \E i \in DOMAIN d : d[i] = Notice("new_server", a, servers[a])
  <2> HIDE DEF found
  <2> QED BY <1>1, <1>2, Listing
<1> HIDE DEF d, found
<1>6. /\ \A i \in DOMAIN d : /\ d[i].cmd = "new_server" /\ Line(d[i]) \in Entry
                             /\ Line(d[i]) \in Matching(servers, f)
      /\ \A x \in Matching(servers, f) : \E i \in DOMAIN d : Line(d[i]) = x
  BY <1>3, <1>4, <1>5
<1>7. e \in Seq(NoticeRec) /\ Len(e) = 1 /\ DOMAIN e = {1} /\ e[1] = EndMarker
  BY NoticeTypes
<1> HIDE DEF e, NoticeRec
<1>8. /\ q \in Seq(NoticeRec)
      /\ \A i \in DOMAIN d : i \in DOMAIN q /\ q[i] = d[i]
      /\ \A j \in DOMAIN e : Len(d) + j \in DOMAIN q /\ q[Len(d) + j] = e[j]
      /\ \A i \in DOMAIN q : i \in DOMAIN d \/ (i - Len(d) \in DOMAIN e /\ q[i] = e[i - Len(d)])
  BY <1>5, <1>7, ConcatPositions
<1>9. /\ Len(d) \in Nat /\ DOMAIN d = 1..Len(d) /\ DOMAIN q \subseteq Int
  BY <1>5, <1>8, LenProperties
<1> HIDE DEF q
<1>10. /\ Len(d) + 1 \in DOMAIN q /\ q[Len(d) + 1] = EndMarker
       /\ \A i \in DOMAIN q : i \in DOMAIN d \/ i = Len(d) + 1
  BY <1>7, <1>8, <1>9
<1>11. Before(q, Len(d) + 1) = DOMAIN d
  BY <1>8, <1>9, <1>10 DEF Before
<1>12. Completes(q, {}, Matching(servers, f))
  <2> DEFINE k == Len(d) + 1
  <2>1. \A j \in Before(q, k) : q[j].cmd = "new_server" /\ Line(q[j]) \in Entry
    BY <1>6, <1>8, <1>11
  <2>2. {} \cup { Line(q[j]) : j \in Before(q, k) } = Matching(servers, f)
    BY <1>6, <1>8, <1>11
  <2>3. k \in DOMAIN q /\ q[k] = EndMarker
    BY <1>10
  <2> HIDE DEF k
  <2> QED BY <2>1, <2>2, <2>3 DEF Completes
<1>13. \A i \in DOMAIN q : ~ IsEnd(q[i]) => Line(q[i]) \in Entries(servers)
  BY <1>1, <1>6, <1>8, <1>10, NoticeTypes, RegistryEntries
<1> QED BY <1>0, <1>8, <1>12, <1>13

\* What is appended comes after the end; what is read is in the list.
LEMMA CompletesAppended ==
  ASSUME NEW q \in Seq(NoticeRec), NEW r \in Seq(NoticeRec), NEW P, NEW s, Completes(q, P, s)
  PROVE  Completes(q \o r, P, s)
<1> DEFINE u == q \o r
<1> HIDE DEF NoticeRec
<1>1. /\ \A i \in DOMAIN q : i \in DOMAIN u /\ u[i] = q[i]
      /\ DOMAIN u \subseteq Nat \ {0} /\ DOMAIN q = 1..Len(q) /\ Len(q) \in Nat
  BY ConcatPositions, LenProperties
<1> HIDE DEF u
<1>2. PICK k \in DOMAIN q :
        /\ q[k] = EndMarker
        /\ \A j \in Before(q, k) : q[j].cmd = "new_server" /\ Line(q[j]) \in Entry
        /\ P \cup { Line(q[j]) : j \in Before(q, k) } = s
  BY DEF Completes
<1>3. Before(u, k) = Before(q, k)
  BY <1>1 DEF Before
<1>4. \A j \in Before(q, k) : u[j] = q[j]
  BY <1>1 DEF Before
<1>5. { Line(u[j]) : j \in Before(u, k) } = { Line(q[j]) : j \in Before(q, k) }
  BY <1>3, <1>4
<1>6. \A j \in Before(u, k) : u[j].cmd = "new_server" /\ Line(u[j]) \in Entry
  BY <1>2, <1>3, <1>4
<1> QED BY <1>1, <1>2, <1>5, <1>6 DEF Completes, u

LEMMA CompletesRead ==
  ASSUME NEW q \in Seq(NoticeRec), q # << >>, NEW P, NEW s, Completes(q, P, s)
  PROVE  /\ Head(q).cmd = "new_server"
         /\ IsEnd(Head(q)) => P = s
         /\ ~ IsEnd(Head(q)) => Completes(Tail(q), P \cup {Line(Head(q))}, s)
<1> DEFINE r == Tail(q)
<1> HIDE DEF NoticeRec
<1>1. /\ Head(q) = q[1] /\ 1 \in DOMAIN q /\ DOMAIN r \subseteq Nat \ {0}
      /\ \A i \in DOMAIN r : i + 1 \in DOMAIN q /\ r[i] = q[i + 1]
      /\ \A i \in DOMAIN q : i = 1 \/ (i - 1 \in DOMAIN r /\ q[i] = r[i - 1])
      /\ DOMAIN q = 1..Len(q) /\ Len(q) \in Nat
  BY TailPositions, LenProperties
<1> HIDE DEF r
<1>2. PICK k \in DOMAIN q :
        /\ q[k] = EndMarker
        /\ \A j \in Before(q, k) : q[j].cmd = "new_server" /\ Line(q[j]) \in Entry
        /\ P \cup { Line(q[j]) : j \in Before(q, k) } = s
  BY DEF Completes
<1>3. CASE k = 1
  <2>1. Before(q, k) = {}
    BY <1>1, <1>3 DEF Before
  <2> QED BY <1>1, <1>2, <1>3, <2>1, NoticeTypes
<1>4. CASE k # 1
  <2>1. 1 \in Before(q, k)
    BY <1>1, <1>4 DEF Before
  <2>2. Head(q).cmd = "new_server" /\ ~ IsEnd(Head(q))
    BY <1>1, <1>2, <2>1, NoticeTypes
  <2>3. k - 1 \in DOMAIN r /\ r[k - 1] = EndMarker
    BY <1>1, <1>2, <1>4
  <2>4. /\ \A j \in Before(r, k - 1) : j + 1 \in Before(q, k) /\ r[j] = q[j + 1]
        /\ \A j \in Before(q, k) : j = 1 \/ (j - 1 \in Before(r, k - 1) /\ q[j] = r[j - 1])
    BY <1>1 DEF Before
  <2>5. \A j \in Before(r, k - 1) : r[j].cmd = "new_server" /\ Line(r[j]) \in Entry
    BY <1>2, <2>4
  <2>6. (P \cup {Line(Head(q))}) \cup { Line(r[j]) : j \in Before(r, k - 1) }
          = P \cup { Line(q[j]) : j \in Before(q, k) }
    BY <1>1, <2>1, <2>4
  <2>7. Completes(r, P \cup {Line(Head(q))}, s)
    BY <1>2, <2>3, <2>5, <2>6 DEF Completes
  <2> QED BY <2>2, <2>7 DEF r
<1> QED BY <1>3, <1>4

\* NewServer notifies the client of what it has just registered, if a lookup
\* of the client's port observes it.
LEMMA NewsIsRegistered ==
  ASSUME TypeOK, NewServer
  PROVE  /\ News(Head(inbox)) \in Seq(NoticeRec)
         /\ \A i \in DOMAIN News(Head(inbox)) : Line(News(Head(inbox))[i]) \in Entries(servers')
         /\ (\A l \in lookups : l.port # Asker) => News(Head(inbox)) = << >>
<1> DEFINE pkt == Head(inbox)
           a == Subject(pkt)
           srv == [service |-> pkt.service, instance |-> pkt.instance]
           x == Notice("new_server", a, srv)
<1>1. pkt \in Packet
  BY QueueTypes DEF NewServer
<1>2. CASE Genuine(pkt, a) /\ Addable(pkt.service, a[2]) /\ Asker \in Reached(lookups, srv)
  <2>1. News(pkt) = <<x>>
    BY <1>2 DEF News
  <2>2. a \in Addrs
    BY <1>1, <1>2, SubjectType DEF Genuine, Addable
  <2>3. srv \in Server
    BY <1>1, <1>2 DEF Packet, Addable, Server
  <2>4. servers' = [servers EXCEPT ![a] = srv]
    BY <1>2 DEF NewServer
  <2> HIDE DEF a, srv, pkt
  <2>5. servers' \in [Addrs -> Server \cup {NoServer}] /\ servers'[a] = srv /\ srv # NoServer
    BY <2>2, <2>3, <2>4, NameServerConstants DEF TypeOK, NameServerConstants
  <2>6. Line(x) \in Entries(servers')
    <3>1. Line(x) = [addr |-> a, server |-> servers'[a]]
      BY <2>2, <2>3, <2>5, NoticeTypes
    <3> QED BY <2>2, <2>5, <3>1 DEF Entries
  <2>7. x \in NoticeRec
    BY <2>2, <2>3, NoticeTypes
  <2>8. \E l \in lookups : l.port = Asker
    BY <1>2 DEF Reached
  <2> HIDE DEF NoticeRec, x
  <2>9. <<x>> \in Seq(NoticeRec) /\ \A i \in DOMAIN <<x>> : <<x>>[i] = x
    BY <2>7
  <2>10. Head(inbox) = pkt
    BY DEF pkt
  <2> QED BY <2>1, <2>6, <2>8, <2>9, <2>10
<1>3. CASE ~ (Genuine(pkt, a) /\ Addable(pkt.service, a[2]) /\ Asker \in Reached(lookups, srv))
  <2>1. News(pkt) = << >>
    BY <1>3 DEF News
  <2> HIDE DEF NoticeRec, pkt
  <2>2. << >> \in Seq(NoticeRec) /\ DOMAIN << >> = {}
    BY EmptySeq
  <2>3. Head(inbox) = pkt
    BY DEF pkt
  <2> QED BY <2>1, <2>2, <2>3
<1> QED BY <1>2, <1>3

\* server_del notifies the client of removals only.
LEMMA DeparturesAreGone ==
  ASSUME TypeOK
  PROVE  /\ Departures \in Seq(NoticeRec)
         /\ \A i \in DOMAIN Departures : Departures[i].cmd = "del_server"
         /\ (\A l \in lookups' : l.port # Asker) => Departures = << >>
<1> DEFINE gone == { a \in Addrs : Registered(a) /\ servers'[a] = NoServer }
           A == { b \in gone : Asker \in Reached(lookups', servers[b]) }
           q == SetToSeq({ Notice("del_server", a, servers[a]) : a \in A })
<1>1. servers \in [Addrs -> Server \cup {NoServer}] /\ A \subseteq Addrs
      /\ \A a \in A : servers[a] # NoServer
  BY DEF TypeOK, Registered
<1>2. Departures = q
  BY DEF Departures
<1>3. (\A l \in lookups' : l.port # Asker) => A = {}
  BY DEF Reached
<1> HIDE DEF A
<1>4. /\ q \in Seq(NoticeRec)
      /\ \A i \in DOMAIN q : \E a \in A : q[i] = Notice("del_server", a, servers[a])
  BY <1>1, Listing
<1>5. \A a \in A : Notice("del_server", a, servers[a]).cmd = "del_server"
  BY DEF Notice
<1> HIDE DEF q, NoticeRec
<1>6. A = {} => q = << >>
  BY <1>4, LenProperties
<1> QED BY <1>2, <1>3, <1>4, <1>5, <1>6

-----------------------------------------------------------------------------
(* What a run prints was registered.                                       *)

\* ClientTypeOK, with what waits at the socket and when there is something.
Sane ==
  /\ phase \in {"idle", "open", "asked", "done"}
  /\ (phase # "idle") = (Socket \in open)
  /\ mail \in Seq(NoticeRec)
  /\ ~ Reads => mail = << >>
  /\ phase \in {"idle", "open"} => printed = {}
  /\ result \in {"none", "listed", "timeout", "failed"}
  /\ (result # "none") = (phase = "done")
  /\ fresh \in BOOLEAN
  /\ seen \subseteq Entry /\ snapshot \subseteq Entry

\* What is printed or waits to be printed was registered during the run.
Witnessed ==
  /\ printed \subseteq seen
  /\ Reads => Entries(servers) \subseteq seen
  /\ \A i \in DOMAIN mail :
       mail[i].cmd = "new_server" /\ ~ IsEnd(mail[i]) => Line(mail[i]) \in seen

LEMMA ClientTypes == TypeOK /\ [ClientNext]_clientVars => TypeOK'
BY ClientSteps, NextTypeOK

\* Handling a packet, the name server appends to the client's queue what was or
\* is now registered, ends and removals.
LEMMA ServeSends ==
  ASSUME TypeOK, TypeOK', Sane, Serve
  PROVE  /\ open' = open
         /\ snapshot' \subseteq Entry
         /\ \E q \in Seq(NoticeRec) :
              /\ mail' = IF Reads THEN mail \o q ELSE mail
              /\ \A i \in DOMAIN q : q[i].cmd = "new_server" /\ ~ IsEnd(q[i])
                                       => Line(q[i]) \in Entries(servers')
<1> DEFINE Sent(q) == /\ q \in Seq(NoticeRec)
                      /\ mail' = IF Reads THEN mail \o q ELSE mail
                      /\ \A i \in DOMAIN q : q[i].cmd = "new_server" /\ ~ IsEnd(q[i])
                                               => Line(q[i]) \in Entries(servers')
<1>1. << >> \in Seq(NoticeRec) /\ mail \in Seq(NoticeRec)
  BY DEF Sane
<1>2. snapshot \subseteq Entry
  BY DEF Sane
<1> HIDE DEF NoticeRec
<1>3. mail \o << >> = mail
  BY <1>1, ConcatEmptySeq
<1>4. CASE NewServer /\ Deliver(News(Head(inbox))) /\ UNCHANGED snapshot
  <2>1. Sent(News(Head(inbox)))
    BY <1>4, NewsIsRegistered DEF Deliver
  <2> QED BY <1>2, <1>4, <2>1 DEF NewServer
<1>5. CASE /\ NewLookup
           /\ Head(inbox).from = Socket /\ Reads
           /\ Deliver(Answer(Request(Head(inbox))))
           /\ snapshot' = Matching(servers, Request(Head(inbox)))
  <2>1. Request(Head(inbox)) \in Filter
    BY <1>5, QueueTypes DEF NewLookup, Packet, Request, Filter
  <2>2. servers' = servers /\ servers \in [Addrs -> Server \cup {NoServer}] /\ open' = open
    BY <1>5 DEF NewLookup, TypeOK
  <2>3. Sent(Answer(Request(Head(inbox))))
    BY <1>5, <2>1, <2>2, AnswerCompletes DEF Deliver
  <2>4. snapshot' \subseteq Entry
    BY <1>5, <2>2, RegistryEntries
  <2> QED BY <2>2, <2>3, <2>4
<1>6. CASE (Bye \/ DelClient \/ DelServer) /\ Deliver(Departures) /\ UNCHANGED snapshot
  <2>1. Sent(Departures)
    BY <1>6, DeparturesAreGone DEF Deliver
  <2> QED BY <1>2, <1>6, <2>1 DEF Bye, DelClient, DelServer
<1>7. CASE (NewLookup \/ Hello \/ DelLookup \/ Ignored) /\ UNCHANGED <<mail, snapshot>>
  <2>1. Sent(<< >>)
    BY <1>1, <1>3, <1>7
  <2> QED BY <1>2, <1>7, <2>1 DEF NewLookup, Hello, DelLookup, Ignored
<1> QED BY <1>4, <1>5, <1>6, <1>7 DEF Serve

LEMMA ServeSane == ASSUME TypeOK, TypeOK', Sane, Serve PROVE Sane'
<1>1. open' = open /\ snapshot' \subseteq Entry
  BY ServeSends
<1>2. PICK q \in Seq(NoticeRec) : mail' = IF Reads THEN mail \o q ELSE mail
  BY ServeSends
<1>3. /\ UNCHANGED <<phase, printed, result, fresh>>
      /\ seen' = IF Reads THEN seen \cup Entries(servers') ELSE seen
  BY DEF Serve, Remember
<1>4. Entries(servers') \subseteq Entry
  BY RegistryEntries DEF TypeOK
<1> HIDE DEF NoticeRec
<1>5. mail' \in Seq(NoticeRec)
  BY <1>2, ConcatProperties DEF Sane
<1>6. Reads' <=> Reads
  BY <1>3 DEF Reads
<1> QED BY <1>1, <1>2, <1>3, <1>4, <1>5, <1>6 DEF Sane

LEMMA ServeWitnessed == ASSUME TypeOK, TypeOK', Sane, Witnessed, Serve PROVE Witnessed'
<1>1. PICK q \in Seq(NoticeRec) :
        /\ mail' = IF Reads THEN mail \o q ELSE mail
        /\ \A i \in DOMAIN q : q[i].cmd = "new_server" /\ ~ IsEnd(q[i])
                                 => Line(q[i]) \in Entries(servers')
  BY ServeSends
<1>2. /\ UNCHANGED <<phase, printed>>
      /\ seen' = IF Reads THEN seen \cup Entries(servers') ELSE seen
  BY DEF Serve, Remember
<1>3. Reads' <=> Reads
  BY <1>2 DEF Reads
<1>4. ASSUME NEW i \in DOMAIN mail', mail'[i].cmd = "new_server", ~ IsEnd(mail'[i])
      PROVE  Line(mail'[i]) \in seen'
  <2>1. CASE ~ Reads
    BY <1>1, <1>2, <1>4, <2>1 DEF Witnessed
  <2>2. CASE Reads
    <3> DEFINE u == mail \o q
    <3>1. mail' = u /\ mail \in Seq(NoticeRec)
      BY <1>1, <2>2 DEF Sane
    <3> HIDE DEF NoticeRec
    <3>2. /\ \A j \in DOMAIN mail : u[j] = mail[j]
          /\ \A j \in DOMAIN u : j \in DOMAIN mail \/ (j - Len(mail) \in DOMAIN q /\ u[j] = q[j - Len(mail)])
      BY <3>1, ConcatPositions
    <3> HIDE DEF u
    <3>3. CASE i \in DOMAIN mail
      BY <1>2, <1>4, <2>2, <3>1, <3>2, <3>3 DEF Witnessed
    <3>4. CASE i \notin DOMAIN mail
      BY <1>1, <1>2, <1>4, <2>2, <3>1, <3>2, <3>4
    <3> QED BY <3>3, <3>4
  <2> QED BY <2>1, <2>2
<1>5. printed' \subseteq seen' /\ (Reads' => Entries(servers') \subseteq seen')
  BY <1>2, <1>3 DEF Witnessed
<1> QED BY <1>4, <1>5 DEF Witnessed

\* The sockets of servers, links and nodes neither close the client's socket nor
\* ask in its name.
LEMMA OthersKeep ==
  ASSUME TypeOK, Others
  PROVE  /\ UNCHANGED <<servers, lookups>> /\ UNCHANGED client
         /\ (Socket \in open') = (Socket \in open)
         /\ \/ inbox' = inbox
            \/ \E pkt \in Packet : /\ inbox' = Append(inbox, pkt)
                                   /\ ~ (pkt.cmd = "new_lookup" /\ pkt.from = Socket)
<1> DEFINE Harmless == /\ UNCHANGED <<servers, lookups>>
                     /\ (Socket \in open') = (Socket \in open)
                     /\ \/ inbox' = inbox
                        \/ \E pkt \in Packet : /\ inbox' = Append(inbox, pkt)
                                               /\ ~ (pkt.cmd = "new_lookup" /\ pkt.from = Socket)
<1>1. /\ Socket \in Addrs /\ Socket[1] = LocalNode /\ Socket \notin Providers
      /\ Providers \subseteq Addrs /\ LocalNode \notin RemoteNodes
  BY AddrTypes, ClientConstants, NameServerConstants
     DEF Socket, Local, Providers, ClientConstants, NameServerConstants
<1>2. ASSUME NEW cmd \in Cmds \ {"new_lookup"}, NEW from \in Sender, NEW addr \in Nat \X (Ports \cup {0}),
             NEW srv \in Filter, cmd \in {"hello", "bye"} => from[1] # LocalNode,
             Send(cmd, from, addr, srv)
      PROVE  \E pkt \in Packet : /\ inbox' = Append(inbox, pkt)
                                 /\ ~ (pkt.cmd = "new_lookup" /\ pkt.from = Socket)
  <2> DEFINE pkt == [cmd |-> cmd, from |-> from, addr |-> addr,
                     service |-> srv.service, instance |-> srv.instance]
  <2>1. pkt \in Packet /\ pkt.cmd = cmd
    BY <1>2, PacketType
  <2>2. inbox' = Append(inbox, pkt)
    BY <1>2 DEF Send
  <2> HIDE DEF pkt
  <2> QED BY <2>1, <2>2
<1>3. \A a \in Addrs : want[a] # NoServer => want[a] \in Filter
  BY FilterTypes DEF TypeOK
<1>4. ASSUME NEW a \in Providers, OpenSocket(a) \/ CloseSocket(a) \/ Withdraw(a) \/ Announce(a)
      PROVE  Harmless
  <2>0. a \in Addrs /\ a # Socket /\ From(a) \in Sender /\ a \in Nat \X (Ports \cup {0})
    BY <1>1, AddrTypes
  <2>1. CASE OpenSocket(a)
    BY <2>0, <2>1 DEF OpenSocket
  <2>2. CASE CloseSocket(a)
    <3>1. Send("del_client", From(a), a, Nothing)
      BY <2>2 DEF CloseSocket
    <3>2. "del_client" \in Cmds \ {"new_lookup"}
      BY DEF Cmds
    <3>3. \E pkt \in Packet : /\ inbox' = Append(inbox, pkt)
                              /\ ~ (pkt.cmd = "new_lookup" /\ pkt.from = Socket)
      BY <1>2, <2>0, <3>1, <3>2, FilterTypes
    <3> QED BY <2>0, <2>2, <3>3 DEF CloseSocket
  <2>3. CASE Withdraw(a)
    <3>1. Send("del_server", From(a), a, want[a]) /\ want[a] \in Filter
      BY <1>3, <2>0, <2>3 DEF Withdraw
    <3>2. "del_server" \in Cmds \ {"new_lookup"}
      BY DEF Cmds
    <3>3. \E pkt \in Packet : /\ inbox' = Append(inbox, pkt)
                              /\ ~ (pkt.cmd = "new_lookup" /\ pkt.from = Socket)
      BY <1>2, <2>0, <3>1, <3>2
    <3> QED BY <2>3, <3>3 DEF Withdraw
  <2>4. CASE Announce(a)
    <3>1. Send("new_server", From(a), a, want[a]) /\ want[a] \in Filter
      BY <1>3, <2>0, <2>4 DEF Announce, TypeOK
    <3>2. "new_server" \in Cmds \ {"new_lookup"}
      BY DEF Cmds
    <3>3. \E pkt \in Packet : /\ inbox' = Append(inbox, pkt)
                              /\ ~ (pkt.cmd = "new_lookup" /\ pkt.from = Socket)
      BY <1>2, <2>0, <3>1, <3>2
    <3> QED BY <2>4, <3>3 DEF Announce
  <2> QED BY <1>4, <2>1, <2>2, <2>3, <2>4
<1>5. ASSUME NEW a \in Providers, NEW srv \in Offers[a], Publish(a, srv) PROVE Harmless
  <2>0. a \in Addrs /\ From(a) \in Sender /\ srv \in Filter
    BY <1>1, AddrTypes, FilterTypes
  <2>1. (IF a[1] = LocalNode THEN Unset ELSE a) \in Nat \X (Ports \cup {0})
    BY <2>0, AddrTypes
  <2>2. "new_server" \in Cmds \ {"new_lookup"}
    BY DEF Cmds
  <2>3. Send("new_server", From(a), IF a[1] = LocalNode THEN Unset ELSE a, srv)
    BY <1>5 DEF Publish
  <2>4. \E pkt \in Packet : /\ inbox' = Append(inbox, pkt)
                            /\ ~ (pkt.cmd = "new_lookup" /\ pkt.from = Socket)
    BY <1>2, <2>0, <2>1, <2>2, <2>3
  <2> QED BY <1>5, <2>4 DEF Publish
<1>6. ASSUME NEW n \in RemoteNodes, LinkUp(n) \/ LinkDown(n) PROVE Harmless
  <2>0. /\ <<n, CtrlPort>> \in Sender /\ <<n, CtrlPort>>[1] # LocalNode
        /\ Unset \in Nat \X (Ports \cup {0}) /\ Nothing \in Filter
    BY <1>1, AddrTypes, FilterTypes
  <2>1. "hello" \in Cmds \ {"new_lookup"} /\ "bye" \in Cmds \ {"new_lookup"}
    BY DEF Cmds
  <2>2. \/ Send("hello", <<n, CtrlPort>>, Unset, Nothing)
        \/ Send("bye", <<n, CtrlPort>>, Unset, Nothing)
    BY <1>6 DEF LinkUp, LinkDown
  <2>3. \E pkt \in Packet : /\ inbox' = Append(inbox, pkt)
                            /\ ~ (pkt.cmd = "new_lookup" /\ pkt.from = Socket)
    BY <1>2, <2>0, <2>1, <2>2
  <2>4. n # LocalNode
    BY <1>1
  <2>5. (Socket \in open') = (Socket \in open)
    BY <1>1, <1>6, <2>4 DEF LinkUp, LinkDown
  <2> QED BY <1>6, <2>3, <2>5 DEF LinkUp, LinkDown
<1>7. ASSUME NEW pkt \in Strays, Stray(pkt) PROVE Harmless
  <2>1. pkt \in Packet /\ (pkt.cmd = "new_lookup" => pkt.from[1] # LocalNode)
    BY NameServerConstants DEF NameServerConstants
  <2>2. ~ (pkt.cmd = "new_lookup" /\ pkt.from = Socket)
    BY <1>1, <2>1
  <2> QED BY <1>7, <2>1, <2>2 DEF Stray
<1> HIDE DEF Harmless
<1>8. Harmless /\ UNCHANGED client
  BY <1>4, <1>5, <1>6, <1>7 DEF Others
<1> QED BY <1>8 DEF Harmless

\* What the client's own steps do to what it shares with the name server.
LEMMA ClientKeeps ==
  ASSUME Begin \/ (\E f \in Filters[Asker] : Ask(f)) \/ AskFails \/ ReadPacket \/ Timeout \/ Exit
  PROVE  UNCHANGED <<servers, lookups>>
BY DEF Begin, Ask, AskFails, ReadPacket, Timeout, Exit, OpenSocket, AskLookup, CloseSocket, vars

LEMMA StepSane == TypeOK /\ Sane /\ [ClientNext]_clientVars => Sane'
<1> SUFFICES ASSUME TypeOK, TypeOK', Sane, [ClientNext]_clientVars PROVE Sane'
  BY ClientTypes
<1>1. CASE Serve
  BY <1>1, ServeSane
<1>2. CASE ServerRestarts
  <2>1. Entries(servers') \subseteq Entry
    BY RegistryEntries DEF TypeOK
  <2>2. UNCHANGED <<open, phase, mail, printed, result, fresh, snapshot>>
    BY <1>2 DEF ServerRestarts, Restart
  <2>3. seen' = seen \cup Entries(servers') \/ seen' = seen
    BY <1>2 DEF ServerRestarts, Remember
  <2> HIDE DEF NoticeRec
  <2> QED BY <2>1, <2>2, <2>3 DEF Sane, Reads
<1>3. CASE Others
  <2>1. UNCHANGED client /\ (Socket \in open') = (Socket \in open)
    BY <1>3, OthersKeep
  <2> HIDE DEF NoticeRec
  <2> QED BY <2>1 DEF Sane, client, Reads
<1>4. CASE Begin
  <2>1. Entries(servers) \subseteq Entry
    BY RegistryEntries DEF TypeOK
  <2>2. Socket \in open'
    BY <1>4 DEF Begin, OpenSocket
  <2> HIDE DEF NoticeRec
  <2> QED BY <1>4, <2>1, <2>2 DEF Begin, Sane, Reads
<1>5. ASSUME NEW f \in Filters[Asker], Ask(f) PROVE Sane'
  <2>1. /\ phase = "open" /\ phase' = "asked" /\ open' = open /\ fresh' \in BOOLEAN
        /\ UNCHANGED <<mail, printed, result, seen, snapshot>>
    BY <1>5 DEF Ask, AskLookup
  <2> HIDE DEF NoticeRec
  <2> QED BY <2>1 DEF Sane, Reads
<1>6. CASE ReadPacket
  <2>1. mail \in Seq(NoticeRec) /\ mail # << >> /\ phase = "asked"
    BY <1>6 DEF ReadPacket, Sane
  <2> HIDE DEF NoticeRec
  <2>2. Tail(mail) \in Seq(NoticeRec) /\ << >> \in Seq(NoticeRec)
    BY <2>1, TailPositions, EmptySeq
  <2>3. UNCHANGED <<open, fresh, seen, snapshot>>
    BY <1>6 DEF ReadPacket, vars
  <2>4. CASE mail' = Tail(mail) /\ UNCHANGED <<phase, result>>
    BY <2>1, <2>2, <2>3, <2>4 DEF Sane, Reads
  <2>5. CASE Leave("listed") /\ UNCHANGED printed
    BY <2>1, <2>2, <2>3, <2>5 DEF Sane, Reads, Leave
  <2> QED BY <1>6, <2>4, <2>5 DEF ReadPacket
<1>7. CASE AskFails \/ Timeout
  <2> HIDE DEF NoticeRec
  <2>1. << >> \in Seq(NoticeRec)
    BY EmptySeq
  <2> QED BY <1>7, <2>1 DEF AskFails, Timeout, Leave, Sane, Reads, vars
<1>8. CASE Exit
  <2>1. Socket \notin open' /\ phase' = "idle" /\ printed' = {} /\ result' = "none"
        /\ fresh' \in BOOLEAN /\ seen' = {} /\ snapshot' = {} /\ mail' = mail /\ phase = "done"
    BY <1>8 DEF Exit, CloseSocket
  <2> HIDE DEF NoticeRec
  <2> QED BY <2>1 DEF Sane, Reads
<1>9. CASE UNCHANGED clientVars
  <2>1. UNCHANGED client /\ (Socket \in open') = (Socket \in open)
    BY <1>9 DEF clientVars, vars
  <2> HIDE DEF NoticeRec
  <2> QED BY <2>1 DEF Sane, Reads, client
<1> QED BY <1>1, <1>2, <1>3, <1>4, <1>5, <1>6, <1>7, <1>8, <1>9 DEF ClientNext

LEMMA InitSane == ClientInit => Sane
<1> SUFFICES ASSUME ClientInit PROVE Sane
  OBVIOUS
<1> HIDE DEF NoticeRec
<1>1. << >> \in Seq(NoticeRec)
  BY EmptySeq
<1>2. fresh \in BOOLEAN /\ Socket \notin open
  BY DEF ClientInit, Init
<1>3. /\ phase = "idle" /\ mail = << >> /\ printed = {} /\ result = "none"
      /\ seen = {} /\ snapshot = {}
  BY DEF ClientInit
<1> QED BY <1>1, <1>2, <1>3 DEF Sane, Reads

LEMMA InitWitnessed == ClientInit => Witnessed
BY DEF ClientInit, Witnessed, Reads

LEMMA StepWitnessed == TypeOK /\ Sane /\ Witnessed /\ [ClientNext]_clientVars => Witnessed'
<1> SUFFICES ASSUME TypeOK, TypeOK', Sane, Witnessed, [ClientNext]_clientVars PROVE Witnessed'
  BY ClientTypes
<1>1. CASE Serve
  BY <1>1, ServeWitnessed
<1>2. CASE ServerRestarts
  BY <1>2 DEF ServerRestarts, Remember, Witnessed, Reads
<1>3. CASE Others
  <2>1. UNCHANGED client /\ servers' = servers
    BY <1>3, OthersKeep
  <2> QED BY <2>1 DEF Witnessed, client, Reads
<1>4. CASE Begin
  <2>1. mail = << >> /\ printed = {} /\ seen' = Entries(servers') /\ UNCHANGED <<mail, printed>>
    BY <1>4, ClientKeeps DEF Begin, Sane, Reads
  <2> QED BY <2>1 DEF Witnessed
<1>5. ASSUME NEW f \in Filters[Asker], Ask(f) PROVE Witnessed'
  BY <1>5, ClientKeeps DEF Ask, Witnessed, Reads
<1>6. CASE ReadPacket
  <2>1. /\ mail # << >> /\ UNCHANGED <<seen, servers>>
        /\ mail \in Seq(NoticeRec) /\ phase = "asked"
    BY <1>6, ClientKeeps DEF ReadPacket, Sane
  <2>2. printed' \subseteq seen'
    <3>1. \/ printed' = printed
          \/ Head(mail).cmd = "new_server" /\ ~ IsEnd(Head(mail)) /\ printed' = printed \cup {Line(Head(mail))}
      BY <1>6 DEF ReadPacket, Line
    <3>2. Head(mail) = mail[1] /\ 1 \in DOMAIN mail
      <4> HIDE DEF NoticeRec
      <4> QED BY <2>1, TailPositions
    <3> QED BY <2>1, <3>1, <3>2 DEF Witnessed
  <2>3. CASE mail' = Tail(mail)
    <3>1. \A i \in DOMAIN mail' : i + 1 \in DOMAIN mail /\ mail'[i] = mail[i + 1]
      <4> HIDE DEF NoticeRec
      <4> QED BY <2>1, <2>3, TailPositions
    <3> QED BY <2>1, <2>2, <3>1 DEF Witnessed, Reads
  <2>4. CASE mail' = << >>
    BY <2>1, <2>2, <2>4 DEF Witnessed, Reads
  <2> QED BY <1>6, <2>3, <2>4 DEF ReadPacket, Leave
<1>7. CASE AskFails \/ Timeout
  <2>1. mail' = << >> /\ phase' = "done" /\ UNCHANGED <<printed, seen, servers>>
    BY <1>7, ClientKeeps DEF AskFails, Timeout, Leave
  <2> QED BY <2>1 DEF Witnessed, Reads
<1>8. CASE Exit
  <2>1. mail' = << >> /\ phase' = "idle" /\ printed' = {}
    BY <1>8 DEF Exit, Sane, Reads
  <2> QED BY <2>1 DEF Witnessed, Reads
<1>9. CASE UNCHANGED clientVars
  BY <1>9 DEF Witnessed, Reads, clientVars, client, vars
<1> QED BY <1>1, <1>2, <1>3, <1>4, <1>5, <1>6, <1>7, <1>8, <1>9 DEF ClientNext

LEMMA ClientInitTypes == ClientInit => TypeOK
BY InitTypeOK DEF ClientInit

\* The types of the client's variables hold next to every name server, and its
\* socket is open exactly while a process has it.
THEOREM ClientTypeCorrect == ClientSpec => []ClientTypeOK
<1>1. Sane /\ Witnessed => ClientTypeOK
  <2> SUFFICES ASSUME Sane, Witnessed PROVE ClientTypeOK
    OBVIOUS
  <2>1. \A i \in DOMAIN mail : mail[i] \in NoticeRec
    <3> HIDE DEF NoticeRec
    <3> QED BY LenProperties, ElementOfSeq DEF Sane
  <2>2. \A i \in DOMAIN mail : IsEnd(mail[i]) \/ [addr |-> mail[i].addr, server |-> mail[i].server] \in Entry
    BY <2>1, NoticeTypes DEF Line
  <2> HIDE DEF NoticeRec
  <2> QED BY <2>2 DEF ClientTypeOK, Sane, Witnessed
<1> QED BY <1>1, ClientInitTypes, ClientTypes, InitSane, StepSane, InitWitnessed, StepWitnessed, PTL
        DEF ClientSpec

\* qrtr-lookup looks at no argument of its own again once it has asked
\* (lookup.c:182-200): even so, and also when notifications meant for an earlier
\* run on its port reach it, it prints only servers that were registered while
\* it ran.
THEOREM PrintedWasRegistered == ClientSpec => []ListedWasRegistered
<1>1. Witnessed => ListedWasRegistered
  BY DEF Witnessed, ListedWasRegistered
<1> QED BY <1>1, ClientInitTypes, ClientTypes, InitSane, StepSane, InitWitnessed, StepWitnessed, PTL
        DEF ClientSpec

-----------------------------------------------------------------------------
(* The list of a run that starts clean.                                    *)

\* The client's requests that the name server has still to handle.
Requests == { i \in DOMAIN inbox : inbox[i].cmd = "new_lookup" /\ inbox[i].from = Socket }

\* A run that started clean has its request queued, if that was not lost, and
\* nothing to read; or it was answered, and the answer can be read to its end.
Waiting  == /\ mail = << >> /\ printed = {}
            /\ \A l \in lookups : l.port # Asker
            /\ \A i, j \in Requests : i = j
Answered == Requests = {} /\ Completes(mail, printed, snapshot)

Clean == /\ fresh /\ phase = "asked" => Waiting \/ Answered
         /\ ExactWhenFresh

LEMMA RequestHandled ==
  ASSUME TypeOK, inbox # << >>, inbox' = Tail(inbox)
  PROVE  /\ \A i \in Requests' : i + 1 \in Requests /\ i \in Nat \ {0}
         /\ Head(inbox).cmd = "new_lookup" /\ Head(inbox).from = Socket => 1 \in Requests
<1>1. inbox \in Seq(Packet)
  BY DEF TypeOK
<1> DEFINE r == Tail(inbox)
<1>2. /\ Head(inbox) = inbox[1] /\ 1 \in DOMAIN inbox
      /\ DOMAIN r \subseteq Nat \ {0}
      /\ \A i \in DOMAIN r : i + 1 \in DOMAIN inbox /\ r[i] = inbox[i + 1]
  BY <1>1, TailPositions
<1> HIDE DEF r
<1>3. inbox' = r
  BY DEF r
<1> QED BY <1>2, <1>3 DEF Requests

LEMMA RequestQueued ==
  ASSUME TypeOK, NEW pkt \in Packet, inbox' = Append(inbox, pkt)
  PROVE  /\ Requests' \subseteq Requests \cup {Len(inbox) + 1}
         /\ ~ (pkt.cmd = "new_lookup" /\ pkt.from = Socket) => Requests' \subseteq Requests
<1>1. inbox \in Seq(Packet)
  BY DEF TypeOK
<1> DEFINE r == Append(inbox, pkt)
<1>2. /\ Len(inbox) \in Nat /\ DOMAIN inbox = 1..Len(inbox) /\ DOMAIN r = 1..(Len(inbox) + 1)
      /\ \A i \in DOMAIN inbox : r[i] = inbox[i]
      /\ r[Len(inbox) + 1] = pkt
  BY <1>1, AppendProperties
<1> HIDE DEF r
<1>3. inbox' = r
  BY DEF r
<1>4. \A i \in DOMAIN r : i \in DOMAIN inbox \/ i = Len(inbox) + 1
  BY <1>2
<1> QED BY <1>2, <1>3, <1>4 DEF Requests

\* An answer is complete when it is sent, and stays so while the name server
\* goes on; before it nothing else is sent.
LEMMA ServeClean ==
  ASSUME TypeOK, TypeOK', Sane, Serve, fresh, phase = "asked", Waiting \/ Answered
  PROVE  (Waiting \/ Answered)'
<1>1. printed' = printed /\ Reads
  BY DEF Serve, Reads
<1>2. inbox # << >> /\ inbox' = Tail(inbox)
  BY DEF Serve, NewServer, NewLookup, Bye, DelClient, DelServer, Hello, DelLookup, Ignored, Receive
<1>3. /\ \A i \in Requests' : i + 1 \in Requests /\ i \in Nat \ {0}
      /\ Head(inbox).cmd = "new_lookup" /\ Head(inbox).from = Socket => 1 \in Requests
  BY <1>2, RequestHandled
<1>4. mail \in Seq(NoticeRec)
  BY DEF Sane
<1>5. \A i, j \in Requests' : (i + 1 = j + 1 => i = j) /\ i + 1 # 1
  BY <1>3
<1>6. CASE Waiting
  <2>1. \A i, j \in Requests' : i = j
    BY <1>3, <1>5, <1>6 DEF Waiting
  <2>2. ASSUME \A l \in lookups' : l.port # Asker, mail' = mail PROVE Waiting'
    BY <1>1, <1>6, <2>1, <2>2 DEF Waiting
  <2>3. mail \o << >> = mail
    <3> HIDE DEF NoticeRec
    <3> QED BY <1>4, ConcatEmptySeq
  <2>4. CASE NewServer /\ Deliver(News(Head(inbox)))
    <3>1. lookups' = lookups /\ mail' = mail \o News(Head(inbox))
      BY <1>1, <2>4 DEF NewServer, Deliver
    <3>2. News(Head(inbox)) = << >>
      BY <1>6, <2>4, NewsIsRegistered DEF Waiting
    <3> QED BY <1>6, <2>2, <2>3, <3>1, <3>2 DEF Waiting
  <2>5. CASE (Bye \/ DelClient \/ DelServer) /\ Deliver(Departures)
    <3>1. lookups' \subseteq lookups /\ mail' = mail \o Departures
      BY <1>1, <2>5 DEF Bye, DelClient, DelServer, LookupsWithout, Deliver
    <3>2. \A l \in lookups' : l.port # Asker
      BY <1>6, <3>1 DEF Waiting
    <3>3. Departures = << >>
      BY <3>2, DeparturesAreGone
    <3> QED BY <2>2, <2>3, <3>1, <3>2, <3>3
  <2>6. CASE (Hello \/ DelLookup \/ Ignored) /\ mail' = mail
    <3>1. \A l \in lookups' : l.port # Asker
      BY <1>6, <2>6 DEF Hello, DelLookup, Ignored, Waiting
    <3> QED BY <2>2, <2>6, <3>1
  <2>7. CASE NewLookup /\ Head(inbox).from # Socket /\ mail' = mail
    <3>1. Head(inbox) \in Packet
      BY <2>7, QueueTypes DEF NewLookup
    <3>2. Head(inbox).from[1] = LocalNode => Head(inbox).from[2] # Asker
      BY <2>7, <3>1, NameServerConstants
         DEF Packet, Sender, Addrs, Nodes, Socket, Local, NameServerConstants
    <3>3. \A l \in lookups' : l.port # Asker
      BY <1>6, <2>7, <3>2 DEF NewLookup, Waiting
    <3> QED BY <2>2, <2>7, <3>3
  <2>8. CASE /\ NewLookup /\ Head(inbox).from = Socket
             /\ Deliver(Answer(Request(Head(inbox))))
             /\ snapshot' = Matching(servers, Request(Head(inbox)))
    <3> DEFINE q == Answer(Request(Head(inbox)))
    <3>1. Request(Head(inbox)) \in Filter
      BY <2>8, QueueTypes DEF NewLookup, Packet, Request, Filter
    <3>2. q \in Seq(NoticeRec) /\ Completes(q, {}, snapshot')
      BY <2>8, <3>1, AnswerCompletes
    <3>3. mail' = q
      <4>1. mail' = << >> \o q
        BY <1>1, <1>6, <2>8 DEF Deliver, Waiting
      <4> HIDE DEF q, NoticeRec
      <4> QED BY <3>2, <4>1, ConcatEmptySeq
    <3> HIDE DEF q
    <3>4. 1 \in Requests
      BY <1>3, <2>8 DEF NewLookup, Receive
    <3>5. Requests' = {}
      BY <1>3, <1>5, <1>6, <3>4 DEF Waiting
    <3> QED BY <1>1, <1>6, <3>2, <3>3, <3>5 DEF Waiting, Answered
  <2>9. \/ NewServer /\ Deliver(News(Head(inbox)))
        \/ (Bye \/ DelClient \/ DelServer) /\ Deliver(Departures)
        \/ (Hello \/ DelLookup \/ Ignored) /\ mail' = mail
        \/ NewLookup /\ Head(inbox).from # Socket /\ mail' = mail
        \/ /\ NewLookup /\ Head(inbox).from = Socket
           /\ Deliver(Answer(Request(Head(inbox))))
           /\ snapshot' = Matching(servers, Request(Head(inbox)))
    BY <1>1 DEF Serve
  <2> QED BY <2>4, <2>5, <2>6, <2>7, <2>8, <2>9
<1>7. CASE Answered
  <2>1. Requests' = {}
    BY <1>3, <1>7 DEF Answered
  <2>2. snapshot' = snapshot
    <3>1. ~ (Head(inbox).cmd = "new_lookup" /\ Head(inbox).from = Socket)
      BY <1>3, <1>7 DEF Answered
    <3> QED BY <3>1 DEF Serve, NewLookup, Receive
  <2>3. PICK q \in Seq(NoticeRec) : mail' = mail \o q
    BY <1>1, ServeSends
  <2>4. Completes(mail', printed, snapshot)
    BY <1>4, <1>7, <2>3, CompletesAppended DEF Answered
  <2> QED BY <1>1, <2>1, <2>2, <2>4 DEF Answered
<1> QED BY <1>6, <1>7

LEMMA StepClean == TypeOK /\ Sane /\ Clean /\ [ClientNext]_clientVars => Clean'
<1> SUFFICES ASSUME TypeOK, TypeOK', Sane, Sane', Clean, [ClientNext]_clientVars PROVE Clean'
  BY ClientTypes, StepSane
<1> HIDE DEF NoticeRec
<1>1. ASSUME phase' # "asked", result' # "listed" PROVE Clean'
  BY <1>1 DEF Clean, ExactWhenFresh
<1>2. CASE Serve
  <2>1. UNCHANGED <<phase, printed, result, fresh>>
    BY <1>2 DEF Serve
  <2>2. CASE phase = "asked"
    <3>1. result' # "listed"
      BY <2>1, <2>2 DEF Sane
    <3>2. fresh => (Waiting \/ Answered)'
      BY <1>2, <2>2, ServeClean DEF Clean
    <3> QED BY <2>1, <3>1, <3>2 DEF Clean, ExactWhenFresh
  <2>3. CASE phase = "done"
    <3>1. snapshot' = snapshot
      BY <1>2, <2>3 DEF Serve, Reads
    <3> QED BY <2>1, <2>3, <3>1 DEF Clean, ExactWhenFresh
  <2>4. CASE phase \in {"idle", "open"}
    <3>1. result # "listed"
      BY <2>4 DEF Sane
    <3> QED BY <1>1, <2>1, <2>4, <3>1
  <2> QED BY <2>2, <2>3, <2>4 DEF Sane
<1>3. CASE ServerRestarts
  <2>1. /\ UNCHANGED <<phase, mail, printed, result, fresh, snapshot>>
        /\ lookups' = {} /\ inbox' = << >>
    BY <1>3 DEF ServerRestarts, Restart
  <2>2. Requests' = {}
    BY <2>1 DEF Requests
  <2> QED BY <2>1, <2>2 DEF Clean, ExactWhenFresh, Waiting, Answered
<1>4. CASE Others
  <2>1. UNCHANGED client /\ lookups' = lookups
    BY <1>4, OthersKeep
  <2>2. Requests' \subseteq Requests
    <3>1. CASE inbox' = inbox
      BY <3>1 DEF Requests
    <3>2. CASE inbox' # inbox
      BY <1>4, <3>2, OthersKeep, RequestQueued
    <3> QED BY <3>1, <3>2
  <2> QED BY <2>1, <2>2 DEF Clean, ExactWhenFresh, Waiting, Answered, client
<1>5. CASE Begin
  <2>1. phase' = "open"
    BY <1>5 DEF Begin
  <2>2. result' # "listed"
    BY <2>1 DEF Sane
  <2> QED BY <1>1, <2>1, <2>2
<1>6. ASSUME NEW f \in Filters[Asker], Ask(f) PROVE Clean'
  <2>1. /\ phase = "open" /\ phase' = "asked"
        /\ UNCHANGED <<mail, printed, lookups>>
        /\ Send("new_lookup", Socket, Unset, f)
    BY <1>6 DEF Ask, AskLookup, Socket
  <2>2. printed' = {} /\ result' # "listed"
    BY <2>1 DEF Sane
  <2>3. ASSUME fresh' PROVE Waiting'
    <3>1. mail = << >> /\ (\A l \in lookups : l.port # Asker) /\ Requests = {}
      BY <1>6, <2>3 DEF Ask, Requests
    <3>2. \E pkt \in Packet : inbox' = Append(inbox, pkt)
      <4>1. f \in Filter /\ Socket \in Sender /\ "new_lookup" \in Cmds \ {"hello", "bye"}
        BY AddrTypes, FilterTypes, ClientConstants DEF Socket, Sender, Cmds, ClientConstants
      <4>2. Unset \in Nat \X (Ports \cup {0})
        BY AddrTypes
      <4> DEFINE pkt == [cmd |-> "new_lookup", from |-> Socket, addr |-> Unset,
                         service |-> f.service, instance |-> f.instance]
      <4>3. pkt \in Packet
        BY <4>1, <4>2, PacketType
      <4>4. inbox' = Append(inbox, pkt)
        BY <2>1 DEF Send
      <4> HIDE DEF pkt
      <4> QED BY <4>3, <4>4
    <3>3. Requests' \subseteq {Len(inbox) + 1}
      BY <3>1, <3>2, RequestQueued
    <3> QED BY <2>1, <2>2, <3>1, <3>3 DEF Waiting
  <2> QED BY <2>1, <2>2, <2>3 DEF Clean, ExactWhenFresh
<1>7. CASE ReadPacket
  <2>1. /\ phase = "asked" /\ mail # << >> /\ mail \in Seq(NoticeRec)
        /\ UNCHANGED <<inbox, lookups, fresh, snapshot>>
    BY <1>7 DEF ReadPacket, Sane, vars
  <2>2. Requests' = Requests
    BY <2>1 DEF Requests
  <2>3. CASE ~ fresh
    BY <2>1, <2>3 DEF Clean, ExactWhenFresh
  <2>4. CASE fresh
    <3>1. Requests = {} /\ Completes(mail, printed, snapshot)
      BY <2>1, <2>4 DEF Clean, Waiting, Answered
    <3>2. /\ Head(mail).cmd = "new_server"
          /\ IsEnd(Head(mail)) => printed = snapshot
          /\ ~ IsEnd(Head(mail)) => Completes(Tail(mail), printed \cup {Line(Head(mail))}, snapshot)
      BY <2>1, <3>1, CompletesRead
    <3>3. CASE IsEnd(Head(mail))
      <4>1. phase' = "done" /\ printed' = printed
        BY <1>7, <3>2, <3>3 DEF ReadPacket, Leave
      <4> QED BY <2>1, <3>2, <3>3, <4>1 DEF Clean, ExactWhenFresh
    <3>4. CASE ~ IsEnd(Head(mail))
      <4>1. /\ phase' = phase /\ mail' = Tail(mail) /\ result' = result
            /\ printed' = printed \cup {Line(Head(mail))}
        BY <1>7, <3>2, <3>4 DEF ReadPacket, Line
      <4>2. result' # "listed"
        BY <2>1, <4>1 DEF Sane
      <4>3. Answered'
        BY <2>1, <2>2, <3>1, <3>2, <3>4, <4>1 DEF Answered
      <4> QED BY <4>2, <4>3 DEF Clean, ExactWhenFresh
    <3> QED BY <3>3, <3>4
  <2> QED BY <2>3, <2>4
<1>8. CASE AskFails \/ Timeout
  BY <1>1, <1>8 DEF AskFails, Timeout, Leave
<1>9. CASE Exit
  BY <1>1, <1>9 DEF Exit
<1>10. CASE UNCHANGED clientVars
  <2>1. UNCHANGED <<inbox, lookups, phase, mail, printed, result, fresh, snapshot>>
    BY <1>10 DEF clientVars, client, vars
  <2> QED BY <2>1 DEF Clean, ExactWhenFresh, Waiting, Answered, Requests
<1> QED BY <1>2, <1>3, <1>4, <1>5, <1>6, <1>7, <1>8, <1>9, <1>10 DEF ClientNext

\* A run that starts clean and is not left by a time-out prints exactly what
\* matched at one moment: the name server answers in one go (ns.c:529-543),
\* notifications come only after the end marker, and a request that a restart
\* lost is never answered by half.
THEOREM ListIsExact == ClientSpec => []ExactWhenFresh
<1>1. ClientInit => Clean
  BY DEF ClientInit, Clean, ExactWhenFresh
<1>2. Clean => ExactWhenFresh
  BY DEF Clean
<1> QED BY <1>1, <1>2, ClientInitTypes, ClientTypes, InitSane, StepSane, StepClean, PTL DEF ClientSpec
=============================================================================
