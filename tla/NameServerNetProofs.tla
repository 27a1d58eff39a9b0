------------------------ MODULE NameServerNetProofs -------------------------
(***************************************************************************)
(* Proofs about name servers linked to one another, for any number of      *)
(* nodes: their registries agree up to what is queued, greetings do not    *)
(* multiply, and every node serves its observers as NameServer promises.   *)
(***************************************************************************)
EXTENDS NameServerNet, ListLemmas

-----------------------------------------------------------------------------
(* What a queue says about an address.                                     *)

\* x sets or clears what a node that is not the address's own holds at a; what
\* it leaves there.
Speaks(x, a) == x.cmd \in {"new_server", "del_server", "del_client"} /\ x.addr = a
Says(x)      == IF x.cmd = "new_server"
                THEN [service |-> x.service, instance |-> x.instance]
                ELSE NoServer

Latest(q, a, w) == \E i \in DOMAIN q : /\ Speaks(q[i], a)
                                       /\ \A j \in DOMAIN q : j > i => ~ Speaks(q[j], a)
                                       /\ Says(q[i]) = w

Silent(q, a) == \A i \in DOMAIN q : ~ Speaks(q[i], a)

\* A node that holds h at a and has queue q will hold w there.
Will(q, h, a, w) == Latest(q, a, w) \/ (Silent(q, a) /\ h = w)

LEMMA WillAppended ==
  ASSUME NEW S, NEW q \in Seq(S), NEW r \in Seq(S), NEW a, NEW h, NEW w
  PROVE  /\ Latest(r, a, w) => Will(q \o r, h, a, w)
         /\ Silent(r, a) /\ Will(q, h, a, w) => Will(q \o r, h, a, w)
<1> DEFINE u == q \o r
<1>1. /\ \A i \in DOMAIN q : i \in DOMAIN u /\ u[i] = q[i]
      /\ \A j \in DOMAIN r : Len(q) + j \in DOMAIN u /\ u[Len(q) + j] = r[j]
      /\ \A i \in DOMAIN u : \/ i \in DOMAIN q
                             \/ i - Len(q) \in DOMAIN r /\ u[i] = r[i - Len(q)]
  BY ConcatPositions
<1>2. Len(q) \in Nat /\ DOMAIN q = 1..Len(q) /\ DOMAIN r \subseteq Nat \ {0}
  BY LenProperties
<1>3. DOMAIN u \subseteq Int
  BY ConcatPositions
<1> HIDE DEF u
<1>4. ASSUME Latest(r, a, w) PROVE Latest(u, a, w)
  <2>1. PICK j \in DOMAIN r : /\ Speaks(r[j], a)
                              /\ \A m \in DOMAIN r : m > j => ~ Speaks(r[m], a)
                              /\ Says(r[j]) = w
    BY <1>4 DEF Latest
  <2>2. ASSUME NEW m \in DOMAIN u, m > Len(q) + j PROVE ~ Speaks(u[m], a)
    <3>1. m \notin DOMAIN q
      BY <1>2, <1>3, <2>2
    <3>2. m - Len(q) \in DOMAIN r /\ u[m] = r[m - Len(q)] /\ m - Len(q) > j
      BY <1>1, <1>2, <1>3, <2>2, <3>1
    <3> QED BY <2>1, <3>2
  <2> QED BY <1>1, <2>1, <2>2 DEF Latest
<1>5. ASSUME Silent(r, a) PROVE Latest(q, a, w) => Latest(u, a, w)
  BY <1>1, <1>5 DEF Latest, Silent
<1>6. Silent(r, a) /\ Silent(q, a) => Silent(u, a)
  BY <1>1 DEF Silent
<1> QED BY <1>4, <1>5, <1>6 DEF Will, u

LEMMA WillHandled ==
  ASSUME NEW S, NEW q \in Seq(S), q # << >>, NEW a, NEW h, NEW w, Will(q, h, a, w)
  PROVE  Will(Tail(q), IF Speaks(Head(q), a) THEN Says(Head(q)) ELSE h, a, w)
<1> DEFINE r == Tail(q)
<1>1. /\ Head(q) = q[1] /\ 1 \in DOMAIN q /\ DOMAIN r \subseteq Nat \ {0}
      /\ \A i \in DOMAIN r : i + 1 \in DOMAIN q /\ r[i] = q[i + 1]
      /\ \A i \in DOMAIN q : i = 1 \/ (i - 1 \in DOMAIN r /\ q[i] = r[i - 1])
  BY TailPositions
<1>2. DOMAIN q \subseteq Nat
  BY LenProperties
<1> HIDE DEF r
<1>3. CASE Latest(q, a, w)
  <2>1. PICK i \in DOMAIN q : /\ Speaks(q[i], a)
                              /\ \A j \in DOMAIN q : j > i => ~ Speaks(q[j], a)
                              /\ Says(q[i]) = w
    BY <1>3 DEF Latest
  <2>2. \A j \in DOMAIN r : j + 1 > i => ~ Speaks(r[j], a)
    BY <1>1, <2>1
  <2>3. CASE i = 1
    BY <1>1, <2>1, <2>2, <2>3 DEF Silent, Will
  <2>4. CASE i # 1
    <3>1. i - 1 \in DOMAIN r /\ q[i] = r[i - 1]
      BY <1>1, <2>4
    <3>2. \A j \in DOMAIN r : j > i - 1 => j + 1 > i
      BY <1>1, <1>2
    <3>3. \A j \in DOMAIN r : j > i - 1 => ~ Speaks(r[j], a)
      BY <2>2, <3>2
    <3>4. Latest(r, a, w)
      BY <2>1, <3>1, <3>3 DEF Latest
    <3> QED BY <3>4 DEF Will, r
  <2> QED BY <2>3, <2>4
<1>4. CASE Silent(q, a) /\ h = w
  BY <1>1, <1>4 DEF Silent, Will
<1> QED BY <1>3, <1>4 DEF Will, r

-----------------------------------------------------------------------------
(* What can be queued at a node, and the types.                            *)

Kept      == UNION { Offers[a] : a \in Addrs }
ServerRec == [service : Nat \ {0}, instance : Nat]
LookupRec == [port : Ports, service : Nat, instance : Nat]
EntryRec  == [addr : Addrs, server : ServerRec]

MailRec == [cmd : {"hello", "new_server", "del_server", "del_client", "new_lookup"},
            from : Node \X (Ports \cup {CtrlPort}), addr : Addrs \cup {<<0, 0>>},
            service : Nat, instance : Nat]

\* A name server greets others and speaks of its own node's addresses to others,
\* the kernel reports closes, and sockets speak to the name server of their node.
Fits(x, n) ==
  /\ \/ x.cmd = "hello" /\ \E m \in Node \ {n} : x.from = Ctrl(m)
     \/ x.cmd \in {"new_server", "del_server"} /\ x.addr \in Addrs /\ x.addr[1] # n
          /\ x.from = Ctrl(x.addr[1])
     \/ x.cmd = "del_client" /\ x.addr \in Addrs /\ x.from = x.addr
     \/ x.cmd \in {"new_server", "del_server", "new_lookup"} /\ x.addr = <<0, 0>>
          /\ x.from \in Addrs /\ x.from[1] = n
  /\ x.cmd = "new_server" => [service |-> x.service, instance |-> x.instance] \in Kept

Mail(n) == { x \in MailRec : Fits(x, n) }

\* TypeOK with what the queues hold.
Shape ==
  /\ running \subseteq Node
  /\ registry \in [Node -> [Addrs -> Kept \cup {NoServer}]]
  /\ lookups \in [Node -> SUBSET LookupRec]
  /\ told \in [Node -> [Ports -> SUBSET EntryRec]]
  /\ DOMAIN inbox = Node
  /\ \A n \in Node : inbox[n] \in Seq(Mail(n))
  /\ \A n \in Node \ running : inbox[n] = << >> /\ registry[n] = Empty /\ lookups[n] = {}
  /\ open \subseteq Addrs /\ forgot \subseteq Addrs
  /\ want \in [Addrs -> Kept \cup {NoServer}]
  /\ \A a \in Addrs : want[a] \in Offers[a] \cup {NoServer}
  /\ owed \subseteq running \X running
  /\ starts \in 0..MaxStarts

LEMMA Constants ==
  /\ \A n \in Node : n \in Nat /\ IsFiniteSet(Node)
  /\ Kept \subseteq ServerRec /\ \A a \in Addrs : Offers[a] \subseteq Kept
  /\ NoServer \notin ServerRec
  /\ \A a \in Addrs : a[1] \in Node /\ a[2] \in Ports /\ a = <<a[1], a[2]>>
  /\ \A n \in Node, p \in Ports : <<n, p>> \in Addrs
  /\ \A n \in Node : Ctrl(n) \notin Addrs /\ Ctrl(n)[1] = n /\ Ctrl(n)[2] = CtrlPort
  /\ <<0, 0>> \notin Addrs
  /\ Addrs \subseteq Node \X (Ports \cup {CtrlPort})
  /\ Empty \in [Addrs -> Kept \cup {NoServer}]
<1>1. Kept \subseteq ServerRec /\ \A a \in Addrs : Offers[a] \subseteq Kept
  BY NetConstants DEF NetConstants, Kept, ServerRec
<1> QED BY <1>1, NetConstants DEF NetConstants, ServerRec, Addrs, Ctrl, Empty

\* The operators of NameServer for node n, over this module's state.
LEMMA AsNameServer ==
  ASSUME NEW n \in Node
  PROVE  /\ NS(n)!Addrs = Addrs /\ NS(n)!Lookup = LookupRec /\ NS(n)!Entry = EntryRec
         /\ \A x : NS(n)!Subject(x) = IF x.from[1] = n THEN x.from ELSE x.addr
         /\ \A x, a : NS(n)!Genuine(x, a) <=>
              x.from[1] = a[1] /\ (x.from[1] = n => x.from[2] = a[2])
         /\ \A s, p : NS(n)!Addable(s, p) <=> s # 0 /\ p # 0
         /\ \A p : NS(n)!Local(p) = <<n, p>>
         /\ \A a : NS(n)!EntryOf(a) = [addr |-> a, server |-> registry[n][a]]
<1>1. {n} \cup (Node \ {n}) = Node
  OBVIOUS
<1>2. NS(n)!Addrs = Addrs
  BY <1>1 DEF NS!Addrs, NS!Nodes, Addrs
<1>3. NS(n)!Entry = EntryRec
  BY <1>2 DEF NS!Entry, EntryRec, ServerRec, NS!Server
<1> QED BY <1>2, <1>3 DEF NS!Lookup, LookupRec, NS!Subject, NS!Genuine, NS!Addable, NS!Local, NS!EntryOf

LEMMA PacketFields ==
  ASSUME NEW cmd, NEW from, NEW a, NEW srv
  PROVE  LET x == Packet(cmd, from, a, srv)
         IN  /\ x.cmd = cmd /\ x.from = from /\ x.addr = a
             /\ x.service = srv.service /\ x.instance = srv.instance
BY DEF Packet

LEMMA MailFields ==
  ASSUME NEW n \in Node, NEW x \in Mail(n)
  PROVE  /\ x.cmd \in {"hello", "new_server", "del_server", "del_client", "new_lookup"}
         /\ x.from \in Node \X (Ports \cup {CtrlPort}) /\ x.addr \in Addrs \cup {<<0, 0>>}
         /\ x.service \in Nat /\ x.instance \in Nat
         /\ Fits(x, n)
BY DEF Mail, MailRec

\* A packet with the right fields fits.
LEMMA IsMail ==
  ASSUME NEW n \in Node, NEW cmd \in {"hello", "new_server", "del_server", "del_client", "new_lookup"},
         NEW from \in Node \X (Ports \cup {CtrlPort}), NEW a \in Addrs \cup {<<0, 0>>},
         NEW srv, srv.service \in Nat, srv.instance \in Nat,
         Fits(Packet(cmd, from, a, srv), n)
  PROVE  Packet(cmd, from, a, srv) \in Mail(n)
BY DEF Mail, MailRec, Packet

\* The head of a queue and what is behind it.
LEMMA QueueHead ==
  ASSUME Shape, NEW n \in Node, inbox[n] # << >>
  PROVE  /\ First(n) \in Mail(n) /\ n \in running
         /\ Tail(inbox[n]) \in Seq(Mail(n))
BY TailPositions DEF Shape, First

\* A handler runs only where a packet is queued; that packet goes.
LEMMA HandledHead ==
  ASSUME NEW n \in Node, Handle(n)
  PROVE  /\ inbox[n] # << >>
         /\ UNCHANGED <<running, open, want, starts>>
         /\ \E out : Handled(n, out)
BY DEF Handle, Hello, NewServer, DelServer, DelClient, NewLookup, Receives, Unregister, Refuse

-----------------------------------------------------------------------------
(* The handlers of a node: every packet that is queued is genuine.         *)

LEMMA Subjects ==
  ASSUME NEW n \in Node, NEW x \in Mail(n), x.cmd \in {"new_server", "del_server"}
  PROVE  LET a == NS(n)!Subject(x)
         IN  /\ a \in Addrs /\ NS(n)!Genuine(x, a)
             /\ x.cmd = "new_server" => NS(n)!Addable(x.service, a[2])
             /\ \A b \in Addrs : b[1] # n => (Speaks(x, b) <=> b = a)
<1> DEFINE a == NS(n)!Subject(x)
<1>1. Fits(x, n) /\ x.service \in Nat
  BY MailFields
<1>2. a = IF x.from[1] = n THEN x.from ELSE x.addr
  BY AsNameServer
<1> HIDE DEF a
<1>3. /\ a \in Addrs /\ a[1] = x.from[1] /\ (x.from[1] = n => x.from[2] = a[2])
      /\ \A b \in Addrs : b[1] # n => (Speaks(x, b) <=> b = a)
  <2>1. (x.addr \in Addrs /\ x.addr[1] # n /\ x.from = Ctrl(x.addr[1]))
        \/ (x.addr = <<0, 0>> /\ x.from \in Addrs /\ x.from[1] = n)
    BY <1>1 DEF Fits
  <2>2. CASE x.addr \in Addrs /\ x.addr[1] # n /\ x.from = Ctrl(x.addr[1])
    <3>1. x.addr[1] \in Node /\ x.from[1] = x.addr[1]
      BY <2>2, Constants
    <3> QED BY <1>2, <2>2, <3>1 DEF Speaks
  <2>3. CASE x.addr = <<0, 0>> /\ x.from \in Addrs /\ x.from[1] = n
    BY <1>2, <2>3, Constants DEF Speaks
  <2> QED BY <2>1, <2>2, <2>3
<1>4. ASSUME x.cmd = "new_server" PROVE x.service # 0
  <2>1. [service |-> x.service, instance |-> x.instance] \in ServerRec
    BY <1>1, <1>4, Constants DEF Fits
  <2> QED BY <2>1 DEF ServerRec
<1>5. a[2] # 0
  BY <1>3, Constants, NetConstants DEF NetConstants
<1> QED BY <1>3, <1>4, <1>5, AsNameServer DEF a

LEMMA NewServerStep ==
  ASSUME Shape, NEW n \in Node, NewServer(n)
  PROVE  \E a \in Addrs, srv \in Kept :
           /\ First(n).cmd = "new_server" /\ Says(First(n)) = srv
           /\ \A b \in Addrs : b[1] # n => (Speaks(First(n), b) <=> b = a)
           /\ registry' = [registry EXCEPT ![n][a] = srv]
           /\ Handled(n, IF a[1] = n THEN ToAll(Packet("new_server", Ctrl(n), a, srv)) ELSE Silence)
           /\ told' = [told EXCEPT ![n] = NS(n)!TellNew(lookups[n], a, srv)]
           /\ forgot' = IF a[1] = n THEN forgot \ {a} ELSE forgot
           /\ UNCHANGED <<lookups, owed>>
<1> DEFINE x == First(n)
           a == NS(n)!Subject(x)
           srv == [service |-> x.service, instance |-> x.instance]
<1>1. x.cmd = "new_server" /\ x \in Mail(n)
  BY QueueHead DEF NewServer, Receives
<1>2. srv \in Kept
  BY <1>1, MailFields DEF Fits
<1>3. /\ a \in Addrs /\ NS(n)!Genuine(x, a) /\ NS(n)!Addable(x.service, a[2])
      /\ \A b \in Addrs : b[1] # n => (Speaks(x, b) <=> b = a)
  BY <1>1, Subjects
<1>4. Says(x) = srv
  BY <1>1 DEF Says
<1>5. /\ registry' = [registry EXCEPT ![n][a] = srv]
      /\ Handled(n, IF a[1] = n THEN ToAll(Packet("new_server", Ctrl(n), a, srv)) ELSE Silence)
      /\ told' = [told EXCEPT ![n] = NS(n)!TellNew(lookups[n], a, srv)]
      /\ forgot' = IF a[1] = n THEN forgot \ {a} ELSE forgot
      /\ UNCHANGED <<lookups, owed>>
  BY <1>3 DEF NewServer
<1> HIDE DEF x, a, srv
<1> QED BY <1>1, <1>2, <1>3, <1>4, <1>5 DEF x

\* DEL_SERVER and DEL_CLIENT remove a server, the latter also lookups.
LEMMA RemoveStep ==
  ASSUME Shape, NEW n \in Node, DelServer(n) \/ DelClient(n)
  PROVE  \E a \in Addrs :
           /\ Says(First(n)) = NoServer /\ First(n).cmd \in {"del_server", "del_client"}
           /\ \A b \in Addrs : b[1] # n => (Speaks(First(n), b) <=> b = a)
           /\ First(n).cmd = "del_client" => First(n).addr = a /\ First(n).from = a
           /\ lookups' = [lookups EXCEPT ![n] =
                IF First(n).cmd = "del_client" THEN { l \in lookups[n] : <<n, l.port>> # a }
                                               ELSE lookups[n]]
           /\ Unregister(n, a, lookups'[n])
           /\ UNCHANGED <<owed, forgot>>
<1> DEFINE x == First(n)
<1>1. CASE DelServer(n)
  <2> DEFINE a == NS(n)!Subject(x)
  <2>1. x.cmd = "del_server" /\ x \in Mail(n)
    BY <1>1, QueueHead DEF DelServer, Receives
  <2>2. /\ a \in Addrs /\ NS(n)!Genuine(x, a)
        /\ \A b \in Addrs : b[1] # n => (Speaks(x, b) <=> b = a)
    BY <2>1, Subjects
  <2>3. Unregister(n, a, lookups[n]) /\ UNCHANGED <<lookups, owed, forgot>>
    BY <1>1, <2>2 DEF DelServer
  <2>4. lookups' = [lookups EXCEPT ![n] = lookups[n]]
    BY <2>3 DEF Shape
  <2>5. Says(x) = NoServer
    BY <2>1 DEF Says
  <2> HIDE DEF a, x
  <2> QED BY <2>1, <2>2, <2>3, <2>4, <2>5 DEF x
<1>2. CASE DelClient(n)
  <2> DEFINE a == x.addr
             rest == { l \in lookups[n] : <<n, l.port>> # a }
  <2>1. x.cmd = "del_client" /\ x \in Mail(n)
    BY <1>2, QueueHead DEF DelClient, Receives
  <2>2. a \in Addrs /\ x.from = a
    BY <2>1, MailFields DEF Fits
  <2>3. NS(n)!Genuine(x, a)
    BY <2>2, AsNameServer
  <2>4. NS(n)!LookupsWithout(a) = rest
    BY AsNameServer DEF NS!LookupsWithout
  <2>5. lookups' = [lookups EXCEPT ![n] = rest] /\ Unregister(n, a, rest) /\ UNCHANGED <<owed, forgot>>
    BY <1>2, <2>3, <2>4 DEF DelClient
  <2>6. lookups'[n] = rest
    BY <2>5 DEF Shape
  <2>7. Says(x) = NoServer /\ \A b \in Addrs : Speaks(x, b) <=> b = a
    BY <2>1 DEF Says, Speaks
  <2> HIDE DEF a, x, rest
  <2> QED BY <2>1, <2>2, <2>5, <2>6, <2>7 DEF x, rest, a
<1> QED BY <1>1, <1>2

LEMMA LookupStep ==
  ASSUME Shape, NEW n \in Node, NewLookup(n)
  PROVE  \E p \in Ports, f \in [service : Nat, instance : Nat] :
           /\ First(n).cmd = "new_lookup" /\ First(n).from = <<n, p>>
           /\ lookups' = [lookups EXCEPT ![n] = @ \cup
                {[port |-> p, service |-> f.service, instance |-> f.instance]}]
           /\ <<n, p>> \notin open => told' = told
           /\ <<n, p>> \in open =>
                told' = [told EXCEPT ![n][p] =
                          { e \in @ : ~ NS(n)!ServerMatch(e.server, f) }
                            \cup { [addr |-> a, server |-> registry[n][a]] :
                                   a \in { b \in Addrs : /\ registry[n][b] # NoServer
                                                         /\ NS(n)!ServerMatch(registry[n][b], f) } }]
           /\ Handled(n, Silence)
           /\ UNCHANGED <<registry, owed, forgot>>
<1> DEFINE x == First(n)
           p == x.from[2]
           f == [service |-> x.service, instance |-> x.instance]
           found == { b \in Addrs : /\ registry[n][b] # NoServer
                                    /\ NS(n)!ServerMatch(registry[n][b], f) }
<1>1. x.cmd = "new_lookup" /\ x \in Mail(n)
  BY QueueHead DEF NewLookup, Receives
<1>2. x.from = <<n, p>> /\ p \in Ports
  <2>1. x.from \in Addrs /\ x.from[1] = n
    BY <1>1, MailFields DEF Fits
  <2> QED BY <2>1, Constants
<1>3. f \in [service : Nat, instance : Nat]
  BY <1>1, MailFields
<1>4. \A a : NS(n)!EntryOf(a) = [addr |-> a, server |-> registry[n][a]]
  BY AsNameServer
<1>5. { NS(n)!EntryOf(a) : a \in found } = { [addr |-> a, server |-> registry[n][a]] : a \in found }
  BY <1>4
<1>6. /\ lookups' = [lookups EXCEPT ![n] = @ \cup
           {[port |-> p, service |-> f.service, instance |-> f.instance]}]
      /\ told' = IF x.from \in open
                 THEN [told EXCEPT ![n][p] = { e \in @ : ~ NS(n)!ServerMatch(e.server, f) }
                                               \cup { NS(n)!EntryOf(a) : a \in found }]
                 ELSE told
      /\ Handled(n, Silence)
      /\ UNCHANGED <<registry, owed, forgot>>
  <2>1. First(n).from[1] = n
    BY <1>2
  <2> QED BY <2>1 DEF NewLookup
<1> HIDE DEF x, p, f
<1> QED BY <1>1, <1>2, <1>3, <1>5, <1>6 DEF x

LEMMA HelloStep ==
  ASSUME Shape, NEW n \in Node, Hello(n)
  PROVE  \E m \in Node \ {n} :
           /\ First(n).cmd = "hello" /\ First(n).from = Ctrl(m)
           /\ Handled(n, To(m, Answer(n)))
           /\ owed' = owed \ {<<m, n>>}
           /\ UNCHANGED <<registry, lookups, told, forgot>>
<1>1. First(n).cmd = "hello" /\ First(n) \in Mail(n)
  BY QueueHead DEF Hello, Receives
<1>2. PICK m \in Node \ {n} : First(n).from = Ctrl(m)
  BY <1>1, MailFields DEF Fits
<1>3. First(n).from[1] = m
  BY <1>2, Constants
<1>4. /\ Handled(n, To(m, Answer(n)))
      /\ owed' = owed \ {<<m, n>>}
      /\ UNCHANGED <<registry, lookups, told, forgot>>
  BY <1>3 DEF Hello
<1> QED BY <1>1, <1>2, <1>4

\* What a handler changes of the registries: remote entries follow the packet.
LEMMA HandleRegistry ==
  ASSUME Shape, NEW n \in Node, Handle(n)
  PROVE  /\ registry' \in [Node -> [Addrs -> Kept \cup {NoServer}]]
         /\ \A k \in Node \ {n} : registry'[k] = registry[k]
         /\ \A a \in Addrs : a[1] # n =>
              registry'[n][a] = IF Speaks(First(n), a) THEN Says(First(n)) ELSE registry[n][a]
         /\ \A a \in Addrs : First(n).cmd = "del_client" /\ First(n).addr = a =>
              registry'[n][a] = NoServer
<1>1. CASE NewServer(n)
  <2>1. PICK a \in Addrs, srv \in Kept :
           /\ First(n).cmd = "new_server" /\ Says(First(n)) = srv
           /\ \A b \in Addrs : b[1] # n => (Speaks(First(n), b) <=> b = a)
           /\ registry' = [registry EXCEPT ![n][a] = srv]
    BY <1>1, NewServerStep
  <2>2. \A b \in Addrs : registry'[n][b] = IF b = a THEN srv ELSE registry[n][b]
    BY <2>1 DEF Shape
  <2>3. registry' \in [Node -> [Addrs -> Kept \cup {NoServer}]]
    BY <2>1 DEF Shape
  <2> QED BY <2>1, <2>2, <2>3 DEF Shape
<1>2. CASE DelServer(n) \/ DelClient(n)
  <2>1. PICK a \in Addrs :
           /\ Says(First(n)) = NoServer
           /\ \A b \in Addrs : b[1] # n => (Speaks(First(n), b) <=> b = a)
           /\ First(n).cmd = "del_client" => First(n).addr = a
           /\ registry' = [registry EXCEPT ![n][a] = NoServer]
    BY <1>2, RemoveStep DEF Unregister
  <2>2. \A b \in Addrs : registry'[n][b] = IF b = a THEN NoServer ELSE registry[n][b]
    BY <2>1 DEF Shape
  <2>3. registry' \in [Node -> [Addrs -> Kept \cup {NoServer}]]
    BY <2>1 DEF Shape
  <2> QED BY <2>1, <2>2, <2>3 DEF Shape
<1>3. CASE Hello(n) \/ NewLookup(n)
  <2>1. registry' = registry /\ First(n).cmd \in {"hello", "new_lookup"}
    BY <1>3, HelloStep, LookupStep
  <2> QED BY <2>1 DEF Shape, Speaks
<1> QED BY <1>1, <1>2, <1>3 DEF Handle

-----------------------------------------------------------------------------
(* What a handler sends.                                                   *)

\* A step of node n leaves its entry of a, and what it owes node k, as they are;
\* it may settle that it owes nothing.
Unmoved(n, k, a) ==
  /\ registry'[n][a] = registry[n][a]
  /\ a \in forgot => a \in forgot'
  /\ <<k, n>> \in owed => <<k, n>> \in owed' \/ registry[n][a] = NoServer

\* Node n speaks of its own addresses, and says what it now holds there; it
\* greets only in answer to a greeting, and once.
Posted(n, out) ==
  \A k \in Node \ {n} :
    /\ out[k] \in Seq(Mail(k))
    /\ \A i \in DOMAIN out[k] :
         /\ out[k][i].cmd \in {"hello", "new_server", "del_server"}
         /\ out[k][i].cmd = "hello" => i = 1 /\ First(n).cmd = "hello" /\ First(n).from = Ctrl(k)
    /\ \A a \in Addrs :
         \/ a[1] = n /\ Latest(out[k], a, registry'[n][a])
         \/ Silent(out[k], a) /\ (a[1] = n => Unmoved(n, k, a))

\* A packet that node n sends about its own address.
LEMMA OwnPacket ==
  ASSUME NEW n \in Node, NEW k \in Node \ {n}, NEW cmd \in {"new_server", "del_server"},
         NEW a \in Addrs, a[1] = n, NEW srv \in Kept
  PROVE  Packet(cmd, Ctrl(n), a, srv) \in Mail(k)
<1> DEFINE x == Packet(cmd, Ctrl(n), a, srv)
<1>1. srv \in ServerRec /\ srv = [service |-> srv.service, instance |-> srv.instance]
      /\ srv.service \in Nat /\ srv.instance \in Nat
  BY Constants DEF ServerRec
<1>2. Fits(x, k)
  BY <1>1, PacketFields DEF Fits
<1>3. Ctrl(n) \in Node \X (Ports \cup {CtrlPort})
  BY DEF Ctrl
<1> QED BY <1>1, <1>2, <1>3, IsMail

\* One packet to all.
LEMMA ToAllPosted ==
  ASSUME NEW n \in Node, NEW cmd \in {"new_server", "del_server"}, NEW a \in Addrs, a[1] = n,
         NEW srv \in Kept,
         registry'[n][a] = IF cmd = "new_server" THEN srv ELSE NoServer,
         \A b \in Addrs, k \in Node : b[1] = n /\ b # a => Unmoved(n, k, b)
  PROVE  Posted(n, ToAll(Packet(cmd, Ctrl(n), a, srv)))
<1> DEFINE x == Packet(cmd, Ctrl(n), a, srv)
<1> SUFFICES ASSUME NEW k \in Node \ {n}
    PROVE  /\ <<x>> \in Seq(Mail(k))
           /\ \A i \in DOMAIN <<x>> : <<x>>[i].cmd \in {"new_server", "del_server"}
           /\ \A b \in Addrs :
                \/ b[1] = n /\ Latest(<<x>>, b, registry'[n][b])
                \/ Silent(<<x>>, b) /\ (b[1] = n => Unmoved(n, k, b))
  BY DEF Posted, ToAll
<1>1. x \in Mail(k)
  BY OwnPacket
<1>2. x.cmd = cmd /\ \A b : Speaks(x, b) <=> a = b
  BY PacketFields DEF Speaks
<1>3. srv = [service |-> srv.service, instance |-> srv.instance]
  BY Constants DEF ServerRec
<1>4. Says(x) = registry'[n][a]
  BY <1>3, PacketFields DEF Says
<1> HIDE DEF x
<1>5. DOMAIN <<x>> = {1} /\ <<x>>[1] = x
  OBVIOUS
<1>6. Latest(<<x>>, a, registry'[n][a])
  BY <1>2, <1>4, <1>5 DEF Latest
<1>7. \A b : b # a => Silent(<<x>>, b)
  BY <1>2, <1>5 DEF Silent
<1> QED BY <1>1, <1>2, <1>5, <1>6, <1>7

LEMMA SilencePosted ==
  ASSUME NEW n \in Node, \A b \in Addrs, k \in Node : b[1] = n => Unmoved(n, k, b)
  PROVE  Posted(n, Silence)
BY DEF Posted, Silence, Silent

\* The answer to a greeting: a greeting, and each of the node's servers once.
LEMMA AnswerPosted ==
  ASSUME Shape, NEW n \in Node, NEW m \in Node \ {n},
         First(n).cmd = "hello", First(n).from = Ctrl(m), registry' = registry,
         forgot' = forgot, owed' = owed \ {<<m, n>>}
  PROVE  Posted(n, To(m, Answer(n)))
<1> DEFINE M == { a \in Addrs : a[1] = n /\ registry[n][a] # NoServer }
           mine == SetToSeq(M)
           told1 == Announcements(n)
           g == <<Greeting(n)>>
           r == Answer(n)
<1>1. IsFiniteSet(M)
  <2>1. IsFiniteSet(Addrs)
    BY NetConstants, FS_Product DEF NetConstants, Addrs
  <2> QED BY <2>1, FS_Subset
<1>2. /\ mine \in Seq(M) /\ DOMAIN mine = 1..Cardinality(M)
      /\ \A i, j \in DOMAIN mine : mine[i] = mine[j] => i = j
      /\ \A x \in M : \E i \in DOMAIN mine : mine[i] = x
  BY <1>1, SetToSeqIsListing
<1>3. Cardinality(M) \in Nat
  BY <1>1, FS_CardinalityType
<1>4. told1 = [i \in DOMAIN mine |-> Packet("new_server", Ctrl(n), mine[i], registry[n][mine[i]])]
  BY DEF Announcements
<1> HIDE DEF mine, told1
<1>5. \A i \in DOMAIN mine : mine[i] \in M
  <2> HIDE DEF M
  <2>1. DOMAIN mine = 1..Len(mine)
    BY <1>2, LenProperties
  <2> QED BY <1>2, <2>1, ElementOfSeq
<1>6. DOMAIN told1 = 1..Cardinality(M) /\ DOMAIN told1 = DOMAIN mine
  BY <1>2, <1>4
<1>7. ASSUME NEW i \in DOMAIN told1
      PROVE  /\ told1[i] \in Mail(m) /\ told1[i].cmd = "new_server"
             /\ \A a : Speaks(told1[i], a) <=> mine[i] = a
             /\ Says(told1[i]) = registry[n][mine[i]]
  <2> DEFINE a == mine[i]
             srv == registry[n][a]
  <2>1. a \in Addrs /\ a[1] = n /\ srv \in Kept
    <3>1. a \in M
      BY <1>5, <1>6
    <3> HIDE DEF a
    <3> QED BY <3>1 DEF Shape
  <2>2. told1[i] = Packet("new_server", Ctrl(n), a, srv)
    BY <1>4, <1>6
  <2> HIDE DEF a, srv
  <2>3. told1[i] \in Mail(m)
    BY <2>1, <2>2, OwnPacket
  <2>4. srv = [service |-> srv.service, instance |-> srv.instance]
    BY <2>1, Constants DEF ServerRec
  <2>5. told1[i].cmd = "new_server" /\ told1[i].addr = a /\ Says(told1[i]) = srv
    BY <2>2, <2>4, PacketFields DEF Says
  <2> QED BY <2>3, <2>5 DEF Speaks, a, srv
<1>8. told1 \in Seq(Mail(m))
  <2>1. told1 \in [1..Cardinality(M) -> Mail(m)]
    <3> HIDE DEF M
    <3> QED BY <1>4, <1>6, <1>7
  <2> HIDE DEF M
  <2> QED BY <1>3, <2>1
<1>9. g \in Seq(Mail(m)) /\ DOMAIN g = {1} /\ g[1].cmd = "hello" /\ Len(g) = 1
  <2>1. Greeting(n).cmd = "hello" /\ Greeting(n).from = Ctrl(n)
    BY PacketFields DEF Greeting
  <2>2. Fits(Greeting(n), m)
    BY <2>1 DEF Fits
  <2>3. Ctrl(n) \in Node \X (Ports \cup {CtrlPort}) /\ Nothing.service \in Nat /\ Nothing.instance \in Nat
    BY DEF Ctrl, Nothing
  <2>4. Greeting(n) \in Mail(m)
    BY <2>2, <2>3, IsMail DEF Greeting
  <2> HIDE DEF Mail
  <2> QED BY <2>1, <2>4
<1> HIDE DEF g
<1>10. /\ r \in Seq(Mail(m))
       /\ \A i \in DOMAIN g : i \in DOMAIN r /\ r[i] = g[i]
       /\ \A j \in DOMAIN told1 : 1 + j \in DOMAIN r /\ r[1 + j] = told1[j]
       /\ \A i \in DOMAIN r : \/ i \in DOMAIN g
                              \/ i - 1 \in DOMAIN told1 /\ r[i] = told1[i - 1]
  BY <1>8, <1>9, ConcatPositions DEF Answer, g, told1
<1> HIDE DEF r
<1>11. \A i \in DOMAIN r : (i = 1 /\ r[i].cmd = "hello") \/ r[i].cmd = "new_server"
  BY <1>7, <1>9, <1>10
<1>12. DOMAIN r \subseteq Nat
  BY <1>10, LenProperties
<1>13. ASSUME NEW a \in Addrs, a[1] = n, registry[n][a] # NoServer
       PROVE  Latest(r, a, registry[n][a])
  <2>1. PICK j \in DOMAIN mine : mine[j] = a
    BY <1>2, <1>13
  <2>2. 1 + j \in DOMAIN r /\ r[1 + j] = told1[j] /\ Speaks(told1[j], a)
        /\ Says(told1[j]) = registry[n][a]
    BY <1>6, <1>7, <1>10, <2>1
  <2>3. ASSUME NEW i \in DOMAIN r, Speaks(r[i], a) PROVE i = 1 + j
    <3>1. i \notin DOMAIN g
      BY <1>9, <1>10, <2>3 DEF Speaks
    <3>2. i - 1 \in DOMAIN told1 /\ r[i] = told1[i - 1]
      BY <1>10, <3>1
    <3>3. mine[i - 1] = a
      BY <1>7, <2>3, <3>2
    <3>4. i - 1 = j
      BY <1>2, <1>6, <2>1, <3>2, <3>3
    <3>5. i \in Nat /\ j \in Nat
      BY <1>12, <1>2, <1>3
    <3> QED BY <3>4, <3>5
  <2>4. \A i \in DOMAIN r : i > 1 + j => i # 1 + j
    BY <1>12, <1>2, <1>3
  <2> QED BY <2>2, <2>3, <2>4 DEF Latest
<1>14. ASSUME NEW a \in Addrs, ~ (a[1] = n /\ registry[n][a] # NoServer) PROVE Silent(r, a)
  <2>1. ASSUME NEW i \in DOMAIN r, Speaks(r[i], a) PROVE FALSE
    <3>1. i \notin DOMAIN g
      BY <1>9, <1>10, <2>1 DEF Speaks
    <3>2. mine[i - 1] = a /\ i - 1 \in DOMAIN mine
      BY <1>6, <1>7, <1>10, <2>1, <3>1
    <3> QED BY <1>5, <1>14, <3>2
  <2> QED BY <2>1 DEF Silent
<1>15. \A k \in Node \ {n} : To(m, r)[k] = IF k = m THEN r ELSE << >>
  BY DEF To, Silence
<1>16. ASSUME NEW k \in Node \ {n}, k # m
       PROVE  /\ To(m, r)[k] = << >> /\ To(m, r)[k] \in Seq(Mail(k)) /\ DOMAIN To(m, r)[k] = {}
              /\ \A a \in Addrs : Silent(To(m, r)[k], a) /\ Unmoved(n, k, a)
  <2>1. To(m, r)[k] = << >>
    BY <1>15, <1>16
  <2>2. DOMAIN << >> = {} /\ << >> \in Seq(Mail(k))
    OBVIOUS
  <2>3. \A a : Silent(<< >>, a)
    BY <2>2 DEF Silent
  <2>4. \A a : Unmoved(n, k, a)
    BY <1>16 DEF Unmoved
  <2> QED BY <2>1, <2>2, <2>3, <2>4
<1>17. \A a \in Addrs :
         \/ a[1] = n /\ Latest(r, a, registry'[n][a])
         \/ Silent(r, a) /\ (a[1] = n => Unmoved(n, m, a))
  BY <1>13, <1>14 DEF Unmoved
<1>18. Posted(n, To(m, r))
  <2> SUFFICES ASSUME NEW k \in Node \ {n}
      PROVE  /\ To(m, r)[k] \in Seq(Mail(k))
             /\ \A i \in DOMAIN To(m, r)[k] :
                  /\ To(m, r)[k][i].cmd \in {"hello", "new_server", "del_server"}
                  /\ To(m, r)[k][i].cmd = "hello" => i = 1 /\ k = m
             /\ \A a \in Addrs :
                  \/ a[1] = n /\ Latest(To(m, r)[k], a, registry'[n][a])
                  \/ Silent(To(m, r)[k], a) /\ (a[1] = n => Unmoved(n, k, a))
    BY DEF Posted
  <2>1. CASE k = m
    BY <1>10, <1>11, <1>15, <1>17, <2>1
  <2>2. CASE k # m
    BY <1>15, <1>16, <2>2
  <2> QED BY <2>1, <2>2
<1> QED BY <1>18 DEF r

LEMMA HandlePosts ==
  ASSUME Shape, NEW n \in Node, Handle(n)
  PROVE  \E out : Handled(n, out) /\ Posted(n, out)
<1>1. CASE NewServer(n)
  <2>1. PICK a \in Addrs, srv \in Kept :
           /\ registry' = [registry EXCEPT ![n][a] = srv]
           /\ Handled(n, IF a[1] = n THEN ToAll(Packet("new_server", Ctrl(n), a, srv)) ELSE Silence)
           /\ forgot' = IF a[1] = n THEN forgot \ {a} ELSE forgot
           /\ owed' = owed
    BY <1>1, NewServerStep
  <2>2. /\ registry'[n][a] = srv
        /\ \A b \in Addrs, k \in Node : b[1] = n /\ b # a => Unmoved(n, k, b)
    BY <2>1 DEF Shape, Unmoved
  <2>3. CASE a[1] = n
    BY <2>1, <2>2, <2>3, ToAllPosted
  <2>4. CASE a[1] # n
    BY <2>1, <2>2, <2>4, SilencePosted
  <2> QED BY <2>3, <2>4
<1>2. CASE DelServer(n) \/ DelClient(n)
  <2>1. PICK a \in Addrs : /\ registry' = [registry EXCEPT ![n][a] = NoServer]
                           /\ Handled(n, Removal(n, a))
                           /\ UNCHANGED <<owed, forgot>>
    BY <1>2, RemoveStep DEF Unregister
  <2>2. /\ registry'[n][a] = NoServer
        /\ \A b \in Addrs, k \in Node : b[1] = n /\ b # a => Unmoved(n, k, b)
    BY <2>1 DEF Shape, Unmoved
  <2>3. CASE a[1] = n /\ registry[n][a] # NoServer
    <3>1. registry[n][a] \in Kept
      BY <2>3 DEF Shape
    <3> DEFINE srv == registry[n][a]
    <3>2. Posted(n, ToAll(Packet("del_server", Ctrl(n), a, srv)))
      <4>1. srv \in Kept
        BY <3>1
      <4> HIDE DEF srv
      <4> QED BY <2>2, <2>3, <4>1, ToAllPosted
    <3> QED BY <2>1, <2>3, <3>2 DEF Removal
  <2>4. CASE ~ (a[1] = n /\ registry[n][a] # NoServer)
    <3>1. \A b \in Addrs, k \in Node : b[1] = n => Unmoved(n, k, b)
      BY <2>1, <2>2, <2>4 DEF Unmoved
    <3> QED BY <2>1, <2>4, <3>1, SilencePosted DEF Removal
  <2> QED BY <2>3, <2>4
<1>3. CASE NewLookup(n)
  <2>1. Handled(n, Silence) /\ UNCHANGED <<registry, owed, forgot>>
    BY <1>3, LookupStep
  <2>2. \A b \in Addrs, k \in Node : Unmoved(n, k, b)
    BY <2>1 DEF Unmoved
  <2> QED BY <2>1, <2>2, SilencePosted
<1>4. CASE Hello(n)
  BY <1>4, HelloStep, AnswerPosted
<1> QED BY <1>1, <1>2, <1>3, <1>4 DEF Handle

-----------------------------------------------------------------------------
(* The types are invariant.                                                *)

\* Queues that only grow by fitting packets.
LEMMA AppendedMail ==
  ASSUME NEW k \in Node, NEW q \in Seq(Mail(k)), NEW r \in Seq(Mail(k))
  PROVE  q \o Delivered(k, r) \in Seq(Mail(k))
BY ConcatProperties DEF Delivered

\* What a handler makes of lookups and notifications.
LEMMA HandleNotes ==
  ASSUME Shape, NEW n \in Node, Handle(n)
  PROVE  /\ lookups' \in [Node -> SUBSET LookupRec]
         /\ told' \in [Node -> [Ports -> SUBSET EntryRec]]
         /\ forgot' \subseteq forgot /\ owed' \subseteq owed
         /\ \A a \in forgot : a[1] # n => a \in forgot'
         /\ \A o \in owed : o[2] # n => o \in owed'
         /\ \A k \in Node \ {n} : lookups'[k] = lookups[k] /\ told'[k] = told[k]
<1>1. CASE NewServer(n)
  <2>1. PICK a \in Addrs, srv \in Kept :
           /\ told' = [told EXCEPT ![n] = NS(n)!TellNew(lookups[n], a, srv)]
           /\ forgot' = IF a[1] = n THEN forgot \ {a} ELSE forgot
           /\ UNCHANGED <<lookups, owed>>
    BY <1>1, NewServerStep
  <2>2. [addr |-> a, server |-> srv] \in EntryRec
    BY Constants DEF EntryRec
  <2>3. NS(n)!TellNew(lookups[n], a, srv) \in [Ports -> SUBSET EntryRec]
    BY <2>2 DEF NS!TellNew, Shape
  <2> QED BY <2>1, <2>3 DEF Shape
<1>2. CASE DelServer(n) \/ DelClient(n)
  <2>1. PICK a \in Addrs :
           /\ lookups' = [lookups EXCEPT ![n] =
                IF First(n).cmd = "del_client" THEN { l \in lookups[n] : <<n, l.port>> # a }
                                               ELSE lookups[n]]
           /\ Unregister(n, a, lookups'[n])
           /\ UNCHANGED <<owed, forgot>>
    BY <1>2, RemoveStep
  <2>2. \A L, gone : NS(n)!TellGone(L, gone) \in [Ports -> SUBSET EntryRec]
    BY DEF NS!TellGone, Shape
  <2> QED BY <2>1, <2>2 DEF Shape, Unregister
<1>3. CASE NewLookup(n)
  <2>1. PICK p \in Ports, f \in [service : Nat, instance : Nat] :
           /\ lookups' = [lookups EXCEPT ![n] = @ \cup
                {[port |-> p, service |-> f.service, instance |-> f.instance]}]
           /\ <<n, p>> \notin open => told' = told
           /\ <<n, p>> \in open =>
                told' = [told EXCEPT ![n][p] =
                          { e \in @ : ~ NS(n)!ServerMatch(e.server, f) }
                            \cup { [addr |-> a, server |-> registry[n][a]] :
                                   a \in { b \in Addrs : /\ registry[n][b] # NoServer
                                                         /\ NS(n)!ServerMatch(registry[n][b], f) } }]
           /\ UNCHANGED <<owed, forgot>>
    BY <1>3, LookupStep
  <2> DEFINE found == { [addr |-> a, server |-> registry[n][a]] :
                        a \in { b \in Addrs : /\ registry[n][b] # NoServer
                                              /\ NS(n)!ServerMatch(registry[n][b], f) } }
  <2>2. found \subseteq EntryRec
    <3> SUFFICES ASSUME NEW a \in Addrs, registry[n][a] # NoServer
                 PROVE [addr |-> a, server |-> registry[n][a]] \in EntryRec
      OBVIOUS
    <3>1. registry[n][a] \in ServerRec
      BY Constants DEF Shape
    <3> QED BY <3>1 DEF EntryRec
  <2>3. [port |-> p, service |-> f.service, instance |-> f.instance] \in LookupRec
    BY DEF LookupRec
  <2> DEFINE kept == { e \in told[n][p] : ~ NS(n)!ServerMatch(e.server, f) }
  <2>4. told' = told \/ told' = [told EXCEPT ![n][p] = kept \cup found]
    BY <2>1
  <2>6. kept \subseteq EntryRec
    BY DEF Shape
  <2> HIDE DEF found, kept
  <2>7. told \in [Node -> [Ports -> SUBSET EntryRec]] /\ kept \cup found \in SUBSET EntryRec
    BY <2>2, <2>6 DEF Shape
  <2> HIDE DEF EntryRec
  <2>5. told' \in [Node -> [Ports -> SUBSET EntryRec]] /\ \A k \in Node \ {n} : told'[k] = told[k]
    BY <2>4, <2>7
  <2>8. lookups' \in [Node -> SUBSET LookupRec] /\ \A k \in Node \ {n} : lookups'[k] = lookups[k]
    BY <2>1, <2>3 DEF Shape
  <2> QED BY <2>1, <2>5, <2>8
<1>4. CASE Hello(n)
  <2>1. /\ lookups' = lookups /\ told' = told /\ forgot' = forgot /\ owed' \subseteq owed
        /\ \A o \in owed : o[2] # n => o \in owed'
    BY <1>4, HelloStep
  <2> QED BY <2>1 DEF Shape
<1> QED BY <1>1, <1>2, <1>3, <1>4 DEF Handle

LEMMA HandleShape == ASSUME Shape, NEW n \in Node, Handle(n) PROVE Shape'
<1>1. PICK out : Handled(n, out) /\ Posted(n, out)
  BY HandlePosts
<1>2. inbox[n] # << >> /\ UNCHANGED <<running, open, want, starts>>
  BY HandledHead
<1>3. n \in running /\ Tail(inbox[n]) \in Seq(Mail(n))
  BY <1>2, QueueHead
<1>4. DOMAIN inbox' = Node /\ \A k \in Node : inbox'[k] =
        IF k = n THEN Tail(inbox[n]) ELSE inbox[k] \o Delivered(k, out[k])
  BY <1>1 DEF Handled
<1>5. ASSUME NEW k \in Node PROVE inbox'[k] \in Seq(Mail(k))
  <2>1. CASE k = n
    BY <1>3, <1>4, <2>1
  <2>2. CASE k # n
    <3>1. inbox[k] \in Seq(Mail(k)) /\ out[k] \in Seq(Mail(k))
      BY <1>1, <2>2 DEF Posted, Shape
    <3> QED BY <1>4, <2>2, <3>1, AppendedMail
  <2> QED BY <2>1, <2>2
<1>6. ASSUME NEW k \in Node \ running PROVE inbox'[k] = << >>
  <2>1. k # n /\ inbox[k] = << >> /\ Delivered(k, out[k]) = << >>
    BY <1>3 DEF Shape, Delivered
  <2>2. << >> \o << >> = << >>
    BY ConcatEmptySeq, EmptySeq
  <2> QED BY <1>4, <2>1, <2>2
<1>7. /\ registry' \in [Node -> [Addrs -> Kept \cup {NoServer}]]
      /\ \A k \in Node \ {n} : registry'[k] = registry[k]
  BY HandleRegistry
<1>8. /\ lookups' \in [Node -> SUBSET LookupRec]
      /\ told' \in [Node -> [Ports -> SUBSET EntryRec]]
      /\ forgot' \subseteq forgot /\ owed' \subseteq owed
      /\ \A k \in Node \ {n} : lookups'[k] = lookups[k]
  BY HandleNotes
<1>9. \A k \in Node \ running : registry'[k] = Empty /\ lookups'[k] = {}
  BY <1>3, <1>7, <1>8 DEF Shape
<1> HIDE DEF Mail
<1> QED BY <1>2, <1>4, <1>5, <1>6, <1>7, <1>8, <1>9 DEF Shape

LEMMA StartShape == ASSUME Shape, NEW n \in Node, Start(n) PROVE Shape'
<1>1. ASSUME NEW k \in Node PROVE inbox[k] \o Delivered(k, <<Greeting(n)>>) \in Seq(Mail(k))
  <2>1. CASE k \in running
    <3>1. Greeting(n).cmd = "hello" /\ Greeting(n).from = Ctrl(n) /\ n # k
      BY <2>1, PacketFields DEF Greeting, Start
    <3>2. Fits(Greeting(n), k)
      BY <3>1 DEF Fits
    <3>3. Ctrl(n) \in Node \X (Ports \cup {CtrlPort}) /\ Nothing.service \in Nat /\ Nothing.instance \in Nat
      BY DEF Ctrl, Nothing
    <3>4. Greeting(n) \in Mail(k)
      BY <3>2, <3>3, IsMail DEF Greeting
    <3>5. inbox[k] \in Seq(Mail(k))
      BY DEF Shape
    <3> HIDE DEF Mail
    <3>6. <<Greeting(n)>> \in Seq(Mail(k))
      BY <3>4
    <3> QED BY <3>5, <3>6, AppendedMail
  <2>2. CASE k \notin running
    <3>1. inbox[k] \in Seq(Mail(k))
      BY DEF Shape
    <3> QED BY <2>2, <3>1, ConcatEmptySeq DEF Delivered
  <2> QED BY <2>1, <2>2
<1>2. ASSUME NEW k \in Node \ running PROVE inbox'[k] = << >>
  BY <1>2, ConcatEmptySeq, EmptySeq DEF Start, Delivered, Shape
<1>3. starts' \in 0..MaxStarts
  BY NetConstants DEF Start, Shape, NetConstants
<1>4. DOMAIN inbox' = Node /\ \A k \in Node : inbox'[k] \in Seq(Mail(k))
  BY <1>1 DEF Start
<1>5. UNCHANGED <<registry, lookups, told, open, want, forgot>> /\ running' = running \cup {n}
      /\ owed' = owed \cup { <<n, k>> : k \in running }
  BY DEF Start
<1> HIDE DEF Mail
<1> QED BY <1>2, <1>3, <1>4, <1>5 DEF Shape

LEMMA StopShape == ASSUME Shape, NEW n \in Node, Stop(n) PROVE Shape'
<1>1. /\ running' = running \ {n} /\ UNCHANGED <<told, open, want, starts>>
      /\ forgot' \subseteq Addrs
      /\ owed' = { o \in owed : n \notin {o[1], o[2]} }
  BY DEF Stop, Shape
<1>2. DOMAIN inbox' = Node /\ \A k \in Node : inbox'[k] = IF k = n THEN << >> ELSE inbox[k]
  BY DEF Stop, Shape
<1>3. /\ registry' \in [Node -> [Addrs -> Kept \cup {NoServer}]]
      /\ \A k \in Node : registry'[k] = IF k = n THEN Empty ELSE registry[k]
  BY Constants DEF Stop, Shape
<1>4. /\ lookups' \in [Node -> SUBSET LookupRec]
      /\ \A k \in Node : lookups'[k] = IF k = n THEN {} ELSE lookups[k]
  BY DEF Stop, Shape
<1>5. \A k \in Node : << >> \in Seq(Mail(k))
  BY EmptySeq
<1>6. \A k \in Node : inbox'[k] \in Seq(Mail(k))
  BY <1>2, <1>5 DEF Shape
<1>7. \A k \in Node \ running' : inbox'[k] = << >> /\ registry'[k] = Empty /\ lookups'[k] = {}
  BY <1>1, <1>2, <1>3, <1>4 DEF Shape
<1>8. owed' \subseteq running' \X running'
  BY <1>1 DEF Shape
<1> HIDE DEF Mail
<1> QED BY <1>1, <1>2, <1>3, <1>4, <1>6, <1>7, <1>8 DEF Shape

\* What a socket sends to its own name server fits there.
LEMMA RequestMail ==
  ASSUME NEW a \in Addrs, NEW cmd \in {"new_server", "del_server", "new_lookup"},
         NEW srv \in [service : Nat, instance : Nat], cmd = "new_server" => srv \in Kept
  PROVE  Packet(cmd, a, <<0, 0>>, srv) \in Mail(a[1])
<1> DEFINE x == Packet(cmd, a, <<0, 0>>, srv)
<1>1. a[1] \in Node /\ a \in Node \X (Ports \cup {CtrlPort})
  BY Constants
<1>2. srv = [service |-> srv.service, instance |-> srv.instance]
      /\ srv.service \in Nat /\ srv.instance \in Nat
  OBVIOUS
<1>3. Fits(x, a[1])
  BY <1>2, PacketFields DEF Fits
<1> QED BY <1>1, <1>2, <1>3, IsMail

LEMMA SocketRequest ==
  ASSUME Shape, NEW a \in Addrs,
         \/ Withdraw(a)
         \/ \E srv \in Offers[a] : Publish(a, srv)
         \/ \E f \in Filters[a] : AskLookup(a, f)
  PROVE  \E cmd \in {"new_server", "del_server", "new_lookup"},
            srv \in [service : Nat, instance : Nat] :
           /\ Request(cmd, a, srv) /\ (cmd = "new_server" => srv \in Kept)
           /\ want' \in [Addrs -> Kept \cup {NoServer}]
           /\ \A b \in Addrs : want'[b] \in Offers[b] \cup {NoServer}
<1>1. Kept \subseteq [service : Nat, instance : Nat]
  BY Constants DEF ServerRec
<1>2. CASE Withdraw(a)
  <2>1. want[a] \in Kept /\ want' = [want EXCEPT ![a] = NoServer]
    BY <1>2 DEF Withdraw, Shape
  <2>2. want' \in [Addrs -> Kept \cup {NoServer}] /\ \A b \in Addrs : want'[b] \in Offers[b] \cup {NoServer}
    BY <2>1 DEF Shape
  <2> QED BY <1>1, <1>2, <2>1, <2>2 DEF Withdraw
<1>3. ASSUME NEW srv \in Offers[a], Publish(a, srv)
      PROVE  /\ srv \in Kept /\ want' \in [Addrs -> Kept \cup {NoServer}]
             /\ \A b \in Addrs : want'[b] \in Offers[b] \cup {NoServer}
  <2>1. srv \in Kept /\ want' = [want EXCEPT ![a] = srv]
    BY <1>3, Constants DEF Publish
  <2> QED BY <2>1 DEF Shape
<1>4. ASSUME NEW f \in Filters[a], AskLookup(a, f)
      PROVE  /\ f \in [service : Nat, instance : Nat] /\ want' \in [Addrs -> Kept \cup {NoServer}]
             /\ \A b \in Addrs : want'[b] \in Offers[b] \cup {NoServer}
  BY <1>4, NetConstants DEF NetConstants, AskLookup, Shape
<1> QED BY <1>1, <1>2, <1>3, <1>4 DEF Publish, AskLookup

LEMMA RequestShape ==
  ASSUME Shape, NEW a \in Addrs, NEW cmd \in {"new_server", "del_server", "new_lookup"},
         NEW srv \in [service : Nat, instance : Nat], cmd = "new_server" => srv \in Kept,
         Request(cmd, a, srv), want' \in [Addrs -> Kept \cup {NoServer}],
         \A b \in Addrs : want'[b] \in Offers[b] \cup {NoServer}
  PROVE  Shape'
<1> DEFINE x == Packet(cmd, a, <<0, 0>>, srv)
           n == a[1]
<1>1. n \in Node /\ n \in running /\ x \in Mail(n)
  BY Constants, RequestMail DEF Request
<1>2. inbox' = [inbox EXCEPT ![n] = Append(@, x)]
      /\ UNCHANGED <<running, registry, lookups, told, open, owed, forgot, starts>>
  BY DEF Request
<1> HIDE DEF x, n, Mail
<1>3. Append(inbox[n], x) \in Seq(Mail(n))
  BY <1>1 DEF Shape
<1>4. DOMAIN inbox' = Node /\ \A k \in Node : inbox'[k] =
        IF k = n THEN Append(inbox[n], x) ELSE inbox[k]
  BY <1>2 DEF Shape
<1>5. \A k \in Node : inbox'[k] \in Seq(Mail(k))
  BY <1>3, <1>4 DEF Shape
<1>6. \A k \in Node \ running' : inbox'[k] = << >> /\ registry'[k] = Empty /\ lookups'[k] = {}
  BY <1>1, <1>2, <1>4 DEF Shape
<1> QED BY <1>2, <1>4, <1>5, <1>6 DEF Shape

LEMMA CloseShape == ASSUME Shape, NEW a \in Addrs, CloseSocket(a) PROVE Shape'
<1> DEFINE x == Packet("del_client", a, a, Nothing)
<1>1. ASSUME NEW k \in Node PROVE x \in Mail(k)
  <2>1. Fits(x, k)
    BY PacketFields DEF Fits
  <2>2. a \in Node \X (Ports \cup {CtrlPort}) /\ Nothing.service \in Nat /\ Nothing.instance \in Nat
    BY Constants DEF Nothing
  <2> QED BY <2>1, <2>2, IsMail
<1>2. /\ inbox' = [k \in Node |-> inbox[k] \o Delivered(k, <<x>>)]
      /\ open' = open \ {a} /\ forgot' = forgot \ {a}
      /\ want' = [want EXCEPT ![a] = NoServer]
      /\ told' = [told EXCEPT ![a[1]][a[2]] = {}]
      /\ UNCHANGED <<running, registry, lookups, owed, starts>>
  BY DEF CloseSocket
<1> HIDE DEF x, Mail
<1>3. ASSUME NEW k \in Node PROVE inbox'[k] \in Seq(Mail(k))
  <2>1. inbox[k] \in Seq(Mail(k)) /\ <<x>> \in Seq(Mail(k))
    BY <1>1 DEF Shape
  <2> QED BY <1>2, <2>1, AppendedMail
<1>4. ASSUME NEW k \in Node \ running PROVE inbox'[k] = << >>
  BY <1>2, <1>4, ConcatEmptySeq, EmptySeq DEF Delivered, Shape
<1>5. told' \in [Node -> [Ports -> SUBSET EntryRec]]
  BY <1>2, Constants DEF Shape
<1>6. want' \in [Addrs -> Kept \cup {NoServer}] /\ \A b \in Addrs : want'[b] \in Offers[b] \cup {NoServer}
  BY <1>2 DEF Shape
<1> QED BY <1>2, <1>3, <1>4, <1>5, <1>6 DEF Shape

LEMMA InitShape == Init => Shape
<1> SUFFICES ASSUME Init PROVE Shape
  OBVIOUS
<1>1. \A n \in Node : << >> \in Seq(Mail(n))
  BY EmptySeq
<1>2. 0 \in 0..MaxStarts
  BY NetConstants DEF NetConstants
<1>3. \A a \in Addrs : Empty[a] = NoServer
  BY DEF Empty
<1> HIDE DEF Mail
<1> QED BY <1>1, <1>2, <1>3, Constants DEF Init, Shape

LEMMA StepShape == Shape /\ [Next]_vars => Shape'
<1> SUFFICES ASSUME Shape, [Next]_vars PROVE Shape'
  OBVIOUS
<1> HIDE DEF Mail
<1>1. ASSUME NEW n \in Node, Handle(n) PROVE Shape'
  BY <1>1, HandleShape
<1>2. ASSUME NEW n \in Node, Start(n) PROVE Shape'
  BY <1>2, StartShape
<1>3. ASSUME NEW n \in Node, Stop(n) PROVE Shape'
  BY <1>3, StopShape
<1>4. ASSUME NEW a \in Addrs, OpenSocket(a) PROVE Shape'
  BY <1>4 DEF OpenSocket, Shape
<1>5. ASSUME NEW a \in Addrs, CloseSocket(a) PROVE Shape'
  BY <1>5, CloseShape
<1>6. ASSUME NEW a \in Addrs,
             \/ Withdraw(a)
             \/ \E srv \in Offers[a] : Publish(a, srv)
             \/ \E f \in Filters[a] : AskLookup(a, f)
      PROVE  Shape'
  BY <1>6, SocketRequest, RequestShape
<1>7. CASE UNCHANGED vars
  BY <1>7 DEF vars, Shape
<1> QED BY <1>1, <1>2, <1>3, <1>4, <1>5, <1>6, <1>7 DEF Next

\* Nothing but what the sockets of an address offer is ever kept there or asked
\* for, and a name server that does not run keeps nothing.
THEOREM TypeCorrect == Spec => []TypeOK
<1>1. Shape => TypeOK
  <2> SUFFICES ASSUME Shape PROVE TypeOK
    OBVIOUS
  <2>1. \A n \in Node : NS(n)!Lookup = LookupRec /\ NS(n)!Entry = EntryRec
    BY AsNameServer
  <2>2. \A n \in Node : lookups[n] \subseteq NS(n)!Lookup /\ told[n] \in [Ports -> SUBSET NS(n)!Entry]
    BY <2>1 DEF Shape
  <2>3. registry \in [Node -> [Addrs -> (UNION { Offers[a] : a \in Addrs }) \cup {NoServer}]]
    BY DEF Shape, Kept
  <2> HIDE DEF Mail
  <2> QED BY <2>2, <2>3 DEF Shape, TypeOK
<1> QED BY <1>1, InitShape, StepShape, PTL DEF Spec

-----------------------------------------------------------------------------
(* The name servers agree.                                                 *)

\* PeersAgree, also for a node that started and is still owed announcements.
Agree ==
  \A k \in running : \A a \in Addrs : k # a[1] /\ a \notin forgot =>
    \/ Will(inbox[k], registry[k][a], a, registry[a[1]][a])
    \/ /\ Closing(a) \/ <<k, a[1]>> \in owed
       /\ Will(inbox[k], registry[k][a], a, NoServer)

\* For remote addresses, Speaks and Says are what NameServer calls Affects and
\* Outcome.
LEMMA WillIsWillHold ==
  ASSUME Shape, NEW k \in Node, NEW a \in Addrs, a[1] # k, NEW w,
         Will(inbox[k], registry[k][a], a, w)
  PROVE  WillHold(k, a, w)
<1>1. ASSUME NEW x \in Mail(k)
      PROVE  (NS(k)!Affects(x, a) <=> Speaks(x, a)) /\ NS(k)!Outcome(x) = Says(x)
  <2>1. Fits(x, k) /\ x.cmd \in {"hello", "new_server", "del_server", "del_client", "new_lookup"}
    BY MailFields
  <2>2. NS(k)!Subject(x) = IF x.from[1] = k THEN x.from ELSE x.addr
    BY AsNameServer
  <2>3. NS(k)!Outcome(x) = Says(x)
    BY DEF NS!Outcome, Says
  <2>4. x.cmd = "new_server" => x.service # 0
    <3>1. x.cmd = "new_server" => [service |-> x.service, instance |-> x.instance] \in ServerRec
      BY <2>1, Constants DEF Fits
    <3> QED BY <3>1 DEF ServerRec
  <2>5. CASE x.addr \in Addrs /\ x.addr[1] # k /\ x.from = Ctrl(x.addr[1])
    <3>1. x.from[1] = x.addr[1]
      BY <2>5, Constants
    <3> QED BY <2>1, <2>2, <2>3, <2>4, <2>5, <3>1 DEF NS!Affects, Speaks
  <2>6. CASE x.addr = <<0, 0>> /\ x.from[1] = k
    <3>1. ~ Speaks(x, a)
      BY <2>6, Constants DEF Speaks
    <3>2. x.cmd # "del_client"
      BY <2>1, <2>6, Constants DEF Fits
    <3> QED BY <2>1, <2>3, <2>6, <3>1, <3>2 DEF NS!Affects
  <2>7. CASE x.cmd = "del_client" /\ x.from = x.addr
    BY <2>3, <2>7 DEF NS!Affects, Speaks
  <2>8. CASE x.cmd \in {"hello", "new_lookup"}
    BY <2>1, <2>3, <2>8 DEF NS!Affects, Speaks
  <2> QED BY <2>1, <2>5, <2>6, <2>7, <2>8 DEF Fits
<1>2. \A i \in DOMAIN inbox[k] : inbox[k][i] \in Mail(k)
  <2>1. inbox[k] \in Seq(Mail(k))
    BY DEF Shape
  <2> HIDE DEF Mail
  <2>2. DOMAIN inbox[k] = 1..Len(inbox[k])
    BY <2>1, LenProperties
  <2> QED BY <2>1, <2>2, ElementOfSeq
<1> HIDE DEF Mail
<1>3. CASE Latest(inbox[k], a, w)
  BY <1>1, <1>2, <1>3 DEF Latest, WillHold, NS!LastWord
<1>4. CASE Silent(inbox[k], a) /\ registry[k][a] = w
  BY <1>1, <1>2, <1>4 DEF Silent, WillHold, NS!Quiet
<1> QED BY <1>3, <1>4 DEF Will

\* What a step appends to the queue of a running node.
LEMMA Appended ==
  ASSUME Shape, NEW k \in running, NEW r \in Seq(Mail(k)), inbox'[k] = inbox[k] \o Delivered(k, r),
         NEW a \in Addrs, NEW h, NEW w
  PROVE  /\ Latest(r, a, w) => Will(inbox'[k], h, a, w)
         /\ Silent(r, a) /\ Will(inbox[k], h, a, w) => Will(inbox'[k], h, a, w)
<1>1. inbox[k] \in Seq(Mail(k)) /\ inbox'[k] = inbox[k] \o r
  BY DEF Shape, Delivered
<1> HIDE DEF Mail
<1> QED BY <1>1, WillAppended

\* Reports of a close stay in a queue that grows.
LEMMA ClosingAppended ==
  ASSUME Shape, NEW a \in Addrs, NEW r \in Seq(Mail(a[1])),
         inbox'[a[1]] = inbox[a[1]] \o Delivered(a[1], r), Closing(a)
  PROVE  Closing(a)'
<1>1. a[1] \in Node
  BY Constants
<1>2. inbox[a[1]] \in Seq(Mail(a[1])) /\ Delivered(a[1], r) \in Seq(Mail(a[1]))
  BY <1>1, EmptySeq DEF Shape, Delivered
<1>3. \A i \in DOMAIN inbox[a[1]] : i \in DOMAIN inbox'[a[1]] /\ inbox'[a[1]][i] = inbox[a[1]][i]
  <2> DEFINE q == inbox[a[1]]
             d == Delivered(a[1], r)
  <2>1. inbox'[a[1]] = q \o d /\ q \in Seq(Mail(a[1])) /\ d \in Seq(Mail(a[1]))
    BY <1>2
  <2> HIDE DEF Mail, q, d
  <2>2. \A i \in DOMAIN q : i \in DOMAIN (q \o d) /\ (q \o d)[i] = q[i]
    BY <2>1, ConcatPositions
  <2> QED BY <2>1, <2>2 DEF q
<1> QED BY <1>3 DEF Closing

LEMMA HandleAgree == ASSUME Shape, Agree, NEW n \in Node, Handle(n) PROVE Agree'
<1>1. PICK out : Handled(n, out) /\ Posted(n, out)
  BY HandlePosts
<1>2. inbox[n] # << >> /\ running' = running
  BY HandledHead
<1>3. \A k \in Node : inbox'[k] = IF k = n THEN Tail(inbox[n]) ELSE inbox[k] \o Delivered(k, out[k])
  BY <1>1 DEF Handled
<1>4. /\ \A k \in Node \ {n} : registry'[k] = registry[k]
      /\ \A a \in Addrs : a[1] # n =>
           registry'[n][a] = IF Speaks(First(n), a) THEN Says(First(n)) ELSE registry[n][a]
      /\ \A a \in Addrs : First(n).cmd = "del_client" /\ First(n).addr = a =>
           registry'[n][a] = NoServer
  BY HandleRegistry
<1>5. /\ \A a \in forgot : a[1] # n => a \in forgot'
      /\ \A o \in owed : o[2] # n => o \in owed'
  BY HandleNotes
<1> SUFFICES ASSUME NEW k \in running, NEW a \in Addrs, k # a[1], a \notin forgot'
    PROVE  \/ Will(inbox'[k], registry'[k][a], a, registry'[a[1]][a])
           \/ /\ Closing(a)' \/ <<k, a[1]>> \in owed'
              /\ Will(inbox'[k], registry'[k][a], a, NoServer)
  BY <1>2 DEF Agree
<1> DEFINE m == a[1]
<1>6. k \in Node /\ m \in Node
  BY Constants DEF Shape
<1>7. a \notin forgot =>
        \/ Will(inbox[k], registry[k][a], a, registry[m][a])
        \/ /\ Closing(a) \/ <<k, m>> \in owed
           /\ Will(inbox[k], registry[k][a], a, NoServer)
  BY DEF Agree
<1>8. CASE n = m
  <2>1. k # n /\ inbox'[k] = inbox[k] \o Delivered(k, out[k]) /\ registry'[k] = registry[k]
    BY <1>3, <1>4, <1>6, <1>8
  <2>2. /\ out[k] \in Seq(Mail(k))
        /\ \/ Latest(out[k], a, registry'[m][a])
           \/ Silent(out[k], a) /\ Unmoved(m, k, a)
    BY <1>1, <1>6, <1>8, <2>1 DEF Posted
  <2>3. CASE Latest(out[k], a, registry'[m][a])
    BY <2>1, <2>2, <2>3, Appended
  <2>4. CASE Silent(out[k], a) /\ Unmoved(m, k, a)
    <3>1. a \notin forgot /\ registry'[m][a] = registry[m][a]
      BY <2>4 DEF Unmoved
    <3>2. CASE Will(inbox[k], registry[k][a], a, registry[m][a])
      BY <2>1, <2>2, <2>4, <3>1, <3>2, Appended
    <3>3. CASE Will(inbox[k], registry[k][a], a, NoServer) /\ <<k, m>> \in owed
      <4>1. Will(inbox'[k], registry'[k][a], a, NoServer)
        BY <2>1, <2>2, <2>4, <3>3, Appended
      <4>2. <<k, m>> \in owed' \/ registry'[m][a] = NoServer
        BY <2>4, <3>1, <3>3 DEF Unmoved
      <4> QED BY <4>1, <4>2
    <3>4. CASE Will(inbox[k], registry[k][a], a, NoServer) /\ Closing(a)
      <4>1. Will(inbox'[k], registry'[k][a], a, NoServer)
        BY <2>1, <2>2, <2>4, <3>4, Appended
      <4>2. Closing(a)' \/ registry'[m][a] = NoServer
        <5>1. PICK i \in DOMAIN inbox[n] : inbox[n][i].cmd = "del_client" /\ inbox[n][i].addr = a
          BY <1>8, <3>4 DEF Closing
        <5>2. inbox[n] \in Seq(Mail(n))
          BY DEF Shape
        <5>3. CASE i = 1
          <6>1. First(n) = inbox[n][1]
            BY DEF First
          <6> QED BY <1>4, <1>8, <5>1, <5>3, <6>1
        <5>4. CASE i # 1
          <6>1. i - 1 \in DOMAIN inbox'[n] /\ inbox[n][i] = inbox'[n][i - 1]
            <7> DEFINE q == inbox[n]
            <7>1. inbox'[n] = Tail(q) /\ q # << >> /\ q \in Seq(Mail(n)) /\ i \in DOMAIN q
              BY <1>2, <1>3, <5>2
            <7> HIDE DEF Mail, q
            <7>2. i - 1 \in DOMAIN Tail(q) /\ q[i] = Tail(q)[i - 1]
              BY <5>4, <7>1, TailPositions
            <7> QED BY <7>1, <7>2 DEF q
          <6> QED BY <1>8, <5>1, <6>1 DEF Closing
        <5> QED BY <5>3, <5>4
      <4> QED BY <4>1, <4>2
    <3> QED BY <1>7, <3>1, <3>2, <3>3, <3>4
  <2> QED BY <2>2, <2>3, <2>4
<1>9. CASE n # m
  <2>1. a \notin forgot /\ registry'[m] = registry[m] /\ (<<k, m>> \in owed => <<k, m>> \in owed')
    BY <1>4, <1>5, <1>6, <1>9
  <2>2. Closing(a) => Closing(a)'
    <3>1. out[m] \in Seq(Mail(m))
      BY <1>1, <1>6, <1>9 DEF Posted
    <3>2. inbox'[m] = inbox[m] \o Delivered(m, out[m])
      BY <1>3, <1>6, <1>9
    <3> QED BY <3>1, <3>2, ClosingAppended
  <2>3. \A w : Will(inbox[k], registry[k][a], a, w) => Will(inbox'[k], registry'[k][a], a, w)
    <3>1. CASE k = n
      <4>1. inbox[n] \in Seq(Mail(n)) /\ inbox'[n] = Tail(inbox[n]) /\ First(n) = Head(inbox[n])
        BY <1>3 DEF Shape, First
      <4>2. registry'[k][a] = IF Speaks(Head(inbox[n]), a) THEN Says(Head(inbox[n])) ELSE registry[k][a]
        BY <1>4, <1>9, <3>1, <4>1
      <4> HIDE DEF Mail
      <4> QED BY <1>2, <3>1, <4>1, <4>2, WillHandled
    <3>2. CASE k # n
      <4>1. inbox'[k] = inbox[k] \o Delivered(k, out[k]) /\ registry'[k] = registry[k]
        BY <1>3, <1>4, <1>6, <3>2
      <4>2. out[k] \in Seq(Mail(k)) /\ Silent(out[k], a)
        BY <1>1, <1>6, <1>9, <3>2 DEF Posted
      <4> QED BY <4>1, <4>2, Appended
    <3> QED BY <3>1, <3>2
  <2> QED BY <1>7, <2>1, <2>2, <2>3
<1> QED BY <1>8, <1>9

LEMMA StartAgree == ASSUME Shape, Agree, NEW n \in Node, Start(n) PROVE Agree'
<1> DEFINE g == <<Greeting(n)>>
<1>1. /\ running' = running \cup {n} /\ n \notin running
      /\ owed' = owed \cup { <<n, k>> : k \in running }
      /\ \A k \in Node : inbox'[k] = inbox[k] \o Delivered(k, g)
      /\ UNCHANGED <<registry, forgot>>
  BY DEF Start
<1> SUFFICES ASSUME NEW k \in running', NEW a \in Addrs, k # a[1], a \notin forgot
    PROVE  \/ Will(inbox'[k], registry[k][a], a, registry[a[1]][a])
           \/ /\ Closing(a)' \/ <<k, a[1]>> \in owed'
              /\ Will(inbox'[k], registry[k][a], a, NoServer)
  BY <1>1 DEF Agree
<1>2. k \in Node /\ a[1] \in Node
  BY <1>1, Constants DEF Shape
<1>3. CASE k = n
  <2>1. inbox'[k] = << >> /\ registry[k] = Empty
    BY <1>1, <1>2, <1>3, ConcatEmptySeq, EmptySeq DEF Delivered, Shape
  <2>2. Will(inbox'[k], registry[k][a], a, NoServer)
    BY <2>1 DEF Will, Silent, Empty
  <2>3. a[1] \in running => <<k, a[1]>> \in owed'
    BY <1>1, <1>3
  <2>4. a[1] \notin running => registry[a[1]][a] = NoServer
    BY <1>2 DEF Shape, Empty
  <2> QED BY <2>2, <2>3, <2>4
<1>4. CASE k # n
  <2>1. ASSUME NEW j \in Node, j \in running
        PROVE  g \in Seq(Mail(j)) /\ \A b \in Addrs : Silent(g, b)
    <3>1. Greeting(n).cmd = "hello" /\ Greeting(n).from = Ctrl(n) /\ n # j
      BY <1>1, <2>1, PacketFields DEF Greeting
    <3>2. Fits(Greeting(n), j)
      BY <3>1 DEF Fits
    <3>3. Ctrl(n) \in Node \X (Ports \cup {CtrlPort}) /\ Nothing.service \in Nat /\ Nothing.instance \in Nat
      BY DEF Ctrl, Nothing
    <3>4. Greeting(n) \in Mail(j)
      BY <3>2, <3>3, IsMail DEF Greeting
    <3> HIDE DEF Mail
    <3> QED BY <3>1, <3>4 DEF Silent, Speaks
  <2>2. k \in running
    BY <1>1, <1>4
  <2> HIDE DEF g
  <2>3. \A w : Will(inbox[k], registry[k][a], a, w) => Will(inbox'[k], registry[k][a], a, w)
    BY <1>1, <1>2, <2>1, <2>2, Appended
  <2>4. Closing(a) => Closing(a)'
    <3>1. CASE a[1] \in running
      BY <1>1, <1>2, <2>1, <3>1, ClosingAppended
    <3>2. CASE a[1] \notin running
      <4>1. inbox[a[1]] = << >>
        BY <1>2, <3>2 DEF Shape
      <4> QED BY <4>1 DEF Closing
    <3> QED BY <3>1, <3>2
  <2>5. owed \subseteq owed'
    BY <1>1
  <2> QED BY <2>2, <2>3, <2>4, <2>5 DEF Agree
<1> QED BY <1>3, <1>4

LEMMA StopAgree == ASSUME Shape, Agree, NEW n \in Node, Stop(n) PROVE Agree'
<1> SUFFICES ASSUME NEW k \in running', NEW a \in Addrs, k # a[1], a \notin forgot'
    PROVE  \/ Will(inbox'[k], registry'[k][a], a, registry'[a[1]][a])
           \/ /\ Closing(a)' \/ <<k, a[1]>> \in owed'
              /\ Will(inbox'[k], registry'[k][a], a, NoServer)
  BY DEF Agree
<1>1. k \in running /\ k # n /\ a \notin forgot /\ k \in Node /\ a[1] \in Node
  BY Constants DEF Stop, Shape
<1>2. inbox'[k] = inbox[k] /\ registry'[k] = registry[k]
  BY <1>1 DEF Stop, Shape
<1>3. \/ Will(inbox[k], registry[k][a], a, registry[a[1]][a])
      \/ /\ Closing(a) \/ <<k, a[1]>> \in owed
         /\ Will(inbox[k], registry[k][a], a, NoServer)
  BY <1>1 DEF Agree
<1>4. CASE a[1] = n
  <2>1. registry[n][a] = NoServer
    BY <1>4 DEF Stop
  <2>2. registry'[n][a] = NoServer
    BY <1>4 DEF Stop, Shape, Empty
  <2> QED BY <1>2, <1>3, <1>4, <2>1, <2>2
<1>5. CASE a[1] # n
  <2>1. inbox'[a[1]] = inbox[a[1]] /\ registry'[a[1]] = registry[a[1]]
    BY <1>1, <1>5 DEF Stop, Shape
  <2>2. Closing(a) => Closing(a)'
    BY <2>1 DEF Closing
  <2>3. <<k, a[1]>> \in owed => <<k, a[1]>> \in owed'
    BY <1>1, <1>5 DEF Stop
  <2> QED BY <1>2, <1>3, <2>1, <2>2, <2>3
<1> QED BY <1>4, <1>5

\* The kernel tells every name server of a close, whatever its own node's still
\* has queued about the socket.
LEMMA CloseAgree == ASSUME Shape, Agree, NEW b \in Addrs, CloseSocket(b) PROVE Agree'
<1> DEFINE x == Packet("del_client", b, b, Nothing)
<1>1. /\ \A k \in Node : inbox'[k] = inbox[k] \o Delivered(k, <<x>>)
      /\ forgot' = forgot \ {b}
      /\ UNCHANGED <<running, registry, owed>>
  BY DEF CloseSocket
<1>2. x.cmd = "del_client" /\ x.addr = b /\ Says(x) = NoServer /\ \A a : Speaks(x, a) <=> a = b
  BY PacketFields DEF Says, Speaks
<1>3. ASSUME NEW k \in Node PROVE <<x>> \in Seq(Mail(k))
  <2>1. Fits(x, k)
    BY PacketFields DEF Fits
  <2>2. b \in Node \X (Ports \cup {CtrlPort}) /\ Nothing.service \in Nat /\ Nothing.instance \in Nat
    BY Constants DEF Nothing
  <2>3. x \in Mail(k)
    BY <2>1, <2>2, IsMail
  <2> HIDE DEF x, Mail
  <2> QED BY <2>3
<1> HIDE DEF x, Mail
<1> SUFFICES ASSUME NEW k \in running, NEW a \in Addrs, k # a[1], a \notin forgot'
    PROVE  \/ Will(inbox'[k], registry[k][a], a, registry[a[1]][a])
           \/ /\ Closing(a)' \/ <<k, a[1]>> \in owed
              /\ Will(inbox'[k], registry[k][a], a, NoServer)
  BY <1>1 DEF Agree
<1>4. k \in Node /\ a[1] \in Node
  BY Constants DEF Shape
<1>5. /\ <<x>> \in Seq(Mail(k)) /\ <<x>> \in Seq(Mail(a[1]))
      /\ inbox'[k] = inbox[k] \o Delivered(k, <<x>>)
      /\ inbox'[a[1]] = inbox[a[1]] \o Delivered(a[1], <<x>>)
  BY <1>1, <1>3, <1>4
<1>6. CASE a = b
  <2>1. Latest(<<x>>, a, NoServer)
    BY <1>2, <1>6 DEF Latest
  <2>2. Will(inbox'[k], registry[k][a], a, NoServer)
    BY <1>5, <2>1, Appended
  <2>3. CASE a[1] \notin running
    BY <1>4, <2>2, <2>3 DEF Shape, Empty
  <2>4. CASE a[1] \in running
    <3> DEFINE q == inbox[a[1]]
               r == <<x>>
    <3>1. q \in Seq(Mail(a[1])) /\ r \in Seq(Mail(a[1])) /\ inbox'[a[1]] = q \o r
          /\ 1 \in DOMAIN r /\ r[1] = x
      BY <1>4, <1>5, <2>4 DEF Shape, Delivered
    <3> HIDE DEF q, r
    <3>2. Len(q) + 1 \in DOMAIN (q \o r) /\ (q \o r)[Len(q) + 1] = r[1]
      BY <3>1, ConcatPositions
    <3>3. Closing(a)'
      BY <1>2, <1>6, <3>1, <3>2 DEF Closing
    <3> QED BY <2>2, <3>3
  <2> QED BY <2>3, <2>4
<1>7. CASE a # b
  <2>1. Silent(<<x>>, a) /\ a \notin forgot
    BY <1>1, <1>2, <1>7 DEF Silent
  <2>2. \A w : Will(inbox[k], registry[k][a], a, w) => Will(inbox'[k], registry[k][a], a, w)
    BY <1>5, <2>1, Appended
  <2>3. Closing(a) => Closing(a)'
    BY <1>5, ClosingAppended
  <2> QED BY <2>1, <2>2, <2>3 DEF Agree
<1> QED BY <1>6, <1>7

\* A socket's request concerns its own node only.
LEMMA RequestAgree ==
  ASSUME Shape, Agree, NEW b \in Addrs, NEW cmd, NEW srv, Request(cmd, b, srv),
         Packet(cmd, b, <<0, 0>>, srv) \in Mail(b[1])
  PROVE  Agree'
<1> DEFINE x == Packet(cmd, b, <<0, 0>>, srv)
           n == b[1]
<1>1. /\ inbox' = [inbox EXCEPT ![n] = Append(@, x)]
      /\ n \in running
      /\ UNCHANGED <<running, registry, owed, forgot>>
  BY DEF Request
<1>2. \A a \in Addrs : ~ Speaks(x, a)
  BY PacketFields, Constants DEF Speaks
<1>3. x \in Mail(n) /\ n \in Node
  BY Constants
<1> HIDE DEF x, n, Mail
<1>4. inbox[n] \in Seq(Mail(n)) /\ <<x>> \in Seq(Mail(n)) /\ \A a \in Addrs : Silent(<<x>>, a)
  BY <1>2, <1>3 DEF Shape, Silent
<1>5. inbox'[n] = inbox[n] \o Delivered(n, <<x>>)
  <2>1. inbox'[n] = Append(inbox[n], x)
    BY <1>1, <1>3 DEF Shape
  <2>2. Append(inbox[n], x) = inbox[n] \o <<x>>
    BY <1>3, <1>4, AppendIsConcat
  <2> QED BY <1>1, <2>1, <2>2 DEF Delivered
<1>6. \A k \in Node \ {n} : inbox'[k] = inbox[k]
  BY <1>1 DEF Shape
<1> SUFFICES ASSUME NEW k \in running, NEW a \in Addrs, k # a[1], a \notin forgot
    PROVE  \/ Will(inbox'[k], registry[k][a], a, registry[a[1]][a])
           \/ /\ Closing(a)' \/ <<k, a[1]>> \in owed
              /\ Will(inbox'[k], registry[k][a], a, NoServer)
  BY <1>1 DEF Agree
<1>7. k \in Node /\ a[1] \in Node
  BY Constants DEF Shape
<1>8. \A w : Will(inbox[k], registry[k][a], a, w) => Will(inbox'[k], registry[k][a], a, w)
  <2>1. CASE k = n
    BY <1>4, <1>5, <2>1, Appended
  <2>2. CASE k # n
    BY <1>6, <1>7, <2>2
  <2> QED BY <2>1, <2>2
<1>9. Closing(a) => Closing(a)'
  <2>1. CASE a[1] = n
    BY <1>4, <1>5, <2>1, ClosingAppended
  <2>2. CASE a[1] # n
    BY <1>6, <1>7, <2>2 DEF Closing
  <2> QED BY <2>1, <2>2
<1> QED BY <1>8, <1>9 DEF Agree

LEMMA StepAgree == Shape /\ Agree /\ [Next]_vars => Agree'
<1> SUFFICES ASSUME Shape, Agree, [Next]_vars PROVE Agree'
  OBVIOUS
<1>1. ASSUME NEW n \in Node, Handle(n) \/ Start(n) \/ Stop(n) PROVE Agree'
  BY <1>1, HandleAgree, StartAgree, StopAgree
<1>2. ASSUME NEW a \in Addrs, CloseSocket(a) PROVE Agree'
  BY <1>2, CloseAgree
<1>3. ASSUME NEW a \in Addrs,
             \/ Withdraw(a)
             \/ \E srv \in Offers[a] : Publish(a, srv)
             \/ \E f \in Filters[a] : AskLookup(a, f)
      PROVE  Agree'
  <2>1. PICK cmd \in {"new_server", "del_server", "new_lookup"},
             srv \in [service : Nat, instance : Nat] :
               Request(cmd, a, srv) /\ (cmd = "new_server" => srv \in Kept)
    BY <1>3, SocketRequest
  <2>2. Packet(cmd, a, <<0, 0>>, srv) \in Mail(a[1])
    BY <2>1, RequestMail
  <2> QED BY <2>1, <2>2, RequestAgree
<1>4. CASE UNCHANGED vars \/ \E a \in Addrs : OpenSocket(a)
  BY <1>4 DEF vars, OpenSocket, Agree, Closing
<1> QED BY <1>1, <1>2, <1>3, <1>4 DEF Next

\* For any number of nodes whose name servers start, stop and start again in any
\* order, with greetings that cross: once what is queued is handled, every node
\* that was answered holds for every address what the address's own node holds.
THEOREM RegistriesAgree == Spec => []PeersAgree
<1>1. Shape /\ Agree => PeersAgree
  <2> SUFFICES ASSUME Shape, Agree, NEW k \in running, NEW a \in Addrs,
                      k # a[1], a \notin forgot, <<k, a[1]>> \notin owed
               PROVE  \/ WillHold(k, a, registry[a[1]][a])
                      \/ Closing(a) /\ WillHold(k, a, NoServer)
    BY DEF PeersAgree
  <2>1. k \in Node
    BY DEF Shape
  <2>2. \A w : Will(inbox[k], registry[k][a], a, w) => WillHold(k, a, w)
    BY <2>1, WillIsWillHold
  <2> QED BY <2>2 DEF Agree
<1>2. Init => Agree
  BY DEF Init, Agree
<1> QED BY <1>1, <1>2, InitShape, StepShape, StepAgree, PTL DEF Spec

-----------------------------------------------------------------------------
(* Greetings do not multiply.                                              *)

\* Where greetings are queued, as in GreetingsBounded.
Underway == UNION { {n} \X Greetings(n) : n \in Node }

LEMMA UnderwayPlaces ==
  /\ \A n \in Node : \A i \in DOMAIN inbox[n] :
       <<n, i>> \in Underway <=> inbox[n][i].cmd = "hello"
  /\ \A g \in Underway : /\ g[1] \in Node /\ g = <<g[1], g[2]>> /\ g[2] \in DOMAIN inbox[g[1]]
                         /\ inbox[g[1]][g[2]].cmd = "hello"
BY DEF Underway, Greetings

LEMMA UnderwayPlacesNext ==
  \A g \in Underway' : /\ g[1] \in Node /\ g = <<g[1], g[2]>> /\ g[2] \in DOMAIN inbox'[g[1]]
                       /\ inbox'[g[1]][g[2]].cmd = "hello"
BY DEF Underway, Greetings

Bounded == /\ IsFiniteSet(Underway)
           /\ Cardinality(Underway) <= starts * (Cardinality(Node) - 1)

\* The bound is a number.
LEMMA BoundType ==
  ASSUME Shape
  PROVE  /\ starts \in Nat /\ Cardinality(Node) - 1 \in Int
         /\ starts * (Cardinality(Node) - 1) \in Int
         /\ (starts + 1) * (Cardinality(Node) - 1)
              = starts * (Cardinality(Node) - 1) + (Cardinality(Node) - 1)
<1>1. starts \in Nat
  BY NetConstants DEF Shape, NetConstants
<1>2. Cardinality(Node) \in Nat
  BY NetConstants, FS_CardinalityType DEF NetConstants
<1>3. \A s \in Nat, c \in Int : s * c \in Int /\ (s + 1) * c = s * c + c
  OBVIOUS
<1> QED BY <1>1, <1>2, <1>3

\* Each greeting after a step comes from a greeting before it.
LEMMA FewerGreetings ==
  ASSUME Shape, Bounded, NEW f \in Injection(Underway', Underway), starts' = starts
  PROVE  Bounded'
<1> DEFINE G == Underway
           H == Underway'
           b == starts * (Cardinality(Node) - 1)
<1>1. f \in Injection(H, G) /\ IsFiniteSet(G) /\ Cardinality(G) <= b /\ b \in Int
  BY BoundType DEF Bounded
<1>2. b' = b
  OBVIOUS
<1>3. IsFiniteSet(H) /\ Cardinality(H) <= b
  <2> HIDE DEF G, H, b
  <2>1. IsFiniteSet(H) /\ Cardinality(H) <= Cardinality(G)
    BY <1>1, FS_Injection
  <2>2. Cardinality(H) \in Nat /\ Cardinality(G) \in Nat
    BY <1>1, <2>1, FS_CardinalityType
  <2> QED BY <1>1, <2>1, <2>2
<1> QED BY <1>2, <1>3 DEF Bounded

LEMMA HandleGreetings == ASSUME Shape, Bounded, NEW n \in Node, Handle(n) PROVE Bounded'
<1>1. PICK out : Handled(n, out) /\ Posted(n, out)
  BY HandlePosts
<1>2. inbox[n] # << >> /\ inbox[n] \in Seq(Mail(n)) /\ starts' = starts /\ First(n) = Head(inbox[n])
  BY HandledHead DEF Shape, First
<1> DEFINE F(g) == IF g[1] = n THEN <<n, g[2] + 1>>
                   ELSE IF g[2] \in DOMAIN inbox[g[1]] THEN g ELSE <<n, 1>>
<1>3. ASSUME NEW g \in Underway', g[1] = n
      PROVE  /\ g[2] \in Nat \ {0} /\ g[2] + 1 \in DOMAIN inbox[n]
             /\ inbox[n][g[2] + 1].cmd = "hello"
  <2> DEFINE q == inbox[n]
  <2>1. g[2] \in DOMAIN Tail(q) /\ Tail(q)[g[2]].cmd = "hello"
    BY <1>1, <1>3, UnderwayPlacesNext DEF Handled
  <2>2. q # << >> /\ q \in Seq(Mail(n))
    BY <1>2
  <2> HIDE DEF q, Mail
  <2>3. DOMAIN Tail(q) \subseteq Nat \ {0}
        /\ \A i \in DOMAIN Tail(q) : i + 1 \in DOMAIN q /\ Tail(q)[i] = q[i + 1]
    BY <2>2, TailPositions
  <2> QED BY <2>1, <2>3 DEF q
<1>4. ASSUME NEW g \in Underway', g[1] # n, g[2] \notin DOMAIN inbox[g[1]]
      PROVE  /\ First(n).cmd = "hello" /\ First(n).from = Ctrl(g[1])
             /\ g[2] - Len(inbox[g[1]]) = 1 /\ g[2] \in Int /\ Len(inbox[g[1]]) \in Nat
  <2> DEFINE k == g[1]
             q == inbox[k]
             d == Delivered(k, out[k])
  <2>1. k \in Node /\ g[2] \in DOMAIN inbox'[k] /\ inbox'[k][g[2]].cmd = "hello"
    BY UnderwayPlacesNext
  <2>2. inbox'[k] = q \o d /\ q \in Seq(Mail(k)) /\ d \in Seq(Mail(k))
    BY <1>1, <1>4, <2>1, EmptySeq DEF Handled, Posted, Shape, Delivered
  <2>3. \A i \in DOMAIN d : d[i].cmd = "hello" =>
          i = 1 /\ First(n).cmd = "hello" /\ First(n).from = Ctrl(k)
    BY <1>1, <1>4, <2>1 DEF Posted, Delivered
  <2>4. g[2] \notin DOMAIN q
    BY <1>4
  <2> HIDE DEF q, d, Mail
  <2>5. g[2] - Len(q) \in DOMAIN d /\ (q \o d)[g[2]] = d[g[2] - Len(q)]
        /\ DOMAIN (q \o d) = 1..(Len(q) + Len(d))
    BY <2>1, <2>2, <2>4, ConcatPositions
  <2>6. Len(q) \in Nat /\ g[2] \in Int
    BY <2>1, <2>2, <2>5, LenProperties
  <2> QED BY <2>1, <2>2, <2>3, <2>5, <2>6 DEF q
<1>5. ASSUME NEW g \in Underway', g[1] # n, g[2] \in DOMAIN inbox[g[1]] PROVE g \in Underway
  <2> DEFINE k == g[1]
             q == inbox[k]
             d == Delivered(k, out[k])
  <2>1. k \in Node /\ g = <<k, g[2]>> /\ inbox'[k][g[2]].cmd = "hello"
    BY UnderwayPlacesNext
  <2>2. inbox'[k] = q \o d /\ q \in Seq(Mail(k)) /\ d \in Seq(Mail(k)) /\ g[2] \in DOMAIN q
    BY <1>1, <1>5, <2>1, EmptySeq DEF Handled, Posted, Shape, Delivered
  <2> HIDE DEF q, d, Mail
  <2>3. (q \o d)[g[2]] = q[g[2]]
    BY <2>2, ConcatPositions
  <2> HIDE DEF k
  <2>4. <<k, g[2]>> \in Underway
    BY <2>1, <2>2, <2>3, UnderwayPlaces DEF q
  <2> QED BY <2>1, <2>4
<1>6. First(n).cmd = "hello" => <<n, 1>> \in Underway
  <2> DEFINE q == inbox[n]
  <2>1. q # << >> /\ q \in Seq(Mail(n))
    BY <1>2
  <2> HIDE DEF Mail, q
  <2>2. 1 \in DOMAIN q /\ Head(q) = q[1]
    BY <2>1, TailPositions
  <2> QED BY <1>2, <2>2, UnderwayPlaces DEF q
<1>7. \A g \in Underway' : F(g) \in Underway
  BY <1>3, <1>4, <1>5, <1>6, UnderwayPlaces
<1>8. ASSUME NEW g \in Underway', NEW h \in Underway', F(g) = F(h) PROVE g = h
  <2>0. g = <<g[1], g[2]>> /\ h = <<h[1], h[2]>>
    BY UnderwayPlacesNext
  <2>1. CASE g[1] = n /\ h[1] = n
    BY <1>3, <1>8, <2>0, <2>1
  <2>2. CASE g[1] # n /\ h[1] # n
    <3>1. CASE g[2] \in DOMAIN inbox[g[1]] \/ h[2] \in DOMAIN inbox[h[1]]
      BY <1>8, <2>2, <3>1
    <3>2. CASE g[2] \notin DOMAIN inbox[g[1]] /\ h[2] \notin DOMAIN inbox[h[1]]
      <4>1. Ctrl(g[1]) = Ctrl(h[1])
        BY <1>4, <2>2, <3>2
      <4>2. g[1] = h[1]
        BY <4>1 DEF Ctrl
      <4>3. g[2] = h[2]
        BY <1>4, <2>2, <3>2, <4>2
      <4> QED BY <2>0, <4>2, <4>3
    <3> QED BY <3>1, <3>2
  <2>3. CASE g[1] = n /\ h[1] # n
    BY <1>3, <1>8, <2>3
  <2>4. CASE g[1] # n /\ h[1] = n
    BY <1>3, <1>8, <2>4
  <2> QED BY <2>1, <2>2, <2>3, <2>4
<1> DEFINE f == [g \in Underway' |-> F(g)]
<1>9. f \in Injection(Underway', Underway)
  <2> HIDE DEF F
  <2>1. f \in [Underway' -> Underway]
    BY <1>7
  <2>2. \A g, h \in DOMAIN f : f[g] = f[h] => g = h
    BY <1>8
  <2> QED BY <2>1, <2>2 DEF Injection, IsInjective
<1> QED BY <1>2, <1>9, FewerGreetings

LEMMA NoNewGreetings ==
  ASSUME Shape, Bounded, Underway' \subseteq Underway, starts' = starts
  PROVE  Bounded'
<1> DEFINE f == [g \in Underway' |-> g]
<1>1. f \in Injection(Underway', Underway)
  BY DEF Injection, IsInjective
<1> QED BY <1>1, FewerGreetings

\* A queue that grows by a packet other than a greeting.
LEMMA OtherPacket ==
  ASSUME Shape, NEW k \in Node, NEW x \in Mail(k), x.cmd # "hello",
         inbox'[k] \in {inbox[k], inbox[k] \o Delivered(k, <<x>>)},
         NEW g \in Underway', g[1] = k
  PROVE  g \in Underway
<1> DEFINE q == inbox[k]
           d == Delivered(k, <<x>>)
<1>1. g = <<k, g[2]>> /\ g[2] \in DOMAIN inbox'[k] /\ inbox'[k][g[2]].cmd = "hello"
  BY UnderwayPlacesNext
<1>2. q \in Seq(Mail(k)) /\ inbox'[k] \in {q, q \o d}
  BY DEF Shape
<1> HIDE DEF Mail
<1>3. d \in Seq(Mail(k)) /\ \A i \in DOMAIN d : d[i].cmd # "hello"
  BY EmptySeq DEF Delivered
<1> HIDE DEF q, d
<1>4. g[2] \in DOMAIN q /\ q[g[2]].cmd = "hello"
  <2>1. \A i \in DOMAIN (q \o d) : \/ i \in DOMAIN q /\ (q \o d)[i] = q[i]
                                   \/ i - Len(q) \in DOMAIN d /\ (q \o d)[i] = d[i - Len(q)]
    BY <1>2, <1>3, ConcatPositions
  <2> QED BY <1>1, <1>2, <1>3, <2>1
<1>5. <<k, g[2]>> \in Underway
  BY <1>4, UnderwayPlaces DEF q
<1> QED BY <1>1, <1>5

LEMMA StartGreetings == ASSUME Shape, Bounded, NEW n \in Node, Start(n) PROVE Bounded'
<1> DEFINE T == Underway \cup ((Node \ {n}) \X {0})
           F(g) == IF g[2] \in DOMAIN inbox[g[1]] THEN g ELSE <<g[1], 0>>
           f == [g \in Underway' |-> F(g)]
<1>1. ASSUME NEW g \in Underway'
      PROVE  /\ g = <<g[1], g[2]>> /\ g[1] \in Node
             /\ g[2] \in DOMAIN inbox[g[1]] => g \in Underway /\ g[2] # 0
             /\ g[2] \notin DOMAIN inbox[g[1]] =>
                  /\ g[1] # n /\ g[2] - Len(inbox[g[1]]) = 1
                  /\ g[2] \in Int /\ Len(inbox[g[1]]) \in Nat
  <2> DEFINE k == g[1]
             q == inbox[k]
             d == Delivered(k, <<Greeting(n)>>)
  <2>1. g = <<k, g[2]>> /\ k \in Node /\ g[2] \in DOMAIN inbox'[k] /\ inbox'[k][g[2]].cmd = "hello"
    BY UnderwayPlacesNext
  <2>2. inbox'[k] = q \o d /\ q \in Seq(Mail(k)) /\ inbox'[k] \in Seq(Mail(k))
    <3>1. Shape'
      BY StartShape
    <3>2. inbox'[k] \in Seq(Mail(k))
      BY <2>1, <3>1 DEF Shape
    <3> QED BY <2>1, <3>2 DEF Start, Shape
  <2> HIDE DEF Mail
  <2>3. d \in Seq({Greeting(n)}) /\ \A i \in DOMAIN d : i = 1 /\ k \in running
    <3>1. \A x : <<x>> \in Seq({x}) /\ DOMAIN <<x>> = {1}
      OBVIOUS
    <3>2. \A x : << >> \in Seq({x}) /\ DOMAIN << >> = {}
      OBVIOUS
    <3>3. CASE k \in running
      <4>1. d = <<Greeting(n)>>
        BY <3>3 DEF Delivered
      <4> QED BY <3>1, <3>3, <4>1
    <3>4. CASE k \notin running
      <4>1. d = << >>
        BY <3>4 DEF Delivered
      <4> QED BY <3>2, <4>1
    <3> QED BY <3>3, <3>4
  <2>4. n \notin running
    BY DEF Start
  <2> HIDE DEF q, d
  <2>5. \A i \in DOMAIN (q \o d) :
          \/ i \in DOMAIN q /\ (q \o d)[i] = q[i]
          \/ i - Len(q) \in DOMAIN d /\ i \in Int /\ i \notin DOMAIN q
    <3>1. q \in Seq(Mail(k) \cup {Greeting(n)}) /\ d \in Seq(Mail(k) \cup {Greeting(n)})
      BY <2>2, <2>3
    <3>2. \A i \in DOMAIN (q \o d) : \/ i \in DOMAIN q /\ (q \o d)[i] = q[i]
                                     \/ i - Len(q) \in DOMAIN d /\ i \notin DOMAIN q
      BY <3>1, ConcatPositions
    <3>3. DOMAIN (q \o d) = 1..(Len(q) + Len(d))
      BY <3>1, ConcatPositions
    <3> QED BY <3>2, <3>3
  <2>6. Len(q) \in Nat /\ DOMAIN q = 1..Len(q)
    BY <2>2, LenProperties
  <2>7. g[2] \in DOMAIN q => <<k, g[2]>> \in Underway
    <3>1. g[2] \in DOMAIN q => q[g[2]].cmd = "hello"
      BY <2>1, <2>2, <2>5
    <3> QED BY <2>1, <3>1, UnderwayPlaces DEF q
  <2>8. 0 \notin DOMAIN q
    BY <2>6
  <2>9. g[2] \notin DOMAIN q => /\ k # n /\ g[2] - Len(q) = 1 /\ g[2] \in Int
    BY <2>1, <2>2, <2>3, <2>4, <2>5
  <2> QED BY <2>1, <2>6, <2>7, <2>8, <2>9 DEF q
<1>2. f \in Injection(Underway', T)
  <2>1. \A g \in Underway' : F(g) \in T
    BY <1>1
  <2>2. ASSUME NEW g \in Underway', NEW h \in Underway', F(g) = F(h) PROVE g = h
    <3>1. CASE g[2] \in DOMAIN inbox[g[1]] \/ h[2] \in DOMAIN inbox[h[1]]
      BY <1>1, <2>2, <3>1
    <3>2. CASE g[2] \notin DOMAIN inbox[g[1]] /\ h[2] \notin DOMAIN inbox[h[1]]
      <4>1. g[1] = h[1]
        BY <2>2, <3>2
      <4>2. g[2] = h[2]
        BY <1>1, <3>2, <4>1
      <4> QED BY <1>1, <4>1, <4>2
    <3> QED BY <3>1, <3>2
  <2> HIDE DEF F, T
  <2>3. f \in [Underway' -> T]
    BY <2>1
  <2>4. \A g, h \in DOMAIN f : f[g] = f[h] => g = h
    BY <2>2
  <2> QED BY <2>3, <2>4 DEF Injection, IsInjective
<1> DEFINE others == (Node \ {n}) \X {0}
           b == starts * (Cardinality(Node) - 1)
<1>3. IsFiniteSet(others) /\ Cardinality(others) = Cardinality(Node) - 1 /\ Cardinality(others) \in Nat
  <2>1. IsFiniteSet(Node) /\ Cardinality(Node) \in Nat
    BY NetConstants, FS_CardinalityType DEF NetConstants
  <2>2. IsFiniteSet(Node \ {n}) /\ Cardinality(Node \ {n}) = Cardinality(Node) - 1
    BY <2>1, FS_RemoveElement
  <2>3. IsFiniteSet({0}) /\ Cardinality({0}) = 1
    BY FS_Singleton
  <2>4. IsFiniteSet(others) /\ Cardinality(others) = Cardinality(Node \ {n}) * 1
    BY <2>2, <2>3, FS_Product
  <2>5. Cardinality(others) \in Nat
    BY <2>4, FS_CardinalityType
  <2> QED BY <2>1, <2>2, <2>4, <2>5
<1>4. IsFiniteSet(Underway) /\ Cardinality(Underway) <= b /\ b \in Int /\ Cardinality(Underway) \in Nat
  BY BoundType, FS_CardinalityType DEF Bounded
<1>5. IsFiniteSet(T) /\ Cardinality(T) \in Nat /\ Cardinality(T) <= b + (Cardinality(Node) - 1)
  <2> HIDE DEF others
  <2>1. T = Underway \cup others
    BY DEF others
  <2>2. /\ IsFiniteSet(Underway \cup others)
        /\ Cardinality(Underway \cup others) =
             Cardinality(Underway) + Cardinality(others) - Cardinality(Underway \cap others)
    BY <1>3, <1>4, FS_Union
  <2>3. Cardinality(Underway \cap others) \in Nat
    BY <1>3, FS_Intersection, FS_CardinalityType
  <2>4. Cardinality(T) \in Nat
    BY <2>1, <2>2, FS_CardinalityType
  <2> HIDE DEF b, T
  <2> QED BY <1>3, <1>4, <2>1, <2>2, <2>3, <2>4
<1>6. IsFiniteSet(Underway') /\ Cardinality(Underway') <= b + (Cardinality(Node) - 1)
  <2> DEFINE H == Underway'
  <2>1. f \in Injection(H, T)
    BY <1>2
  <2> HIDE DEF H, T, f
  <2>2. IsFiniteSet(H) /\ Cardinality(H) <= Cardinality(T)
    BY <1>5, <2>1, FS_Injection
  <2>3. Cardinality(H) \in Nat
    BY <2>2, FS_CardinalityType
  <2>4. Cardinality(Node) - 1 \in Int /\ b \in Int
    BY BoundType
  <2> HIDE DEF b
  <2>5. IsFiniteSet(H) /\ Cardinality(H) <= b + (Cardinality(Node) - 1)
    BY <1>5, <2>2, <2>3, <2>4
  <2> QED BY <2>5 DEF H
<1>7. starts' = starts + 1 /\ b + (Cardinality(Node) - 1) = (starts + 1) * (Cardinality(Node) - 1)
  BY BoundType DEF Start
<1> QED BY <1>6, <1>7 DEF Bounded

LEMMA StepBounded == Shape /\ Bounded /\ [Next]_vars => Bounded'
<1> SUFFICES ASSUME Shape, Bounded, [Next]_vars PROVE Bounded'
  OBVIOUS
<1>1. ASSUME NEW n \in Node, Handle(n) \/ Start(n) PROVE Bounded'
  BY <1>1, HandleGreetings, StartGreetings
<1>2. ASSUME NEW n \in Node, Stop(n) PROVE Bounded'
  <2>1. starts' = starts /\ \A k \in Node : inbox'[k] = IF k = n THEN << >> ELSE inbox[k]
    BY <1>2 DEF Stop, Shape
  <2>2. ASSUME NEW g \in Underway' PROVE g \in Underway
    <3>1. g[1] # n /\ g[1] \in Node /\ g = <<g[1], g[2]>>
      BY <2>1, UnderwayPlacesNext
    <3>2. g[2] \in DOMAIN inbox[g[1]] /\ inbox[g[1]][g[2]].cmd = "hello"
      BY <2>1, <3>1, UnderwayPlacesNext
    <3> QED BY <3>1, <3>2, UnderwayPlaces
  <2> QED BY <2>1, <2>2, NoNewGreetings
<1>3. ASSUME NEW a \in Addrs, CloseSocket(a) PROVE Bounded'
  <2> DEFINE x == Packet("del_client", a, a, Nothing)
  <2>1. ASSUME NEW k \in Node PROVE x \in Mail(k) /\ x.cmd # "hello"
    <3>1. Fits(x, k)
      BY PacketFields DEF Fits
    <3>2. a \in Node \X (Ports \cup {CtrlPort}) /\ Nothing.service \in Nat /\ Nothing.instance \in Nat
      BY Constants DEF Nothing
    <3> QED BY <3>1, <3>2, IsMail, PacketFields
  <2>2. starts' = starts /\ \A k \in Node : inbox'[k] = inbox[k] \o Delivered(k, <<x>>)
    BY <1>3 DEF CloseSocket
  <2> HIDE DEF x, Mail
  <2>3. ASSUME NEW g \in Underway' PROVE g \in Underway
    BY <2>1, <2>2, UnderwayPlacesNext, OtherPacket
  <2> QED BY <2>2, <2>3, NoNewGreetings
<1>4. ASSUME NEW a \in Addrs,
             \/ Withdraw(a)
             \/ \E srv \in Offers[a] : Publish(a, srv)
             \/ \E f \in Filters[a] : AskLookup(a, f)
      PROVE  Bounded'
  <2>1. PICK cmd \in {"new_server", "del_server", "new_lookup"},
             srv \in [service : Nat, instance : Nat] :
               Request(cmd, a, srv) /\ (cmd = "new_server" => srv \in Kept)
    BY <1>4, SocketRequest
  <2> DEFINE x == Packet(cmd, a, <<0, 0>>, srv)
             n == a[1]
  <2>2. x \in Mail(n) /\ x.cmd # "hello" /\ n \in Node /\ n \in running
    BY <2>1, RequestMail, PacketFields, Constants DEF Request
  <2>3. starts' = starts /\ inbox' = [inbox EXCEPT ![n] = Append(@, x)]
    BY <2>1 DEF Request
  <2> HIDE DEF x, n, Mail
  <2>4. inbox'[n] = inbox[n] \o Delivered(n, <<x>>)
    <3>1. inbox[n] \in Seq(Mail(n)) /\ inbox'[n] = Append(inbox[n], x)
      BY <2>2, <2>3 DEF Shape
    <3>2. Append(inbox[n], x) = inbox[n] \o <<x>>
      BY <2>2, <3>1, AppendIsConcat
    <3> QED BY <2>2, <3>1, <3>2 DEF Delivered
  <2>5. ASSUME NEW g \in Underway' PROVE g \in Underway
    <3>1. CASE g[1] = n
      BY <2>2, <2>4, <3>1, OtherPacket
    <3>2. CASE g[1] # n
      <4>1. g[1] \in Node /\ g = <<g[1], g[2]>> /\ inbox'[g[1]] = inbox[g[1]]
        BY <2>3, <3>2, UnderwayPlacesNext DEF Shape
      <4> QED BY <4>1, UnderwayPlacesNext, UnderwayPlaces
    <3> QED BY <3>1, <3>2
  <2> QED BY <2>3, <2>5, NoNewGreetings
<1>5. CASE UNCHANGED vars \/ \E a \in Addrs : OpenSocket(a)
  <2>1. inbox' = inbox /\ starts' = starts
    BY <1>5 DEF vars, OpenSocket
  <2>2. Underway' = Underway
    BY <2>1 DEF Underway, Greetings
  <2> QED BY <2>1, <2>2 DEF Bounded
<1> QED BY <1>1, <1>2, <1>3, <1>4, <1>5 DEF Next

\* Although every greeting is answered by a greeting (ns.c:328), on a network of
\* any size no more of them are ever on their way than starts have sent.
THEOREM GreetingsStayFew == Spec => []GreetingsBounded
<1>1. Bounded => GreetingsBounded
  BY DEF Bounded, GreetingsBounded, Underway
<1>2. Init => Bounded
  <2> SUFFICES ASSUME Init PROVE Bounded
    OBVIOUS
  <2>1. Underway = {}
    BY DEF Init, Underway, Greetings
  <2>2. IsFiniteSet({}) /\ Cardinality({}) = 0
    BY FS_EmptySet
  <2>3. starts = 0 /\ Cardinality(Node) - 1 \in Int
    BY InitShape, BoundType DEF Init
  <2> QED BY <2>1, <2>2, <2>3 DEF Bounded
<1> QED BY <1>1, <1>2, InitShape, StepShape, StepBounded, PTL DEF Spec

-----------------------------------------------------------------------------
(* Lookups belong to open sockets.                                         *)

\* x reports that the socket at a was closed; x asks for a lookup for it.
Reports(x, a) == x.cmd = "del_client" /\ x.addr = a
Asks(x, a)    == x.cmd = "new_lookup" /\ x.from = a

Reported(q, a) == \E j \in DOMAIN q : Reports(q[j], a)

\* Behind every request of a stands a report of its close.
Doomed(q, a) == \A i \in DOMAIN q : Asks(q[i], a) =>
                  \E j \in DOMAIN q : j > i /\ Reports(q[j], a)

LEMMA ReportAppended ==
  ASSUME NEW S, NEW q \in Seq(S), NEW r \in Seq(S), NEW a
  PROVE  /\ Reported(q, a) \/ Reported(r, a) => Reported(q \o r, a)
         /\ Doomed(q, a) /\ (\A i \in DOMAIN r : ~ Asks(r[i], a)) => Doomed(q \o r, a)
<1> DEFINE u == q \o r
<1>1. /\ \A i \in DOMAIN q : i \in DOMAIN u /\ u[i] = q[i]
      /\ \A j \in DOMAIN r : Len(q) + j \in DOMAIN u /\ u[Len(q) + j] = r[j]
      /\ \A i \in DOMAIN u : \/ i \in DOMAIN q
                             \/ i - Len(q) \in DOMAIN r /\ u[i] = r[i - Len(q)]
  BY ConcatPositions
<1> HIDE DEF u
<1>2. Reported(q, a) \/ Reported(r, a) => Reported(u, a)
  BY <1>1 DEF Reported
<1>3. Doomed(q, a) /\ (\A i \in DOMAIN r : ~ Asks(r[i], a)) => Doomed(u, a)
  BY <1>1 DEF Doomed
<1> QED BY <1>2, <1>3 DEF u

LEMMA ReportDooms ==
  ASSUME NEW S, NEW q \in Seq(S), NEW x \in S, NEW a, Reports(x, a)
  PROVE  Doomed(q \o <<x>>, a) /\ Reported(q \o <<x>>, a)
<1> DEFINE u == q \o <<x>>
<1>1. /\ Len(q) \in Nat /\ DOMAIN q = 1..Len(q) /\ DOMAIN u = 1..(Len(q) + 1)
      /\ \A i \in DOMAIN q : u[i] = q[i]
      /\ u[Len(q) + 1] = x
  OBVIOUS
<1> HIDE DEF u
<1>2. ~ Asks(x, a)
  BY DEF Asks, Reports
<1>3. /\ Len(q) + 1 \in DOMAIN u
      /\ \A i \in DOMAIN u : i = Len(q) + 1 \/ (i \in DOMAIN q /\ Len(q) + 1 > i)
  BY <1>1
<1> QED BY <1>1, <1>2, <1>3 DEF Doomed, Reported, u

LEMMA ReportHandled ==
  ASSUME NEW S, NEW q \in Seq(S), q # << >>, NEW a
  PROVE  /\ Reported(q, a) => Reports(Head(q), a) \/ Reported(Tail(q), a)
         /\ Doomed(q, a) => Doomed(Tail(q), a) /\ (Asks(Head(q), a) => Reported(Tail(q), a))
<1> DEFINE r == Tail(q)
<1>1. /\ Head(q) = q[1] /\ 1 \in DOMAIN q /\ DOMAIN r \subseteq Nat \ {0}
      /\ \A i \in DOMAIN r : i + 1 \in DOMAIN q /\ r[i] = q[i + 1]
      /\ \A i \in DOMAIN q : i = 1 \/ (i - 1 \in DOMAIN r /\ q[i] = r[i - 1])
  BY TailPositions
<1>2. DOMAIN q \subseteq Nat
  BY LenProperties
<1> HIDE DEF r
<1>3. Reported(q, a) => Reports(Head(q), a) \/ Reported(r, a)
  BY <1>1 DEF Reported
<1>4. ASSUME Doomed(q, a), NEW i \in DOMAIN q, Asks(q[i], a)
      PROVE  \E j \in DOMAIN r : j > i - 1 /\ Reports(r[j], a)
  <2>1. PICK j \in DOMAIN q : j > i /\ Reports(q[j], a)
    BY <1>4 DEF Doomed
  <2>2. i \in Nat /\ j \in Nat /\ j # 1
    BY <1>1, <1>2, <2>1, LenProperties
  <2>3. j - 1 \in DOMAIN r /\ q[j] = r[j - 1] /\ j - 1 > i - 1
    BY <1>1, <2>1, <2>2
  <2> QED BY <2>1, <2>3
<1>5. Doomed(q, a) => Doomed(r, a)
  <2> SUFFICES ASSUME Doomed(q, a), NEW i \in DOMAIN r, Asks(r[i], a)
               PROVE  \E j \in DOMAIN r : j > i /\ Reports(r[j], a)
    BY DEF Doomed
  <2>1. i + 1 \in DOMAIN q /\ Asks(q[i + 1], a) /\ (i + 1) - 1 = i
    BY <1>1
  <2> QED BY <1>4, <2>1
<1>6. Doomed(q, a) /\ Asks(Head(q), a) => Reported(r, a)
  BY <1>1, <1>4 DEF Reported
<1> QED BY <1>3, <1>5, <1>6 DEF r

LEMMA ClosingIsReported == \A a : Closing(a) <=> Reported(inbox[a[1]], a)
BY DEF Closing, Reported, Reports

LEMMA ClosingIsReportedNext == \A a : Closing(a)' <=> Reported(inbox'[a[1]], a)
BY DEF Closing, Reported, Reports

\* What a closed socket asked for, handled or not, will be removed.
Forsaken ==
  \A a \in Addrs : a \notin open =>
    /\ Doomed(inbox[a[1]], a)
    /\ (\E l \in lookups[a[1]] : l.port = a[2]) => Closing(a)

LEMMA HandleLookups ==
  ASSUME Shape, NEW n \in Node, Handle(n), NEW l \in lookups'[n]
  PROVE  \/ l \in lookups[n] /\ ~ Reports(First(n), <<n, l.port>>)
         \/ Asks(First(n), <<n, l.port>>)
<1>1. CASE NewServer(n) \/ Hello(n)
  <2>1. lookups' = lookups /\ First(n).cmd # "del_client"
    BY <1>1, NewServerStep, HelloStep
  <2> QED BY <2>1 DEF Reports
<1>2. CASE DelServer(n) \/ DelClient(n)
  <2>1. PICK a \in Addrs :
           /\ First(n).cmd = "del_client" => First(n).addr = a /\ First(n).from = a
           /\ lookups' = [lookups EXCEPT ![n] =
                IF First(n).cmd = "del_client" THEN { i \in lookups[n] : <<n, i.port>> # a }
                                               ELSE lookups[n]]
    BY <1>2, RemoveStep
  <2> QED BY <2>1 DEF Shape, Reports
<1>3. CASE NewLookup(n)
  <2>1. PICK p \in Ports, f \in [service : Nat, instance : Nat] :
           /\ First(n).cmd = "new_lookup" /\ First(n).from = <<n, p>>
           /\ lookups' = [lookups EXCEPT ![n] = @ \cup
                {[port |-> p, service |-> f.service, instance |-> f.instance]}]
    BY <1>3, LookupStep
  <2> QED BY <2>1 DEF Shape, Reports, Asks
<1> QED BY <1>1, <1>2, <1>3 DEF Handle

LEMMA HandleForsaken == ASSUME Shape, Forsaken, NEW n \in Node, Handle(n) PROVE Forsaken'
<1>1. PICK out : Handled(n, out) /\ Posted(n, out)
  BY HandlePosts
<1>2. inbox[n] # << >> /\ open' = open /\ First(n) = Head(inbox[n])
  BY HandledHead DEF First
<1> SUFFICES ASSUME NEW a \in Addrs, a \notin open
    PROVE  /\ Doomed(inbox'[a[1]], a)
           /\ (\E l \in lookups'[a[1]] : l.port = a[2]) => Reported(inbox'[a[1]], a)
  BY <1>2, ClosingIsReportedNext DEF Forsaken
<1> DEFINE m == a[1]
<1>3. m \in Node /\ a = <<m, a[2]>>
  BY Constants
<1>4. /\ Doomed(inbox[m], a)
      /\ (\E l \in lookups[m] : l.port = a[2]) => Reported(inbox[m], a)
  BY ClosingIsReported DEF Forsaken
<1>5. CASE m = n
  <2>1. inbox'[m] = Tail(inbox[m]) /\ inbox[m] \in Seq(Mail(m))
    BY <1>1, <1>3, <1>5 DEF Handled, Shape
  <2> HIDE DEF Mail
  <2>2. /\ Reported(inbox[m], a) => Reports(First(n), a) \/ Reported(inbox'[m], a)
        /\ Doomed(inbox'[m], a) /\ (Asks(First(n), a) => Reported(inbox'[m], a))
    BY <1>2, <1>4, <1>5, <2>1, ReportHandled
  <2>3. ASSUME NEW l \in lookups'[m], l.port = a[2] PROVE Reported(inbox'[m], a)
    <3>1. (l \in lookups[n] /\ ~ Reports(First(n), a)) \/ Asks(First(n), a)
      BY <1>3, <1>5, <2>3, HandleLookups
    <3> QED BY <1>4, <1>5, <2>2, <2>3, <3>1
  <2> QED BY <2>2, <2>3
<1>6. CASE m # n
  <2> DEFINE q == inbox[m]
             d == Delivered(m, out[m])
  <2>1. lookups'[m] = lookups[m]
    BY <1>3, <1>6, HandleNotes
  <2>2. inbox'[m] = q \o d /\ q \in Seq(Mail(m)) /\ d \in Seq(Mail(m))
        /\ \A i \in DOMAIN d : d[i].cmd # "new_lookup"
    <3>1. inbox'[m] = q \o d
      BY <1>1, <1>3, <1>6 DEF Handled
    <3>2. q \in Seq(Mail(m))
      BY <1>3 DEF Shape
    <3>3. CASE m \in running
      <4>1. d = out[m] /\ d \in Seq(Mail(m))
            /\ \A i \in DOMAIN d : d[i].cmd \in {"hello", "new_server", "del_server"}
        BY <1>1, <1>3, <1>6, <3>3 DEF Posted, Delivered
      <4> HIDE DEF d
      <4> QED BY <3>1, <3>2, <4>1
    <3>4. CASE m \notin running
      <4>1. d = << >> /\ d \in Seq(Mail(m)) /\ DOMAIN << >> = {}
        BY <3>4, EmptySeq DEF Delivered
      <4> HIDE DEF d
      <4> QED BY <3>1, <3>2, <4>1
    <3> QED BY <3>3, <3>4
  <2>3. /\ Reported(q, a) => Reported(q \o d, a)
        /\ Doomed(q, a) => Doomed(q \o d, a)
    <3> HIDE DEF q, d, Mail
    <3>1. \A i \in DOMAIN d : ~ Asks(d[i], a)
      BY <2>2 DEF Asks
    <3> QED BY <2>2, <3>1, ReportAppended
  <2> QED BY <1>4, <2>1, <2>2, <2>3
<1> QED BY <1>5, <1>6

\* A step that only appends packets that ask for no closed socket.
LEMMA AppendForsaken ==
  ASSUME Shape, Forsaken, lookups' = lookups,
         NEW a \in Addrs, a \notin open, NEW r \in Seq(Mail(a[1])),
         inbox'[a[1]] \in {inbox[a[1]], inbox[a[1]] \o r},
         \A i \in DOMAIN r : ~ Asks(r[i], a)
  PROVE  /\ Doomed(inbox'[a[1]], a)
         /\ (\E l \in lookups'[a[1]] : l.port = a[2]) => Reported(inbox'[a[1]], a)
<1> DEFINE q == inbox[a[1]]
<1>1. q \in Seq(Mail(a[1]))
  BY Constants DEF Shape
<1>2. /\ Doomed(q, a)
      /\ (\E l \in lookups[a[1]] : l.port = a[2]) => Reported(q, a)
  BY ClosingIsReported DEF Forsaken
<1> HIDE DEF Mail, q
<1>3. Doomed(q \o r, a) /\ (Reported(q, a) => Reported(q \o r, a))
  BY <1>1, <1>2, ReportAppended
<1> QED BY <1>2, <1>3 DEF q

\* A step that leaves the queue and the lookups of a's node as they are.
LEMMA SameForsaken ==
  ASSUME Forsaken, NEW a \in Addrs, a \notin open,
         inbox'[a[1]] = inbox[a[1]], lookups'[a[1]] = lookups[a[1]]
  PROVE  /\ Doomed(inbox'[a[1]], a)
         /\ (\E l \in lookups'[a[1]] : l.port = a[2]) => Reported(inbox'[a[1]], a)
BY ClosingIsReported DEF Forsaken

LEMMA StartForsaken == ASSUME Shape, Forsaken, NEW n \in Node, Start(n) PROVE Forsaken'
<1>1. /\ \A k \in Node : inbox'[k] = inbox[k] \o Delivered(k, <<Greeting(n)>>)
      /\ UNCHANGED <<lookups, open>> /\ n \notin running
  BY DEF Start
<1> SUFFICES ASSUME NEW a \in Addrs, a \notin open
    PROVE  /\ Doomed(inbox'[a[1]], a)
           /\ (\E l \in lookups'[a[1]] : l.port = a[2]) => Reported(inbox'[a[1]], a)
  BY <1>1, ClosingIsReportedNext DEF Forsaken
<1>2. a[1] \in Node
  BY Constants
<1>3. CASE a[1] \in running
  <2>1. Greeting(n).cmd = "hello" /\ Greeting(n).from = Ctrl(n) /\ n # a[1]
    BY <1>1, <1>3, PacketFields DEF Greeting
  <2>2. Fits(Greeting(n), a[1])
    BY <2>1 DEF Fits
  <2>3. Ctrl(n) \in Node \X (Ports \cup {CtrlPort}) /\ Nothing.service \in Nat /\ Nothing.instance \in Nat
    BY DEF Ctrl, Nothing
  <2>4. Greeting(n) \in Mail(a[1])
    BY <1>2, <2>2, <2>3, IsMail DEF Greeting
  <2> HIDE DEF Mail
  <2>5. /\ <<Greeting(n)>> \in Seq(Mail(a[1]))
        /\ \A i \in DOMAIN <<Greeting(n)>> : ~ Asks(<<Greeting(n)>>[i], a)
    BY <2>1, <2>4 DEF Asks
  <2>6. inbox'[a[1]] = inbox[a[1]] \o <<Greeting(n)>>
    BY <1>1, <1>2, <1>3 DEF Delivered
  <2> QED BY <1>1, <2>5, <2>6, AppendForsaken
<1>4. CASE a[1] \notin running
  <2>1. inbox'[a[1]] = inbox[a[1]]
    BY <1>1, <1>2, <1>4, ConcatEmptySeq, EmptySeq DEF Delivered, Shape
  <2> QED BY <1>1, <2>1, SameForsaken
<1> QED BY <1>3, <1>4

LEMMA StopForsaken == ASSUME Shape, Forsaken, NEW n \in Node, Stop(n) PROVE Forsaken'
<1> SUFFICES ASSUME NEW a \in Addrs, a \notin open
    PROVE  /\ Doomed(inbox'[a[1]], a)
           /\ (\E l \in lookups'[a[1]] : l.port = a[2]) => Reported(inbox'[a[1]], a)
  BY ClosingIsReportedNext DEF Forsaken, Stop
<1>1. a[1] \in Node
  BY Constants
<1>2. CASE a[1] = n
  <2>1. inbox'[a[1]] = << >> /\ lookups'[a[1]] = {}
    BY <1>2 DEF Stop, Shape
  <2> QED BY <2>1 DEF Doomed
<1>3. CASE a[1] # n
  <2>1. inbox'[a[1]] = inbox[a[1]] /\ lookups'[a[1]] = lookups[a[1]]
    BY <1>1, <1>3 DEF Stop, Shape
  <2> QED BY <2>1, SameForsaken
<1> QED BY <1>2, <1>3

\* The report of a close is queued behind all that the socket has sent.
LEMMA CloseForsaken == ASSUME Shape, Forsaken, NEW b \in Addrs, CloseSocket(b) PROVE Forsaken'
<1> DEFINE x == Packet("del_client", b, b, Nothing)
<1>1. /\ \A k \in Node : inbox'[k] = inbox[k] \o Delivered(k, <<x>>)
      /\ open' = open \ {b} /\ lookups' = lookups
  BY DEF CloseSocket
<1>2. x.cmd = "del_client" /\ x.addr = b
  BY PacketFields
<1>3. ASSUME NEW k \in Node PROVE x \in Mail(k)
  <2>1. Fits(x, k)
    BY PacketFields DEF Fits
  <2>2. b \in Node \X (Ports \cup {CtrlPort}) /\ Nothing.service \in Nat /\ Nothing.instance \in Nat
    BY Constants DEF Nothing
  <2> QED BY <2>1, <2>2, IsMail
<1> HIDE DEF x, Mail
<1> SUFFICES ASSUME NEW a \in Addrs, a \notin open'
    PROVE  /\ Doomed(inbox'[a[1]], a)
           /\ (\E l \in lookups'[a[1]] : l.port = a[2]) => Reported(inbox'[a[1]], a)
  BY ClosingIsReportedNext DEF Forsaken
<1>4. a[1] \in Node /\ inbox[a[1]] \in Seq(Mail(a[1])) /\ x \in Mail(a[1])
  BY <1>3, Constants DEF Shape
<1>5. CASE a[1] \notin running
  <2>1. inbox'[a[1]] = << >> /\ lookups'[a[1]] = {}
    BY <1>1, <1>4, <1>5, ConcatEmptySeq, EmptySeq DEF Delivered, Shape
  <2> QED BY <2>1 DEF Doomed
<1>6. CASE a[1] \in running /\ a = b
  <2>1. inbox'[a[1]] = inbox[a[1]] \o <<x>> /\ Reports(x, a)
    BY <1>1, <1>2, <1>4, <1>6 DEF Delivered, Reports
  <2> QED BY <1>4, <2>1, ReportDooms
<1>7. CASE a[1] \in running /\ a # b
  <2>1. a \notin open /\ inbox'[a[1]] = inbox[a[1]] \o <<x>>
    BY <1>1, <1>4, <1>7 DEF Delivered
  <2>2. <<x>> \in Seq(Mail(a[1])) /\ \A i \in DOMAIN <<x>> : ~ Asks(<<x>>[i], a)
    BY <1>2, <1>4 DEF Asks
  <2> QED BY <1>1, <2>1, <2>2, AppendForsaken
<1> QED BY <1>5, <1>6, <1>7

LEMMA RequestForsaken ==
  ASSUME Shape, Forsaken, NEW b \in Addrs, NEW cmd, NEW srv, Request(cmd, b, srv),
         Packet(cmd, b, <<0, 0>>, srv) \in Mail(b[1])
  PROVE  Forsaken'
<1> DEFINE x == Packet(cmd, b, <<0, 0>>, srv)
<1>1. /\ inbox' = [inbox EXCEPT ![b[1]] = Append(@, x)]
      /\ b \in open /\ UNCHANGED <<lookups, open>>
  BY DEF Request
<1>2. x.from = b /\ x \in Mail(b[1])
  BY PacketFields
<1> HIDE DEF x, Mail
<1> SUFFICES ASSUME NEW a \in Addrs, a \notin open
    PROVE  /\ Doomed(inbox'[a[1]], a)
           /\ (\E l \in lookups'[a[1]] : l.port = a[2]) => Reported(inbox'[a[1]], a)
  BY <1>1, ClosingIsReportedNext DEF Forsaken
<1>3. a[1] \in Node /\ inbox[a[1]] \in Seq(Mail(a[1]))
  BY Constants DEF Shape
<1>4. CASE a[1] = b[1]
  <2>1. <<x>> \in Seq(Mail(a[1])) /\ \A i \in DOMAIN <<x>> : ~ Asks(<<x>>[i], a)
    BY <1>1, <1>2, <1>4 DEF Asks
  <2>2. inbox'[a[1]] = Append(inbox[a[1]], x)
    BY <1>1, <1>3, <1>4 DEF Shape
  <2>3. Append(inbox[a[1]], x) = inbox[a[1]] \o <<x>>
    BY <1>2, <1>3, <1>4, AppendIsConcat
  <2> QED BY <1>1, <2>1, <2>2, <2>3, AppendForsaken
<1>5. CASE a[1] # b[1]
  <2>1. inbox'[a[1]] = inbox[a[1]]
    BY <1>1, <1>3, <1>5 DEF Shape
  <2> QED BY <1>1, <2>1, SameForsaken
<1> QED BY <1>4, <1>5

LEMMA InitForsaken == Init => Forsaken
<1> SUFFICES ASSUME Init, NEW a \in Addrs PROVE Doomed(inbox[a[1]], a) /\ lookups[a[1]] = {}
  BY DEF Forsaken
<1>1. inbox[a[1]] = << >> /\ lookups[a[1]] = {}
  BY Constants DEF Init
<1> QED BY <1>1 DEF Doomed

LEMMA StepForsaken == Shape /\ Forsaken /\ [Next]_vars => Forsaken'
<1> SUFFICES ASSUME Shape, Forsaken, [Next]_vars PROVE Forsaken'
  OBVIOUS
<1>1. ASSUME NEW n \in Node, Handle(n) \/ Start(n) \/ Stop(n) PROVE Forsaken'
  BY <1>1, HandleForsaken, StartForsaken, StopForsaken
<1>2. ASSUME NEW a \in Addrs, CloseSocket(a) PROVE Forsaken'
  BY <1>2, CloseForsaken
<1>3. ASSUME NEW a \in Addrs,
             \/ Withdraw(a)
             \/ \E srv \in Offers[a] : Publish(a, srv)
             \/ \E f \in Filters[a] : AskLookup(a, f)
      PROVE  Forsaken'
  <2>1. PICK cmd \in {"new_server", "del_server", "new_lookup"},
             srv \in [service : Nat, instance : Nat] :
               Request(cmd, a, srv) /\ (cmd = "new_server" => srv \in Kept)
    BY <1>3, SocketRequest
  <2>2. Packet(cmd, a, <<0, 0>>, srv) \in Mail(a[1])
    BY <2>1, RequestMail
  <2> QED BY <2>1, <2>2, RequestForsaken
<1>4. CASE UNCHANGED vars \/ \E a \in Addrs : OpenSocket(a)
  BY <1>4 DEF vars, OpenSocket, Forsaken, Closing
<1> QED BY <1>1, <1>2, <1>3, <1>4 DEF Next

-----------------------------------------------------------------------------
(* Observers are told.                                                     *)

\* The test by which lookup l observes srv; ns.c writes it twice.
Watches(l, srv) == /\ l.service # 0 => l.service = srv.service
                   /\ l.instance # 0 => l.instance = srv.instance

LEMMA SameTests ==
  /\ \A n \in Node : \A l, srv : NS(n)!Observes(l, srv) <=> Watches(l, srv)
  /\ \A n \in Node, srv \in ServerRec, f \in [service : Nat, instance : Nat] :
       NS(n)!ServerMatch(srv, f) <=> Watches(f, srv)
<1>1. \A n \in Node : \A l, srv : NS(n)!Observes(l, srv) <=> Watches(l, srv)
  BY DEF NS!Observes, Watches
<1>2. ASSUME NEW n \in Node, NEW srv \in ServerRec, NEW f \in [service : Nat, instance : Nat]
      PROVE  NS(n)!ServerMatch(srv, f) <=> Watches(f, srv)
  BY DEF NS!ServerMatch, Watches, ServerRec
<1> QED BY <1>1, <1>2

\* An observer whose close is not on its way was told of all that node n has
\* registered and its lookup asks for.
Informed(n) ==
  \A l \in lookups[n] :
    <<n, l.port>> \in open /\ ~ Closing(<<n, l.port>>) =>
      \A a \in Addrs : registry[n][a] # NoServer /\ Watches(l, registry[n][a])
                       => [addr |-> a, server |-> registry[n][a]] \in told[n][l.port]

\* A step that leaves the lookups and the registry of node k as they are, takes
\* no report of a close from its queue, and tells all its open ports the same.
LEMMA StaysInformed ==
  ASSUME Forsaken, NEW k \in Node, Informed(k), lookups \in [Node -> SUBSET LookupRec],
         lookups'[k] = lookups[k], registry'[k] = registry[k],
         \A p \in Ports : Closing(<<k, p>>) => Closing(<<k, p>>)',
         \A p \in Ports : <<k, p>> \in open /\ <<k, p>> \in open' => told'[k][p] = told[k][p]
  PROVE  Informed(k)'
<1> SUFFICES ASSUME NEW l \in lookups[k], <<k, l.port>> \in open', ~ Closing(<<k, l.port>>)',
                    NEW a \in Addrs, registry[k][a] # NoServer, Watches(l, registry[k][a])
             PROVE  [addr |-> a, server |-> registry[k][a]] \in told'[k][l.port]
  BY DEF Informed, Watches
<1>1. l.port \in Ports /\ <<k, l.port>> \in Addrs /\ ~ Closing(<<k, l.port>>)
  BY Constants DEF LookupRec
<1>2. <<k, l.port>> \in open
  BY <1>1 DEF Forsaken
<1> QED BY <1>1, <1>2 DEF Informed

\* When the handling of a packet leaves a lookup, and no report of its port's
\* close is queued, none was queued before.
LEMMA StillWatched ==
  ASSUME Shape, NEW n \in Node, Handle(n), NEW l \in lookups'[n], ~ Closing(<<n, l.port>>)'
  PROVE  ~ Closing(<<n, l.port>>)
<1> DEFINE a == <<n, l.port>>
<1>1. inbox[n] # << >> /\ First(n) = Head(inbox[n])
  BY HandledHead DEF First
<1>2. inbox'[n] = Tail(inbox[n]) /\ inbox[n] \in Seq(Mail(n))
  <2>1. PICK out : Handled(n, out)
    BY HandledHead
  <2> QED BY <2>1 DEF Handled, Shape
<1>3. ~ Reports(First(n), a)
  BY HandleLookups DEF Reports, Asks
<1> HIDE DEF Mail
<1>4. Reported(inbox[n], a) => Reported(inbox'[n], a)
  BY <1>1, <1>2, <1>3, ReportHandled
<1> QED BY <1>4, ClosingIsReported, ClosingIsReportedNext

LEMMA HandleInforms ==
  ASSUME Shape, NEW n \in Node, Informed(n), Handle(n)
  PROVE  Informed(n)'
<1>1. open' = open
  BY HandledHead
<1> SUFFICES ASSUME NEW l \in lookups'[n], <<n, l.port>> \in open, ~ Closing(<<n, l.port>>)',
                    NEW b \in Addrs, registry'[n][b] # NoServer, Watches(l, registry'[n][b])
             PROVE  [addr |-> b, server |-> registry'[n][b]] \in told'[n][l.port]
  BY <1>1 DEF Informed, Watches
<1> DEFINE p == l.port
           e == [addr |-> b, server |-> registry'[n][b]]
<1>2. p \in Ports /\ ~ Closing(<<n, p>>)
  BY StillWatched, HandleNotes DEF LookupRec
<1>3. ASSUME l \in lookups[n], registry'[n][b] = registry[n][b] PROVE e \in told[n][p]
  BY <1>2, <1>3 DEF Informed
<1>4. told \in [Node -> [Ports -> SUBSET EntryRec]]
  BY DEF Shape
<1>5. CASE Hello(n)
  <2>1. UNCHANGED <<registry, lookups, told>>
    BY <1>5, HelloStep
  <2> QED BY <1>3, <2>1
<1>6. CASE NewServer(n)
  <2>1. PICK a \in Addrs, srv \in Kept :
           /\ registry' = [registry EXCEPT ![n][a] = srv]
           /\ told' = [told EXCEPT ![n] = NS(n)!TellNew(lookups[n], a, srv)]
           /\ lookups' = lookups
    BY <1>6, NewServerStep
  <2> DEFINE reached == NS(n)!Reached(lookups[n], srv)
  <2>2. told'[n][p] = IF p \in reached THEN told[n][p] \cup {[addr |-> a, server |-> srv]}
                                       ELSE told[n][p]
    <3>1. told'[n] = NS(n)!TellNew(lookups[n], a, srv)
      BY <1>4, <2>1
    <3> QED BY <1>2, <3>1 DEF NS!TellNew
  <2>3. CASE b = a
    <3>1. registry'[n][b] = srv
      BY <2>1, <2>3 DEF Shape
    <3>2. NS(n)!Observes(l, srv)
      BY <3>1, SameTests
    <3>3. p \in reached
      BY <1>2, <2>1, <3>2, AsNameServer DEF NS!Reached
    <3> HIDE DEF reached
    <3> QED BY <2>2, <2>3, <3>1, <3>3
  <2>4. CASE b # a
    <3>1. registry'[n][b] = registry[n][b]
      BY <2>1, <2>4 DEF Shape
    <3> HIDE DEF reached
    <3> QED BY <1>3, <2>1, <2>2, <3>1
  <2> QED BY <2>3, <2>4
<1>7. CASE DelServer(n) \/ DelClient(n)
  <2>1. PICK a \in Addrs :
           /\ lookups' = [lookups EXCEPT ![n] =
                IF First(n).cmd = "del_client" THEN { i \in lookups[n] : <<n, i.port>> # a }
                                               ELSE lookups[n]]
           /\ Unregister(n, a, lookups'[n])
    BY <1>7, RemoveStep
  <2>2. /\ registry' = [registry EXCEPT ![n][a] = NoServer]
        /\ told' = [told EXCEPT ![n] =
             NS(n)!TellGone(lookups'[n], IF registry[n][a] # NoServer THEN {a} ELSE {})]
    BY <2>1 DEF Unregister
  <2>3. b # a /\ registry'[n][b] = registry[n][b] /\ l \in lookups[n]
    BY <2>1, <2>2 DEF Shape
  <2>4. told[n][p] \ {[addr |-> a, server |-> registry[n][a]]} \subseteq told'[n][p]
    <3> DEFINE gone == IF registry[n][a] # NoServer THEN {a} ELSE {}
    <3>1. told'[n] = NS(n)!TellGone(lookups'[n], gone)
      BY <1>4, <2>2
    <3>2. gone \subseteq {a}
      OBVIOUS
    <3> HIDE DEF gone
    <3>3. told'[n][p] = told[n][p] \ { NS(n)!EntryOf(c) :
             c \in { d \in gone : p \in NS(n)!Reached(lookups'[n], registry[n][d]) } }
      BY <1>2, <3>1 DEF NS!TellGone
    <3>4. NS(n)!EntryOf(a) = [addr |-> a, server |-> registry[n][a]]
      BY AsNameServer
    <3> QED BY <3>2, <3>3, <3>4
  <2>5. e # [addr |-> a, server |-> registry[n][a]]
    BY <2>3
  <2> HIDE DEF e
  <2> QED BY <1>3, <2>3, <2>4, <2>5 DEF e
<1>8. CASE NewLookup(n)
  <2>1. PICK r \in Ports, f \in [service : Nat, instance : Nat] :
           /\ lookups' = [lookups EXCEPT ![n] = @ \cup
                {[port |-> r, service |-> f.service, instance |-> f.instance]}]
           /\ <<n, r>> \notin open => told' = told
           /\ <<n, r>> \in open =>
                told' = [told EXCEPT ![n][r] =
                          { x \in @ : ~ NS(n)!ServerMatch(x.server, f) }
                            \cup { [addr |-> a, server |-> registry[n][a]] :
                                   a \in { c \in Addrs : /\ registry[n][c] # NoServer
                                                         /\ NS(n)!ServerMatch(registry[n][c], f) } }]
           /\ registry' = registry
    BY <1>8, LookupStep
  <2> DEFINE srv == registry[n][b]
  <2>2. srv \in ServerRec /\ registry'[n][b] = srv
    BY <2>1, Constants DEF Shape
  <2>3. CASE r # p
    <3>1. told'[n][p] = told[n][p] /\ l \in lookups[n]
      BY <1>2, <1>4, <2>1, <2>3 DEF Shape
    <3> QED BY <1>3, <2>2, <3>1
  <2>4. CASE r = p
    <3>1. told'[n][p] = { x \in told[n][p] : ~ NS(n)!ServerMatch(x.server, f) }
                          \cup { [addr |-> a, server |-> registry[n][a]] :
                                 a \in { c \in Addrs : /\ registry[n][c] # NoServer
                                                       /\ NS(n)!ServerMatch(registry[n][c], f) } }
      BY <1>2, <1>4, <2>1, <2>4
    <3>2. CASE NS(n)!ServerMatch(srv, f)
      BY <2>2, <3>1, <3>2
    <3>3. CASE ~ NS(n)!ServerMatch(srv, f)
      <4>1. ~ Watches(f, srv)
        BY <2>2, <3>3, SameTests
      <4>2. l \in lookups[n]
        BY <2>1, <2>2, <4>1 DEF Shape, Watches
      <4>3. e \in told[n][p] /\ e.server = srv
        BY <1>3, <2>2, <4>2
      <4> HIDE DEF e
      <4> QED BY <3>1, <3>3, <4>3 DEF e
    <3> QED BY <3>2, <3>3
  <2> QED BY <2>3, <2>4
<1> QED BY <1>5, <1>6, <1>7, <1>8 DEF Handle

\* What a step appends to node k's queue takes no report of a close from it.
LEMMA ReportsStay ==
  ASSUME Shape, NEW k \in Node, NEW r,
         \/ inbox'[k] = inbox[k]
         \/ r \in Seq(Mail(k)) /\ inbox'[k] = inbox[k] \o Delivered(k, r)
  PROVE  \A p \in Ports : Closing(<<k, p>>) => Closing(<<k, p>>)'
<1> TAKE p \in Ports
<1>1. CASE inbox'[k] = inbox[k]
  BY <1>1, ClosingIsReported, ClosingIsReportedNext
<1>2. CASE r \in Seq(Mail(k)) /\ inbox'[k] = inbox[k] \o Delivered(k, r)
  <2> DEFINE a == <<k, p>>
  <2>1. a \in Addrs /\ a[1] = k
    BY Constants
  <2> HIDE DEF a
  <2>2. Closing(a) => Closing(a)'
    BY <1>2, <2>1, ClosingAppended
  <2> QED BY <2>2 DEF a
<1> QED BY <1>1, <1>2

LEMMA HandleInformed ==
  ASSUME Shape, Forsaken, \A k \in Node : Informed(k), NEW n \in Node, Handle(n), NEW k \in Node
  PROVE  Informed(k)'
<1>1. CASE k = n
  BY <1>1, HandleInforms
<1>2. CASE k # n
  <2>1. PICK out : Handled(n, out) /\ Posted(n, out)
    BY HandlePosts
  <2>2. out[k] \in Seq(Mail(k)) /\ inbox'[k] = inbox[k] \o Delivered(k, out[k])
    BY <1>2, <2>1 DEF Handled, Posted
  <2>3. \A p \in Ports : Closing(<<k, p>>) => Closing(<<k, p>>)'
    BY <2>2, ReportsStay
  <2>4. /\ lookups'[k] = lookups[k] /\ told'[k] = told[k] /\ registry'[k] = registry[k]
        /\ lookups \in [Node -> SUBSET LookupRec]
    BY <1>2, HandleNotes, HandleRegistry DEF Shape
  <2> QED BY <2>3, <2>4, StaysInformed
<1> QED BY <1>1, <1>2

LEMMA StepInformed ==
  ASSUME Shape, Forsaken, \A k \in Node : Informed(k), [Next]_vars, NEW k \in Node
  PROVE  Informed(k)'
<1>1. lookups \in [Node -> SUBSET LookupRec] /\ told \in [Node -> [Ports -> SUBSET EntryRec]]
  BY DEF Shape
<1>2. ASSUME NEW n \in Node, Handle(n) PROVE Informed(k)'
  BY <1>2, HandleInformed
<1>3. ASSUME NEW n \in Node, Start(n) PROVE Informed(k)'
  <2>1. inbox'[k] = inbox[k] \o Delivered(k, <<Greeting(n)>>) /\ n \notin running
        /\ UNCHANGED <<registry, lookups, told>>
    BY <1>3 DEF Start
  <2>2. CASE k \in running
    <3>1. Greeting(n).cmd = "hello" /\ Greeting(n).from = Ctrl(n) /\ n # k
      BY <2>1, <2>2, PacketFields DEF Greeting
    <3>2. Fits(Greeting(n), k)
      BY <3>1 DEF Fits
    <3>3. Ctrl(n) \in Node \X (Ports \cup {CtrlPort}) /\ Nothing.service \in Nat /\ Nothing.instance \in Nat
      BY DEF Ctrl, Nothing
    <3>4. Greeting(n) \in Mail(k)
      BY <3>2, <3>3, IsMail DEF Greeting
    <3> HIDE DEF Mail
    <3>5. <<Greeting(n)>> \in Seq(Mail(k))
      BY <3>4
    <3>6. \A p \in Ports : Closing(<<k, p>>) => Closing(<<k, p>>)'
      BY <2>1, <3>5, ReportsStay
    <3> QED BY <1>1, <2>1, <3>6, StaysInformed
  <2>3. CASE k \notin running
    <3>1. lookups'[k] = {}
      BY <2>1, <2>3 DEF Shape
    <3> QED BY <3>1 DEF Informed
  <2> QED BY <2>2, <2>3
<1>4. ASSUME NEW n \in Node, Stop(n) PROVE Informed(k)'
  <2>1. CASE k = n
    <3>1. lookups'[k] = {}
      BY <1>1, <1>4, <2>1 DEF Stop
    <3> QED BY <3>1 DEF Informed
  <2>2. CASE k # n
    <3>1. inbox'[k] = inbox[k] /\ registry'[k] = registry[k] /\ lookups'[k] = lookups[k] /\ told' = told
      BY <1>4, <2>2 DEF Stop, Shape
    <3>2. \A p \in Ports : Closing(<<k, p>>) => Closing(<<k, p>>)'
      BY <3>1, ReportsStay
    <3> QED BY <1>1, <3>1, <3>2, StaysInformed
  <2> QED BY <2>1, <2>2
<1>5. ASSUME NEW b \in Addrs, CloseSocket(b) PROVE Informed(k)'
  <2> DEFINE x == Packet("del_client", b, b, Nothing)
  <2>1. /\ inbox'[k] = inbox[k] \o Delivered(k, <<x>>)
        /\ open' = open \ {b} /\ told' = [told EXCEPT ![b[1]][b[2]] = {}]
        /\ UNCHANGED <<registry, lookups>>
    BY <1>5 DEF CloseSocket
  <2>2. x \in Mail(k)
    <3>1. Fits(x, k)
      BY PacketFields DEF Fits
    <3>2. b \in Node \X (Ports \cup {CtrlPort}) /\ Nothing.service \in Nat /\ Nothing.instance \in Nat
      BY Constants DEF Nothing
    <3> QED BY <3>1, <3>2, IsMail
  <2> HIDE DEF x, Mail
  <2>3. <<x>> \in Seq(Mail(k))
    BY <2>2
  <2>4. \A p \in Ports : Closing(<<k, p>>) => Closing(<<k, p>>)'
    BY <2>1, <2>3, ReportsStay
  <2>5. \A p \in Ports : <<k, p>> # b => told'[k][p] = told[k][p]
    BY <1>1, <2>1, Constants
  <2> QED BY <1>1, <2>1, <2>4, <2>5, StaysInformed
<1>6. ASSUME NEW a \in Addrs,
             \/ Withdraw(a)
             \/ \E srv \in Offers[a] : Publish(a, srv)
             \/ \E f \in Filters[a] : AskLookup(a, f)
      PROVE  Informed(k)'
  <2>1. PICK cmd \in {"new_server", "del_server", "new_lookup"},
             srv \in [service : Nat, instance : Nat] :
               Request(cmd, a, srv) /\ (cmd = "new_server" => srv \in Kept)
    BY <1>6, SocketRequest
  <2> DEFINE x == Packet(cmd, a, <<0, 0>>, srv)
  <2>2. x \in Mail(a[1]) /\ a[1] \in Node
    BY <2>1, RequestMail, Constants
  <2>3. /\ inbox' = [inbox EXCEPT ![a[1]] = Append(@, x)] /\ a[1] \in running
        /\ UNCHANGED <<registry, lookups, told>>
    BY <2>1 DEF Request
  <2> HIDE DEF x, Mail
  <2>4. CASE k = a[1]
    <3>1. <<x>> \in Seq(Mail(k)) /\ inbox[k] \in Seq(Mail(k))
      BY <2>2, <2>4 DEF Shape
    <3>2. inbox'[k] = inbox[k] \o Delivered(k, <<x>>)
      <4>1. inbox'[k] = Append(inbox[k], x)
        BY <2>3, <2>4 DEF Shape
      <4>2. Append(inbox[k], x) = inbox[k] \o <<x>>
        BY <2>2, <2>4, <3>1, AppendIsConcat
      <4> QED BY <2>3, <2>4, <4>1, <4>2 DEF Delivered
    <3>3. \A p \in Ports : Closing(<<k, p>>) => Closing(<<k, p>>)'
      BY <3>1, <3>2, ReportsStay
    <3> QED BY <1>1, <2>3, <3>3, StaysInformed
  <2>5. CASE k # a[1]
    <3>1. inbox'[k] = inbox[k]
      BY <2>3, <2>5 DEF Shape
    <3>2. \A p \in Ports : Closing(<<k, p>>) => Closing(<<k, p>>)'
      BY <3>1, ReportsStay
    <3> QED BY <1>1, <2>3, <3>2, StaysInformed
  <2> QED BY <2>4, <2>5
<1>7. CASE UNCHANGED vars \/ \E a \in Addrs : OpenSocket(a)
  <2>1. inbox' = inbox /\ UNCHANGED <<registry, lookups, told>>
    BY <1>7 DEF vars, OpenSocket
  <2>2. \A p \in Ports : Closing(<<k, p>>) => Closing(<<k, p>>)'
    BY <2>1, ReportsStay
  <2> QED BY <1>1, <2>1, <2>2, StaysInformed
<1> QED BY <1>2, <1>3, <1>4, <1>5, <1>6, <1>7 DEF Next

\* On every node of the network, through closes that race with what the socket
\* had asked for, ports that are opened again, and name servers that stop: a
\* lookup of a closed socket stays only while the report of its close is queued
\* (ns.c:402), and an observer was told of every server registered at its node,
\* also of those that another node announced (ns.c:465-480, 529-553).
THEOREM EveryNodeServes == Spec => []ObserversServed
<1> DEFINE Served == \A n \in Node : Informed(n)
<1>1. Init => Served
  BY DEF Init, Informed
<1>2. Shape /\ Forsaken /\ Served /\ [Next]_vars => Served'
  BY StepInformed
<1>3. Shape /\ Forsaken /\ Served => ObserversServed
  <2> SUFFICES ASSUME Shape, Forsaken, Served, NEW n \in running
               PROVE  NS(n)!LookupsOwned /\ NS(n)!ToldComplete
    BY DEF ObserversServed
  <2>1. n \in Node /\ Informed(n) /\ lookups[n] \subseteq LookupRec /\ inbox[n] \in Seq(Mail(n))
    BY DEF Shape
  <2>2. ASSUME NEW a \in Addrs, a[1] = n PROVE NS(n)!Closing(a) <=> Closing(a)
    <3>1. \A i \in DOMAIN inbox[n] : inbox[n][i] \in Mail(n)
      <4> HIDE DEF Mail
      <4>1. DOMAIN inbox[n] = 1..Len(inbox[n])
        BY <2>1, LenProperties
      <4> QED BY <2>1, <4>1, ElementOfSeq
    <3>2. ASSUME NEW i \in DOMAIN inbox[n], inbox[n][i].cmd = "del_client"
          PROVE  NS(n)!Affects(inbox[n][i], a) <=> inbox[n][i].addr = a
      <4>1. inbox[n][i].from = inbox[n][i].addr
        BY <2>1, <3>1, <3>2, MailFields DEF Fits
      <4> QED BY <2>2, <3>2, <4>1 DEF NS!Affects
    <3> QED BY <2>2, <3>2 DEF NS!Closing, Closing
  <2>3. \A l \in lookups[n] : /\ NS(n)!Local(l.port) = <<n, l.port>>
                              /\ <<n, l.port>> \in Addrs /\ <<n, l.port>>[1] = n
                              /\ NS(n)!Closing(<<n, l.port>>) <=> Closing(<<n, l.port>>)
    <3>1. \A l \in lookups[n] : l.port \in Ports
      BY <2>1 DEF LookupRec
    <3>2. \A p \in Ports : <<n, p>> \in Addrs /\ <<n, p>>[1] = n
      BY <2>1, Constants
    <3> QED BY <2>1, <2>2, <3>1, <3>2, AsNameServer
  <2>4. NS(n)!LookupsOwned
    <3>1. \A l \in lookups[n] : <<n, l.port>> \in open \/ Closing(<<n, l.port>>)
      BY <2>3 DEF Forsaken
    <3> QED BY <2>3, <3>1 DEF NS!LookupsOwned
  <2>5. NS(n)!ToldComplete
    <3> SUFFICES ASSUME NEW l \in lookups[n], NS(n)!Local(l.port) \in open,
                        ~ NS(n)!Closing(NS(n)!Local(l.port)),
                        NEW a \in NS(n)!Addrs, NS(n)!Registered(a), NS(n)!Observes(l, registry[n][a])
                 PROVE  NS(n)!EntryOf(a) \in told[n][l.port]
      BY DEF NS!ToldComplete
    <3>1. a \in Addrs /\ NS(n)!EntryOf(a) = [addr |-> a, server |-> registry[n][a]]
      BY <2>1, AsNameServer
    <3>2. registry[n][a] # NoServer
      BY DEF NS!Registered
    <3>3. Watches(l, registry[n][a])
      BY <2>1, SameTests
    <3> QED BY <2>1, <2>3, <3>1, <3>2, <3>3 DEF Informed
  <2> QED BY <2>4, <2>5
<1> HIDE DEF Served
<1> QED BY <1>1, <1>2, <1>3, InitShape, StepShape, InitForsaken, StepForsaken, PTL DEF Spec
=============================================================================
