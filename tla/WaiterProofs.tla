---------------------------- MODULE WaiterProofs ----------------------------
(***************************************************************************)
(* The event loop, for any number of tickets, any intervals and any growth *)
(* step: its poll set is always large enough, its list and its counter     *)
(* agree, and waiter_synchronize leaves timeouts alike due together.       *)
(***************************************************************************)
EXTENDS Waiter, SequenceTheorems, ListLemmas

\* Multiples of k leave no remainder, and another k later comes the next one.
LEMMA MultipleRemainder ==
  ASSUME NEW q \in Int, NEW k \in Nat \ {0}
  PROVE  (k * q) % k = 0
  BY SMT

LEMMA NextMultiple ==
  ASSUME NEW c \in Int, NEW k \in Nat \ {0}, c % k = 0
  PROVE  (c + k) % k = 0
<1> DEFINE q == c \div k
<1>1. q \in Int /\ c = k * q + (c % k)
  BY SMT
<1> HIDE DEF q
<1>2. c + k = k * (q + 1)
  BY <1>1, SMT
<1>3. (k * (q + 1)) % k = 0
  BY <1>1, MultipleRemainder
<1> QED
  BY <1>2, <1>3

\* Room for n tickets in a poll set of s entries, until the next growth: it was
\* created for `top` tickets, a multiple of Chunk, and one more.
Room(n, s) ==
  \/ s = 0 /\ n <= 0
  \/ \E top \in Int : top % Chunk = 0 /\ s = top + 1 /\ n <= top

IInv ==
  /\ count \in Int /\ size \in Int /\ waiting \in BOOLEAN
  /\ Room(Added, size)

LEMMA RoomFits ==
  ASSUME NEW n \in Int, NEW s \in Int, Room(n, s)
  PROVE  n <= s
  BY DEF Room

LEMMA RoomForLess ==
  ASSUME NEW n \in Int, NEW s \in Int, Room(n, s), NEW m \in Int, m <= n
  PROVE  Room(m, s)
  BY DEF Room

\* A full poll set is replaced, any other has a place for one more ticket.
LEMMA RoomForNew ==
  ASSUME NEW n \in Int, NEW s \in Int, n % Chunk = 0
  PROVE  Room(n + 1, n + Chunk + 1)
<1>1. Chunk \in Nat \ {0}
  BY WaiterConstants
<1>2a. (n + Chunk) % Chunk = 0
  BY <1>1, NextMultiple
<1>2b. n + Chunk \in Int
  BY <1>1
<1>3. n + Chunk + 1 = (n + Chunk) + 1 /\ n + 1 <= n + Chunk
  BY <1>1
<1> QED
  BY <1>2a, <1>2b, <1>3 DEF Room

LEMMA RoomForOneMore ==
  ASSUME NEW n \in Int, NEW s \in Int, Room(n, s), n % Chunk # 0
  PROVE  Room(n + 1, s)
<1>0. Chunk \in Nat \ {0}
  BY WaiterConstants
<1>1. CASE s = 0 /\ n <= 0
  <2>1. Chunk * 0 = 0 /\ 0 \in Int
    BY <1>0
  <2>2. 0 % Chunk = 0
    BY <1>0, <2>1, MultipleRemainder
  <2>3. n # 0
    BY <2>2
  <2>4. n + 1 <= 0
    BY <1>1, <2>3
  <2> QED
    BY <1>1, <2>4 DEF Room
<1>2. CASE \E top \in Int : top % Chunk = 0 /\ s = top + 1 /\ n <= top
  <2>1. PICK top \in Int : top % Chunk = 0 /\ s = top + 1 /\ n <= top
    BY <1>2
  <2>2. n # top
    BY <2>1
  <2>3. n + 1 <= top
    BY <2>1, <2>2
  <2> QED
    BY <2>1, <2>3 DEF Room
<1> QED
  BY <1>1, <1>2 DEF Room

LEMMA InitRoom == Init => IInv
<1> SUFFICES ASSUME Init PROVE IInv
  OBVIOUS
<1>1. count = 0 /\ size = 0 /\ waiting = FALSE
  BY DEF Init
<1>2. Added = 0
  BY <1>1 DEF Added
<1>3. Room(0, 0)
  BY DEF Room
<1>4. waiting \in BOOLEAN
  BY <1>1
<1>5. 0 \in Int
  OBVIOUS
<1> QED
  BY <1>1, <1>2, <1>3, <1>4, <1>5 DEF IInv

LEMMA AddedTypes == ASSUME IInv PROVE Added \in Int
<1>1. CASE waiting
  BY <1>1 DEF IInv, Added
<1>2. CASE ~ waiting
  BY <1>2 DEF IInv, Added
<1> QED
  BY <1>1, <1>2

LEMMA AddRoom ==
  ASSUME IInv, NEW t, NEW type, NEW arg, Add(t, type, arg)
  PROVE  IInv'
<1>1. /\ waiting = FALSE /\ waiting' = FALSE
  BY DEF Add, IInv
<1>2. count' = count + 1 /\ size' = Grown /\ count \in Int /\ size \in Int
  BY DEF Add, IInv
<1>3. Added = count /\ Added' = count + 1
  BY <1>1, <1>2 DEF Added
<1>4. Chunk \in Nat
  BY WaiterConstants
<1>5. Room(count, size)
  BY <1>3 DEF IInv
<1>6. waiting' \in BOOLEAN
  BY <1>1
<1>7. CASE count % Chunk = 0
  <2>1. size' = count + Chunk + 1
    BY <1>2, <1>7 DEF Grown
  <2>2. Room(count + 1, size')
    BY <1>2, <1>7, <2>1, RoomForNew
  <2>3. count' \in Int /\ size' \in Int
    BY <1>2, <1>4, <2>1
  <2> QED
    BY <1>3, <1>6, <2>2, <2>3 DEF IInv
<1>8. CASE count % Chunk # 0
  <2>1. size' = size
    BY <1>2, <1>8 DEF Grown
  <2>2. Room(count + 1, size')
    BY <1>2, <1>5, <1>8, <2>1, RoomForOneMore
  <2>3. count' \in Int /\ size' \in Int
    BY <1>2, <2>1
  <2> QED
    BY <1>3, <1>6, <2>2, <2>3 DEF IInv
<1> QED
  BY <1>7, <1>8

\* Steps that add no ticket of the program keep the poll set and its room.
LEMMA KeepRoom ==
  ASSUME IInv, size' = size, count' \in Int, waiting' \in BOOLEAN,
         Added' \in Int, Added' <= Added
  PROVE  IInv'
<1>1. Added \in Int /\ size \in Int /\ Room(Added, size)
  BY AddedTypes DEF IInv
<1>2. Room(Added', size)
  BY <1>1, RoomForLess
<1> QED
  BY <1>1, <1>2 DEF IInv

LEMMA SameRoom ==
  ASSUME IInv, UNCHANGED <<count, size, waiting>>
  PROVE  IInv'
  BY DEF IInv, Added

\* A return from waiter_wait removes the temporary ticket, if there is one.
LEMMA ReturnRoom ==
  ASSUME IInv, size' = size, waiting' = FALSE,
         count' = IF waiting THEN count - 1 ELSE count
  PROVE  IInv'
<1>0. count \in Int
  BY DEF IInv
<1>3. waiting' \in BOOLEAN
  OBVIOUS
<1>1. CASE waiting
  <2>1. count' = count - 1 /\ Added = count - 1 /\ Added' = count'
    BY <1>1 DEF Added
  <2>2. count' \in Int /\ Added' \in Int /\ Added' <= Added
    BY <1>0, <2>1
  <2> QED
    BY <1>3, <2>2, KeepRoom
<1>2. CASE ~ waiting
  <2>1. count' = count /\ Added = count /\ Added' = count'
    BY <1>2 DEF Added
  <2>2. count' \in Int /\ Added' \in Int /\ Added' <= Added
    BY <1>0, <2>1
  <2> QED
    BY <1>3, <2>2, KeepRoom
<1> QED
  BY <1>1, <1>2

LEMMA NextRoom == IInv /\ [Next]_vars => IInv'
<1> SUFFICES ASSUME IInv, [Next]_vars PROVE IInv'
  OBVIOUS
<1>0. count \in Int /\ size \in Int
  BY DEF IInv
<1>1. CASE \E t \in Tickets, k \in Kinds : Add(t, k[1], k[2])
  BY <1>1, AddRoom
<1>2. CASE \E t \in Tickets, k \in Kinds : Set(t, k[1], k[2])
  BY <1>2, SameRoom DEF Set
<1>3. CASE \E t \in Tickets : Delete(t)
  <2>1. /\ waiting = FALSE /\ waiting' = FALSE
        /\ count' = count - 1 /\ size' = size
    BY <1>3 DEF Delete, IInv
  <2>2. Added = count /\ Added' = count - 1
    BY <2>1 DEF Added
  <2>3. count' \in Int /\ Added' \in Int /\ Added' <= Added
    BY <1>0, <2>1, <2>2
  <2>4. waiting' \in BOOLEAN /\ size' = size
    BY <2>1
  <2> QED
    BY <2>3, <2>4, KeepRoom
<1>4. CASE \E t \in Tickets : Clear(t)
  BY <1>4, SameRoom DEF Clear
<1>5. CASE \E ms \in Intervals : WaitTimeout(ms)
  <2>1. /\ waiting = FALSE /\ waiting' = TRUE
        /\ count' = count + 1 /\ size' = size
    BY <1>5 DEF WaitTimeout, IInv
  <2>2. Added = count /\ Added' = (count + 1) - 1
    BY <2>1 DEF Added
  <2>3. count' \in Int /\ Added' \in Int /\ Added' <= Added
    BY <1>0, <2>1, <2>2
  <2>4. waiting' \in BOOLEAN /\ size' = size
    BY <2>1
  <2> QED
    BY <2>3, <2>4, KeepRoom
<1>6. CASE Synchronize
  <2>1. UNCHANGED <<count, size, waiting>>
    BY <1>6 DEF Synchronize
  <2> QED
    BY <2>1, SameRoom
<1>7. CASE Wait
  <2>1. PICK cause : Return(cause)
    BY <1>7 DEF Wait
  <2> QED
    BY <2>1, ReturnRoom DEF Return
<1>8. CASE Interrupted
  <2>1. /\ size' = size /\ waiting' = FALSE
        /\ count' = IF waiting THEN count - 1 ELSE count
    BY <1>8 DEF Interrupted
  <2> QED
    BY <2>1, ReturnRoom
<1>9. CASE Tick
  BY <1>9, SameRoom DEF Tick
<1>10. CASE \E f \in Fds : Arrive(f)
  BY <1>10, SameRoom DEF Arrive
<1>11. CASE UNCHANGED vars
  BY <1>11, SameRoom DEF vars
<1> QED
  BY <1>1, <1>2, <1>3, <1>4, <1>5, <1>6, <1>7, <1>8, <1>9, <1>10, <1>11 DEF Next

\* pollset_add_fd never writes beyond the poll set (waiter.c:67-73 and 301-323),
\* for any growth step and any number of tickets.
THEOREM PollsetNeverOverflows == Spec => []PollsetFits
<1>1. IInv /\ [Next]_vars => IInv'
  BY NextRoom
<1>2. IInv => PollsetFits
  BY AddedTypes, RoomFits DEF IInv, PollsetFits
<1> QED
  BY InitRoom, <1>1, <1>2, PTL DEF Spec

-----------------------------------------------------------------------------
(* The list of tickets.                                                    *)

\* What a ticket may be, and the list: no ticket twice, counted by w->count,
\* the temporary one in it during waiter_wait_timeout.
TicketType ==
  [type : {"null", "fd", "timeout"}, arg : Fds \cup Intervals \cup {0},
   age : 0..MaxAge, updated : BOOLEAN]

ListOK ==
  /\ tickets \in Seq(AnyTicket) /\ IsInjective(tickets)
  /\ count = Len(tickets) /\ (Temp \in Listed <=> waiting)

\* The parts of the type invariant, now and after a step.
LEMMA TypeParts ==
  TypeOK <=> /\ ListOK /\ count \in Nat
             /\ ticket \in [AnyTicket -> TicketType]
             /\ size \in Nat /\ pending \in [Fds -> 0..MaxPending] /\ waiting \in BOOLEAN
  BY DEF TypeOK, ListOK, TicketType

LEMMA TypePartsNext ==
  ( TypeOK <=> /\ ListOK /\ count \in Nat
               /\ ticket \in [AnyTicket -> TicketType]
               /\ size \in Nat /\ pending \in [Fds -> 0..MaxPending] /\ waiting \in BOOLEAN )'
  BY DEF TypeOK, ListOK, TicketType

\* A ticket listed is at one position of the list.
LEMMA Positions ==
  ASSUME tickets \in Seq(AnyTicket)
  PROVE  /\ Len(tickets) \in Nat /\ DOMAIN tickets = 1..Len(tickets)
         /\ \A i \in 1..Len(tickets) : tickets[i] \in AnyTicket /\ tickets[i] \in Listed
         /\ \A t \in Listed : \E i \in 1..Len(tickets) : tickets[i] = t
<1>1. Len(tickets) \in Nat /\ DOMAIN tickets = 1..Len(tickets)
      /\ tickets \in [1..Len(tickets) -> AnyTicket]
  BY LenProperties
<1> QED BY <1>1 DEF Listed, ToSet

LEMMA AppendToList ==
  ASSUME tickets \in Seq(AnyTicket), IsInjective(tickets), NEW t \in AnyTicket \ Listed
  PROVE  LET u == Append(tickets, t)
         IN  /\ u \in Seq(AnyTicket) /\ IsInjective(u)
             /\ Len(u) = Len(tickets) + 1
             /\ ToSet(u) = Listed \cup {t}
<1> DEFINE u == Append(tickets, t)
           n == Len(tickets)
<1>1. /\ u \in Seq(AnyTicket) /\ Len(u) = n + 1
      /\ \A i \in 1..n : u[i] = tickets[i]
      /\ u[n + 1] = t
  BY AppendProperties
<1>2. n \in Nat /\ DOMAIN u = 1..(n + 1)
  BY <1>1, LenProperties
<1>3. \A i \in 1..(n + 1) : i \in 1..n \/ i = n + 1
  BY <1>2
<1>4. /\ DOMAIN tickets = 1..n
      /\ \A i \in 1..n : tickets[i] \in Listed
      /\ \A x \in Listed : \E i \in 1..n : tickets[i] = x
  BY Positions
<1> HIDE DEF u, n
<1>5. ToSet(u) = Listed \cup {t}
  <2>1. \A i \in 1..(n + 1) : u[i] \in Listed \cup {t}
    BY <1>1, <1>3, <1>4
  <2>2. \A x \in Listed \cup {t} : \E i \in 1..(n + 1) : u[i] = x
    <3>1. \A i \in 1..n : i \in 1..(n + 1)
      BY <1>2
    <3>2. n + 1 \in 1..(n + 1)
      BY <1>2
    <3> QED BY <1>1, <1>4, <3>1, <3>2
  <2> QED BY <1>2, <2>1, <2>2 DEF ToSet
<1>6. IsInjective(u)
  <2> SUFFICES ASSUME NEW a \in 1..(n + 1), NEW b \in 1..(n + 1), u[a] = u[b] PROVE a = b
    BY <1>2 DEF IsInjective
  <2> QED BY <1>1, <1>3, <1>4 DEF IsInjective
<1> QED BY <1>1, <1>5, <1>6 DEF u, n

LEMMA UnlinkFromList ==
  ASSUME tickets \in Seq(AnyTicket), IsInjective(tickets), NEW t \in Listed
  PROVE  LET u == Unlinked(t)
         IN  /\ u \in Seq(AnyTicket) /\ IsInjective(u)
             /\ Len(u) = Len(tickets) - 1
             /\ ToSet(u) = Listed \ {t}
<1> DEFINE n == Len(tickets)
           p == CHOOSE i \in DOMAIN tickets : tickets[i] = t
           l == SubSeq(tickets, 1, p - 1)
           r == SubSeq(tickets, p + 1, n)
           u == l \o r
<1>1. u = Unlinked(t)
  BY DEF Unlinked, RemoveAt
<1>2. /\ n \in Nat /\ DOMAIN tickets = 1..n
      /\ \A i \in 1..n : tickets[i] \in AnyTicket /\ tickets[i] \in Listed
      /\ \A x \in Listed : \E i \in 1..n : tickets[i] = x
  BY Positions
<1>3. p \in 1..n /\ tickets[p] = t
  BY <1>2
<1> HIDE DEF p, n
<1>4. /\ p \in Nat /\ n \in Nat /\ p - 1 \in Int /\ p + 1 \in Int /\ 1 <= p /\ p <= n
      /\ \A i \in 1..(p - 1) : i \in 1..n
      /\ \A i \in (p + 1)..n : i \in 1..n
  BY <1>2, <1>3
<1>5. /\ l \in Seq(AnyTicket) /\ Len(l) = p - 1
      /\ \A i \in 1..(p - 1) : l[i] = tickets[i]
  <2>1. \A i \in 1..(p - 1) : tickets[i] \in AnyTicket
    BY <1>2, <1>4
  <2>2. /\ l \in Seq(AnyTicket)
        /\ Len(l) = IF 1 <= p - 1 THEN (p - 1) - 1 + 1 ELSE 0
        /\ \A i \in 1..((p - 1) - 1 + 1) : l[i] = tickets[1 + i - 1]
    BY <1>4, <2>1, SubSeqProperties
  <2> HIDE DEF l
  <2> QED BY <1>4, <2>2
<1>6. /\ r \in Seq(AnyTicket) /\ Len(r) = n - p
      /\ \A i \in 1..(n - p) : r[i] = tickets[p + i]
  <2>1. \A i \in (p + 1)..n : tickets[i] \in AnyTicket
    BY <1>2, <1>4
  <2>2. /\ r \in Seq(AnyTicket)
        /\ Len(r) = IF p + 1 <= n THEN n - (p + 1) + 1 ELSE 0
        /\ \A i \in 1..(n - (p + 1) + 1) : r[i] = tickets[(p + 1) + i - 1]
    BY <1>4, <2>1, SubSeqProperties
  <2> HIDE DEF r
  <2>3. n - (p + 1) + 1 = n - p /\ Len(r) = n - p
    BY <1>4, <2>2
  <2>4. \A i \in 1..(n - p) : (p + 1) + i - 1 = p + i
    BY <1>4
  <2> QED BY <2>2, <2>3, <2>4
<1> HIDE DEF l, r
<1>7. /\ u \in Seq(AnyTicket) /\ Len(u) = n - 1
      /\ \A i \in 1..(n - 1) : u[i] = IF i <= p - 1 THEN tickets[i] ELSE tickets[i + 1]
  <2>1. /\ u \in Seq(AnyTicket) /\ Len(u) = Len(l) + Len(r)
        /\ \A i \in 1..(Len(l) + Len(r)) : u[i] = IF i <= Len(l) THEN l[i] ELSE r[i - Len(l)]
    BY <1>5, <1>6, ConcatProperties
  <2> HIDE DEF u
  <2>2. Len(l) + Len(r) = n - 1
    BY <1>4, <1>5, <1>6
  <2>3. ASSUME NEW i \in 1..(n - 1)
        PROVE  u[i] = IF i <= p - 1 THEN tickets[i] ELSE tickets[i + 1]
    <3>1. CASE i <= p - 1
      BY <1>4, <1>5, <2>1, <2>2, <3>1
    <3>2. CASE ~ (i <= p - 1)
      <4>1. i - (p - 1) \in 1..(n - p) /\ p + (i - (p - 1)) = i + 1
        BY <1>4, <3>2
      <4> QED BY <1>5, <1>6, <2>1, <2>2, <3>2, <4>1
    <3> QED BY <3>1, <3>2
  <2> QED BY <2>1, <2>2, <2>3
<1> HIDE DEF u
<1>8. DOMAIN u = 1..(n - 1)
  BY <1>7, LenProperties
<1> DEFINE at(i) == IF i <= p - 1 THEN i ELSE i + 1
<1>9. ASSUME NEW i \in 1..(n - 1)
      PROVE  at(i) \in 1..n /\ at(i) # p /\ u[i] = tickets[at(i)]
  BY <1>4, <1>7, <1>9
<1>10. IsInjective(u)
  <2> SUFFICES ASSUME NEW a \in 1..(n - 1), NEW b \in 1..(n - 1), u[a] = u[b] PROVE a = b
    BY <1>8 DEF IsInjective
  <2>1. at(a) = at(b)
    <3> HIDE DEF at
    <3> QED BY <1>2, <1>9 DEF IsInjective
  <2> QED BY <1>4, <2>1
<1>11. ToSet(u) = Listed \ {t}
  <2>1. \A i \in 1..(n - 1) : u[i] \in Listed \ {t}
    <3> HIDE DEF at
    <3> QED BY <1>2, <1>3, <1>9 DEF IsInjective
  <2>2. ASSUME NEW x \in Listed \ {t} PROVE \E i \in 1..(n - 1) : u[i] = x
    <3>1. PICK k \in 1..n : tickets[k] = x
      BY <1>2
    <3>2. k # p
      BY <1>3, <3>1
    <3>3. CASE k < p
      BY <1>4, <1>7, <3>1, <3>3
    <3>4. CASE k > p
      <4>1. k - 1 \in 1..(n - 1) /\ ~ (k - 1 <= p - 1) /\ (k - 1) + 1 = k
        BY <1>4, <3>4
      <4> QED BY <1>7, <3>1, <4>1
    <3> QED BY <1>4, <3>2, <3>3, <3>4
  <2> QED BY <1>8, <2>1, <2>2 DEF ToSet
<1> QED BY <1>1, <1>7, <1>10, <1>11 DEF n

-----------------------------------------------------------------------------
(* waiter_synchronize: its loop, ticket by ticket.                         *)

Ages == [AnyTicket -> 0..MaxAge]

SyncStep(i, ages) ==
  IF IsTimeout(tickets[i]) /\ NextAlike(i) # {}
  THEN [ages EXCEPT ![tickets[CHOOSE j \in NextAlike(i) : TRUE]] = ages[tickets[i]]]
  ELSE ages

IsSyncing(c, m) ==
  c = [i \in 0..m |-> IF i = 0 THEN [t \in AnyTicket |-> ticket[t].age]
                      ELSE SyncStep(i, c[i - 1])]

\* The recursive definition of SyncedAges has a solution.
LEMMA SyncingExists ==
  ASSUME Len(tickets) \in Nat
  PROVE  \E c : IsSyncing(c, Len(tickets))
<1> DEFINE N == Len(tickets)
           z == [t \in AnyTicket |-> ticket[t].age]
           S == { m \in 0..N : \E c : IsSyncing(c, m) }
<1>1. 0 \in S
  <2> DEFINE c == [i \in 0..0 |-> z]
  <2>1. IsSyncing(c, 0)
    BY DEF IsSyncing
  <2> QED BY <2>1
<1>2. ASSUME NEW m \in 0..(N - 1), m \in S PROVE m + 1 \in S
  <2>1. PICK c : IsSyncing(c, m)
    BY <1>2
  <2>2. /\ m \in Nat /\ m + 1 \in 0..N
        /\ DOMAIN c = 0..m
        /\ \A i \in 0..m : c[i] = IF i = 0 THEN z ELSE SyncStep(i, c[i - 1])
    <3>1. m \in Nat /\ m + 1 \in 0..N
      OBVIOUS
    <3>2. c = [i \in 0..m |-> IF i = 0 THEN z ELSE SyncStep(i, c[i - 1])]
      BY <2>1 DEF IsSyncing
    <3> HIDE DEF z
    <3> QED BY <3>1, <3>2
  <2> DEFINE d == [i \in 0..(m + 1) |-> IF i <= m THEN c[i] ELSE SyncStep(i, c[m])]
  <2> HIDE DEF z
  <2>3. \A i \in 0..(m + 1) : d[i] = IF i = 0 THEN z ELSE SyncStep(i, d[i - 1])
    <3> SUFFICES ASSUME NEW i \in 0..(m + 1)
                 PROVE  d[i] = IF i = 0 THEN z ELSE SyncStep(i, d[i - 1])
      OBVIOUS
    <3>1. CASE i = 0
      BY <2>2, <3>1
    <3>2. CASE i \in 1..m
      <4>1. i <= m /\ i - 1 \in 0..(m + 1) /\ i - 1 <= m /\ i \in 0..m /\ i # 0
        BY <2>2, <3>2
      <4> QED BY <2>2, <4>1
    <3>3. CASE i = m + 1
      <4>1. i - 1 = m /\ ~ (i <= m) /\ m \in 0..(m + 1) /\ m <= m /\ i # 0
        BY <2>2, <3>3
      <4> QED BY <4>1
    <3> QED BY <2>2, <3>1, <3>2, <3>3
  <2>4. d = [i \in 0..(m + 1) |-> d[i]]
    OBVIOUS
  <2> HIDE DEF d
  <2>5. IsSyncing(d, m + 1)
    BY <2>3, <2>4 DEF IsSyncing, z
  <2> QED BY <2>2, <2>5
<1> HIDE DEF S
<1>3. \A m \in 0..N : m \in S
  BY <1>1, <1>2, IntervalInduction
<1> QED BY <1>3 DEF S

LEMMA SyncedIsSyncing ==
  ASSUME Len(tickets) \in Nat
  PROVE  \E c : /\ SyncedAges = c[Len(tickets)]
                /\ c[0] = [t \in AnyTicket |-> ticket[t].age]
                /\ \A i \in 1..Len(tickets) : c[i] = SyncStep(i, c[i - 1])
<1> DEFINE N == Len(tickets)
           c == CHOOSE c : IsSyncing(c, N)
<1>1. SyncedAges = c[N]
  BY DEF SyncedAges, IsSyncing, SyncStep
<1>2. IsSyncing(c, N)
  BY SyncingExists
<1> HIDE DEF c
<1>3. /\ c[0] = [t \in AnyTicket |-> ticket[t].age]
      /\ \A i \in 1..N : c[i] = SyncStep(i, c[i - 1])
  BY <1>2 DEF IsSyncing
<1> QED BY <1>1, <1>3

\* Positions of timeouts with one interval.
Alike(i, j) ==
  /\ i \in 1..Len(tickets) /\ j \in 1..Len(tickets)
  /\ IsTimeout(tickets[i]) /\ IsTimeout(tickets[j])
  /\ ticket[tickets[i]].arg = ticket[tickets[j]].arg

\* Where the start of the i-th ticket goes: to the next alike, if there is one.
LEMMA NextIsAlike ==
  ASSUME tickets \in Seq(AnyTicket), NEW i \in 1..Len(tickets), IsTimeout(tickets[i])
  PROVE  /\ \A j : Alike(i, j) /\ i < j => NextAlike(i) # {}
         /\ NextAlike(i) # {} =>
              LET n == CHOOSE j \in NextAlike(i) : TRUE
              IN  /\ Alike(i, n) /\ i < n
                  /\ \A j : Alike(i, j) /\ i < j => n <= j
<1> DEFINE A == { j \in (i + 1)..Len(tickets) :
                    /\ IsTimeout(tickets[j])
                    /\ ticket[tickets[j]].arg = ticket[tickets[i]].arg }
           F == { j \in A : \A k \in A : j <= k }
<1>1. Len(tickets) \in Nat /\ i \in Nat
  BY Positions
<1>2. NextAlike(i) = F
  BY DEF NextAlike
<1>3. \A j : j \in A <=> Alike(i, j) /\ i < j
  BY <1>1 DEF Alike
<1>4. A \subseteq Nat
  BY <1>1
<1> HIDE DEF A
<1>5. A # {} => F # {}
  BY <1>4, LeastNatural
<1>6. F # {} => LET n == CHOOSE j \in F : TRUE IN n \in A /\ \A k \in A : n <= k
  OBVIOUS
<1> HIDE DEF F
<1> QED BY <1>2, <1>3, <1>5, <1>6

\* A step writes one entry, for a ticket that is alike.
LEMMA SyncStepFields ==
  ASSUME tickets \in Seq(AnyTicket), NEW i \in 1..Len(tickets), NEW ages \in Ages
  PROVE  /\ SyncStep(i, ages) \in Ages
         /\ \/ /\ SyncStep(i, ages) = ages
               /\ \A j : Alike(i, j) => ~ (i < j)
            \/ \E n \in 1..Len(tickets) :
                 /\ Alike(i, n) /\ i < n
                 /\ \A j : Alike(i, j) /\ i < j => n <= j
                 /\ SyncStep(i, ages)[tickets[n]] = ages[tickets[i]]
                 /\ \A t \in AnyTicket : t # tickets[n] => SyncStep(i, ages)[t] = ages[t]
<1>1. CASE IsTimeout(tickets[i]) /\ NextAlike(i) # {}
  <2> DEFINE n == CHOOSE j \in NextAlike(i) : TRUE
  <2>1. /\ Alike(i, n) /\ i < n
        /\ \A j : Alike(i, j) /\ i < j => n <= j
    BY <1>1, NextIsAlike
  <2>2. SyncStep(i, ages) = [ages EXCEPT ![tickets[n]] = ages[tickets[i]]]
    BY <1>1 DEF SyncStep
  <2> HIDE DEF n
  <2>3. n \in 1..Len(tickets) /\ tickets[n] \in AnyTicket /\ tickets[i] \in AnyTicket
    BY <2>1, Positions DEF Alike
  <2> QED BY <2>1, <2>2, <2>3 DEF Ages
<1>2. CASE ~ (IsTimeout(tickets[i]) /\ NextAlike(i) # {})
  <2>1. SyncStep(i, ages) = ages
    BY <1>2 DEF SyncStep
  <2>2. \A j : Alike(i, j) => ~ (i < j)
    BY <1>2, NextIsAlike DEF Alike
  <2> QED BY <2>1, <2>2
<1> QED BY <1>1, <1>2

\* The start of the first of some timeouts alike has reached those that no
\* unvisited one stands before.
Handed(i, ages) ==
  \A a, b \in 1..Len(tickets) :
    /\ Alike(a, b) /\ a < b
    /\ \A c \in 1..Len(tickets) : Alike(c, b) => ~ (i < c /\ c < b)
    => ages[tickets[a]] = ages[tickets[b]]

LEMMA SyncStepHands ==
  ASSUME tickets \in Seq(AnyTicket), IsInjective(tickets), NEW i \in 1..Len(tickets),
         NEW ages \in Ages, Handed(i - 1, ages)
  PROVE  Handed(i, SyncStep(i, ages))
<1> DEFINE N == Len(tickets)
           new == SyncStep(i, ages)
<1>1. /\ N \in Nat /\ i \in Nat
      /\ \A j \in 1..N : tickets[j] \in AnyTicket
      /\ \A j, k \in 1..N : tickets[j] = tickets[k] => j = k
  BY Positions DEF IsInjective
<1>2. \/ /\ new = ages
         /\ \A j : Alike(i, j) => ~ (i < j)
      \/ \E n \in 1..N :
           /\ Alike(i, n) /\ i < n
           /\ \A j : Alike(i, j) /\ i < j => n <= j
           /\ new[tickets[n]] = ages[tickets[i]]
           /\ \A t \in AnyTicket : t # tickets[n] => new[t] = ages[t]
  BY SyncStepFields
<1>3. \A j, k, l : /\ Alike(j, k) => Alike(k, j)
                   /\ Alike(j, k) /\ Alike(k, l) => Alike(j, l)
  BY DEF Alike
<1> HIDE DEF new, N
<1> SUFFICES ASSUME NEW a \in 1..N, NEW b \in 1..N, Alike(a, b), a < b,
                    \A c \in 1..N : Alike(c, b) => ~ (i < c /\ c < b)
             PROVE  new[tickets[a]] = new[tickets[b]]
  BY DEF Handed, new, N
<1>4. ASSUME NEW x \in 1..N, NEW y \in 1..N, Alike(x, y), x < y,
             \A c \in 1..N : Alike(c, y) => ~ (i - 1 < c /\ c < y)
      PROVE  ages[tickets[x]] = ages[tickets[y]]
  BY <1>4 DEF Handed, N
<1>5. \A c \in 1..N : i - 1 < c => c = i \/ i < c
  BY <1>1
<1>6. CASE new = ages /\ \A j : Alike(i, j) => ~ (i < j)
  <2>1. \A c \in 1..N : Alike(c, b) => ~ (i - 1 < c /\ c < b)
    BY <1>5, <1>6
  <2> QED BY <1>4, <1>6, <2>1
<1>7. ASSUME NEW n \in 1..N, Alike(i, n), i < n,
             \A j : Alike(i, j) /\ i < j => n <= j,
             new[tickets[n]] = ages[tickets[i]],
             \A t \in AnyTicket : t # tickets[n] => new[t] = ages[t]
      PROVE  new[tickets[a]] = new[tickets[b]]
  <2>1. \A j \in 1..N : j # n => new[tickets[j]] = ages[tickets[j]]
    BY <1>1, <1>7
  <2>2. CASE ~ Alike(i, b)
    <3>1. a # n /\ b # n
      BY <1>3, <1>7, <2>2
    <3>2. \A c \in 1..N : Alike(c, b) => ~ (i - 1 < c /\ c < b)
      BY <1>5, <2>2
    <3> QED BY <1>4, <2>1, <3>1, <3>2
  <2>3. CASE Alike(i, b) /\ ~ (i < b)
    <3>1. a # n /\ b # n
      BY <1>1, <1>7, <2>3
    <3>2. \A c \in 1..N : Alike(c, b) => ~ (i - 1 < c /\ c < b)
      BY <1>1, <1>5, <2>3
    <3> QED BY <1>4, <2>1, <3>1, <3>2
  <2>4. CASE Alike(i, b) /\ i < b
    <3>1. n <= b /\ Alike(n, b)
      BY <1>3, <1>7, <2>4
    <3>2. b = n
      BY <1>1, <1>7, <3>1
    <3>3. ~ (i < a) /\ a # n
      BY <1>1, <1>7, <2>4, <3>2
    <3>4. new[tickets[a]] = ages[tickets[a]] /\ new[tickets[b]] = ages[tickets[i]]
      BY <1>7, <2>1, <3>2, <3>3
    <3>5. CASE a = i
      BY <3>4, <3>5
    <3>6. CASE a < i
      <4>1. Alike(a, i)
        BY <1>3, <2>4
      <4>2. i \in 1..N /\ \A c \in 1..N : ~ (i - 1 < c /\ c < i)
        BY <1>1 DEF N
      <4> QED BY <1>4, <3>4, <3>6, <4>1, <4>2
    <3> QED BY <1>1, <3>3, <3>5, <3>6
  <2> QED BY <2>2, <2>3, <2>4
<1> QED BY <1>2, <1>6, <1>7

\* The whole loop.
LEMMA SyncedHanded ==
  ASSUME tickets \in Seq(AnyTicket), IsInjective(tickets),
         ticket \in [AnyTicket -> TicketType]
  PROVE  SyncedAges \in Ages /\ Handed(Len(tickets), SyncedAges)
<1>1. Len(tickets) \in Nat
  BY Positions
<1>2. PICK c : /\ SyncedAges = c[Len(tickets)]
               /\ c[0] = [t \in AnyTicket |-> ticket[t].age]
               /\ \A i \in 1..Len(tickets) : c[i] = SyncStep(i, c[i - 1])
  BY <1>1, SyncedIsSyncing
<1> DEFINE S == { i \in 0..Len(tickets) : c[i] \in Ages /\ Handed(i, c[i]) }
<1>3. 0 \in S
  <2>1. \A t \in AnyTicket : ticket[t].age \in 0..MaxAge
    BY DEF TicketType
  <2>2. c[0] \in Ages
    BY <1>2, <2>1 DEF Ages
  <2>3. ASSUME NEW a \in 1..Len(tickets), NEW b \in 1..Len(tickets), Alike(a, b), a < b,
               \A d \in 1..Len(tickets) : Alike(d, b) => ~ (0 < d /\ d < b)
        PROVE  FALSE
    BY <1>1, <2>3
  <2>4. Handed(0, c[0])
    BY <2>3 DEF Handed
  <2> QED BY <1>1, <2>2, <2>4
<1>4. ASSUME NEW i \in 0..(Len(tickets) - 1), i \in S PROVE i + 1 \in S
  <2>1. i + 1 \in 1..Len(tickets) /\ (i + 1) - 1 = i /\ i + 1 \in 0..Len(tickets)
    BY <1>1
  <2>2. c[i + 1] = SyncStep(i + 1, c[i])
    BY <1>2, <2>1
  <2>3. c[i] \in Ages /\ Handed((i + 1) - 1, c[i])
    BY <1>4, <2>1
  <2>4. c[i + 1] \in Ages
    BY <2>1, <2>2, <2>3, SyncStepFields
  <2>5. Handed(i + 1, c[i + 1])
    BY <2>1, <2>2, <2>3, SyncStepHands
  <2> QED BY <2>1, <2>4, <2>5
<1> HIDE DEF S
<1>5. \A i \in 0..Len(tickets) : i \in S
  BY <1>1, <1>3, <1>4, IntervalInduction
<1> QED BY <1>1, <1>2, <1>5 DEF S

-----------------------------------------------------------------------------
(* The type invariant is inductive.                                        *)

LEMMA InitTypes == Init => TypeOK
<1> SUFFICES ASSUME Init PROVE TypeOK
  OBVIOUS
<1>1. tickets = << >> /\ Len(tickets) = 0 /\ tickets \in Seq(AnyTicket) /\ DOMAIN tickets = {}
  BY DEF Init
<1>2. ListOK
  <2>1. IsInjective(tickets) /\ Listed = {}
    BY <1>1 DEF IsInjective, Listed, ToSet
  <2>2. count = 0 /\ waiting = FALSE
    BY DEF Init
  <2> QED BY <1>1, <2>1, <2>2 DEF ListOK
<1>3. Blank \in TicketType
  BY WaiterConstants DEF Blank, TicketType, WaiterConstants
<1>4. ticket \in [AnyTicket -> TicketType]
  BY <1>3 DEF Init
<1>5. count = 0 /\ size = 0 /\ waiting = FALSE /\ pending = [f \in Fds |-> 0]
  BY DEF Init
<1>6. 0 \in 0..MaxPending /\ 0 \in Nat
  BY WaiterConstants DEF WaiterConstants
<1>7. pending \in [Fds -> 0..MaxPending]
  BY <1>5, <1>6
<1>8. waiting \in BOOLEAN /\ count \in Nat /\ size \in Nat
  BY <1>5
<1> QED BY <1>2, <1>4, <1>7, <1>8, TypeParts

\* Appending a ticket that is not listed, and removing one that is.
LEMMA Appended ==
  ASSUME ListOK, NEW t \in AnyTicket \ Listed, tickets' = Append(tickets, t),
         count' = count + 1, waiting' <=> (waiting \/ t = Temp)
  PROVE  ListOK' /\ count' \in Nat
<1>1. /\ tickets' \in Seq(AnyTicket) /\ IsInjective(tickets')
      /\ Len(tickets') = Len(tickets) + 1
      /\ Listed' = Listed \cup {t}
  BY AppendToList DEF ListOK, Listed
<1>2. Len(tickets) \in Nat
  BY Positions DEF ListOK
<1> QED BY <1>1, <1>2 DEF ListOK, AnyTicket

LEMMA Removed ==
  ASSUME ListOK, NEW t \in Listed, tickets' = Unlinked(t),
         count' = count - 1, waiting' <=> (waiting /\ t # Temp)
  PROVE  ListOK' /\ count' \in Nat
<1>1. /\ tickets' \in Seq(AnyTicket) /\ IsInjective(tickets')
      /\ Len(tickets') = Len(tickets) - 1
      /\ Listed' = Listed \ {t}
  BY UnlinkFromList DEF ListOK, Listed
<1>2. Len(tickets') \in Nat
  BY <1>1, LenProperties
<1> QED BY <1>1, <1>2 DEF ListOK

LEMMA SameList ==
  ASSUME ListOK, UNCHANGED <<tickets, count, waiting>>
  PROVE  ListOK' /\ (count \in Nat => count' \in Nat)
  BY DEF ListOK, Listed

\* The types a program gives a ticket.
LEMMA KindTypes ==
  ASSUME NEW k \in Kinds, NEW r \in TicketType
  PROVE  /\ [r EXCEPT !.type = k[1], !.arg = k[2]] \in TicketType
         /\ [r EXCEPT !.type = k[1], !.arg = k[2], !.age = 0] \in TicketType
<1>1. k[1] \in {"null", "fd", "timeout"} /\ k[2] \in Fds \cup Intervals \cup {0}
  BY DEF Kinds
<1>2. 0 \in 0..MaxAge
  BY WaiterConstants DEF WaiterConstants
<1> QED BY <1>1, <1>2 DEF TicketType

LEMMA BlankType == Blank \in TicketType
  BY WaiterConstants DEF Blank, TicketType, WaiterConstants

LEMMA TriggeredType ==
  ASSUME NEW t \in AnyTicket, NEW cause, ticket \in [AnyTicket -> TicketType]
  PROVE  Triggered(t, cause) \in TicketType
<1> DEFINE r == ticket[t]
           b == t \notin Handled
           a == IF Due(t) THEN 0 ELSE r.age
<1>1. r \in TicketType /\ 0 \in 0..MaxAge
  BY WaiterConstants DEF WaiterConstants
<1>2. b \in BOOLEAN
  BY DEF b
<1>3. a \in 0..MaxAge
  BY <1>1 DEF TicketType
<1>4. \/ Triggered(t, cause) = r
      \/ Triggered(t, cause) = [r EXCEPT !.updated = b, !.age = a]
  BY DEF Triggered
<1> HIDE DEF r, a, b
<1>5. [r EXCEPT !.updated = b, !.age = a] \in TicketType
  BY <1>1, <1>2, <1>3 DEF TicketType
<1> QED BY <1>1, <1>4, <1>5

LEMMA ReturnTypes ==
  ASSUME TypeOK, NEW cause, Return(cause), \A f \in cause : pending[f] > 0
  PROVE  TypeOK'
<1>1. /\ ListOK /\ count \in Nat /\ ticket \in [AnyTicket -> TicketType]
      /\ size \in Nat /\ pending \in [Fds -> 0..MaxPending] /\ waiting \in BOOLEAN
  BY TypeParts
<1>2. ListOK' /\ count' \in Nat
  <2>1. CASE waiting
    <3>1. Temp \in Listed /\ tickets' = Unlinked(Temp) /\ count' = count - 1 /\ waiting' = FALSE
      BY <1>1, <2>1 DEF ListOK, Return
    <3> QED BY <1>1, <3>1, Removed
  <2>2. CASE ~ waiting
    BY <1>1, <2>2, SameList DEF Return
  <2> QED BY <2>1, <2>2
<1>3. ticket' \in [AnyTicket -> TicketType]
  <2>1. \A t \in AnyTicket :
          (IF t = Temp THEN Blank ELSE IF t \in Listed THEN Triggered(t, cause) ELSE ticket[t])
            \in TicketType
    BY <1>1, BlankType, TriggeredType
  <2> QED BY <2>1 DEF Return
<1>4. pending' \in [Fds -> 0..MaxPending]
  <2>1. Answered(cause) \subseteq cause /\ MaxPending \in Nat
    BY WaiterConstants DEF Answered, WaiterConstants
  <2>2. \A f \in Fds : (IF f \in Answered(cause) THEN pending[f] - 1 ELSE pending[f])
                         \in 0..MaxPending
    BY <1>1, <2>1
  <2> QED BY <2>2 DEF Return
<1> QED BY <1>1, <1>2, <1>3, <1>4, TypePartsNext DEF Return

LEMMA NextTypes == TypeOK /\ [Next]_vars => TypeOK'
<1> SUFFICES ASSUME TypeOK, [Next]_vars PROVE TypeOK'
  OBVIOUS
<1>0. /\ ListOK /\ count \in Nat /\ ticket \in [AnyTicket -> TicketType]
      /\ size \in Nat /\ pending \in [Fds -> 0..MaxPending] /\ waiting \in BOOLEAN
  BY TypeParts
<1>0a. /\ Temp \notin Tickets /\ Chunk \in Nat \ {0} /\ MaxPending \in Nat /\ MaxAge \in Nat
       /\ Intervals \subseteq 1..MaxAge
  BY WaiterConstants DEF WaiterConstants
<1>1. ASSUME NEW t \in Tickets, NEW k \in Kinds, Add(t, k[1], k[2]) PROVE TypeOK'
  <2>1. /\ t \in AnyTicket \ Listed /\ t # Temp /\ tickets' = Append(tickets, t)
        /\ count' = count + 1 /\ waiting' = waiting /\ pending' = pending
        /\ size' = Grown
        /\ ticket' = [ticket EXCEPT ![t] = [Blank EXCEPT !.type = k[1], !.arg = k[2]]]
    BY <1>0a, <1>1 DEF Add, AnyTicket
  <2>2. ListOK' /\ count' \in Nat
    BY <1>0, <2>1, Appended
  <2>3. ticket' \in [AnyTicket -> TicketType]
    BY <1>0, <2>1, BlankType, KindTypes
  <2>4. size' \in Nat
    BY <1>0, <1>0a, <2>1 DEF Grown
  <2> QED BY <1>0, <2>1, <2>2, <2>3, <2>4, TypePartsNext
<1>2. ASSUME NEW t \in Tickets, NEW k \in Kinds, Set(t, k[1], k[2]) PROVE TypeOK'
  <2>1. /\ t \in AnyTicket /\ UNCHANGED <<tickets, count, size, pending, waiting>>
        /\ ticket' = [ticket EXCEPT ![t] =
                        [ticket[t] EXCEPT !.type = k[1], !.arg = k[2], !.age = 0]]
    BY <1>2 DEF Set, AnyTicket
  <2>2. ticket' \in [AnyTicket -> TicketType]
    BY <1>0, <2>1, KindTypes
  <2> QED BY <1>0, <2>1, <2>2, SameList, TypePartsNext
<1>3. ASSUME NEW t \in Tickets, Delete(t) PROVE TypeOK'
  <2>1. /\ t \in Listed /\ t # Temp /\ t \in AnyTicket /\ tickets' = Unlinked(t)
        /\ count' = count - 1 /\ UNCHANGED <<size, pending, waiting>>
        /\ ticket' = [ticket EXCEPT ![t] = Blank]
    BY <1>0a, <1>3 DEF Delete, AnyTicket
  <2>2. ListOK' /\ count' \in Nat
    BY <1>0, <2>1, Removed
  <2>3. ticket' \in [AnyTicket -> TicketType]
    BY <1>0, <2>1, BlankType
  <2> QED BY <1>0, <2>1, <2>2, <2>3, TypePartsNext
<1>4. ASSUME NEW t \in Tickets, Clear(t) PROVE TypeOK'
  <2>1. /\ t \in AnyTicket /\ UNCHANGED <<tickets, count, size, pending, waiting>>
        /\ ticket' = [ticket EXCEPT ![t].updated = FALSE]
    BY <1>4 DEF Clear, AnyTicket
  <2>2. ticket' \in [AnyTicket -> TicketType]
    BY <1>0, <2>1 DEF TicketType
  <2> QED BY <1>0, <2>1, <2>2, SameList, TypePartsNext
<1>5. ASSUME NEW ms \in Intervals, WaitTimeout(ms) PROVE TypeOK'
  <2>1. /\ ~ waiting /\ waiting' = TRUE /\ tickets' = Append(tickets, Temp)
        /\ count' = count + 1 /\ UNCHANGED <<size, pending>>
        /\ ticket' = [ticket EXCEPT ![Temp] = [Blank EXCEPT !.type = "timeout", !.arg = ms]]
    BY <1>5 DEF WaitTimeout
  <2>2. Temp \in AnyTicket \ Listed
    BY <1>0, <2>1 DEF ListOK, AnyTicket
  <2>3. ListOK' /\ count' \in Nat
    BY <1>0, <2>1, <2>2, Appended
  <2>4. [Blank EXCEPT !.type = "timeout", !.arg = ms] \in TicketType
    <3>1. <<"timeout", ms>> \in Kinds
      BY DEF Kinds
    <3> QED BY <3>1, BlankType, KindTypes
  <2>5. ticket' \in [AnyTicket -> TicketType]
    BY <1>0, <2>1, <2>2, <2>4
  <2> QED BY <1>0, <2>1, <2>3, <2>5, TypePartsNext
<1>6. CASE Synchronize
  <2>1. /\ UNCHANGED <<tickets, count, size, pending, waiting>>
        /\ ticket' = [t \in AnyTicket |-> [ticket[t] EXCEPT !.age = SyncedAges[t]]]
    BY <1>6 DEF Synchronize
  <2>2. SyncedAges \in Ages
    BY <1>0, SyncedHanded DEF ListOK
  <2>3. \A t \in AnyTicket : [ticket[t] EXCEPT !.age = SyncedAges[t]] \in TicketType
    <3> SUFFICES ASSUME NEW t \in AnyTicket
                 PROVE  [ticket[t] EXCEPT !.age = SyncedAges[t]] \in TicketType
      OBVIOUS
    <3> DEFINE g == SyncedAges[t]
    <3>1. g \in 0..MaxAge /\ ticket[t] \in TicketType
      BY <1>0, <2>2 DEF Ages
    <3> HIDE DEF g
    <3>2. [ticket[t] EXCEPT !.age = g] \in TicketType
      BY <3>1 DEF TicketType
    <3> QED BY <3>2 DEF g
  <2>4. ticket' \in [AnyTicket -> TicketType]
    BY <2>1, <2>3
  <2> QED BY <1>0, <2>1, <2>4, SameList, TypePartsNext
<1>7. CASE Wait
  <2>1. CASE Return({})
    BY <2>1, ReturnTypes
  <2>2. CASE Ready # {} /\ Return(Causes)
    <3>1. \A i \in Ready : pending[ticket[PollSet[i]].arg] > 0
      BY DEF Ready
    <3>2. \A f \in Causes : pending[f] > 0
      BY <3>1 DEF Causes
    <3> QED BY <2>2, <3>2, ReturnTypes
  <2> QED BY <1>7, <2>1, <2>2 DEF Wait
<1>8. CASE Interrupted
  <2>1. /\ waiting /\ waiting' = FALSE /\ tickets' = Unlinked(Temp)
        /\ count' = count - 1 /\ UNCHANGED <<size, pending>>
        /\ ticket' = [ticket EXCEPT ![Temp] = Blank]
    BY <1>8 DEF Interrupted
  <2>2. ListOK' /\ count' \in Nat
    BY <1>0, <2>1, Removed DEF ListOK
  <2>3. ticket' \in [AnyTicket -> TicketType]
    BY <1>0, <2>1, BlankType DEF AnyTicket
  <2> QED BY <1>0, <2>1, <2>2, <2>3, TypePartsNext
<1>9. CASE Tick
  <2>1. /\ UNCHANGED <<tickets, count, size, pending, waiting>>
        /\ ticket' = [t \in AnyTicket |->
                        IF IsTimeout(t) THEN [ticket[t] EXCEPT !.age = Older(@)] ELSE ticket[t]]
    BY <1>9 DEF Tick
  <2>2. \A r \in TicketType : [r EXCEPT !.age = Older(@)] \in TicketType
    BY <1>0a DEF TicketType, Older
  <2>3. ticket' \in [AnyTicket -> TicketType]
    BY <1>0, <2>1, <2>2
  <2> QED BY <1>0, <2>1, <2>3, SameList, TypePartsNext
<1>10. ASSUME NEW f \in Fds, Arrive(f) PROVE TypeOK'
  <2>1. pending' \in [Fds -> 0..MaxPending]
    BY <1>0, <1>0a, <1>10 DEF Arrive
  <2> QED BY <1>0, <1>10, <2>1, SameList, TypePartsNext DEF Arrive
<1>11. CASE UNCHANGED vars
  BY <1>0, <1>11, SameList, TypePartsNext DEF vars
<1> QED
  BY <1>1, <1>2, <1>3, <1>4, <1>5, <1>6, <1>7, <1>8, <1>9, <1>10, <1>11 DEF Next

\* The list is linked as w->count says, each ticket once, whatever the order of
\* additions, removals and waits; and no more packets are read than have arrived.
THEOREM TypeCorrect == Spec => []TypeOK
  BY InitTypes, NextTypes, PTL DEF Spec

\* waiter_synchronize leaves all timeouts of one interval due together, for any
\* number of tickets of any kinds in any order.
THEOREM SynchronizedAreDueTogether == Spec => []DueTogether
<1>1. TypeOK => DueTogether
  <2> SUFFICES ASSUME TypeOK, NEW s \in Listed, NEW t \in Listed, IsTimeout(s), IsTimeout(t),
                      ticket[s].arg = ticket[t].arg
               PROVE  SyncedAges[s] = SyncedAges[t]
    BY DEF DueTogether
  <2> DEFINE N == Len(tickets)
  <2>1. /\ tickets \in Seq(AnyTicket) /\ IsInjective(tickets)
        /\ ticket \in [AnyTicket -> TicketType]
    BY TypeParts DEF ListOK
  <2>2. PICK i \in 1..N, j \in 1..N : tickets[i] = s /\ tickets[j] = t
    BY <2>1, Positions
  <2>3. N \in Nat /\ Alike(i, j) /\ Alike(j, i)
    BY <2>1, <2>2, Positions DEF Alike
  <2>4. \A c \in 1..N : ~ (N < c)
    BY <2>3
  <2>5. Handed(N, SyncedAges)
    BY <2>1, SyncedHanded
  <2> HIDE DEF N
  <2>6. CASE i < j
    BY <2>2, <2>3, <2>4, <2>5, <2>6 DEF Handed, N
  <2>7. CASE j < i
    BY <2>2, <2>3, <2>4, <2>5, <2>7 DEF Handed, N
  <2>8. CASE i = j
    BY <2>2, <2>8
  <2> QED BY <2>3, <2>6, <2>7, <2>8
<1> QED BY <1>1, TypeCorrect, PTL
=============================================================================
