-------------------------- MODULE ServerMapProofs ---------------------------
(***************************************************************************)
(* The map of map.c, for any keys, growth step and number of slots.        *)
(*                                                                         *)
(* The inductive invariant IInv says that the table is Sound (its count is *)
(* the number of live slots, and from the home slot of its key a walk over *)
(* slots in use leads to every item) and that no object is stored twice.   *)
(* One lemma per operation of map.c shows what it does to a sound table.   *)
(* The loops of map_rehash and ctrl_cmd_bye are recursive functions over   *)
(* the slots: a lemma gives them their defining equation, and              *)
(* IntervalInduction carries what one iteration preserves over the loop.   *)
(***************************************************************************)
EXTENDS ServerMap, ListLemmas, FiniteSetTheorems

\* A number that is q turns and j steps is at step j of the circle.
LEMMA Turns ==
  ASSUME NEW q \in Int, NEW n \in Nat \ {0}, NEW j \in 0..(n - 1)
  PROVE  (n * q + j) % n = j
  BY SMT

\* Every natural is some turns and some steps around a circle of n slots.
LEMMA Division ==
  ASSUME NEW k \in Nat, NEW n \in Nat \ {0}
  PROVE  \E q \in Int : \E r \in 0..(n - 1) : k = n * q + r
<1>1. k \div n \in Int /\ k % n \in 0..(n - 1)
  BY SMT
<1>2. k = n * (k \div n) + (k % n)
  BY SMT
<1> QED BY <1>1, <1>2

\* The probe sequence of a key visits only slots, and every slot.
LEMMA ProbeSlot ==
  ASSUME NEW t, t.size \in Nat \ {0}, NEW k \in Nat, NEW i \in Nat
  PROVE  Probe(t, k, i) \in Slots(t)
  BY DEF Probe, Slots

LEMMA ProbeVisitsAll ==
  ASSUME NEW t, t.size \in Nat, NEW k \in Nat, NEW j \in Slots(t)
  PROVE  \E i \in Slots(t) : Probe(t, k, i) = j
<1> DEFINE n == t.size
<1>1. n \in Nat \ {0} /\ j \in 0..(n - 1)
  BY DEF Slots
<1> HIDE DEF n
<1>2. PICK q \in Int : \E r \in 0..(n - 1) : k = n * q + r
  BY <1>1, Division
<1>2a. PICK r \in 0..(n - 1) : k = n * q + r
  BY <1>2
<1>3. CASE r <= j
  <2>1. j - r \in 0..(n - 1) /\ k + (j - r) = n * q + j
    BY <1>1, <1>2a, <1>3
  <2>2. (k + (j - r)) % n = j
    BY <1>1, <1>2, <2>1, Turns
  <2> QED BY <2>1, <2>2 DEF Probe, Slots, n
<1>4. CASE r > j
  <2>1. (j - r) + n \in 0..(n - 1) /\ k + ((j - r) + n) = n * q + n + j
    BY <1>1, <1>2a, <1>4
  <2>2. n * q + n = n * (q + 1) /\ q + 1 \in Int
    BY <1>1, <1>2
  <2>3. k + ((j - r) + n) = n * (q + 1) + j
    BY <2>1, <2>2
  <2>4. (k + ((j - r) + n)) % n = j
    BY <1>1, <2>2, <2>3, Turns
  <2> QED BY <2>1, <2>4 DEF Probe, Slots, n
<1> QED BY <1>1, <1>2, <1>3, <1>4

-----------------------------------------------------------------------------
(* Tables.                                                                 *)

\* What a slot may hold, and a struct map with as many slots as its size says.
Cells == Item \cup {EMPTY, DELETED}

IsMap(t) ==
  /\ t = [size |-> t.size, count |-> t.count, item |-> t.item]
  /\ t.size \in Nat
  /\ t.count \in Nat
  /\ t.item \in [Slots(t) -> Cells]

\* From the home slot of its key a walk over slots in use leads to every item.
Findable(t) ==
  \A i \in Live(t) :
    \E s \in Slots(t) :
      /\ Probe(t, t.item[i].key, s) = i
      /\ \A j \in 0..(s - 1) : t.item[Probe(t, t.item[i].key, j)] # EMPTY

Sound(t) == IsMap(t) /\ t.count = Cardinality(Live(t)) /\ Findable(t)

\* No object, and no key, is stored twice.
Distinct(t) == \A i, j \in Live(t) : i # j => t.item[i].obj # t.item[j].obj
Single(t)   == \A i, j \in Live(t) : i # j => t.item[i].key # t.item[j].key

\* A live slot holds an item, any other slot is free.
LEMMA LiveItem ==
  ASSUME NEW t, IsMap(t)
  PROVE  /\ \A i \in Live(t) : /\ i \in Slots(t) /\ ~ Free(t, i)
                              /\ t.item[i] \in Item
                              /\ t.item[i].key \in Keys /\ t.item[i].key \in Nat
                              /\ t.item[i].obj \in Objects
         /\ \A i \in Slots(t) : Free(t, i) \/ i \in Live(t)
         /\ \A i \in Live(t) : t.item[i] = [key |-> t.item[i].key, obj |-> t.item[i].obj]
  BY MapConstants DEF MapConstants, IsMap, Live, Free, Cells, Item

\* There are finitely many live slots, at most all of them.
LEMMA LiveFinite ==
  ASSUME NEW t, IsMap(t)
  PROVE  /\ IsFiniteSet(Live(t))
         /\ Cardinality(Live(t)) \in 0..t.size
         /\ Cardinality(Live(t)) = t.size => Live(t) = Slots(t)
<1>1. t.size \in Nat /\ 0 \in Int /\ t.size - 1 \in Int
  BY DEF IsMap
<1>2. /\ IsFiniteSet(0..(t.size - 1))
      /\ Cardinality(0..(t.size - 1)) = IF 0 > t.size - 1 THEN 0 ELSE (t.size - 1) - 0 + 1
  BY <1>1, FS_Interval
<1>3. IsFiniteSet(Slots(t)) /\ Cardinality(Slots(t)) = t.size
  BY <1>1, <1>2 DEF Slots
<1>4. Live(t) \in SUBSET Slots(t)
  BY DEF Live
<1>5. /\ IsFiniteSet(Live(t)) /\ Cardinality(Live(t)) <= Cardinality(Slots(t))
      /\ Cardinality(Slots(t)) = Cardinality(Live(t)) => Slots(t) = Live(t)
  BY <1>3, <1>4, FS_Subset
<1>6. Cardinality(Live(t)) \in Nat
  BY <1>5, FS_CardinalityType
<1> QED BY <1>1, <1>3, <1>5, <1>6

\* FirstOf finds the smallest element of a non-empty set.
LEMMA FirstIsFirst ==
  ASSUME NEW S, S \subseteq Nat, S # {}
  PROVE  /\ FirstOf(S, NULL) \in S /\ FirstOf(S, NULL) # NULL
         /\ \A j \in S : FirstOf(S, NULL) <= j
<1>1. \E i \in S : \A j \in S : i <= j
  BY LeastNatural
<1>2. FirstOf(S, NULL) \in S /\ \A j \in S : FirstOf(S, NULL) <= j
  BY <1>1 DEF FirstOf
<1> QED BY <1>2, MapConstants DEF MapConstants

-----------------------------------------------------------------------------
(* map_hash and map_reput.                                                 *)

\* Where map_hash stops: nothing before is free or holds the key.
LEMMA HashStops ==
  ASSUME NEW t, IsMap(t), NEW k \in Keys, HashStep(t, k) # NULL
  PROVE  LET s == HashStep(t, k)
             i == Probe(t, k, s)
         IN  /\ s \in Slots(t) /\ i \in Slots(t)
             /\ Free(t, i) \/ Holds(t, i, k)
             /\ \A j \in 0..(s - 1) : /\ ~ Free(t, Probe(t, k, j))
                                      /\ ~ Holds(t, Probe(t, k, j), k)
<1> DEFINE S == { i \in Slots(t) : Free(t, Probe(t, k, i)) \/ Holds(t, Probe(t, k, i), k) }
           s == HashStep(t, k)
<1>1. S \subseteq Nat
  BY DEF Slots, IsMap
<1>2. s = FirstOf(S, NULL)
  BY DEF HashStep
<1>3. S # {}
  BY <1>2 DEF FirstOf
<1>4. s \in S /\ \A j \in S : s <= j
  BY <1>1, <1>2, <1>3, FirstIsFirst
<1>5. s \in Slots(t) /\ t.size \in Nat /\ k \in Nat
  BY <1>4, MapConstants DEF IsMap, MapConstants
<1>6. t.size \in Nat \ {0} /\ s \in Nat
  BY <1>5 DEF Slots
<1>7. Probe(t, k, s) \in Slots(t)
  BY <1>5, <1>6, ProbeSlot
<1>8. ASSUME NEW j \in 0..(s - 1) PROVE j \in Slots(t) /\ ~ (s <= j)
  BY <1>5, <1>6, <1>8 DEF Slots
<1> HIDE DEF s
<1> QED BY <1>4, <1>5, <1>7, <1>8 DEF s

\* With a free slot left map_hash finds one.
LEMMA HashFinds ==
  ASSUME NEW t, IsMap(t), NEW k \in Keys, Cardinality(Live(t)) # t.size
  PROVE  HashStep(t, k) # NULL
<1> DEFINE S == { i \in Slots(t) : Free(t, Probe(t, k, i)) \/ Holds(t, Probe(t, k, i), k) }
<1>1. PICK j \in Slots(t) : j \notin Live(t)
  <2>1. Live(t) # Slots(t)
    <3>1. SUFFICES ASSUME Live(t) = Slots(t) PROVE FALSE
      OBVIOUS
    <3>2. t.size \in Nat /\ 0 \in Int /\ t.size - 1 \in Int
      BY DEF IsMap
    <3>3. Cardinality(0..(t.size - 1)) = IF 0 > t.size - 1 THEN 0 ELSE (t.size - 1) - 0 + 1
      BY <3>2, FS_Interval
    <3> QED BY <3>1, <3>2, <3>3 DEF Slots
  <2> QED BY <2>1 DEF Live
<1>2. Free(t, j)
  BY <1>1, LiveItem
<1>3. t.size \in Nat /\ k \in Nat
  BY MapConstants DEF IsMap, MapConstants
<1>4. PICK i \in Slots(t) : Probe(t, k, i) = j
  BY <1>3, ProbeVisitsAll
<1>5. S # {} /\ S \subseteq Nat
  BY <1>2, <1>4 DEF Slots
<1>6. HashStep(t, k) = FirstOf(S, NULL)
  BY DEF HashStep
<1> QED BY <1>5, <1>6, FirstIsFirst

\* map_reput on a table with a slot for the key, field by field.
LEMMA StoreFields ==
  ASSUME NEW t, IsMap(t), NEW k \in Keys, NEW o \in Objects, HashStep(t, k) # NULL
  PROVE  LET u == Store(t, k, o)
             i == Probe(t, k, HashStep(t, k))
         IN  /\ IsMap(u) /\ u.size = t.size /\ Slots(u) = Slots(t)
             /\ u.item = [t.item EXCEPT ![i] = [key |-> k, obj |-> o]]
             /\ u.item[i] = [key |-> k, obj |-> o]
             /\ \A j \in Slots(t) : j # i => u.item[j] = t.item[j]
             /\ u.count = IF Free(t, i) THEN t.count + 1 ELSE t.count
             /\ Live(u) = Live(t) \cup {i}
             /\ i \in Live(u)
             /\ Free(t, i) <=> i \notin Live(t)
             /\ [key |-> k, obj |-> o] \in Item
<1> DEFINE i == Probe(t, k, HashStep(t, k))
           u == Store(t, k, o)
           it == [key |-> k, obj |-> o]
           c == IF Free(t, i) THEN t.count + 1 ELSE t.count
<1>1. i \in Slots(t)
  BY HashStops
<1> HIDE DEF i
<1>2. t = [size |-> t.size, count |-> t.count, item |-> t.item]
  BY DEF IsMap
<1>3. u = [t EXCEPT !.count = c, !.item[i] = it]
  BY DEF Store, i
<1> HIDE DEF u
<1>4. u = [size |-> t.size, count |-> c, item |-> [t.item EXCEPT ![i] = it]]
  BY <1>2, <1>3
<1>5. u.size = t.size /\ u.count = c /\ u.item = [t.item EXCEPT ![i] = it]
  BY <1>4
<1>6. Slots(u) = Slots(t)
  BY <1>5 DEF Slots
<1>7. it \in Item /\ it \in Cells /\ it \notin {EMPTY, DELETED}
  BY MapConstants DEF Item, Cells, MapConstants
<1>8. t.item \in [Slots(t) -> Cells] /\ t.size \in Nat /\ t.count \in Nat
  BY DEF IsMap
<1> HIDE DEF it
<1>9. /\ u.item \in [Slots(u) -> Cells] /\ u.item[i] = it
      /\ \A j \in Slots(t) : j # i => u.item[j] = t.item[j]
  BY <1>1, <1>5, <1>6, <1>7, <1>8
<1>10. Live(u) = Live(t) \cup {i}
  BY <1>1, <1>6, <1>7, <1>9 DEF Live
<1>11. c \in Nat
  BY <1>8
<1>12. IsMap(u)
  BY <1>4, <1>5, <1>8, <1>9, <1>11 DEF IsMap
<1>13. Free(t, i) <=> i \notin Live(t)
  BY <1>1 DEF Free, Live
<1> QED BY <1>5, <1>6, <1>7, <1>9, <1>10, <1>12, <1>13 DEF i, u, it

\* A put leaves a sound table sound.
LEMMA StoreSound ==
  ASSUME NEW t, Sound(t), NEW k \in Keys, NEW o \in Objects, HashStep(t, k) # NULL
  PROVE  Sound(Store(t, k, o))
<1> DEFINE s == HashStep(t, k)
           i == Probe(t, k, s)
           u == Store(t, k, o)
<1>0. IsMap(t)
  BY DEF Sound
<1>1. /\ IsMap(u) /\ u.size = t.size /\ Slots(u) = Slots(t)
      /\ u.item[i] = [key |-> k, obj |-> o]
      /\ \A j \in Slots(t) : j # i => u.item[j] = t.item[j]
      /\ u.count = IF Free(t, i) THEN t.count + 1 ELSE t.count
      /\ Live(u) = Live(t) \cup {i}
      /\ Free(t, i) <=> i \notin Live(t)
      /\ [key |-> k, obj |-> o] \in Item
  BY <1>0, StoreFields
<1>2. /\ s \in Slots(t) /\ i \in Slots(t)
      /\ \A j \in 0..(s - 1) : ~ Free(t, Probe(t, k, j))
  BY <1>0, HashStops
<1>3. \A x, j : Probe(u, x, j) = Probe(t, x, j)
  BY <1>1 DEF Probe
<1> HIDE DEF s, i, u
<1>4. u.count = Cardinality(Live(u))
  BY <1>0, <1>1, LiveFinite, FS_AddElement DEF Sound
<1>5. u.item[i] # EMPTY
  BY <1>1, MapConstants DEF MapConstants, Item
<1>6. \A j \in Slots(t) : t.item[j] # EMPTY => u.item[j] # EMPTY
  BY <1>1, <1>5
<1>7. t.size \in Nat \ {0}
  BY <1>0, <1>2 DEF IsMap, Slots
<1>8. Findable(u)
  <2> SUFFICES ASSUME NEW j \in Live(u)
               PROVE  \E w \in Slots(u) :
                        /\ Probe(u, u.item[j].key, w) = j
                        /\ \A x \in 0..(w - 1) : u.item[Probe(u, u.item[j].key, x)] # EMPTY
    BY DEF Findable
  <2>1. CASE j = i
    <3>1. u.item[j].key = k
      BY <1>1, <2>1
    <3>2. \A x \in 0..(s - 1) : Probe(t, k, x) \in Slots(t) /\ t.item[Probe(t, k, x)] # EMPTY
      BY <1>2, <1>7, ProbeSlot, MapConstants DEF Free, MapConstants
    <3> QED BY <1>1, <1>2, <1>3, <1>6, <2>1, <3>1, <3>2 DEF i
  <2>2. CASE j # i
    <3>1. j \in Live(t) /\ u.item[j] = t.item[j]
      BY <1>1, <2>2 DEF Live
    <3>2. PICK w \in Slots(t) : /\ Probe(t, t.item[j].key, w) = j
                                /\ \A x \in 0..(w - 1) : t.item[Probe(t, t.item[j].key, x)] # EMPTY
      BY <3>1 DEF Sound, Findable
    <3>3. t.item[j].key \in Nat
      BY <1>0, <3>1, LiveItem
    <3>4. \A x \in 0..(w - 1) : Probe(t, t.item[j].key, x) \in Slots(t)
      BY <1>7, <3>3, ProbeSlot
    <3> QED BY <1>1, <1>3, <1>6, <3>1, <3>2, <3>4
  <2> QED BY <2>1, <2>2
<1> QED BY <1>1, <1>4, <1>8 DEF Sound, u

\* A new object displaces at most the one it is put over.
LEMMA StoreDistinct ==
  ASSUME NEW t, IsMap(t), Distinct(t), NEW k \in Keys, NEW o \in Objects,
         HashStep(t, k) # NULL, o \notin Objs(t)
  PROVE  LET u == Store(t, k, o)
             i == Probe(t, k, HashStep(t, k))
         IN  /\ Distinct(u)
             /\ \A x \in Objs(u) : x = o \/ x \in Objs(t)
             /\ ~ Free(t, i) => t.item[i].obj \notin Objs(u)
<1> DEFINE i == Probe(t, k, HashStep(t, k))
           u == Store(t, k, o)
<1>0. /\ u.item[i] = [key |-> k, obj |-> o]
      /\ \A j \in Slots(t) : j # i => u.item[j] = t.item[j]
      /\ Live(u) = Live(t) \cup {i}
      /\ Free(t, i) <=> i \notin Live(t)
  BY StoreFields
<1>2. \A j \in Live(t) : j \in Slots(t) /\ t.item[j].obj \in Objs(t)
  BY LiveItem DEF Objs, Items
<1> HIDE DEF i, u
<1>1. /\ u.item[i].obj = o
      /\ \A j \in Live(u) : j # i => j \in Live(t) /\ u.item[j] = t.item[j]
      /\ Free(t, i) <=> i \notin Live(t)
  BY <1>0, <1>2
<1>3. Distinct(u)
  BY <1>1, <1>2 DEF Distinct
<1>4. \A x \in Objs(u) : \E j \in Live(u) : x = u.item[j].obj
  BY DEF Objs, Items
<1>5. \A x \in Objs(u) : x = o \/ x \in Objs(t)
  BY <1>1, <1>2, <1>4
<1>6. ~ Free(t, i) => t.item[i].obj \notin Objs(u)
  BY <1>1, <1>2, <1>4 DEF Distinct
<1> QED BY <1>3, <1>5, <1>6 DEF i, u

Stored(t, k) == \E j \in Live(t) : t.item[j].key = k

\* A new key takes a free slot.
LEMMA StoreSingle ==
  ASSUME NEW t, IsMap(t), Single(t), NEW k \in Keys, NEW o \in Objects,
         HashStep(t, k) # NULL, ~ Stored(t, k)
  PROVE  LET u == Store(t, k, o)
         IN  /\ Single(u)
             /\ Items(u) = Items(t) \cup {[key |-> k, obj |-> o]}
             /\ Free(t, Probe(t, k, HashStep(t, k)))
<1> DEFINE i == Probe(t, k, HashStep(t, k))
           u == Store(t, k, o)
<1>0. /\ u.item[i] = [key |-> k, obj |-> o]
      /\ \A j \in Slots(t) : j # i => u.item[j] = t.item[j]
      /\ Live(u) = Live(t) \cup {i}
      /\ Free(t, i) <=> i \notin Live(t)
  BY StoreFields
<1>2. Free(t, i) \/ Holds(t, i, k)
  BY HashStops
<1> DEFINE it == [key |-> k, obj |-> o]
<1>3. it.key = k /\ \A j \in Live(t) : j \in Slots(t)
  BY LiveItem
<1> HIDE DEF i, u, it
<1>1. /\ u.item[i] = it /\ i \in Live(u)
      /\ \A j \in Live(u) : j # i => j \in Live(t) /\ u.item[j] = t.item[j]
      /\ Live(u) = Live(t) \cup {i}
      /\ Free(t, i) <=> i \notin Live(t)
      /\ \A j \in Live(t) : j # i => u.item[j] = t.item[j]
  BY <1>0, <1>3 DEF it
<1>4. Free(t, i)
  BY <1>1, <1>2 DEF Holds, Stored
<1>5. Single(u)
  BY <1>1, <1>3 DEF Single, Stored
<1>6. Items(u) = Items(t) \cup {it}
  BY <1>1, <1>4 DEF Items
<1> QED BY <1>4, <1>5, <1>6 DEF i, u, it

-----------------------------------------------------------------------------
(* Keys with a slot of their own.                                          *)

\* Such a key is in its home slot, and nothing else is.
Apart(t) == \A i \in Live(t), k \in OwnSlot : t.item[i].key = k <=> i = k % t.size

\* One turn of a probe sequence visits no slot twice.
LEMMA ProbeOnce ==
  ASSUME NEW t, t.size \in Nat, NEW q \in Nat, NEW x \in Slots(t), NEW y \in Slots(t),
         Probe(t, q, x) = Probe(t, q, y)
  PROVE  x = y
<1> DEFINE n == t.size
<1>1. n \in Nat \ {0} /\ x \in 0..(n - 1) /\ y \in 0..(n - 1)
  BY DEF Slots
<1>2. (q + x) % n = (q + y) % n
  BY DEF Probe
<1>2a. q + x \in Nat /\ q + y \in Nat
  BY <1>1
<1> HIDE DEF n
<1>3. PICK a \in Int : \E r \in 0..(n - 1) : q + x = n * a + r
  BY <1>1, <1>2a, Division
<1>4. PICK r \in 0..(n - 1) : q + x = n * a + r
  BY <1>3
<1>5. PICK b \in Int : \E w \in 0..(n - 1) : q + y = n * b + w
  BY <1>1, <1>2a, Division
<1>6. PICK w \in 0..(n - 1) : q + y = n * b + w
  BY <1>5
<1>7. (q + x) % n = r /\ (q + y) % n = w
  BY <1>1, <1>3, <1>4, <1>5, <1>6, Turns
<1>8. r = w
  BY <1>2, <1>7
<1>9. a - b \in Int /\ x - y = n * (a - b)
  BY <1>1, <1>3, <1>4, <1>5, <1>6, <1>8
<1>10. \A c \in Int : (c >= 1 => n * c >= n) /\ (c <= -1 => n * c <= -n)
  BY <1>1
<1>11. a - b = 0
  BY <1>1, <1>9, <1>10
<1> QED BY <1>1, <1>9, <1>11

\* map_hash finds such a key a place at once.
LEMMA OwnHome ==
  ASSUME NEW t, IsMap(t), Apart(t), NEW k \in OwnSlot, HashStep(t, k) # NULL
  PROVE  Probe(t, k, HashStep(t, k)) = k % t.size
<1> DEFINE s == HashStep(t, k)
<1>1. /\ s \in Slots(t)
      /\ \A j \in 0..(s - 1) : ~ Free(t, Probe(t, k, j)) /\ ~ Holds(t, Probe(t, k, j), k)
  BY HashStops, MapConstants DEF MapConstants
<1>2. s \in Nat /\ t.size \in Nat \ {0} /\ k \in Nat
  BY <1>1, MapConstants DEF MapConstants, IsMap, Slots
<1>3. Probe(t, k, 0) = k % t.size /\ Probe(t, k, 0) \in Slots(t)
  <2>1. k + 0 = k
    BY <1>2
  <2> QED BY <1>2, <2>1, ProbeSlot DEF Probe
<1> HIDE DEF s
<1>4. Free(t, Probe(t, k, 0)) \/ Holds(t, Probe(t, k, 0), k)
  BY <1>3, LiveItem DEF Apart, Holds
<1>5. s = 0
  BY <1>1, <1>2, <1>4
<1> QED BY <1>3, <1>5 DEF s

\* No other key is displaced as far as its home slot.
LEMMA StaysClear ==
  ASSUME NEW t, IsMap(t), Single(t), Apart(t), t.size \in Sizes,
         NEW q \in Keys \ OwnSlot, ~ Stored(t, q), HashStep(t, q) # NULL, NEW k \in OwnSlot
  PROVE  Probe(t, q, HashStep(t, q)) # k % t.size
<1> DEFINE s == HashStep(t, q)
           C == Cardinality(Rivals(q))
<1>1. /\ s \in Slots(t)
      /\ \A j \in 0..(s - 1) : ~ Free(t, Probe(t, q, j))
  BY HashStops
<1>2. s \in Nat /\ t.size \in Nat \ {0} /\ q \in Nat
  BY <1>1, MapConstants DEF MapConstants, IsMap, Slots
<1>3. IsFiniteSet(Rivals(q)) /\ Rivals(q) = (Keys \ OwnSlot) \ {q} /\ C \in Nat
  BY OwnSlotConstants, FS_CardinalityType DEF Rivals
<1>4. \A x \in OwnSlot : \A j \in 0..C : Probe(t, q, j) # x % t.size
  BY OwnSlotConstants DEF Probe
<1> HIDE DEF s, C
<1>5. s <= C
  <2> SUFFICES ASSUME ~ (s <= C) PROVE FALSE
    OBVIOUS
  <2>1. \A j \in 0..C : j \in 0..(s - 1) /\ j \in Slots(t) /\ j \in Nat
    BY <1>1, <1>2, <1>3 DEF Slots
  <2>2. \A j \in 0..C : Probe(t, q, j) \in Live(t)
    BY <1>1, <1>2, <2>1, ProbeSlot, LiveItem
  <2> DEFINE f == [j \in 0..C |-> t.item[Probe(t, q, j)].key]
  <2>3. ASSUME NEW j \in 0..C PROVE f[j] \in Rivals(q)
    <3>1. Probe(t, q, j) \in Live(t) /\ f[j] = t.item[Probe(t, q, j)].key
      BY <2>2
    <3>2. f[j] \in Keys /\ f[j] # q
      BY <3>1, LiveItem DEF Stored
    <3>3. f[j] \notin OwnSlot
      BY <1>4, <3>1 DEF Apart
    <3> QED BY <1>3, <3>2, <3>3
  <2>4. f \in [0..C -> Rivals(q)]
    BY <2>3
  <2>5. IsFiniteSet(0..C) /\ Cardinality(0..C) = C + 1
    BY <1>3, FS_Interval
  <2>6. Cardinality(Rivals(q)) < Cardinality(0..C)
    BY <1>3, <2>5 DEF C
  <2> HIDE DEF f
  <2>7. PICK x, y \in 0..C : x # y /\ f[x] = f[y]
    BY <1>3, <2>4, <2>5, <2>6, FS_PigeonHole
  <2>8. Probe(t, q, x) = Probe(t, q, y)
    BY <2>2, <2>7 DEF Single, f
  <2> QED BY <1>2, <2>1, <2>7, <2>8, ProbeOnce
<1>6. s \in 0..C
  BY <1>2, <1>3, <1>5
<1> QED BY <1>4, <1>6 DEF s

\* A put that finds the key's own slot, or a free one, keeps them apart.
LEMMA StoreApart ==
  ASSUME NEW t, IsMap(t), Single(t), Apart(t), t.size \in Sizes,
         NEW k \in Keys, NEW o \in Objects, HashStep(t, k) # NULL,
         k \in OwnSlot \/ ~ Stored(t, k)
  PROVE  Apart(Store(t, k, o))
<1> DEFINE i == Probe(t, k, HashStep(t, k))
           u == Store(t, k, o)
<1>1. /\ u.item[i] = [key |-> k, obj |-> o] /\ u.size = t.size
      /\ \A j \in Slots(t) : j # i => u.item[j] = t.item[j]
      /\ Live(u) = Live(t) \cup {i}
  BY StoreFields
<1>2. \A j \in Live(t) : j \in Slots(t)
  BY LiveItem
<1>3. ASSUME NEW x \in OwnSlot PROVE k = x <=> i = x % t.size
  <2>1. CASE k \in OwnSlot
    <3>1. i = k % t.size
      BY <2>1, OwnHome
    <3>2. ASSUME k # x PROVE k % t.size # x % t.size
      <4>1. Rivals(k) = {} /\ Cardinality(Rivals(k)) = 0
        BY <2>1, FS_EmptySet DEF Rivals
      <4>2. k \in Keys \ {x} /\ 0 \in 0..Cardinality(Rivals(k))
        BY <3>2, <4>1
      <4>3. (k + 0) % t.size # x % t.size
        BY <4>2, OwnSlotConstants
      <4>4. k + 0 = k
        BY MapConstants DEF MapConstants
      <4> QED BY <4>3, <4>4
    <3> QED BY <3>1, <3>2
  <2>2. CASE k \notin OwnSlot
    BY <2>2, StaysClear
  <2> QED BY <2>1, <2>2
<1> HIDE DEF i, u
<1>4. u.item[i].key = k
  BY <1>1
<1>5. ASSUME NEW j \in Live(u), NEW x \in OwnSlot
      PROVE  u.item[j].key = x <=> j = x % u.size
  <2>1. CASE j = i
    BY <1>1, <1>3, <1>4, <2>1
  <2>2. CASE j # i
    BY <1>1, <1>2, <2>2 DEF Apart
  <2> QED BY <2>1, <2>2
<1> QED BY <1>5 DEF Apart, u

\* A put of such a key replaces the item it had.
LEMMA StoreOwn ==
  ASSUME NEW t, IsMap(t), Single(t), Apart(t),
         NEW k \in OwnSlot, NEW o \in Objects, HashStep(t, k) # NULL, Stored(t, k)
  PROVE  LET i == Probe(t, k, HashStep(t, k))
             u == Store(t, k, o)
         IN  /\ i \in Live(t) /\ t.item[i].key = k /\ ~ Free(t, i)
             /\ Single(u)
             /\ Items(u) = (Items(t) \ {t.item[i]}) \cup {[key |-> k, obj |-> o]}
<1> DEFINE i == Probe(t, k, HashStep(t, k))
           u == Store(t, k, o)
           it == [key |-> k, obj |-> o]
<1>1. /\ u.item[i] = it
      /\ \A j \in Slots(t) : j # i => u.item[j] = t.item[j]
      /\ Live(u) = Live(t) \cup {i}
  BY StoreFields, MapConstants DEF MapConstants
<1>2. i = k % t.size
  BY OwnHome
<1> HIDE DEF i, u
<1>3. i \in Live(t) /\ t.item[i].key = k
  BY <1>2 DEF Apart, Stored
<1>4. \A j \in Live(t) : j \in Slots(t) /\ ~ Free(t, j)
  BY LiveItem
<1>5. it.key = k
  OBVIOUS
<1> HIDE DEF it
<1>6. Live(u) = Live(t) /\ \A j \in Live(t) : u.item[j].key = t.item[j].key
  BY <1>1, <1>3, <1>4, <1>5
<1>7. Single(u)
  BY <1>6 DEF Single
<1>8. \A j \in Live(t) : j # i => t.item[j] # t.item[i] /\ u.item[j] = t.item[j]
  BY <1>1, <1>3, <1>4 DEF Single
<1>9. Items(u) = (Items(t) \ {t.item[i]}) \cup {it}
  BY <1>1, <1>3, <1>6, <1>8 DEF Items
<1> QED BY <1>3, <1>4, <1>7, <1>9 DEF i, u, it

-----------------------------------------------------------------------------
(* map_remove and map_find.                                                *)

\* A walk that map_find can follow ends at a slot that holds the key.
LEMMA FindStops ==
  ASSUME NEW t, IsMap(t), NEW k \in Keys, MapContains(t, k)
  PROVE  LET i == Probe(t, k, FindStep(t, k))
         IN  i \in Live(t) /\ t.item[i].key = k
<1> DEFINE S == { i \in Slots(t) :
                    /\ Holds(t, Probe(t, k, i), k)
                    /\ \A j \in 0..(i - 1) : t.item[Probe(t, k, j)] # EMPTY }
           s == FindStep(t, k)
<1>1. S \subseteq Nat
  BY DEF Slots, IsMap
<1>2. s = FirstOf(S, NULL) /\ s # NULL
  BY DEF FindStep, MapContains
<1>3. S # {}
  BY <1>2 DEF FirstOf
<1>4. s \in S
  BY <1>1, <1>2, <1>3, FirstIsFirst
<1>5. s \in Slots(t) /\ t.size \in Nat /\ k \in Nat
  BY <1>4, MapConstants DEF IsMap, MapConstants
<1>6. t.size \in Nat \ {0} /\ s \in Nat
  BY <1>5 DEF Slots
<1>7. Probe(t, k, s) \in Slots(t)
  BY <1>5, <1>6, ProbeSlot
<1> HIDE DEF s
<1>8. Holds(t, Probe(t, k, s), k)
  BY <1>4
<1> QED BY <1>7, <1>8, LiveItem DEF Holds, s

\* What is stored is found.
LEMMA FoundIfStored ==
  ASSUME NEW t, IsMap(t), Findable(t), NEW i \in Live(t)
  PROVE  MapContains(t, t.item[i].key)
<1> DEFINE k == t.item[i].key
           S == { w \in Slots(t) :
                    /\ Holds(t, Probe(t, k, w), k)
                    /\ \A j \in 0..(w - 1) : t.item[Probe(t, k, j)] # EMPTY }
<1>1. PICK s \in Slots(t) : /\ Probe(t, k, s) = i
                            /\ \A j \in 0..(s - 1) : t.item[Probe(t, k, j)] # EMPTY
  BY DEF Findable
<1>2. Holds(t, i, k)
  BY LiveItem DEF Holds
<1>3. s \in S /\ S \subseteq Nat
  BY <1>1, <1>2 DEF Slots, IsMap
<1>4. FindStep(t, k) = FirstOf(S, NULL)
  BY DEF FindStep
<1> HIDE DEF S
<1> QED BY <1>3, <1>4, FirstIsFirst DEF MapContains

\* In a map without duplicates map_get returns what is stored under the key.
LEMMA GetIsStored ==
  ASSUME NEW t, IsMap(t), Findable(t), Single(t), NEW k \in Keys
  PROVE  /\ \A o : [key |-> k, obj |-> o] \in Items(t) => MapGet(t, k) = o
         /\ MapGet(t, k) # NULL => [key |-> k, obj |-> MapGet(t, k)] \in Items(t)
         /\ MapContains(t, k) <=> MapGet(t, k) # NULL
<1> DEFINE i == Probe(t, k, FindStep(t, k))
<1>1. CASE MapContains(t, k)
  <2>1. i \in Live(t) /\ t.item[i].key = k /\ MapGet(t, k) = t.item[i].obj
    BY <1>1, FindStops DEF MapGet
  <2> HIDE DEF i
  <2>2. t.item[i] = [key |-> k, obj |-> t.item[i].obj] /\ t.item[i].obj \in Objects
    BY <2>1, LiveItem
  <2>3. [key |-> k, obj |-> MapGet(t, k)] \in Items(t) /\ MapGet(t, k) # NULL
    BY <2>1, <2>2, MapConstants DEF Items, MapConstants
  <2>4. ASSUME NEW o, [key |-> k, obj |-> o] \in Items(t) PROVE MapGet(t, k) = o
    <3>1. PICK j \in Live(t) : t.item[j] = [key |-> k, obj |-> o]
      BY <2>4 DEF Items
    <3>2. j = i
      BY <2>1, <3>1 DEF Single
    <3> QED BY <2>1, <3>1, <3>2
  <2> QED BY <1>1, <2>3, <2>4
<1>2. CASE ~ MapContains(t, k)
  <2>1. ASSUME NEW o, [key |-> k, obj |-> o] \in Items(t) PROVE FALSE
    <3>1. PICK j \in Live(t) : t.item[j] = [key |-> k, obj |-> o]
      BY <2>1 DEF Items
    <3> QED BY <1>2, <3>1, FoundIfStored
  <2> QED BY <1>2, <2>1 DEF MapGet
<1> QED BY <1>1, <1>2

\* map_remove, field by field.
LEMMA RemoveFields ==
  ASSUME NEW t, Sound(t), NEW k \in Keys, MapContains(t, k)
  PROVE  LET u == MapRemove(t, k)
             i == Probe(t, k, FindStep(t, k))
         IN  /\ Sound(u) /\ u.size = t.size
             /\ i \in Live(t) /\ Live(u) = Live(t) \ {i}
             /\ \A j \in Slots(t) : j # i => u.item[j] = t.item[j]
<1> DEFINE i == Probe(t, k, FindStep(t, k))
           u == MapRemove(t, k)
<1>0. IsMap(t) /\ t.count = Cardinality(Live(t)) /\ Findable(t)
  BY DEF Sound
<1>1. i \in Live(t) /\ i \in Slots(t) /\ ~ Free(t, i)
  BY <1>0, FindStops, LiveItem
<1>2. u = [t EXCEPT !.count = t.count - 1, !.item[i] = DELETED]
  BY DEF MapRemove
<1> HIDE DEF i, u
<1>3. t = [size |-> t.size, count |-> t.count, item |-> t.item]
  BY <1>0 DEF IsMap
<1>4. u = [size |-> t.size, count |-> t.count - 1, item |-> [t.item EXCEPT ![i] = DELETED]]
  BY <1>2, <1>3
<1>5. /\ u.size = t.size /\ u.count = t.count - 1
      /\ u.item = [t.item EXCEPT ![i] = DELETED]
  BY <1>4
<1>6. Slots(u) = Slots(t) /\ \A x, j : Probe(u, x, j) = Probe(t, x, j)
  BY <1>5 DEF Slots, Probe
<1>7. t.item \in [Slots(t) -> Cells] /\ t.size \in Nat /\ DELETED \in Cells
  BY <1>0 DEF IsMap, Cells
<1>8. /\ u.item \in [Slots(u) -> Cells] /\ u.item[i] = DELETED
      /\ \A j \in Slots(t) : j # i => u.item[j] = t.item[j]
  BY <1>1, <1>5, <1>6, <1>7
<1>9. Live(u) = Live(t) \ {i}
  BY <1>1, <1>6, <1>8 DEF Live
<1>10. u.count = Cardinality(Live(u)) /\ u.count \in Nat
  <2>1. IsFiniteSet(Live(t)) /\ Cardinality(Live(u)) = Cardinality(Live(t)) - 1
    BY <1>0, <1>1, <1>9, LiveFinite, FS_RemoveElement
  <2>2. IsFiniteSet(Live(u))
    BY <1>9, <2>1, FS_RemoveElement
  <2> QED BY <1>0, <1>5, <2>1, <2>2, FS_CardinalityType
<1>11. IsMap(u)
  BY <1>4, <1>5, <1>7, <1>8, <1>10 DEF IsMap
<1>12. \A j \in Slots(t) : t.item[j] # EMPTY => u.item[j] # EMPTY
  BY <1>8, MapConstants DEF MapConstants
<1>13. Findable(u)
  <2> SUFFICES ASSUME NEW j \in Live(u)
               PROVE  \E w \in Slots(u) :
                        /\ Probe(u, u.item[j].key, w) = j
                        /\ \A x \in 0..(w - 1) : u.item[Probe(u, u.item[j].key, x)] # EMPTY
    BY DEF Findable
  <2>1. j \in Live(t) /\ u.item[j] = t.item[j]
    BY <1>8, <1>9 DEF Live
  <2>2. PICK w \in Slots(t) : /\ Probe(t, t.item[j].key, w) = j
                              /\ \A x \in 0..(w - 1) : t.item[Probe(t, t.item[j].key, x)] # EMPTY
    BY <1>0, <2>1 DEF Findable
  <2>3. t.item[j].key \in Nat
    BY <1>0, <2>1, LiveItem
  <2>5. t.size \in Nat \ {0}
    BY <1>1, <1>7 DEF Slots
  <2>4. \A x \in 0..(w - 1) : Probe(t, t.item[j].key, x) \in Slots(t)
    BY <2>3, <2>5, ProbeSlot
  <2> QED BY <1>6, <1>12, <2>1, <2>2, <2>4
<1> QED BY <1>1, <1>5, <1>8, <1>9, <1>10, <1>11, <1>13 DEF Sound, i, u

-----------------------------------------------------------------------------
(* map_rehash and the loop of ctrl_cmd_bye.                                *)

\* The table map_rehash starts from.
LEMMA EmptyIsSound ==
  ASSUME NEW n \in Nat
  PROVE  /\ Sound(EmptyTable(n)) /\ Live(EmptyTable(n)) = {}
         /\ EmptyTable(n).size = n
<1> DEFINE t == EmptyTable(n)
<1>1. /\ t = [size |-> n, count |-> 0, item |-> [i \in 0..(n - 1) |-> EMPTY]]
      /\ t.size = n /\ t.count = 0 /\ t.item = [i \in 0..(n - 1) |-> EMPTY]
  BY DEF EmptyTable
<1> HIDE DEF t
<1>2. t = [size |-> t.size, count |-> t.count, item |-> t.item] /\ Slots(t) = 0..(n - 1)
  BY <1>1 DEF Slots
<1>3. IsMap(t)
  BY <1>1, <1>2 DEF IsMap, Cells
<1>4. Live(t) = {}
  BY <1>1, <1>2 DEF Live
<1>5. Sound(t)
  BY <1>1, <1>3, <1>4, FS_EmptySet DEF Sound, Findable
<1> QED BY <1>1, <1>4, <1>5 DEF t

\* The loop of map_rehash, slot by slot.
CopyStep(t, n, u) ==
  IF Free(t, n - 1) THEN u ELSE Store(u, t.item[n - 1].key, t.item[n - 1].obj)

IsCopying(t, c, m) ==
  c = [n \in 0..m |-> IF n = 0 THEN EmptyTable(t.size + Grow) ELSE CopyStep(t, n, c[n - 1])]

\* The recursive definition of Rehash has a solution.
LEMMA CopyingExists ==
  ASSUME NEW t, t.size \in Nat
  PROVE  \E c : IsCopying(t, c, t.size)
<1> DEFINE N == t.size
           S == { m \in 0..N : \E c : IsCopying(t, c, m) }
<1>1. 0 \in S
  <2> DEFINE c == [n \in 0..0 |-> EmptyTable(t.size + Grow)]
  <2>1. IsCopying(t, c, 0)
    BY DEF IsCopying
  <2> QED BY <2>1
<1>2. ASSUME NEW m \in 0..(N - 1), m \in S PROVE m + 1 \in S
  <2>1. PICK c : IsCopying(t, c, m)
    BY <1>2
  <2>2. /\ m \in Nat /\ m + 1 \in 0..N
        /\ DOMAIN c = 0..m
        /\ \A n \in 0..m : c[n] = IF n = 0 THEN EmptyTable(t.size + Grow)
                                           ELSE CopyStep(t, n, c[n - 1])
    BY <2>1 DEF IsCopying
  <2> DEFINE d == [n \in 0..(m + 1) |-> IF n <= m THEN c[n] ELSE CopyStep(t, n, c[m])]
  <2>3. \A n \in 0..(m + 1) : d[n] = IF n = 0 THEN EmptyTable(t.size + Grow)
                                              ELSE CopyStep(t, n, d[n - 1])
    <3> SUFFICES ASSUME NEW n \in 0..(m + 1)
                 PROVE  d[n] = IF n = 0 THEN EmptyTable(t.size + Grow) ELSE CopyStep(t, n, d[n - 1])
      OBVIOUS
    <3>1. CASE n = 0
      BY <2>2, <3>1
    <3>2. CASE n \in 1..m
      <4>1. n <= m /\ n - 1 \in 0..(m + 1) /\ n - 1 <= m /\ n \in 0..m /\ n # 0
        BY <2>2, <3>2
      <4> QED BY <2>2, <4>1
    <3>3. CASE n = m + 1
      <4>1. n - 1 = m /\ ~ (n <= m) /\ m \in 0..(m + 1) /\ m <= m /\ n # 0
        BY <2>2, <3>3
      <4> QED BY <4>1
    <3> QED BY <2>2, <3>1, <3>2, <3>3
  <2>4. d = [n \in 0..(m + 1) |-> d[n]]
    OBVIOUS
  <2> HIDE DEF d
  <2>5. IsCopying(t, d, m + 1)
    BY <2>3, <2>4 DEF IsCopying
  <2> QED BY <2>2, <2>5
<1> HIDE DEF S
<1>3. \A m \in 0..N : m \in S
  BY <1>1, <1>2, IntervalInduction
<1> QED BY <1>3 DEF S

\* Rehash is what the last iteration of its loop leaves.
LEMMA RehashIsCopying ==
  ASSUME NEW t, t.size \in Nat
  PROVE  \E c : /\ Rehash(t) = c[t.size]
                /\ c[0] = EmptyTable(t.size + Grow)
                /\ \A n \in 1..t.size : c[n] = CopyStep(t, n, c[n - 1])
<1> DEFINE c == CHOOSE c : IsCopying(t, c, t.size)
<1>1. Rehash(t) = c[t.size]
  BY DEF Rehash, IsCopying, CopyStep
<1>2. IsCopying(t, c, t.size)
  BY CopyingExists
<1> HIDE DEF c
<1>3. /\ c[0] = EmptyTable(t.size + Grow)
      /\ \A n \in 1..t.size : c[n] = CopyStep(t, n, c[n - 1])
  BY <1>2 DEF IsCopying
<1> QED BY <1>1, <1>3

\* What copying the first n slots of t has made of the larger table.
Before(t, n) == { t.item[i] : i \in { j \in Live(t) : j < n } }

Copied(t, n, u) ==
  /\ Sound(u) /\ u.size = t.size + Grow
  /\ Cardinality(Live(u)) <= n
  /\ Items(u) \subseteq Before(t, n)
  /\ Distinct(t) => Distinct(u)
  /\ Single(t) => Single(u) /\ Items(u) = Before(t, n)
  /\ Single(t) /\ u.size \in Sizes => Apart(u)

\* A put adds no item but its own.
LEMMA StoreItems ==
  ASSUME NEW t, IsMap(t), NEW k \in Keys, NEW o \in Objects, HashStep(t, k) # NULL
  PROVE  Items(Store(t, k, o)) \subseteq Items(t) \cup {[key |-> k, obj |-> o]}
<1> DEFINE i == Probe(t, k, HashStep(t, k))
           u == Store(t, k, o)
<1>1. /\ u.item[i] = [key |-> k, obj |-> o]
      /\ \A j \in Slots(t) : j # i => u.item[j] = t.item[j]
      /\ Live(u) = Live(t) \cup {i}
  BY StoreFields
<1>2. \A j \in Live(t) : j \in Slots(t)
  BY LiveItem
<1> HIDE DEF i, u
<1>3. ASSUME NEW j \in Live(u) PROVE u.item[j] \in Items(t) \cup {[key |-> k, obj |-> o]}
  BY <1>1, <1>2 DEF Items
<1>4. Items(u) \subseteq Items(t) \cup {[key |-> k, obj |-> o]}
  BY <1>3 DEF Items
<1> QED BY <1>4 DEF u

\* One iteration of the loop of map_rehash.
LEMMA CopyStepCopies ==
  ASSUME NEW t, IsMap(t), NEW n \in 1..t.size, NEW u, Copied(t, n - 1, u)
  PROVE  Copied(t, n, CopyStep(t, n, u))
<1>0. /\ t.size \in Nat /\ n \in Nat /\ n - 1 \in Nat /\ n - 1 \in Slots(t)
      /\ Grow \in Nat /\ Grow > 0
  BY MapConstants DEF IsMap, Slots, MapConstants
<1>1. /\ Sound(u) /\ IsMap(u) /\ u.size = t.size + Grow
      /\ Cardinality(Live(u)) <= n - 1
      /\ Items(u) \subseteq Before(t, n - 1)
      /\ Distinct(t) => Distinct(u)
      /\ Single(t) => Single(u) /\ Items(u) = Before(t, n - 1)
      /\ Single(t) /\ u.size \in Sizes => Apart(u)
  BY DEF Copied, Sound
<1>2. Cardinality(Live(u)) \in Nat /\ IsFiniteSet(Live(u))
  BY <1>1, LiveFinite, FS_CardinalityType
<1>3. CASE Free(t, n - 1)
  <2>1. { j \in Live(t) : j < n } = { j \in Live(t) : j < n - 1 }
    <3>1. n - 1 \notin Live(t)
      BY <1>3, LiveItem
    <3>2. \A j \in Live(t) : j \in Nat
      BY <1>0, LiveItem DEF Slots
    <3> QED BY <1>0, <3>1, <3>2
  <2>2. Before(t, n) = Before(t, n - 1)
    BY <2>1 DEF Before
  <2>3. CopyStep(t, n, u) = u
    BY <1>3 DEF CopyStep
  <2>4. Cardinality(Live(u)) <= n
    BY <1>0, <1>1, <1>2
  <2> QED BY <1>1, <2>2, <2>3, <2>4 DEF Copied
<1>4. CASE ~ Free(t, n - 1)
  <2> DEFINE k == t.item[n - 1].key
             o == t.item[n - 1].obj
             it == [key |-> k, obj |-> o]
             v == Store(u, k, o)
             i == Probe(u, k, HashStep(u, k))
  <2>1. /\ n - 1 \in Live(t) /\ k \in Keys /\ o \in Objects
        /\ t.item[n - 1] = it
    BY <1>0, <1>4, LiveItem
  <2>2. Cardinality(Live(u)) # u.size
    BY <1>0, <1>1, <1>2
  <2>3. HashStep(u, k) # NULL
    BY <1>1, <2>1, <2>2, HashFinds
  <2>4. CopyStep(t, n, u) = v
    BY <1>4 DEF CopyStep
  <2>5. Sound(v)
    BY <1>1, <2>1, <2>3, StoreSound
  <2> HIDE DEF k, o
  <2>6a. v.size = u.size
    BY <1>1, <2>1, <2>3, StoreFields
  <2>6. Live(v) = Live(u) \cup {i}
    BY <1>1, <2>1, <2>3, StoreFields
  <2>7. Cardinality(Live(v)) <= n
    <3>1. Cardinality(Live(u) \cup {i}) =
            IF i \in Live(u) THEN Cardinality(Live(u)) ELSE Cardinality(Live(u)) + 1
      BY <1>2, FS_AddElement
    <3> HIDE DEF i, v
    <3> QED BY <1>0, <1>1, <1>2, <2>6, <3>1
  <2>8. Items(v) \subseteq Items(u) \cup {it}
    BY <1>1, <2>1, <2>3, StoreItems
  <2>9. Before(t, n) = Before(t, n - 1) \cup {it}
    <3>1. { j \in Live(t) : j < n } = { j \in Live(t) : j < n - 1 } \cup {n - 1}
      <4>1. \A j \in Live(t) : j \in Nat
        BY <1>0, LiveItem DEF Slots
      <4> QED BY <1>0, <2>1, <4>1
    <3> QED BY <2>1, <3>1 DEF Before
  <2>10. ASSUME NEW x \in Items(u)
         PROVE  \E j \in Live(t) : j # n - 1 /\ x = t.item[j]
    <3>1. \A j \in Live(t) : j \in Nat
      BY <1>0, LiveItem DEF Slots
    <3> QED BY <1>0, <1>1, <3>1 DEF Before
  <2> HIDE DEF it, v, i
  <2>11. ASSUME Distinct(t) PROVE Distinct(v)
    <3>1. o \notin Objs(u)
      BY <2>1, <2>10, <2>11 DEF Distinct, Objs, o
    <3> QED BY <1>1, <2>1, <2>3, <2>11, <3>1, StoreDistinct DEF v
  <2>12. ASSUME Single(t)
         PROVE  /\ Single(v) /\ Items(v) = Items(u) \cup {it}
                /\ v.size \in Sizes => Apart(v)
    <3>1. ASSUME NEW j \in Live(u) PROVE u.item[j].key # k
      <4>1. u.item[j] \in Items(u)
        BY DEF Items
      <4>2. PICK m \in Live(t) : m # n - 1 /\ u.item[j] = t.item[m]
        BY <2>10, <4>1
      <4> QED BY <2>1, <2>12, <4>2 DEF Single, k
    <3>2. ~ Stored(u, k)
      BY <3>1 DEF Stored
    <3>3. Single(v) /\ Items(v) = Items(u) \cup {it}
      BY <1>1, <2>1, <2>3, <2>12, <3>2, StoreSingle DEF v, it
    <3>4. v.size \in Sizes => Apart(v)
      BY <1>1, <2>1, <2>3, <2>6a, <2>12, <3>2, StoreApart DEF v
    <3> QED BY <3>3, <3>4
  <2>13. v.size = t.size + Grow /\ Items(v) \subseteq Before(t, n)
    BY <1>1, <2>6a, <2>8, <2>9
  <2> QED BY <1>1, <2>4, <2>5, <2>7, <2>9, <2>11, <2>12, <2>13 DEF Copied
<1> QED BY <1>3, <1>4

\* A rehash keeps the table sound and leaves a slot free; it forgets nothing
\* unless a key was stored twice.
LEMMA RehashCopies ==
  ASSUME NEW t, IsMap(t)
  PROVE  Copied(t, t.size, Rehash(t))
<1>1. PICK c : /\ Rehash(t) = c[t.size]
               /\ c[0] = EmptyTable(t.size + Grow)
               /\ \A n \in 1..t.size : c[n] = CopyStep(t, n, c[n - 1])
  BY RehashIsCopying DEF IsMap
<1> DEFINE S == { n \in 0..t.size : Copied(t, n, c[n]) }
<1>2. t.size \in Nat /\ t.size + Grow \in Nat
  BY MapConstants DEF IsMap, MapConstants
<1>3. 0 \in S
  <2>1. Before(t, 0) = {}
    <3>1. \A j \in Live(t) : ~ (j < 0)
      BY <1>2, LiveItem DEF Slots
    <3> QED BY <3>1 DEF Before
  <2> DEFINE u == EmptyTable(t.size + Grow)
  <2>2. Sound(u) /\ Live(u) = {} /\ u.size = t.size + Grow
    BY <1>2, EmptyIsSound
  <2> HIDE DEF u
  <2>3. Items(u) = {} /\ Distinct(u) /\ Single(u) /\ Apart(u)
    BY <2>2 DEF Items, Distinct, Single, Apart
  <2>4. Copied(t, 0, u)
    BY <2>1, <2>2, <2>3, FS_EmptySet DEF Copied
  <2> QED BY <1>1, <1>2, <2>4 DEF u
<1>4. ASSUME NEW n \in 0..(t.size - 1), n \in S PROVE n + 1 \in S
  <2>1. n + 1 \in 1..t.size /\ (n + 1) - 1 = n /\ n + 1 \in 0..t.size
    BY <1>2
  <2>2. Copied(t, n + 1, CopyStep(t, n + 1, c[n]))
    BY <1>4, <2>1, CopyStepCopies
  <2> QED BY <1>1, <2>1, <2>2
<1> HIDE DEF S
<1>5. \A n \in 0..t.size : n \in S
  BY <1>2, <1>3, <1>4, IntervalInduction
<1> QED BY <1>1, <1>2, <1>5 DEF S

\* A put finds a slot in the table or in the larger one it is copied to.
LEMMA RoomIsReady ==
  ASSUME NEW t, Sound(t), NEW k \in Keys
  PROVE  /\ Sound(Room(t, k)) /\ HashStep(Room(t, k), k) # NULL
         /\ Room(t, k).size = IF HashFails(t, k) THEN t.size + Grow ELSE t.size
         /\ Distinct(t) => Distinct(Room(t, k))
         /\ Items(Room(t, k)) \subseteq Items(t)
         /\ Single(t) => Single(Room(t, k)) /\ Items(Room(t, k)) = Items(t)
         /\ Single(t) /\ Apart(t) /\ Room(t, k).size \in Sizes => Apart(Room(t, k))
<1>1. CASE HashFails(t, k)
  <2> DEFINE u == Rehash(t)
  <2>1. Room(t, k) = u
    BY <1>1 DEF Room
  <2>2. IsMap(t) /\ t.size \in Nat /\ Grow \in Nat /\ Grow > 0
    BY MapConstants DEF Sound, IsMap, MapConstants
  <2>3. Copied(t, t.size, u)
    BY <2>2, RehashCopies
  <2>4. Before(t, t.size) = Items(t)
    <3>1. \A j \in Live(t) : j < t.size
      BY <2>2, LiveItem DEF Slots
    <3>2. { j \in Live(t) : j < t.size } = Live(t)
      BY <3>1
    <3> QED BY <3>2 DEF Before, Items
  <2> HIDE DEF u
  <2>5. /\ Sound(u) /\ IsMap(u) /\ u.size = t.size + Grow
        /\ Cardinality(Live(u)) <= t.size
        /\ Items(u) \subseteq Items(t)
        /\ Distinct(t) => Distinct(u)
        /\ Single(t) => Single(u) /\ Items(u) = Items(t)
        /\ Single(t) /\ u.size \in Sizes => Apart(u)
    BY <2>3, <2>4 DEF Copied, Sound
  <2>6. Cardinality(Live(u)) # u.size
    BY <2>2, <2>5
  <2>7. HashStep(u, k) # NULL
    BY <2>5, <2>6, HashFinds
  <2> QED BY <1>1, <2>1, <2>5, <2>7
<1>2. CASE ~ HashFails(t, k)
  BY <1>2 DEF Room, HashFails
<1> QED BY <1>1, <1>2

\* The loop of ctrl_cmd_bye, slot by slot.
ByeStep(n, u) == IF Free(u, n - 1) THEN u ELSE MapRemove(u, u.item[n - 1].key)

IsLeaving(t, d, m) == d = [n \in 0..m |-> IF n = 0 THEN t ELSE ByeStep(n, d[n - 1])]

\* The recursive definition of ByeLoop has a solution.
LEMMA LeavingExists ==
  ASSUME NEW t, t.size \in Nat
  PROVE  \E d : IsLeaving(t, d, t.size)
<1> DEFINE N == t.size
           S == { m \in 0..N : \E d : IsLeaving(t, d, m) }
<1>1. 0 \in S
  <2> DEFINE d == [n \in 0..0 |-> t]
  <2>1. IsLeaving(t, d, 0)
    BY DEF IsLeaving
  <2> QED BY <2>1
<1>2. ASSUME NEW m \in 0..(N - 1), m \in S PROVE m + 1 \in S
  <2>1. PICK c : IsLeaving(t, c, m)
    BY <1>2
  <2>2. /\ m \in Nat /\ m + 1 \in 0..N
        /\ DOMAIN c = 0..m
        /\ \A n \in 0..m : c[n] = IF n = 0 THEN t ELSE ByeStep(n, c[n - 1])
    BY <2>1 DEF IsLeaving
  <2> DEFINE d == [n \in 0..(m + 1) |-> IF n <= m THEN c[n] ELSE ByeStep(n, c[m])]
  <2>3. \A n \in 0..(m + 1) : d[n] = IF n = 0 THEN t ELSE ByeStep(n, d[n - 1])
    <3> SUFFICES ASSUME NEW n \in 0..(m + 1)
                 PROVE  d[n] = IF n = 0 THEN t ELSE ByeStep(n, d[n - 1])
      OBVIOUS
    <3>1. CASE n = 0
      BY <2>2, <3>1
    <3>2. CASE n \in 1..m
      <4>1. n <= m /\ n - 1 \in 0..(m + 1) /\ n - 1 <= m /\ n \in 0..m /\ n # 0
        BY <2>2, <3>2
      <4> QED BY <2>2, <4>1
    <3>3. CASE n = m + 1
      <4>1. n - 1 = m /\ ~ (n <= m) /\ m \in 0..(m + 1) /\ m <= m /\ n # 0
        BY <2>2, <3>3
      <4> QED BY <4>1
    <3> QED BY <2>2, <3>1, <3>2, <3>3
  <2>4. d = [n \in 0..(m + 1) |-> d[n]]
    OBVIOUS
  <2> HIDE DEF d
  <2>5. IsLeaving(t, d, m + 1)
    BY <2>3, <2>4 DEF IsLeaving
  <2> QED BY <2>2, <2>5
<1> HIDE DEF S
<1>3. \A m \in 0..N : m \in S
  BY <1>1, <1>2, IntervalInduction
<1> QED BY <1>3 DEF S

\* Walking the slots removes items and changes none; it removes them all unless
\* a key is stored twice.
Left(t, n, u) ==
  /\ Sound(u) /\ u.size = t.size
  /\ Live(u) \subseteq Live(t)
  /\ \A i \in Live(u) : u.item[i] = t.item[i]
  /\ Single(t) => \A i \in Live(u) : ~ (i < n)

\* One iteration of the loop of ctrl_cmd_bye.
LEMMA ByeStepLeaves ==
  ASSUME NEW t, IsMap(t), NEW n \in 1..t.size, NEW u, Left(t, n - 1, u)
  PROVE  Left(t, n, ByeStep(n, u))
<1>1. /\ Sound(u) /\ IsMap(u) /\ u.size = t.size
      /\ Live(u) \subseteq Live(t)
      /\ \A i \in Live(u) : u.item[i] = t.item[i]
      /\ Single(t) => \A i \in Live(u) : ~ (i < n - 1)
  BY DEF Left, Sound
<1>2. /\ t.size \in Nat /\ n \in Nat /\ n - 1 \in Slots(u)
      /\ \A i \in Live(u) : i \in Nat
  BY <1>1, LiveItem DEF IsMap, Slots
<1>3. CASE Free(u, n - 1)
  <2>1. n - 1 \notin Live(u) /\ ByeStep(n, u) = u
    BY <1>1, <1>3, LiveItem DEF ByeStep
  <2>2. Single(t) => \A i \in Live(u) : ~ (i < n)
    BY <1>1, <1>2, <2>1
  <2> QED BY <1>1, <2>1, <2>2 DEF Left
<1>4. CASE ~ Free(u, n - 1)
  <2> DEFINE k == u.item[n - 1].key
             i == Probe(u, k, FindStep(u, k))
             v == MapRemove(u, k)
  <2>1. n - 1 \in Live(u) /\ k \in Keys
    BY <1>1, <1>2, <1>4, LiveItem
  <2>2. MapContains(u, k)
    BY <1>1, <2>1, FoundIfStored DEF Sound
  <2>3. v = ByeStep(n, u)
    BY <1>4 DEF ByeStep
  <2>4. i \in Live(u) /\ u.item[i].key = k
    BY <1>1, <2>1, <2>2, FindStops
  <2>5. /\ Sound(v) /\ v.size = u.size
        /\ Live(v) = Live(u) \ {i}
        /\ \A j \in Slots(u) : j # i => v.item[j] = u.item[j]
    <3> HIDE DEF k
    <3> QED BY <1>1, <2>1, <2>2, RemoveFields
  <2> HIDE DEF i, v
  <2>6. \A j \in Live(v) : j \in Live(u) /\ j # i /\ v.item[j] = u.item[j]
    BY <1>1, <2>5, LiveItem
  <2>7. ASSUME Single(t), NEW j \in Live(v) PROVE ~ (j < n)
    <3>1. i = n - 1
      BY <1>1, <2>1, <2>4, <2>7 DEF Single
    <3>2. j \in Nat /\ j # n - 1 /\ ~ (j < n - 1)
      BY <1>1, <1>2, <2>6, <2>7, <3>1
    <3> QED BY <1>2, <3>2
  <2> HIDE DEF k
  <2>8. Live(v) \subseteq Live(t) /\ \A j \in Live(v) : v.item[j] = t.item[j]
    BY <1>1, <2>6
  <2> QED BY <1>1, <2>3, <2>5, <2>7, <2>8 DEF Left
<1> QED BY <1>3, <1>4

\* The whole loop of ctrl_cmd_bye.
LEMMA ByeLoopLeaves ==
  ASSUME NEW t, Sound(t)
  PROVE  Left(t, t.size, ByeLoop(t))
<1>0. IsMap(t) /\ t.size \in Nat
  BY DEF Sound, IsMap
<1> DEFINE d == CHOOSE d : IsLeaving(t, d, t.size)
<1>1. ByeLoop(t) = d[t.size]
  BY DEF ByeLoop, IsLeaving, ByeStep
<1>2. IsLeaving(t, d, t.size)
  BY <1>0, LeavingExists
<1> HIDE DEF d
<1>3. /\ d[0] = t
      /\ \A n \in 1..t.size : d[n] = ByeStep(n, d[n - 1])
  BY <1>0, <1>2 DEF IsLeaving
<1> DEFINE S == { n \in 0..t.size : Left(t, n, d[n]) }
<1>4. 0 \in S
  <2>1. \A i \in Live(t) : ~ (i < 0)
    BY <1>0, LiveItem DEF Slots
  <2>2. Left(t, 0, t)
    BY <2>1 DEF Left
  <2> QED BY <1>0, <1>3, <2>2
<1>5. ASSUME NEW n \in 0..(t.size - 1), n \in S PROVE n + 1 \in S
  <2>1. n + 1 \in 1..t.size /\ (n + 1) - 1 = n /\ n + 1 \in 0..t.size
    BY <1>0
  <2>2. Left(t, n + 1, ByeStep(n + 1, d[n]))
    BY <1>0, <1>5, <2>1, ByeStepLeaves
  <2> QED BY <1>3, <2>1, <2>2
<1> HIDE DEF S
<1>6. \A n \in 0..t.size : n \in S
  BY <1>0, <1>4, <1>5, IntervalInduction
<1> QED BY <1>0, <1>1, <1>6 DEF S

-----------------------------------------------------------------------------
(* The program's steps.                                                    *)

IInv ==
  /\ Sound(table) /\ Distinct(table)
  /\ table.size <= MaxSize
  /\ Objs(table) \subseteq heap /\ heap \subseteq Objects
  /\ renewed \in Drivers

\* The invariant holds of the new map, and every step of the program keeps it.
LEMMA InitIInv == Init => IInv
<1> SUFFICES ASSUME Init PROVE IInv
  OBVIOUS
<1>1. Sound(table) /\ Live(table) = {} /\ table.size = 0
  BY EmptyIsSound DEF Init
<1>2. Distinct(table) /\ Objs(table) = {}
  BY <1>1 DEF Distinct, Objs, Items
<1> QED BY <1>1, <1>2, MapConstants DEF IInv, Init, MapConstants

\* What a put does to the table and to the objects.
LEMMA ReputEffect ==
  ASSUME NEW t, Sound(t), Distinct(t), NEW k \in Keys, NEW o \in Objects, o \notin Objs(t)
  PROVE  /\ Sound(Reput(t, k, o)) /\ Distinct(Reput(t, k, o))
         /\ Reput(t, k, o).size = IF HashFails(t, k) THEN t.size + Grow ELSE t.size
         /\ \A x \in Objs(Reput(t, k, o)) : x = o \/ x \in Objs(t) \ {Displaced(t, k)}
<1> DEFINE u == Room(t, k)
           i == Probe(u, k, HashStep(u, k))
           v == Store(u, k, o)
<1>1. Reput(t, k, o) = v /\ Displaced(t, k) = IF Free(u, i) THEN NULL ELSE u.item[i].obj
  BY DEF Reput, Displaced
<1>2. /\ Sound(u) /\ HashStep(u, k) # NULL /\ Distinct(u)
      /\ u.size = IF HashFails(t, k) THEN t.size + Grow ELSE t.size
      /\ Items(u) \subseteq Items(t)
  BY RoomIsReady
<1> HIDE DEF u
<1>3. Objs(u) \subseteq Objs(t)
  BY <1>2 DEF Objs
<1>4. IsMap(u) /\ o \notin Objs(u)
  BY <1>2, <1>3 DEF Sound
<1>5. Sound(v)
  BY <1>2, StoreSound
<1>6. v.size = u.size
  BY <1>2, <1>4, StoreFields
<1>7. Distinct(v)
  BY <1>2, <1>4, StoreDistinct
<1>8. \A x \in Objs(v) : x = o \/ x \in Objs(u)
  BY <1>2, <1>4, StoreDistinct
<1>9. ~ Free(u, i) => u.item[i].obj \notin Objs(v)
  BY <1>2, <1>4, StoreDistinct
<1>10. NULL \notin Objs(u)
  BY <1>4, LiveItem, MapConstants DEF Objs, Items, MapConstants
<1> HIDE DEF i, v
<1>11. \A x \in Objs(v) : x = o \/ x \in Objs(t) \ {Displaced(t, k)}
  BY <1>1, <1>3, <1>8, <1>9, <1>10
<1> QED BY <1>1, <1>2, <1>5, <1>6, <1>7, <1>11

LEMMA AddIInv ==
  ASSUME IInv, NEW k \in Keys, NEW o \in Objects, ServerAdd(k, o)
  PROVE  IInv'
<1>1. /\ Sound(table) /\ Distinct(table) /\ table.size <= MaxSize
      /\ Objs(table) \subseteq heap /\ heap \subseteq Objects /\ renewed \in Drivers
  BY DEF IInv
<1>2. /\ o \notin heap
      /\ HashFails(table, k) => table.size + Grow <= MaxSize
      /\ table' = Reput(table, k, o)
      /\ heap' = (heap \ {Displaced(table, k)}) \cup {o}
      /\ renewed' = renewed
  BY DEF ServerAdd
<1>3. o \notin Objs(table)
  BY <1>1, <1>2
<1>4. /\ Sound(table') /\ Distinct(table')
      /\ table'.size = IF HashFails(table, k) THEN table.size + Grow ELSE table.size
      /\ \A x \in Objs(table') : x = o \/ x \in Objs(table) \ {Displaced(table, k)}
  BY <1>1, <1>2, <1>3, ReputEffect
<1>5. table'.size <= MaxSize
  BY <1>1, <1>2, <1>4
<1>6. Objs(table') \subseteq heap' /\ heap' \subseteq Objects
  BY <1>1, <1>2, <1>4
<1> QED BY <1>1, <1>2, <1>4, <1>5, <1>6 DEF IInv

\* Taking items away keeps the objects apart and in the heap.
LEMMA FewerItems ==
  ASSUME NEW t, NEW u, Distinct(t), Live(u) \subseteq Live(t),
         \A i \in Live(u) : u.item[i] = t.item[i]
  PROVE  Distinct(u) /\ Objs(u) \subseteq Objs(t)
<1>1. Distinct(u)
  BY DEF Distinct
<1>2. \A i \in Live(u) : u.item[i].obj \in Objs(t)
  BY DEF Objs, Items
<1>3. Objs(u) \subseteq Objs(t)
  BY <1>2 DEF Objs, Items
<1> QED BY <1>1, <1>3

LEMMA DelIInv ==
  ASSUME IInv, NEW k \in Keys, ServerDel(k)
  PROVE  IInv'
<1> DEFINE i == Probe(table, k, FindStep(table, k))
           u == MapRemove(table, k)
<1>1. /\ Sound(table) /\ IsMap(table) /\ Distinct(table) /\ table.size <= MaxSize
      /\ Objs(table) \subseteq heap /\ heap \subseteq Objects /\ renewed \in Drivers
  BY DEF IInv, Sound
<1>2. /\ MapContains(table, k) /\ table' = u
      /\ heap' = heap \ {MapGet(table, k)} /\ renewed' = renewed
  BY DEF ServerDel
<1>3. i \in Live(table) /\ MapGet(table, k) = table.item[i].obj
  BY <1>1, <1>2, FindStops DEF MapGet
<1>4. /\ Sound(u) /\ u.size = table.size /\ Live(u) = Live(table) \ {i}
      /\ \A j \in Slots(table) : j # i => u.item[j] = table.item[j]
  BY <1>1, <1>2, RemoveFields
<1> HIDE DEF i, u
<1>5. \A j \in Live(u) : j \in Live(table) /\ j # i /\ u.item[j] = table.item[j]
  BY <1>1, <1>4, LiveItem
<1>6. Distinct(u) /\ Objs(u) \subseteq Objs(table)
  BY <1>1, <1>5, FewerItems
<1>7. table.item[i].obj \notin Objs(u)
  BY <1>1, <1>3, <1>5 DEF Distinct, Objs, Items
<1>8. Objs(u) \subseteq heap'
  BY <1>1, <1>2, <1>3, <1>6, <1>7
<1> QED BY <1>1, <1>2, <1>4, <1>6, <1>8 DEF IInv

LEMMA ByeIInv ==
  ASSUME IInv, Bye
  PROVE  IInv'
<1>1. /\ Sound(table) /\ Distinct(table) /\ table.size <= MaxSize
      /\ Objs(table) \subseteq heap /\ heap \subseteq Objects /\ renewed \in Drivers
  BY DEF IInv
<1>2. /\ table' = ByeLoop(table) /\ renewed' = renewed
      /\ heap' = heap \ (Objs(table) \ Objs(table'))
  BY DEF Bye
<1>3. /\ Sound(table') /\ table'.size = table.size /\ Live(table') \subseteq Live(table)
      /\ \A i \in Live(table') : table'.item[i] = table.item[i]
  BY <1>1, <1>2, ByeLoopLeaves DEF Left
<1>4. Distinct(table') /\ Objs(table') \subseteq Objs(table)
  BY <1>1, <1>3, FewerItems
<1>5. Objs(table') \subseteq heap'
  BY <1>1, <1>2, <1>4
<1> QED BY <1>1, <1>2, <1>3, <1>4, <1>5 DEF IInv

LEMMA ClearIInv ==
  ASSUME IInv, MapClear
  PROVE  IInv'
<1>1. table.size \in Nat
  BY DEF IInv, Sound, IsMap
<1>2. Sound(table') /\ Live(table') = {} /\ table'.size = table.size
  BY <1>1, EmptyIsSound DEF MapClear
<1>3. Distinct(table') /\ Objs(table') = {}
  BY <1>2 DEF Distinct, Objs, Items
<1> QED BY <1>2, <1>3 DEF IInv, MapClear

LEMMA NextIInv == IInv /\ [Next]_vars => IInv'
<1> SUFFICES ASSUME IInv, [Next]_vars PROVE IInv'
  OBVIOUS
<1>1. CASE \E k \in Keys, o \in Objects : ServerAdd(k, o)
  BY <1>1, AddIInv
<1>2. CASE \E k \in Keys : ServerDel(k)
  BY <1>2, DelIInv
<1>3. CASE Bye
  BY <1>3, ByeIInv
<1>4. CASE MapClear
  BY <1>4, ClearIInv
<1>5. CASE UNCHANGED vars
  BY <1>5 DEF vars, IInv
<1> QED BY <1>1, <1>2, <1>3, <1>4, <1>5 DEF Next

LEMMA Invariance == Spec => []IInv
  BY InitIInv, NextIInv, PTL DEF Spec

\* The map keeps its shape: a put finds a slot also after a rehash, for any
\* keys, any growth step and any order of operations.
THEOREM TypeCorrect == Spec => []TypeOK
<1>1. IInv => TypeOK
  <2> SUFFICES ASSUME IInv PROVE TypeOK
    OBVIOUS
  <2>1. IsMap(table) /\ table.count = Cardinality(Live(table))
    BY DEF IInv, Sound
  <2>2. table.size \in Nat /\ table.size \in 0..MaxSize
    BY <2>1, MapConstants DEF IInv, IsMap, MapConstants
  <2>3. table.count \in 0..table.size
    BY <2>1, LiveFinite
  <2> QED BY <2>1, <2>2, <2>3 DEF TypeOK, IInv, IsMap, Cells
<1> QED BY <1>1, Invariance, PTL

\* `count == size` does mean that no slot is free (map.c:69).
THEOREM CountIsExact == Spec => []CountExact
<1>1. IInv => CountExact
  BY DEF IInv, Sound, CountExact
<1> QED BY <1>1, Invariance, PTL

\* Whatever is stored can be found, also past removed and displaced items, for
\* programs that put present keys again as well.
THEOREM StoredIsReachable == Spec => []Reachable
<1>1. IInv => Reachable
  BY FoundIfStored DEF IInv, Sound, Reachable
<1> QED BY <1>1, Invariance, PTL

\* server_add and server_del free only what the map no longer holds.
THEOREM FreedIsGone == Spec => []NoDangling
<1>1. IInv => NoDangling
  BY DEF IInv, Distinct, NoDangling
<1> QED BY <1>1, Invariance, PTL

-----------------------------------------------------------------------------
(* The map of a program that puts a key only while it is absent, as node_get *)
(* does, or while it has a slot of its own, is a dictionary.                *)

DictOf(t) == [k \in Keys |-> MapGet(t, k)]

\* Without duplicates, and with every allocated object stored.
CInv ==
  /\ IInv /\ table.size \in Sizes \cup {0}
  /\ Careful => Single(table) /\ Apart(table) /\ heap = Objs(table)

\* A key that map_contains does not find is in no slot.
LEMMA AbsentIsNotStored ==
  ASSUME NEW t, Sound(t), NEW k \in Keys, ~ MapContains(t, k)
  PROVE  ~ Stored(t, k)
  BY FoundIfStored DEF Sound, Stored

\* A table with no live slot is the empty dictionary.
LEMMA DictOfEmpty ==
  ASSUME NEW t, Live(t) = {}, Sound(t)
  PROVE  /\ Single(t) /\ Apart(t) /\ Objs(t) = {}
         /\ DictOf(t) = [k \in Keys |-> NULL]
<1>1. Single(t) /\ Apart(t) /\ Items(t) = {} /\ Objs(t) = {}
  BY DEF Single, Apart, Items, Objs
<1>2. \A k \in Keys : MapGet(t, k) = NULL
  BY <1>1, GetIsStored DEF Sound
<1> QED BY <1>1, <1>2 DEF DictOf

\* A table that grows within the bound has one of the sizes.
LEMMA GrownSize ==
  ASSUME NEW n \in Sizes \cup {0}, n + Grow <= MaxSize
  PROVE  n + Grow \in Sizes
<1>1. Grow \in Nat \ {0} /\ MaxSize \in Nat
  BY MapConstants DEF MapConstants
<1>2. PICK m \in 0..MaxSize : n = m * Grow
  BY <1>1 DEF Sizes
<1>3. /\ n + Grow = (m + 1) * Grow
      /\ m + 1 <= (m + 1) * Grow
  BY <1>1, <1>2
<1>4. n \in Nat /\ n + Grow \in 1..MaxSize /\ m + 1 \in 1..MaxSize
  BY <1>1, <1>2, <1>3 DEF Sizes
<1> QED BY <1>3, <1>4 DEF Sizes

\* A put of a new key, or of one with a slot of its own, changes the dictionary
\* at that key only, and displaces what was stored under it.
LEMMA Put ==
  ASSUME NEW t, Sound(t), Single(t), Distinct(t), Apart(t), t.size \in Sizes \cup {0},
         NEW k \in Keys, NEW o \in Objects, o \notin Objs(t),
         HashFails(t, k) => t.size + Grow <= MaxSize,
         k \in OwnSlot \/ ~ MapContains(t, k)
  PROVE  /\ Displaced(t, k) = MapGet(t, k)
         /\ Single(Reput(t, k, o)) /\ Apart(Reput(t, k, o))
         /\ Objs(Reput(t, k, o)) = (Objs(t) \ {MapGet(t, k)}) \cup {o}
         /\ DictOf(Reput(t, k, o)) = [DictOf(t) EXCEPT ![k] = o]
<1> DEFINE u == Room(t, k)
           i == Probe(u, k, HashStep(u, k))
           v == Store(u, k, o)
           it == [key |-> k, obj |-> o]
<1>1. Reput(t, k, o) = v /\ Displaced(t, k) = IF Free(u, i) THEN NULL ELSE u.item[i].obj
  BY DEF Reput, Displaced
<1>2. /\ Sound(u) /\ IsMap(u) /\ HashStep(u, k) # NULL
      /\ u.size = IF HashFails(t, k) THEN t.size + Grow ELSE t.size
      /\ Single(u) /\ Items(u) = Items(t) /\ Distinct(u)
      /\ u.size \in Sizes => Apart(u)
  BY RoomIsReady DEF Sound
<1> HIDE DEF u
<1>3. u.size \in Sizes /\ Apart(u)
  <2>1. u.size # 0
    BY <1>2, HashStops, MapConstants DEF Slots, MapConstants
  <2> QED BY <1>2, <2>1, GrownSize
<1>4. IsMap(t) /\ Findable(t)
  BY DEF Sound
<1>5. Stored(u, k) <=> Stored(t, k)
  <2>1. Stored(u, k) <=> \E x \in Items(u) : x.key = k
    BY DEF Stored, Items
  <2>2. Stored(t, k) <=> \E x \in Items(t) : x.key = k
    BY DEF Stored, Items
  <2> QED BY <1>2, <2>1, <2>2
<1>6. k \in OwnSlot \/ ~ Stored(u, k)
  BY <1>5, AbsentIsNotStored
<1>7. Sound(v) /\ Apart(v)
  BY <1>2, <1>3, <1>6, StoreSound, StoreApart
<1>8. /\ Single(v) /\ it \in Items(v)
      /\ \A x \in Items(v) : x = it \/ (x \in Items(t) /\ x.key # k)
      /\ \A x \in Items(t) : x.key # k => x \in Items(v)
      /\ Displaced(t, k) = MapGet(t, k)
  <2>1. CASE ~ Stored(u, k)
    <3>1. Single(v) /\ Items(v) = Items(u) \cup {it} /\ Free(u, i)
      BY <1>2, <2>1, StoreSingle
    <3>2. \A x \in Items(t) : x.key # k
      BY <1>5, <2>1 DEF Stored, Items
    <3>3. MapGet(t, k) = NULL
      BY <1>4, <1>5, <2>1, FindStops DEF MapGet, Stored
    <3> HIDE DEF it, v, i
    <3> QED BY <1>1, <1>2, <3>1, <3>2, <3>3
  <2>2. CASE Stored(u, k)
    <3>1. /\ i \in Live(u) /\ u.item[i].key = k /\ ~ Free(u, i)
          /\ Single(v)
          /\ Items(v) = (Items(u) \ {u.item[i]}) \cup {it}
      BY <1>2, <1>3, <1>6, <2>2, StoreOwn
    <3> HIDE DEF it, v, i
    <3>2. \A x \in Items(t) : x.key = k <=> x = u.item[i]
      BY <1>2, <3>1 DEF Items, Single
    <3>3. u.item[i] \in Items(t) /\ u.item[i] = [key |-> k, obj |-> u.item[i].obj]
      BY <1>2, <3>1, LiveItem DEF Items
    <3>4. MapGet(t, k) = u.item[i].obj
      BY <1>4, <3>3, GetIsStored
    <3> QED BY <1>1, <1>2, <3>1, <3>2, <3>4
  <2> QED BY <2>1, <2>2
<1>9. IsMap(v) /\ Findable(v) /\ it.key = k /\ it.obj = o
  BY <1>7 DEF Sound
<1>10. MapGet(v, k) = o
  BY <1>8, <1>9, GetIsStored
<1> HIDE DEF it, v, i
<1>11. Objs(v) = (Objs(t) \ {MapGet(t, k)}) \cup {o}
  <2>1. ASSUME NEW x \in Items(t)
        PROVE  x = [key |-> x.key, obj |-> x.obj] /\ x.obj \in Objects
    <3>1. PICK a \in Live(t) : x = t.item[a]
      BY DEF Items
    <3> QED BY <1>4, <3>1, LiveItem
  <2>2. ASSUME NEW x \in Items(t), x.key = k PROVE x.obj = MapGet(t, k)
    BY <1>4, <2>1, <2>2, GetIsStored
  <2>3. ASSUME NEW x \in Items(t), x.key # k PROVE x.obj # MapGet(t, k)
    <3>1. CASE MapGet(t, k) = NULL
      BY <2>1, <3>1, MapConstants DEF MapConstants
    <3>2. CASE MapGet(t, k) # NULL
      <4> DEFINE y == [key |-> k, obj |-> MapGet(t, k)]
      <4>1. y \in Items(t) /\ y.key = k /\ y.obj = MapGet(t, k)
        BY <1>4, <3>2, GetIsStored
      <4> HIDE DEF y
      <4>2. PICK a \in Live(t) : x = t.item[a]
        BY DEF Items
      <4>3. PICK b \in Live(t) : y = t.item[b]
        BY <4>1 DEF Items
      <4> QED BY <2>3, <4>1, <4>2, <4>3 DEF Distinct
    <3> QED BY <3>1, <3>2
  <2>4. \A x \in Objs(v) : x = o \/ x \in Objs(t) \ {MapGet(t, k)}
    BY <1>8, <1>9, <2>3 DEF Objs
  <2>5. \A x \in Objs(t) \ {MapGet(t, k)} : x \in Objs(v)
    BY <1>8, <2>2 DEF Objs
  <2>6. o \in Objs(v)
    BY <1>8, <1>9 DEF Objs
  <2> QED BY <2>4, <2>5, <2>6
<1>12. ASSUME NEW q \in Keys, q # k PROVE MapGet(v, q) = MapGet(t, q)
  <2>1. \A x : [key |-> q, obj |-> x].key = q
    OBVIOUS
  <2>2. \A x : [key |-> q, obj |-> x] \in Items(v) <=> [key |-> q, obj |-> x] \in Items(t)
    BY <1>8, <1>9, <1>12, <2>1
  <2>3. CASE MapGet(t, q) # NULL
    BY <1>4, <1>8, <1>9, <2>2, <2>3, GetIsStored
  <2>4. CASE MapGet(t, q) = NULL /\ MapGet(v, q) # NULL
    BY <1>4, <1>8, <1>9, <2>2, <2>4, GetIsStored
  <2> QED BY <2>3, <2>4
<1>13. DictOf(v) = [DictOf(t) EXCEPT ![k] = o]
  BY <1>10, <1>12 DEF DictOf
<1> QED BY <1>1, <1>7, <1>8, <1>11, <1>13

\* Removing a key takes its object, and no other, out of the dictionary.
LEMMA RemovePresent ==
  ASSUME NEW t, Sound(t), Single(t), Distinct(t), Apart(t), NEW k \in Keys, MapContains(t, k)
  PROVE  LET u == MapRemove(t, k)
         IN  /\ Single(u) /\ Apart(u)
             /\ Objs(u) = Objs(t) \ {MapGet(t, k)}
             /\ DictOf(u) = [DictOf(t) EXCEPT ![k] = NULL]
<1> DEFINE i == Probe(t, k, FindStep(t, k))
           u == MapRemove(t, k)
<1>1. IsMap(t) /\ Findable(t)
  BY DEF Sound
<1>2. i \in Live(t) /\ t.item[i].key = k /\ MapGet(t, k) = t.item[i].obj
  BY <1>1, FindStops DEF MapGet
<1>3. /\ Sound(u) /\ Live(u) = Live(t) \ {i} /\ u.size = t.size
      /\ \A j \in Slots(t) : j # i => u.item[j] = t.item[j]
  BY RemoveFields
<1> HIDE DEF i, u
<1>4. \A j \in Live(u) : j \in Live(t) /\ j # i /\ u.item[j] = t.item[j]
  BY <1>1, <1>3, LiveItem
<1>4a. \A j \in Live(t) : j # i => j \in Live(u) /\ u.item[j] = t.item[j]
  BY <1>1, <1>3, LiveItem
<1>5. Single(u) /\ Apart(u)
  BY <1>3, <1>4 DEF Single, Apart
<1>6. Items(u) = Items(t) \ {t.item[i]}
  BY <1>2, <1>4, <1>4a DEF Items, Single
<1>7. Objs(u) = Objs(t) \ {MapGet(t, k)}
  <2>1. \A j \in Live(t) : j # i => t.item[j].obj # t.item[i].obj
    BY <1>2 DEF Distinct
  <2>2. Objs(u) = { u.item[j].obj : j \in Live(u) } /\ Objs(t) = { t.item[j].obj : j \in Live(t) }
    BY DEF Objs, Items
  <2> QED BY <1>2, <1>4, <1>4a, <2>1, <2>2
<1>8. IsMap(u) /\ Findable(u)
  BY <1>3 DEF Sound
<1>9. \A x : [key |-> k, obj |-> x] \notin Items(u)
  BY <1>2, <1>4 DEF Items, Single
<1>10. MapGet(u, k) = NULL
  BY <1>5, <1>8, <1>9, GetIsStored
<1>11. ASSUME NEW q \in Keys, q # k PROVE MapGet(u, q) = MapGet(t, q)
  <2>1. \A x : [key |-> q, obj |-> x] \in Items(u) <=> [key |-> q, obj |-> x] \in Items(t)
    BY <1>2, <1>6, <1>11
  <2>2. CASE MapGet(t, q) # NULL
    BY <1>1, <1>5, <1>8, <2>1, <2>2, GetIsStored
  <2>3. CASE MapGet(t, q) = NULL /\ MapGet(u, q) # NULL
    BY <1>1, <1>5, <1>8, <2>1, <2>3, GetIsStored
  <2> QED BY <2>2, <2>3
<1>12. DictOf(u) = [DictOf(t) EXCEPT ![k] = NULL]
  BY <1>10, <1>11 DEF DictOf
<1> QED BY <1>5, <1>7, <1>12 DEF u

LEMMA InitCInv == Init => CInv
<1> SUFFICES ASSUME Init PROVE CInv
  OBVIOUS
<1>1. Sound(table) /\ Live(table) = {} /\ heap = {} /\ table.size = 0
  BY EmptyIsSound DEF Init
<1> QED BY <1>1, InitIInv, DictOfEmpty DEF CInv

\* The effect of each step of a careful program.
LEMMA AddPuts ==
  ASSUME CInv, Careful, NEW k \in Keys, NEW o \in Objects, ServerAdd(k, o)
  PROVE  /\ Single(table') /\ Apart(table') /\ heap' = Objs(table')
         /\ o \in Objects \ heap /\ heap' = (heap \ {MapGet(table, k)}) \cup {o}
         /\ DictOf(table') = [DictOf(table) EXCEPT ![k] = o]
<1>1. /\ Sound(table) /\ Single(table) /\ Distinct(table) /\ Apart(table)
      /\ heap = Objs(table) /\ table.size \in Sizes \cup {0}
  BY DEF CInv, IInv
<1>2. /\ o \notin heap /\ (k \in OwnSlot \/ ~ MapContains(table, k))
      /\ HashFails(table, k) => table.size + Grow <= MaxSize
      /\ table' = Reput(table, k, o)
      /\ heap' = (heap \ {Displaced(table, k)}) \cup {o}
  BY DEF ServerAdd, Careful
<1>3. /\ Displaced(table, k) = MapGet(table, k)
      /\ Single(table') /\ Apart(table')
      /\ Objs(table') = (Objs(table) \ {MapGet(table, k)}) \cup {o}
      /\ DictOf(table') = [DictOf(table) EXCEPT ![k] = o]
  BY <1>1, <1>2, Put
<1> QED BY <1>1, <1>2, <1>3

LEMMA DelRemovesPresent ==
  ASSUME CInv, Careful, NEW k \in Keys, ServerDel(k)
  PROVE  /\ Single(table') /\ Apart(table') /\ heap' = Objs(table')
         /\ heap' = heap \ {MapGet(table, k)} /\ MapGet(table, k) # NULL
         /\ DictOf(table') = [DictOf(table) EXCEPT ![k] = NULL]
<1>1. /\ Sound(table) /\ IsMap(table) /\ Findable(table) /\ Apart(table)
      /\ Single(table) /\ Distinct(table) /\ heap = Objs(table)
  BY DEF CInv, IInv, Sound
<1>2. /\ MapContains(table, k) /\ table' = MapRemove(table, k)
      /\ heap' = heap \ {MapGet(table, k)}
  BY DEF ServerDel
<1>3. /\ Single(table') /\ Apart(table') /\ Objs(table') = Objs(table) \ {MapGet(table, k)}
      /\ DictOf(table') = [DictOf(table) EXCEPT ![k] = NULL]
  BY <1>1, <1>2, RemovePresent
<1> QED BY <1>1, <1>2, <1>3, GetIsStored

LEMMA ByeRemovesAll ==
  ASSUME CInv, Careful, Bye \/ MapClear
  PROVE  /\ Single(table') /\ Apart(table') /\ heap' = {} /\ Objs(table') = {}
         /\ DictOf(table') = [k \in Keys |-> NULL]
<1>1. /\ Sound(table) /\ IsMap(table) /\ table.size \in Nat
      /\ Single(table) /\ heap = Objs(table)
  BY DEF CInv, IInv, Sound, IsMap
<1>2. Sound(table') /\ Live(table') = {}
  <2>1. CASE Bye
    <3>1. /\ Sound(table') /\ table'.size = table.size
          /\ Live(table') \subseteq Live(table)
          /\ \A i \in Live(table') : ~ (i < table.size)
      BY <1>1, <2>1, ByeLoopLeaves DEF Bye, Left
    <3>2. \A i \in Live(table) : i < table.size
      BY <1>1, LiveItem DEF Slots
    <3> QED BY <3>1, <3>2
  <2>2. CASE MapClear
    BY <1>1, <2>2, EmptyIsSound DEF MapClear
  <2> QED BY <2>1, <2>2
<1>3. /\ Single(table') /\ Apart(table') /\ Objs(table') = {}
      /\ DictOf(table') = [k \in Keys |-> NULL]
  BY <1>2, DictOfEmpty
<1>4. heap' = {}
  BY <1>1, <1>3 DEF Bye, MapClear
<1> QED BY <1>3, <1>4

\* A table keeps its size or grows by one step.
LEMMA NextSize ==
  ASSUME IInv, [Next]_vars, table.size \in Sizes \cup {0}
  PROVE  table'.size \in Sizes \cup {0}
<1>1. Sound(table) /\ Distinct(table) /\ table.size \in Nat /\ Objs(table) \subseteq heap
  BY DEF IInv, Sound, IsMap
<1>2. ASSUME NEW k \in Keys, NEW o \in Objects, ServerAdd(k, o)
      PROVE  table'.size \in Sizes \cup {0}
  <2>1. table'.size = IF HashFails(table, k) THEN table.size + Grow ELSE table.size
    BY <1>1, <1>2, ReputEffect DEF ServerAdd
  <2> QED BY <1>2, <2>1, GrownSize DEF ServerAdd
<1>3. ASSUME NEW k \in Keys, ServerDel(k) PROVE table'.size = table.size
  BY <1>1, <1>3, RemoveFields DEF ServerDel
<1>4. CASE Bye
  BY <1>1, <1>4, ByeLoopLeaves DEF Bye, Left
<1>5. CASE MapClear
  BY <1>1, <1>5, EmptyIsSound DEF MapClear
<1>6. CASE UNCHANGED vars
  BY <1>6 DEF vars
<1> QED BY <1>2, <1>3, <1>4, <1>5, <1>6 DEF Next

LEMMA NextCInv == CInv /\ [Next]_vars => CInv'
<1> SUFFICES ASSUME CInv, [Next]_vars PROVE CInv'
  OBVIOUS
<1>1. IInv' /\ renewed' = renewed
  BY NextIInv DEF CInv, Next, vars, ServerAdd, ServerDel, Bye, MapClear
<1>2. table'.size \in Sizes \cup {0} /\ (Careful' <=> Careful)
  BY <1>1, NextSize DEF CInv, Careful
<1> SUFFICES ASSUME Careful PROVE Single(table') /\ Apart(table') /\ heap' = Objs(table')
  BY <1>1, <1>2 DEF CInv
<1>3. CASE \E k \in Keys, o \in Objects : ServerAdd(k, o)
  BY <1>3, AddPuts
<1>4. CASE \E k \in Keys : ServerDel(k)
  BY <1>4, DelRemovesPresent
<1>5. CASE Bye \/ MapClear
  BY <1>5, ByeRemovesAll
<1>6. CASE UNCHANGED vars
  BY <1>6 DEF vars, CInv
<1> QED BY <1>3, <1>4, <1>5, <1>6 DEF Next

\* For a program that looks a key up before it puts it, as node_get does, or puts
\* again only keys that share no slot, the map is the dictionary ns.c takes it
\* for, whatever the keys, their collisions, the growth step and the order of
\* puts, removals and rehashes.
THEOREM ImplementsDictionary == Spec => IsDictionary
<1>2. DictOf(table) = dict
  BY DEF DictOf, dict
<1>3. Init => AsDictionary!Init
  <2> SUFFICES ASSUME Init PROVE AsDictionary!Init
    OBVIOUS
  <2>1. Sound(table) /\ Live(table) = {} /\ heap = {}
    BY EmptyIsSound DEF Init
  <2>2. dict = [k \in Keys |-> NULL]
    BY <1>2, <2>1, DictOfEmpty
  <2> QED BY <2>1, <2>2 DEF AsDictionary!Init
<1>4. CInv /\ [Next]_vars => [AsDictionary!Next]_(AsDictionary!vars)
  <2> SUFFICES ASSUME CInv, [Next]_vars PROVE [AsDictionary!Next]_(AsDictionary!vars)
    OBVIOUS
  <2>1. renewed' = renewed /\ (Careful' <=> Careful)
    BY DEF Careful, Next, vars, ServerAdd, ServerDel, Bye, MapClear
  <2>2. CASE ~ Careful
    BY <2>1, <2>2 DEF AsDictionary!vars
  <2>3. CASE Careful
    <3>1. Careful' /\ DictOf(table') = dict'
      BY <1>2, <2>1, <2>3 DEF DictOf, dict
    <3>2. ASSUME NEW k \in Keys, NEW o \in Objects, ServerAdd(k, o)
          PROVE  AsDictionary!Add(k, o)
      <4>1. /\ o \in Objects \ heap /\ heap' = (heap \ {MapGet(table, k)}) \cup {o}
            /\ dict' = [dict EXCEPT ![k] = o]
        BY <1>2, <2>3, <3>1, <3>2, AddPuts
      <4>2. dict[k] = MapGet(table, k)
        BY DEF dict
      <4> QED BY <2>3, <3>1, <4>1, <4>2 DEF AsDictionary!Add
    <3>3. ASSUME NEW k \in Keys, ServerDel(k) PROVE AsDictionary!Delete(k)
      <4>1. /\ heap' = heap \ {MapGet(table, k)} /\ MapGet(table, k) # NULL
            /\ dict' = [dict EXCEPT ![k] = NULL]
        BY <1>2, <2>3, <3>1, <3>3, DelRemovesPresent
      <4>2. dict[k] = MapGet(table, k)
        BY DEF dict
      <4> QED BY <2>3, <3>1, <4>1, <4>2 DEF AsDictionary!Delete
    <3>4. CASE Bye \/ MapClear
      <4>1. heap' = {} /\ dict' = [k \in Keys |-> NULL]
        BY <2>3, <3>1, <3>4, ByeRemovesAll
      <4> QED BY <2>3, <3>1, <4>1 DEF AsDictionary!Next, AsDictionary!DeleteAll
    <3>5. CASE UNCHANGED vars
      <4>1. heap' = heap /\ dict' = dict
        BY <3>5 DEF vars, dict
      <4> QED BY <2>1, <4>1 DEF AsDictionary!vars
    <3> QED BY <3>2, <3>3, <3>4, <3>5 DEF Next, AsDictionary!Next
  <2> QED BY <2>2, <2>3
<1> QED BY <1>3, <1>4, InitCInv, NextCInv, PTL DEF Spec, IsDictionary, AsDictionary!Spec
=============================================================================
