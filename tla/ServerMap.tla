----------------------------- MODULE ServerMap ------------------------------
(***************************************************************************)
(* The open-addressing hash map of qrtr/src/map.c, driven the way ns.c     *)
(* drives the `services` map of a node: server_add re-puts a freshly       *)
(* allocated object, server_del looks a key up, removes it and frees the   *)
(* object, ctrl_cmd_bye walks the slots deleting every server.             *)
(*                                                                         *)
(* A table is [size, count, item]; slot i holds EMPTY, DELETED (the        *)
(* tombstone of map.c:35) or an item [key, obj].  Keys are hash_u32 values *)
(* (hash.c:22-25, injective), abstracted to small naturals: only           *)
(* key % size matters.                                                     *)
(***************************************************************************)
EXTENDS Naturals, FiniteSets

CONSTANTS
  Keys,       \* the keys in use, a finite set of naturals
  Objects,    \* heap objects
  NULL,       \* the null pointer
  EMPTY,      \* a slot never used since the last rehash (a null item)
  DELETED,    \* the tombstone, the address of map.c's `deleted`
  Grow,       \* slots added by one rehash (256 in map.c)
  MaxSize,    \* bound: no rehash beyond this many slots
  Drivers,    \* Drivers: the sets of keys a program may put also while they are
              \* present; all keys for server_add, none for node_get, which
              \* looks a key up first
  OwnSlot     \* the keys that never share a slot with another key

ASSUME MapConstants ==
  /\ Keys \subseteq Nat
  /\ Grow \in Nat \ {0}
  /\ MaxSize \in Nat
  /\ Drivers \subseteq SUBSET Keys
  /\ OwnSlot \subseteq Keys
  /\ NULL \notin Objects \cup Nat
  /\ EMPTY # DELETED
  /\ {EMPTY, DELETED} \cap [key : Keys, obj : Objects] = {}

\* The sizes of a table that has been rehashed, and the keys that can keep key q
\* from its home slot: none, or those that may share slots as well.
Sizes     == { m * Grow : m \in 1..MaxSize } \cap 1..MaxSize
Rivals(q) == IF q \in OwnSlot THEN {} ELSE (Keys \ OwnSlot) \ {q}

\* However far another key is displaced, it stays clear of the home slot.
ASSUME OwnSlotConstants ==
  \A k \in OwnSlot : \A q \in Keys \ {k} :
    /\ IsFiniteSet(Rivals(q))
    /\ \A n \in Sizes : \A j \in 0..Cardinality(Rivals(q)) : (q + j) % n # k % n

VARIABLES
  table,      \* struct map
  heap,       \* objects allocated and not yet freed
  renewed     \* the keys that this program puts also while they are present

vars == <<table, heap, renewed>>

Item == [key : Keys, obj : Objects]

Slots(t) == 0..(t.size - 1)
Live(t)  == { i \in Slots(t) : t.item[i] \notin {EMPTY, DELETED} }
Items(t) == { t.item[i] : i \in Live(t) }

-----------------------------------------------------------------------------
(* The operations of map.c.                                                *)

EmptyTable(n) == [size |-> n, count |-> 0, item |-> [i \in 0..(n - 1) |-> EMPTY]]

\* The i-th slot of the probe sequence of key k.
Probe(t, k, i) == (k + i) % t.size

Free(t, i) == t.item[i] \in {EMPTY, DELETED}

Holds(t, i, k) == ~ Free(t, i) /\ t.item[i].key = k

\* Smallest element of a set of naturals, or `none`.
FirstOf(S, none) == IF S = {} THEN none ELSE CHOOSE i \in S : \A j \in S : i <= j

\* map_hash: the first slot of the probe sequence that is free or holds k.
HashStep(t, k) ==
  FirstOf({ i \in Slots(t) : Free(t, Probe(t, k, i)) \/ Holds(t, Probe(t, k, i), k) }, NULL)

HashFails(t, k) == t.count = t.size \/ HashStep(t, k) = NULL

\* map_hash followed by the store of map_reput, on a table with a slot for k.
Store(t, k, o) ==
  LET i == Probe(t, k, HashStep(t, k))
  IN  [t EXCEPT !.count   = IF Free(t, i) THEN @ + 1 ELSE @,
                !.item[i] = [key |-> k, obj |-> o]]

RehashUncounted(t) ==
  LET copied[n \in 0..t.size] ==
        IF n = 0 THEN EmptyTable(t.size + Grow)
        ELSE IF Free(t, n - 1) THEN copied[n - 1]
        ELSE Store(copied[n - 1], t.item[n - 1].key, t.item[n - 1].obj)
  IN  [copied[t.size] EXCEPT !.count = 0]

\* map_rehash: re-put every live item, in slot order, into a larger table.
Rehash(t) ==
  LET copied[n \in 0..t.size] ==
        IF n = 0 THEN EmptyTable(t.size + Grow)
        ELSE IF Free(t, n - 1) THEN copied[n - 1]
        ELSE Store(copied[n - 1], t.item[n - 1].key, t.item[n - 1].obj)
  IN  copied[t.size]

Room(t, k) == IF HashFails(t, k) THEN Rehash(t) ELSE t

\* map_reput, and the object it displaces (its `old`).
Reput(t, k, o) == Store(Room(t, k), k, o)

Displaced(t, k) ==
  LET u == Room(t, k)
      i == Probe(u, k, HashStep(u, k))
  IN  IF Free(u, i) THEN NULL ELSE u.item[i].obj

\* map_find: the first slot that holds k before the first EMPTY one.
FindStep(t, k) ==
  FirstOf({ i \in Slots(t) :
              /\ Holds(t, Probe(t, k, i), k)
              /\ \A j \in 0..(i - 1) : t.item[Probe(t, k, j)] # EMPTY }, NULL)

MapContains(t, k) == FindStep(t, k) # NULL

MapGet(t, k) ==
  IF MapContains(t, k) THEN t.item[Probe(t, k, FindStep(t, k))].obj ELSE NULL

MapRemoveNoTombstone(t, k) ==
  IF MapContains(t, k)
  THEN [t EXCEPT !.count = @ - 1, !.item[Probe(t, k, FindStep(t, k))] = EMPTY]
  ELSE t

MapRemoveUncounted(t, k) ==
  IF MapContains(t, k)
  THEN [t EXCEPT !.item[Probe(t, k, FindStep(t, k))] = DELETED]
  ELSE t

MapRemove(t, k) ==
  IF MapContains(t, k)
  THEN [t EXCEPT !.count = @ - 1,
                 !.item[Probe(t, k, FindStep(t, k))] = DELETED]
  ELSE t

\* The loop of ctrl_cmd_bye: for each live slot, in order, delete by *key*.
ByeLoop(t) ==
  LET done[n \in 0..t.size] ==
        IF n = 0 THEN t
        ELSE IF Free(done[n - 1], n - 1) THEN done[n - 1]
        ELSE MapRemove(done[n - 1], done[n - 1].item[n - 1].key)
  IN  done[t.size]

Objs(t) == { it.obj : it \in Items(t) }

-----------------------------------------------------------------------------
(* The steps of the program.                                               *)

Init == /\ table = EmptyTable(0)
        /\ heap = {}
        /\ renewed \in Drivers

\* server_add, or node_get for keys that are not renewed.
ServerAdd(k, o) ==
  /\ o \notin heap
  /\ k \in renewed \/ ~ MapContains(table, k)
  /\ HashFails(table, k) => table.size + Grow <= MaxSize
  /\ table' = Reput(table, k, o)
  /\ heap' = (heap \ {Displaced(table, k)}) \cup {o}
  /\ UNCHANGED renewed

\* server_del; a key that is absent is -ENOENT and changes nothing.
ServerDel(k) ==
  /\ MapContains(table, k)
  /\ table' = MapRemove(table, k)
  /\ heap' = heap \ {MapGet(table, k)}
  /\ UNCHANGED renewed

\* ctrl_cmd_bye: server_del of every server of the node.
Bye ==
  /\ table' = ByeLoop(table)
  /\ heap' = heap \ (Objs(table) \ Objs(table'))
  /\ UNCHANGED renewed

MapClearKeepsItems ==
  /\ table' = table
  /\ heap' = heap \ Objs(table)
  /\ UNCHANGED renewed

\* map_clear, when the name server exits: every object still stored is
\* released and the slots are emptied; the array keeps its size.
MapClear ==
  /\ table' = EmptyTable(table.size)
  /\ heap' = heap \ Objs(table)
  /\ UNCHANGED renewed

Next == \/ \E k \in Keys, o \in Objects : ServerAdd(k, o)
        \/ \E k \in Keys : ServerDel(k)
        \/ Bye
        \/ MapClear

Spec == Init /\ [][Next]_vars

-----------------------------------------------------------------------------
(* Properties.                                                             *)

\* Type invariant of the map: as many slots as `size` says, items over the
\* known keys and objects, a counter no larger than the table (map.h).
TypeOK ==
  /\ table.size \in 0..MaxSize
  /\ table.count \in 0..table.size
  /\ table.item \in [Slots(table) -> Item \cup {EMPTY, DELETED}]
  /\ heap \subseteq Objects
  /\ renewed \in Drivers

\* map_hash trusts `count == size` to mean "no free slot" (map.c:69) and
\* map_remove gives a slot back by decrementing it (map.c:195): through any
\* sequence of puts, removals and rehashes the counter is the number of live
\* slots, so a put never reports -2 and never rehashes a table with room.
CountExact == table.count = Cardinality(Live(table))

\* Every stored item can be found: no EMPTY slot lies between the home slot of
\* a key and a slot that holds it, which is what tombstones are for
\* (map.c:162-165).  A violation would make a registered server unreachable.
Reachable == \A i \in Live(table) : MapContains(table, table.item[i].key)

\* No slot points at a freed object and no two slots share one: server_add
\* frees only what map_reput displaced (ns.c:277-280) and server_del only what
\* it removed (ns.c:300-318).
NoDangling ==
  /\ Objs(table) \subseteq heap
  /\ \A i, j \in Live(table) : i # j => table.item[i].obj # table.item[j].obj

\* "Remove the server belonging to this port" (ns.c:414): once server_del has
\* run for a key no server is left under it.
DeletedIsGone ==
  [][ \A k \in Keys : ServerDel(k) => ~ MapContains(table', k) ]_vars

\* A program that puts colliding keys only while they are absent: no key is
\* ever stored twice (DeletedIsGone shows what happens otherwise).
Careful == renewed \subseteq OwnSlot

\* For a careful program the map is the dictionary ns.c takes it for: every put,
\* removal and clear has the dictionary's effect on what is stored and on what
\* is freed.  Programs that are not careful are mapped to an idle dictionary.
dict == [k \in Keys |-> MapGet(table, k)]
AsDictionary == INSTANCE Dictionary WITH
                  dict <- IF Careful THEN dict ELSE [k \in Keys |-> NULL],
                  heap <- IF Careful THEN heap ELSE {}
IsDictionary == AsDictionary!Spec
=============================================================================
