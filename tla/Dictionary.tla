----------------------------- MODULE Dictionary -----------------------------
(***************************************************************************)
(* What ns.c takes a `struct map` for: a finite function from keys to heap *)
(* objects.  Adding an object under a key frees the object it displaces,   *)
(* deleting a key frees its object, and clearing the map frees them all.   *)
(* ServerMap, the translation of map.c, is compared with this module.      *)
(***************************************************************************)
CONSTANTS
  Keys,      \* the keys of the map (hashes of ports or of node ids)
  Objects,   \* the heap objects that can be stored
  NULL       \* no object: the value of a key that is not in the map

VARIABLES
  dict,      \* dict[k]: the object stored under k, or NULL
  heap       \* the objects allocated and not yet freed

vars == <<dict, heap>>

TypeOK == /\ dict \in [Keys -> Objects \cup {NULL}]
          /\ heap \subseteq Objects

Init == /\ dict = [k \in Keys |-> NULL]
        /\ heap = {}

Add(k, o) ==
  /\ o \in Objects \ heap
  /\ dict' = [dict EXCEPT ![k] = o]
  /\ heap' = (heap \ {dict[k]}) \cup {o}

Delete(k) ==
  /\ dict[k] # NULL
  /\ dict' = [dict EXCEPT ![k] = NULL]
  /\ heap' = heap \ {dict[k]}

DeleteAll ==
  /\ dict' = [k \in Keys |-> NULL]
  /\ heap' = {}

Next == \/ \E k \in Keys, o \in Objects : Add(k, o)
        \/ \E k \in Keys : Delete(k)
        \/ DeleteAll

Spec == Init /\ [][Next]_vars
=============================================================================
