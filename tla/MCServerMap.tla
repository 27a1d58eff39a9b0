---------------------------- MODULE MCServerMap -----------------------------
(***************************************************************************)
(* Instances of ServerMap for TLC.  With Grow = 3, keys 2 and 5 share their *)
(* home slot in a table of three slots, where their probes wrap around its *)
(* end, and have one each in a table of six; key 1 never shares one.       *)
(***************************************************************************)
EXTENDS ServerMap

MapKeys == {1, 2, 5}
Alone   == {1}

\* A careful program and server_add.
Both     == {Alone, MapKeys}
Renewing == {MapKeys}
=============================================================================
