-------------------------- MODULE MCAdapterMonitor --------------------------
(***************************************************************************)
(* AdapterMonitor for TLC: two adapters, so that one can be activated      *)
(* while the other one is being given up.                                  *)
(***************************************************************************)
EXTENDS AdapterMonitor
=============================================================================
