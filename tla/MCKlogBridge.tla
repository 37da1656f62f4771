---------------------------- MODULE MCKlogBridge ----------------------------
(***************************************************************************)
(* KlogBridge for TLC.  Two request threads and two thread objects are     *)
(* enough for overlapping start() calls, for a second reader that takes the*)
(* console from the first, and for a stop() met at every line of _run.     *)
(***************************************************************************)
EXTENDS KlogBridge
=============================================================================
