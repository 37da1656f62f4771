----------------------------- MODULE MCRecorder -----------------------------
(***************************************************************************)
(* Recorder for TLC.  Every second sample is deep, so an outage is met by  *)
(* a light sample and by a deep one; two boots; an incident of two samples *)
(* and samples enough for two of them.                                     *)
(***************************************************************************)
EXTENDS Recorder
=============================================================================
