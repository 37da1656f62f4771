----------------------------- MODULE MCAllProc -----------------------------
(***************************************************************************)
(* AllProc for TLC.  Three structures and three pids are enough for a walk *)
(* over several entries, for a structure to be reused under another pid,   *)
(* and for a list one longer than WalkMax.                                 *)
(***************************************************************************)
EXTENDS AllProc, TLC

MCSymmetry == Permutations(Slots) \cup Permutations(Pids)
=============================================================================
