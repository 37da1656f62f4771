---------------------------- MODULE MCKernelPull ----------------------------
(***************************************************************************)
(* Pull for TLC.  The kernel: two windows with a hole between them, the    *)
(* first of more than one request, requests of more than one piece, pieces *)
(* that can be cut, and an address space that ends with the second         *)
(* window's page, so that careless sums would wrap.  A file: of up to 2^32 *)
(* bytes and one more, asked for whole, for a part of it and for more than *)
(* there is.                                                               *)
(***************************************************************************)
EXTENDS Pull

MCWindows == <<[start |-> 0, end |-> 4], [start |-> 5, end |-> 7]>>
MCRequests ==
    {[offset |-> 0, length |-> NULL], [offset |-> 2, length |-> 3], [offset |-> 7, length |-> 5]}
=============================================================================
