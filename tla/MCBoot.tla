------------------------------- MODULE MCBoot -------------------------------
(***************************************************************************)
(* Boot for TLC.  Two installers: the file sent again after a success, a   *)
(* failure or a crash at any step, and while the first is still at work.   *)
(***************************************************************************)
EXTENDS Boot

\* The installer and the kdebugger know the same firmwares of each libkernel.
ASSUME TablesAgree ==
    /\ InLibkernelTable = LibkernelTable
    /\ InLibkernelWebTable = LibkernelWebTable
    /\ InLibkernelSysTable = LibkernelSysTable

\* A firmware that is patched gets what the payload needs, and is listed for the
\* libkernel of SceShellCore.
ASSUME PatchedIsServed ==
    \A fw \in Patched : Needed \subseteq PatchesOf(fw) /\ fw \in InLibkernelSysTable

\* Three firmwares are listed for every libkernel and never patched: patch_755 is
\* called by nobody.
ASSUME ListedUnpatched == LibkernelSysTable \ Patched = {750, 751, 755}

\* On these a process with that libkernel can be given no thread.
ASSUME PatchedUnlisted ==
    /\ Patched \ LibkernelTable = {700, 701}
    /\ Patched \ LibkernelWebTable = {700, 701, 950, 951, 960, 1300}
=============================================================================
