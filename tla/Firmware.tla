------------------------------ MODULE Firmware ------------------------------
(***************************************************************************)
(* What the code knows of each firmware: the patches the installer makes   *)
(* to the kernel, and for which firmwares the offsets into each libkernel  *)
(* are listed, in the kdebugger's proc_create_thread and in the            *)
(* installer's copy of it.  A firmware is its number, 505 for 5.05; each   *)
(* listed one has all four offsets.                                        *)
(***************************************************************************)
EXTENDS Naturals

LibkernelTable ==
    {505, 672, 702, 750, 751, 755, 800, 801, 803, 850, 852, 900, 903, 904, 950, 951, 960,
     1000, 1001, 1050, 1070, 1071, 1100, 1300}
LibkernelWebTable ==
    {505, 672, 702, 750, 751, 755, 800, 801, 803, 850, 852, 900, 903, 904,
     1000, 1001, 1050, 1070, 1071, 1100}
LibkernelSysTable == LibkernelTable \cup {700, 701}

\* The installer's copies.
InLibkernelWebTable ==
    {505, 672, 702, 750, 751, 755, 800, 801, 803, 850, 852, 900, 903, 904,
     1000, 1001, 1050, 1070, 1071, 1100}
InLibkernelTable == InLibkernelWebTable \cup {950, 951, 960, 1300}
InLibkernelSysTable ==
    {505, 672, 700, 701, 702, 750, 751, 755, 800, 801, 803, 850, 852, 900, 903, 904, 950,
     951, 960, 1000, 1001, 1050, 1070, 1071, 1100, 1300}

\* A process maps one of the three; h is <<library, firmware>>.
Listed(h) ==
    \/ h[1] = "libkernel.sprx" /\ h[2] \in LibkernelTable
    \/ h[1] = "libkernel_web.sprx" /\ h[2] \in LibkernelWebTable
    \/ h[1] = "libkernel_sys.sprx" /\ h[2] \in LibkernelSysTable

InListed(h) ==
    \/ h[1] = "libkernel.sprx" /\ h[2] \in InLibkernelTable
    \/ h[1] = "libkernel_web.sprx" /\ h[2] \in InLibkernelWebTable
    \/ h[1] = "libkernel_sys.sprx" /\ h[2] \in InLibkernelSysTable

-----------------------------------------------------------------------------
\* What the payload's own machinery depends on, by the comment in patch_1300.
Needed == {"memcpy", "vm_map_protect", "kmem_alloc"}

\* patch_505 to patch_1100 patch the same places, at offsets of their own.
FullPatches ==
    Needed \cup {"IsAllowedSystemLevelDebugging", "HasMmapSelfCapability",
                 "IsAllowedToMmapSelf", "sysdump", "self", "ptrace", "ptrace checks", "ASLR"}

\* patch_1300 leaves to GoldHEN what GoldHEN patches itself.
Patches1300 == Needed

\* The cases of patch_kernel; a firmware it does not list is not patched at all.
Patched ==
    {505, 672, 700, 701, 702, 800, 801, 803, 850, 852, 900, 903, 904, 950, 951, 960,
     1000, 1001, 1050, 1070, 1071, 1100, 1300}

PatchesOf(fw) ==
    CASE fw = 1300 -> Patches1300
      [] fw \in Patched \ {1300} -> FullPatches
      [] OTHER -> {}
=============================================================================
