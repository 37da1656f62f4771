----------------------------- MODULE BootProofs -----------------------------
(***************************************************************************)
(* Boot, for any number of installers on any firmware that is patched.     *)
(***************************************************************************)
EXTENDS Boot, FiniteSetTheorems, TLAPS

-----------------------------------------------------------------------------
\* The inductive invariant.

\* Where an installer is: before it maps PAYLOAD_BASE, before it may start a loader,
\* and behind that.
BeforeBase == {"new", "patch", "kdebugger", "hooks", "find", "insert"}
BeforeLoader == {"payload", "page", "stack", "code", "vmmap", "fields", "create"}
BehindLoader == {"wait", "freepage", "freestack"}
InThread == BeforeLoader \ {"payload"}   \* of proc_create_thread

\* PAYLOAD_BASE has one owner, and only the owner gets on.
BaseInv ==
    /\ \A i, j \in base : i = j
    /\ image \subseteq base
    /\ \A i \in Installers :
          /\ pc[i] \in BeforeLoader \cup BehindLoader => i \in base
          /\ pc[i] \in InThread \cup BehindLoader => i \in image

\* The loader's page and stack, and what has been written to the page.
MemoryInv ==
    \A i \in Installers :
        /\ i \in pages => pc[i] \in (InThread \ {"page"}) \cup {"wait", "freepage"}
        /\ i \in stacks => pc[i] \in (InThread \ {"page", "stack"}) \cup BehindLoader
        /\ pc[i] = "stack" => i \in pages
        /\ pc[i] \in {"code", "vmmap", "fields", "create", "wait"} => Mapped(i)
        /\ pc[i] \in BeforeBase \cup {"payload", "page", "stack", "code"} => writes[i] = 0
        /\ pc[i] = "vmmap" => writes[i] = 1
        /\ pc[i] = "fields" => writes[i] \in 1..(AllWrites - 1)
        /\ pc[i] \in {"create", "wait"} => writes[i] = AllWrites

\* A loader has been started by an installer that waits for it or is behind that, and
\* one that is behind it knows that the loader is done, or could not find out.
LoaderInv ==
    /\ \A i \in payload : lpc[i] # "none"
    /\ \A i \in Installers :
          /\ pc[i] = "wait" => lpc[i] # "none"
          /\ lpc[i] # "none" =>
                /\ pc[i] \in BehindLoader \cup {"returned"}
                /\ i \in image /\ writes[i] = AllWrites
                /\ pc[i] = "wait" \/ ldrdone[i] \/ i \in blind

\* What the installer returns and prints.
ResultInv ==
    \A i \in Installers :
        /\ pc[i] \in {"freepage", "freestack"} /\ r[i] = 0 => ldrdone[i] \/ lpc[i] = "none"
        /\ said[i] = "created" => /\ pc[i] = "returned" /\ i \in image
                                  /\ ldrdone[i] \/ lpc[i] = "none"

\* While the system calls are not all there, somebody is at them, or nobody has got
\* that far.
HooksInv ==
    /\ hooks = "clearing" => \E i \in Installers : pc[i] = "hooks"
    /\ hooks = "stock" =>
          \A i \in Installers :
              pc[i] \in {"new", "patch", "kdebugger", "returned"} /\ lpc[i] = "none"

IInv == TypeOK /\ BaseInv /\ MemoryInv /\ LoaderInv /\ ResultInv /\ HooksInv

\* What one installer and its loader do.
Step(i) == Start(i) \/ Installer(i) \/ WaitFails(i) \/ Loader(i)

-----------------------------------------------------------------------------
LEMMA InitInv == Init => IInv
<1> SUFFICES ASSUME Init PROVE IInv
  OBVIOUS
<1>1. TypeOK
  <2>1. ldrdone \in [Installers -> BOOLEAN] /\ lpc = [i \in Installers |-> "none"]
    BY Zenon DEF Init
  <2>2. writes = [i \in Installers |-> 0] /\ r = [i \in Installers |-> 0]
    BY Zenon DEF Init
  <2>3. pc = [i \in Installers |-> "new"] /\ said = [i \in Installers |-> ""]
    BY Zenon DEF Init
  <2>4. hooks = "stock" /\ shell = "up"
    BY DEF Init
  <2>5. /\ base = {} /\ image = {} /\ pages = {} /\ stacks = {}
        /\ payload = {} /\ blind = {}
    BY DEF Init
  <2>6. 0 \in 0..AllWrites /\ 0 \in 0..1
    BY DEF AllWrites
  <2>7. writes \in [Installers -> 0..AllWrites] /\ r \in [Installers -> 0..1]
    BY <2>2, <2>6
  <2> QED  BY <2>1, <2>3, <2>4, <2>5, <2>7 DEF TypeOK
<1>2. BaseInv /\ HooksInv
  BY DEF Init, BaseInv, HooksInv, BeforeLoader, BehindLoader, InThread
<1>3. MemoryInv /\ LoaderInv /\ ResultInv
  BY DEF Init, MemoryInv, LoaderInv, ResultInv, BeforeBase, BeforeLoader, BehindLoader,
         InThread
<1> QED  BY <1>1, <1>2, <1>3 DEF IInv

LEMMA AllWritesType == AllWrites \in Nat /\ AllWrites > 2
BY DEF AllWrites

\* The way out of proc_create_thread keeps the types.
LEMMA ErrorType ==
    ASSUME TypeOK, NEW i \in Installers, NEW v \in 0..1, Error(i, v),
           blind' \in {blind, blind \cup {i}}
    PROVE  TypeOK'
<1>1. r' \in [Installers -> 0..1]
  BY DEF Error, TypeOK
<1>2. pc' = [pc EXCEPT ![i] = "freepage"]
  BY DEF Error, Goto
<1>3. UNCHANGED <<said, hooks, loaderVars, memVars>>
  BY DEF Error
<1> QED  BY <1>1, <1>2, <1>3 DEF TypeOK, loaderVars, memVars

LEMMA NextType ==
    ASSUME TypeOK, MemoryInv, NEW i \in Installers, Step(i)
    PROVE  TypeOK'
<1> USE DEF Goto, Says, instVars, loaderVars, memVars
<1>1. CASE Start(i)
  BY <1>1 DEF Start, TypeOK
<1>2. CASE PatchKernel(i)
  BY <1>2 DEF PatchKernel, TypeOK
<1>3. CASE LoadKdebuggerFails(i)
  BY <1>3 DEF LoadKdebuggerFails, TypeOK
<1>4. CASE LoadKdebugger(i)
  BY <1>4 DEF LoadKdebugger, TypeOK
<1>5. CASE InstallHooks(i)
  BY <1>5 DEF InstallHooks, TypeOK
<1>6. CASE FindShell(i)
  BY <1>6 DEF FindShell, LoadDebuggerFails, TypeOK
<1>7. CASE InsertBase(i)
  BY <1>7 DEF InsertBase, LoadDebuggerFails, TypeOK
<1>8. CASE WritePayload(i)
  BY <1>8 DEF WritePayload, LoadDebuggerFails, TypeOK
<1>9. CASE AllocatePage(i)
  <2>1. CASE Error(i, 1)
    BY <1>9, <2>1, ErrorType DEF AllocatePage
  <2>2. CASE ~ Error(i, 1)
    BY <1>9, <2>2 DEF AllocatePage, TypeOK
  <2> QED  BY <2>1, <2>2
<1>10. CASE AllocateStack(i)
  <2>1. CASE Error(i, 1)
    BY <1>10, <2>1, ErrorType DEF AllocateStack
  <2>2. CASE ~ Error(i, 1)
    BY <1>10, <2>2 DEF AllocateStack, TypeOK
  <2> QED  BY <2>1, <2>2
<1>11. CASE WriteLoader(i)
  <2>1. CASE Error(i, 1)
    BY <1>11, <2>1, ErrorType DEF WriteLoader
  <2>2. CASE ~ Error(i, 1)
    <3>1. writes[i] \in 0..(AllWrites - 1)
      BY <1>11 DEF WriteLoader, MemoryInv, AllWrites
    <3>2. writes' \in [Installers -> 0..AllWrites]
      <4>1. writes' = [writes EXCEPT ![i] = writes[i] + 1]
        BY <1>11, <2>2 DEF WriteLoader
      <4>2. writes[i] + 1 \in 0..AllWrites
        BY <3>1 DEF AllWrites
      <4> QED  BY <1>11, <4>1, <4>2 DEF TypeOK
    <3>3. pc' \in {[pc EXCEPT ![i] = l] : l \in {"vmmap", "create", "fields"}}
      BY <1>11, <2>2 DEF WriteLoader, Goto
    <3> QED  BY <1>11, <2>2, <3>2, <3>3 DEF WriteLoader, TypeOK, loaderVars
  <2> QED  BY <2>1, <2>2
<1>12. CASE FindLibkernel(i)
  <2>1. CASE Error(i, 0)
    BY <1>12, <2>1, ErrorType DEF FindLibkernel
  <2>2. CASE ~ Error(i, 0)
    BY <1>12, <2>2 DEF FindLibkernel, TypeOK
  <2> QED  BY <2>1, <2>2
<1>13. CASE CreateThread(i)
  <2>1. CASE Error(i, 1)
    BY <1>13, <2>1, ErrorType DEF CreateThread
  <2>2. CASE ~ Error(i, 1)
    BY <1>13, <2>2 DEF CreateThread, TypeOK
  <2> QED  BY <2>1, <2>2
<1>14. CASE WaitDone(i)
  BY <1>14, ErrorType DEF WaitDone
<1>15. CASE WaitFails(i)
  BY <1>15, ErrorType DEF WaitFails
<1>16. CASE FreePage(i)
  BY <1>16 DEF FreePage, TypeOK
<1>17. CASE FreeStack(i)
  BY <1>17 DEF FreeStack, TypeOK
<1>18. CASE LoaderAttr(i)
  BY <1>18 DEF LoaderAttr, TypeOK
<1>19. CASE LoaderSpawn(i)
  BY <1>19 DEF LoaderSpawn, TypeOK
<1>20. CASE LoaderSetDone(i)
  BY <1>20 DEF LoaderSetDone, TypeOK
<1>21. CASE LoaderExit(i)
  BY <1>21 DEF LoaderExit, TypeOK
<1>22. CASE LoaderFault(i)
  BY <1>22 DEF LoaderFault, TypeOK
<1> QED  BY <1>1, <1>2, <1>3, <1>4, <1>5, <1>6, <1>7, <1>8, <1>9, <1>10, <1>11, <1>12,
            <1>13, <1>14, <1>15, <1>16, <1>17, <1>18, <1>19, <1>20, <1>21, <1>22
            DEF Step, Installer, Loader

\* vm_map_insert refuses a second owner, and nobody gets past it without being the owner.
LEMMA NextBaseInv ==
    ASSUME TypeOK, BaseInv, NEW i \in Installers, Step(i)
    PROVE  BaseInv'
<1> USE DEF instVars, loaderVars, memVars, Goto, Says, BeforeBase, BeforeLoader,
          InThread, BehindLoader
<1>1. ASSUME pc[i] \in {"find", "insert", "payload"}, LoadDebuggerFails(i) PROVE BaseInv'
  BY <1>1 DEF LoadDebuggerFails, TypeOK, BaseInv
<1>2. ASSUME NEW v \in 0..1, pc[i] \in InThread, Error(i, v), UNCHANGED blind
      PROVE  BaseInv'
  BY <1>2 DEF Error, TypeOK, BaseInv
<1>3. CASE Start(i)
  BY <1>3 DEF Start, TypeOK, BaseInv
<1>4. CASE PatchKernel(i)
  BY <1>4 DEF PatchKernel, TypeOK, BaseInv
<1>5. CASE LoadKdebuggerFails(i)
  BY <1>5 DEF LoadKdebuggerFails, TypeOK, BaseInv
<1>6. CASE LoadKdebugger(i)
  BY <1>6 DEF LoadKdebugger, TypeOK, BaseInv
<1>7. CASE InstallHooks(i)
  BY <1>7 DEF InstallHooks, TypeOK, BaseInv
<1>8. CASE FindShell(i)
  <2>1. CASE LoadDebuggerFails(i)
    BY <1>8, <2>1, <1>1 DEF FindShell
  <2>2. CASE ~ LoadDebuggerFails(i)
    BY <1>8, <2>2 DEF FindShell, TypeOK, BaseInv
  <2> QED  BY <2>1, <2>2
<1>9. CASE InsertBase(i)
  <2>1. CASE LoadDebuggerFails(i)
    BY <1>9, <2>1, <1>1 DEF InsertBase
  <2>2. CASE ~ LoadDebuggerFails(i)
    BY <1>9, <2>2 DEF InsertBase, TypeOK, BaseInv
  <2> QED  BY <2>1, <2>2
<1>10. CASE WritePayload(i)
  <2>1. CASE LoadDebuggerFails(i)
    BY <1>10, <2>1, <1>1 DEF WritePayload
  <2>2. CASE ~ LoadDebuggerFails(i)
    <3>1. /\ pc[i] = "payload"
          /\ pc' = [pc EXCEPT ![i] = "page"]
          /\ image' = image \cup {i}
          /\ UNCHANGED base
      BY <1>10, <2>2 DEF WritePayload
    <3> QED  BY <3>1 DEF TypeOK, BaseInv
  <2> QED  BY <2>1, <2>2
<1>11. CASE AllocatePage(i)
  <2>1. CASE Error(i, 1)
    BY <1>11, <2>1, <1>2 DEF AllocatePage
  <2>2. CASE ~ Error(i, 1)
    BY <1>11, <2>2 DEF AllocatePage, TypeOK, BaseInv
  <2> QED  BY <2>1, <2>2
<1>12. CASE AllocateStack(i)
  <2>1. CASE Error(i, 1)
    BY <1>12, <2>1, <1>2 DEF AllocateStack
  <2>2. CASE ~ Error(i, 1)
    BY <1>12, <2>2 DEF AllocateStack, TypeOK, BaseInv
  <2> QED  BY <2>1, <2>2
<1>13. CASE WriteLoader(i)
  <2>1. CASE Error(i, 1)
    BY <1>13, <2>1, <1>2 DEF WriteLoader
  <2>2. CASE ~ Error(i, 1)
    BY <1>13, <2>2 DEF WriteLoader, TypeOK, BaseInv
  <2> QED  BY <2>1, <2>2
<1>14. CASE FindLibkernel(i)
  <2>1. CASE Error(i, 0)
    BY <1>14, <2>1, <1>2 DEF FindLibkernel
  <2>2. CASE ~ Error(i, 0)
    BY <1>14, <2>2 DEF FindLibkernel, TypeOK, BaseInv
  <2> QED  BY <2>1, <2>2
<1>15. CASE CreateThread(i)
  <2>1. CASE Error(i, 1)
    BY <1>15, <2>1, <1>2 DEF CreateThread
  <2>2. CASE ~ Error(i, 1)
    BY <1>15, <2>2 DEF CreateThread, TypeOK, BaseInv
  <2> QED  BY <2>1, <2>2
<1>16. CASE WaitDone(i)
  BY <1>16 DEF WaitDone, Error, TypeOK, BaseInv
<1>17. CASE WaitFails(i)
  BY <1>17 DEF WaitFails, Error, TypeOK, BaseInv
<1>18. CASE FreePage(i)
  BY <1>18 DEF FreePage, TypeOK, BaseInv
<1>19. CASE FreeStack(i)
  BY <1>19 DEF FreeStack, TypeOK, BaseInv
<1>20. CASE LoaderAttr(i)
  BY <1>20 DEF LoaderAttr, TypeOK, BaseInv
<1>21. CASE LoaderSpawn(i)
  BY <1>21 DEF LoaderSpawn, TypeOK, BaseInv
<1>22. CASE LoaderSetDone(i)
  BY <1>22 DEF LoaderSetDone, TypeOK, BaseInv
<1>23. CASE LoaderExit(i)
  BY <1>23 DEF LoaderExit, TypeOK, BaseInv
<1>24. CASE LoaderFault(i)
  BY <1>24 DEF LoaderFault, TypeOK, BaseInv
<1> QED  BY <1>3, <1>4, <1>5, <1>6, <1>7, <1>8, <1>9, <1>10, <1>11, <1>12, <1>13, <1>14,
            <1>15, <1>16, <1>17, <1>18, <1>19, <1>20, <1>21, <1>22, <1>23, <1>24
            DEF Step, Installer, Loader

\* The page and the stack of a loader, and the writes to the page.
LEMMA NextMemoryInv ==
    ASSUME TypeOK, MemoryInv, NEW i \in Installers, Step(i)
    PROVE  MemoryInv'
<1> USE DEF instVars, loaderVars, memVars, Goto, Says, BeforeBase, BeforeLoader,
          InThread, BehindLoader
<1>1. ASSUME pc[i] \in {"find", "insert", "payload"}, LoadDebuggerFails(i) PROVE MemoryInv'
  BY <1>1 DEF LoadDebuggerFails, TypeOK, MemoryInv, Mapped
<1>2. ASSUME NEW v \in 0..1, pc[i] \in InThread, Error(i, v), UNCHANGED blind
      PROVE  MemoryInv'
  BY <1>2 DEF Error, TypeOK, MemoryInv, Mapped
<1>3. CASE Start(i)
  BY <1>3 DEF Start, TypeOK, MemoryInv, Mapped
<1>4. CASE PatchKernel(i)
  BY <1>4 DEF PatchKernel, TypeOK, MemoryInv, Mapped
<1>5. CASE LoadKdebuggerFails(i)
  BY <1>5 DEF LoadKdebuggerFails, TypeOK, MemoryInv, Mapped
<1>6. CASE LoadKdebugger(i)
  BY <1>6 DEF LoadKdebugger, TypeOK, MemoryInv, Mapped
<1>7. CASE InstallHooks(i)
  BY <1>7 DEF InstallHooks, TypeOK, MemoryInv, Mapped
<1>8. CASE FindShell(i)
  <2>1. CASE LoadDebuggerFails(i)
    BY <1>8, <2>1, <1>1 DEF FindShell
  <2>2. CASE ~ LoadDebuggerFails(i)
    <3>1. /\ pc[i] = "find"
          /\ pc' = [pc EXCEPT ![i] = "insert"]
          /\ UNCHANGED <<pages, stacks, writes>>
      BY <1>8, <2>2 DEF FindShell
    <3> QED  BY <3>1 DEF TypeOK, MemoryInv, Mapped
  <2> QED  BY <2>1, <2>2
<1>9. CASE InsertBase(i)
  <2>1. CASE LoadDebuggerFails(i)
    BY <1>9, <2>1, <1>1 DEF InsertBase
  <2>2. CASE ~ LoadDebuggerFails(i)
    <3>1. /\ pc[i] = "insert"
          /\ pc' = [pc EXCEPT ![i] = "payload"]
          /\ UNCHANGED <<pages, stacks, writes>>
      BY <1>9, <2>2 DEF InsertBase
    <3> QED  BY <3>1 DEF TypeOK, MemoryInv, Mapped
  <2> QED  BY <2>1, <2>2
<1>10. CASE WritePayload(i)
  <2>1. CASE LoadDebuggerFails(i)
    BY <1>10, <2>1, <1>1 DEF WritePayload
  <2>2. CASE ~ LoadDebuggerFails(i)
    <3>1. /\ pc[i] = "payload"
          /\ pc' = [pc EXCEPT ![i] = "page"]
          /\ UNCHANGED <<pages, stacks, writes>>
      BY <1>10, <2>2 DEF WritePayload
    <3> QED  BY <3>1 DEF TypeOK, MemoryInv, Mapped
  <2> QED  BY <2>1, <2>2
<1>11. CASE AllocatePage(i)
  <2>1. CASE Error(i, 1)
    BY <1>11, <2>1, <1>2 DEF AllocatePage
  <2>2. CASE ~ Error(i, 1)
    <3>1. /\ pc[i] = "page"
          /\ pc' = [pc EXCEPT ![i] = "stack"]
          /\ pages' = pages \cup {i}
          /\ UNCHANGED <<stacks, writes>>
      BY <1>11, <2>2 DEF AllocatePage
    <3> QED  BY <3>1 DEF TypeOK, MemoryInv, Mapped
  <2> QED  BY <2>1, <2>2
<1>12. CASE AllocateStack(i)
  <2>1. CASE Error(i, 1)
    BY <1>12, <2>1, <1>2 DEF AllocateStack
  <2>2. CASE ~ Error(i, 1)
    <3>1. /\ pc[i] = "stack"
          /\ pc' = [pc EXCEPT ![i] = "code"]
          /\ stacks' = stacks \cup {i}
          /\ UNCHANGED <<pages, writes>>
      BY <1>12, <2>2 DEF AllocateStack
    <3> QED  BY <3>1 DEF TypeOK, MemoryInv, Mapped
  <2> QED  BY <2>1, <2>2
<1>13. CASE WriteLoader(i)
  <2>1. CASE Error(i, 1)
    BY <1>13, <2>1, <1>2 DEF WriteLoader
  <2>2. CASE ~ Error(i, 1)
    <3>1. UNCHANGED <<pages, stacks>> /\ writes' = [writes EXCEPT ![i] = writes[i] + 1]
      BY <1>13, <2>2 DEF WriteLoader
    <3>2. CASE pc[i] = "code"
      <4>1. writes[i] + 1 = 1 /\ 1 # AllWrites
        BY <1>13, <3>2, AllWritesType DEF MemoryInv
      <4>2. pc' = [pc EXCEPT ![i] = "vmmap"]
        BY <1>13, <2>2, <3>2, <4>1 DEF WriteLoader, Goto
      <4> QED  BY <1>13, <3>1, <3>2, <4>1, <4>2 DEF MemoryInv, TypeOK, Mapped
    <3>3. CASE pc[i] = "fields"
      <4>1. writes[i] \in 1..(AllWrites - 1) /\ AllWrites \in Nat
        BY <1>13, <3>3, AllWritesType DEF MemoryInv
      <4>2. CASE writes[i] + 1 = AllWrites
        <5>1. pc' = [pc EXCEPT ![i] = "create"]
          BY <1>13, <2>2, <3>3, <4>2 DEF WriteLoader, Goto
        <5> QED  BY <1>13, <3>1, <3>3, <4>2, <5>1 DEF MemoryInv, TypeOK, Mapped
      <4>3. CASE writes[i] + 1 # AllWrites
        <5>1. pc' = [pc EXCEPT ![i] = "fields"] /\ writes[i] + 1 \in 1..(AllWrites - 1)
          BY <1>13, <2>2, <3>3, <4>1, <4>3 DEF WriteLoader, Goto
        <5> QED  BY <1>13, <3>1, <3>3, <5>1 DEF MemoryInv, TypeOK, Mapped
      <4> QED  BY <4>2, <4>3
    <3> QED  BY <1>13, <3>2, <3>3 DEF WriteLoader
  <2> QED  BY <2>1, <2>2
<1>14. CASE FindLibkernel(i)
  <2>1. CASE Error(i, 0)
    BY <1>14, <2>1, <1>2 DEF FindLibkernel
  <2>2. CASE ~ Error(i, 0)
    <3>1. /\ pc[i] = "vmmap" /\ pc' = [pc EXCEPT ![i] = "fields"]
          /\ UNCHANGED <<pages, stacks, writes>>
      BY <1>14, <2>2 DEF FindLibkernel, Goto, memVars
    <3>2. writes[i] \in 1..(AllWrites - 1)
      BY <1>14, <3>1, AllWritesType DEF MemoryInv
    <3> QED  BY <3>1, <3>2 DEF MemoryInv, TypeOK, Mapped
  <2> QED  BY <2>1, <2>2
<1>15. CASE CreateThread(i)
  <2>1. CASE Error(i, 1)
    BY <1>15, <2>1, <1>2 DEF CreateThread
  <2>2. CASE ~ Error(i, 1)
    <3>1. /\ pc[i] = "create"
          /\ pc' = [pc EXCEPT ![i] = "wait"]
          /\ UNCHANGED <<pages, stacks, writes>>
      BY <1>15, <2>2 DEF CreateThread
    <3> QED  BY <3>1 DEF TypeOK, MemoryInv, Mapped
  <2> QED  BY <2>1, <2>2
<1>16. CASE WaitDone(i)
  BY <1>16 DEF WaitDone, Error, TypeOK, MemoryInv, Mapped
<1>17. CASE WaitFails(i)
  BY <1>17 DEF WaitFails, Error, TypeOK, MemoryInv, Mapped
<1>18. CASE FreePage(i)
  BY <1>18 DEF FreePage, TypeOK, MemoryInv, Mapped
<1>19. CASE FreeStack(i)
  BY <1>19 DEF FreeStack, TypeOK, MemoryInv, Mapped
<1>20. CASE LoaderAttr(i)
  BY <1>20 DEF LoaderAttr, TypeOK, MemoryInv, Mapped
<1>21. CASE LoaderSpawn(i)
  BY <1>21 DEF LoaderSpawn, TypeOK, MemoryInv, Mapped
<1>22. CASE LoaderSetDone(i)
  BY <1>22 DEF LoaderSetDone, TypeOK, MemoryInv, Mapped
<1>23. CASE LoaderExit(i)
  BY <1>23 DEF LoaderExit, TypeOK, MemoryInv, Mapped
<1>24. CASE LoaderFault(i)
  BY <1>24 DEF LoaderFault, TypeOK, MemoryInv, Mapped
<1> QED  BY <1>3, <1>4, <1>5, <1>6, <1>7, <1>8, <1>9, <1>10, <1>11, <1>12, <1>13, <1>14,
            <1>15, <1>16, <1>17, <1>18, <1>19, <1>20, <1>21, <1>22, <1>23, <1>24
            DEF Step, Installer, Loader

\* A loader is started once all is written, and is waited for.
LEMMA NextLoaderInv ==
    ASSUME TypeOK, BaseInv, MemoryInv, LoaderInv, NEW i \in Installers, Step(i)
    PROVE  LoaderInv'
<1> USE DEF instVars, loaderVars, memVars, Goto, Says, BeforeBase, BeforeLoader,
          InThread, BehindLoader
<1>1. ASSUME pc[i] \in {"find", "insert", "payload"}, LoadDebuggerFails(i) PROVE LoaderInv'
  BY <1>1 DEF LoadDebuggerFails, TypeOK, BaseInv, MemoryInv, LoaderInv, Mapped, Runs
<1>2. ASSUME NEW v \in 0..1, pc[i] \in InThread, Error(i, v), UNCHANGED blind
      PROVE  LoaderInv'
  BY <1>2 DEF Error, TypeOK, BaseInv, MemoryInv, LoaderInv, Mapped, Runs
<1>3. CASE Start(i)
  BY <1>3 DEF Start, TypeOK, BaseInv, MemoryInv, LoaderInv, Mapped, Runs
<1>4. CASE PatchKernel(i)
  BY <1>4 DEF PatchKernel, TypeOK, BaseInv, MemoryInv, LoaderInv, Mapped, Runs
<1>5. CASE LoadKdebuggerFails(i)
  BY <1>5 DEF LoadKdebuggerFails, TypeOK, BaseInv, MemoryInv, LoaderInv, Mapped, Runs
<1>6. CASE LoadKdebugger(i)
  BY <1>6 DEF LoadKdebugger, TypeOK, BaseInv, MemoryInv, LoaderInv, Mapped, Runs
<1>7. CASE InstallHooks(i)
  BY <1>7 DEF InstallHooks, TypeOK, BaseInv, MemoryInv, LoaderInv, Mapped, Runs
<1>8. CASE FindShell(i)
  <2>1. CASE LoadDebuggerFails(i)
    BY <1>8, <2>1, <1>1 DEF FindShell
  <2>2. CASE ~ LoadDebuggerFails(i)
    BY <1>8, <2>2 DEF FindShell, TypeOK, BaseInv, MemoryInv, LoaderInv, Mapped, Runs
  <2> QED  BY <2>1, <2>2
<1>9. CASE InsertBase(i)
  <2>1. CASE LoadDebuggerFails(i)
    BY <1>9, <2>1, <1>1 DEF InsertBase
  <2>2. CASE ~ LoadDebuggerFails(i)
    <3>1. /\ pc[i] = "insert"
          /\ pc' = [pc EXCEPT ![i] = "payload"]
          /\ UNCHANGED <<image, writes, lpc, ldrdone, payload, blind>>
      BY <1>9, <2>2 DEF InsertBase
    <3> QED  BY <3>1 DEF TypeOK, BaseInv, MemoryInv, LoaderInv, Mapped
  <2> QED  BY <2>1, <2>2
<1>10. CASE WritePayload(i)
  <2>1. CASE LoadDebuggerFails(i)
    BY <1>10, <2>1, <1>1 DEF WritePayload
  <2>2. CASE ~ LoadDebuggerFails(i)
    BY <1>10, <2>2 DEF WritePayload, TypeOK, BaseInv, MemoryInv, LoaderInv, Mapped, Runs
  <2> QED  BY <2>1, <2>2
<1>11. CASE AllocatePage(i)
  <2>1. CASE Error(i, 1)
    BY <1>11, <2>1, <1>2 DEF AllocatePage
  <2>2. CASE ~ Error(i, 1)
    BY <1>11, <2>2 DEF AllocatePage, TypeOK, BaseInv, MemoryInv, LoaderInv, Mapped, Runs
  <2> QED  BY <2>1, <2>2
<1>12. CASE AllocateStack(i)
  <2>1. CASE Error(i, 1)
    BY <1>12, <2>1, <1>2 DEF AllocateStack
  <2>2. CASE ~ Error(i, 1)
    BY <1>12, <2>2 DEF AllocateStack, TypeOK, BaseInv, MemoryInv, LoaderInv, Mapped, Runs
  <2> QED  BY <2>1, <2>2
<1>13. CASE WriteLoader(i)
  <2>1. CASE Error(i, 1)
    BY <1>13, <2>1, <1>2 DEF WriteLoader
  <2>2. CASE ~ Error(i, 1)
    <3>1. PICK l \in {"vmmap", "create", "fields"} : pc' = [pc EXCEPT ![i] = l]
      BY <1>13, <2>2 DEF WriteLoader, Goto
    <3>2. /\ pc[i] \in {"code", "fields"} /\ writes' = [writes EXCEPT ![i] = writes[i] + 1]
          /\ UNCHANGED <<image, lpc, ldrdone, payload, blind>>
      BY <1>13, <2>2 DEF WriteLoader, loaderVars
    <3> QED  BY <1>13, <3>1, <3>2 DEF LoaderInv, TypeOK, BehindLoader
  <2> QED  BY <2>1, <2>2
<1>14. CASE FindLibkernel(i)
  <2>1. CASE Error(i, 0)
    BY <1>14, <2>1, <1>2 DEF FindLibkernel
  <2>2. CASE ~ Error(i, 0)
    BY <1>14, <2>2 DEF FindLibkernel, TypeOK, BaseInv, MemoryInv, LoaderInv, Mapped, Runs
  <2> QED  BY <2>1, <2>2
<1>15. CASE CreateThread(i)
  <2>1. CASE Error(i, 1)
    BY <1>15, <2>1, <1>2 DEF CreateThread
  <2>2. CASE ~ Error(i, 1)
    <3>1. /\ pc[i] = "create"
          /\ pc' = [pc EXCEPT ![i] = "wait"]
          /\ lpc' = [lpc EXCEPT ![i] = "attr"]
          /\ UNCHANGED <<image, writes, ldrdone, payload, blind>>
      BY <1>15, <2>2 DEF CreateThread
    <3> QED  BY <3>1 DEF TypeOK, BaseInv, MemoryInv, LoaderInv, Mapped
  <2> QED  BY <2>1, <2>2
<1>16. CASE WaitDone(i)
  BY <1>16 DEF WaitDone, Error, TypeOK, BaseInv, MemoryInv, LoaderInv, Mapped, Runs
<1>17. CASE WaitFails(i)
  BY <1>17 DEF WaitFails, Error, TypeOK, BaseInv, MemoryInv, LoaderInv, Mapped, Runs
<1>18. CASE FreePage(i)
  BY <1>18 DEF FreePage, TypeOK, BaseInv, MemoryInv, LoaderInv, Mapped, Runs
<1>19. CASE FreeStack(i)
  BY <1>19 DEF FreeStack, TypeOK, BaseInv, MemoryInv, LoaderInv, Mapped, Runs
<1>20. CASE LoaderAttr(i)
  <2>1. /\ lpc[i] # "none"
        /\ lpc' = [lpc EXCEPT ![i] = "spawn"]
        /\ UNCHANGED <<pc, image, writes, ldrdone, payload, blind>>
    BY <1>20 DEF LoaderAttr
  <2> QED  BY <2>1 DEF TypeOK, BaseInv, MemoryInv, LoaderInv, Mapped
<1>21. CASE LoaderSpawn(i)
  <2>1. /\ lpc[i] # "none"
        /\ lpc' = [lpc EXCEPT ![i] = "flag"]
        /\ payload' \subseteq payload \cup {i}
        /\ UNCHANGED <<pc, image, writes, ldrdone, blind>>
    BY <1>21 DEF LoaderSpawn
  <2> QED  BY <2>1 DEF TypeOK, BaseInv, MemoryInv, LoaderInv, Mapped
<1>22. CASE LoaderSetDone(i)
  <2>1. /\ lpc[i] # "none"
        /\ lpc' = [lpc EXCEPT ![i] = "exit"]
        /\ ldrdone' = [ldrdone EXCEPT ![i] = TRUE]
        /\ UNCHANGED <<pc, image, writes, payload, blind>>
    BY <1>22 DEF LoaderSetDone
  <2> QED  BY <2>1 DEF TypeOK, BaseInv, MemoryInv, LoaderInv, Mapped
<1>23. CASE LoaderExit(i)
  <2>1. /\ lpc[i] # "none"
        /\ lpc' = [lpc EXCEPT ![i] = "gone"]
        /\ UNCHANGED <<pc, image, writes, ldrdone, payload, blind>>
    BY <1>23 DEF LoaderExit
  <2> QED  BY <2>1 DEF TypeOK, BaseInv, MemoryInv, LoaderInv, Mapped
<1>24. CASE LoaderFault(i)
  BY <1>24 DEF LoaderFault, TypeOK, BaseInv, MemoryInv, LoaderInv, Mapped, Runs
<1> QED  BY <1>3, <1>4, <1>5, <1>6, <1>7, <1>8, <1>9, <1>10, <1>11, <1>12, <1>13, <1>14,
            <1>15, <1>16, <1>17, <1>18, <1>19, <1>20, <1>21, <1>22, <1>23, <1>24
            DEF Step, Installer, Loader

\* r is 0 when the loader is done or was never started.
LEMMA NextResultInv ==
    ASSUME TypeOK, BaseInv, LoaderInv, ResultInv, NEW i \in Installers, Step(i)
    PROVE  ResultInv'
<1> USE DEF instVars, loaderVars, memVars, Goto, Says, BeforeBase, BeforeLoader,
          InThread, BehindLoader
<1>1. ASSUME pc[i] \in {"find", "insert", "payload"}, LoadDebuggerFails(i) PROVE ResultInv'
  BY <1>1 DEF LoadDebuggerFails, TypeOK, BaseInv, LoaderInv, ResultInv, Runs
<1>2. ASSUME NEW v \in 0..1, pc[i] \in InThread, Error(i, v), UNCHANGED blind
      PROVE  ResultInv'
  BY <1>2 DEF Error, TypeOK, BaseInv, LoaderInv, ResultInv, Runs
<1>3. CASE Start(i)
  BY <1>3 DEF Start, TypeOK, BaseInv, LoaderInv, ResultInv, Runs
<1>4. CASE PatchKernel(i)
  BY <1>4 DEF PatchKernel, TypeOK, BaseInv, LoaderInv, ResultInv, Runs
<1>5. CASE LoadKdebuggerFails(i)
  BY <1>5 DEF LoadKdebuggerFails, TypeOK, BaseInv, LoaderInv, ResultInv, Runs
<1>6. CASE LoadKdebugger(i)
  BY <1>6 DEF LoadKdebugger, TypeOK, BaseInv, LoaderInv, ResultInv, Runs
<1>7. CASE InstallHooks(i)
  BY <1>7 DEF InstallHooks, TypeOK, BaseInv, LoaderInv, ResultInv, Runs
<1>8. CASE FindShell(i)
  <2>1. CASE LoadDebuggerFails(i)
    BY <1>8, <2>1, <1>1 DEF FindShell
  <2>2. CASE ~ LoadDebuggerFails(i)
    BY <1>8, <2>2 DEF FindShell, TypeOK, BaseInv, LoaderInv, ResultInv, Runs
  <2> QED  BY <2>1, <2>2
<1>9. CASE InsertBase(i)
  <2>1. CASE LoadDebuggerFails(i)
    BY <1>9, <2>1, <1>1 DEF InsertBase
  <2>2. CASE ~ LoadDebuggerFails(i)
    BY <1>9, <2>2 DEF InsertBase, TypeOK, BaseInv, LoaderInv, ResultInv, Runs
  <2> QED  BY <2>1, <2>2
<1>10. CASE WritePayload(i)
  <2>1. CASE LoadDebuggerFails(i)
    BY <1>10, <2>1, <1>1 DEF WritePayload
  <2>2. CASE ~ LoadDebuggerFails(i)
    <3>1. /\ pc[i] = "payload"
          /\ pc' = [pc EXCEPT ![i] = "page"]
          /\ image' = image \cup {i}
          /\ UNCHANGED <<said, r, lpc, ldrdone>>
      BY <1>10, <2>2 DEF WritePayload
    <3> QED  BY <3>1 DEF TypeOK, BaseInv, LoaderInv, ResultInv
  <2> QED  BY <2>1, <2>2
<1>11. CASE AllocatePage(i)
  <2>1. CASE Error(i, 1)
    BY <1>11, <2>1, <1>2 DEF AllocatePage
  <2>2. CASE ~ Error(i, 1)
    BY <1>11, <2>2 DEF AllocatePage, TypeOK, BaseInv, LoaderInv, ResultInv, Runs
  <2> QED  BY <2>1, <2>2
<1>12. CASE AllocateStack(i)
  <2>1. CASE Error(i, 1)
    BY <1>12, <2>1, <1>2 DEF AllocateStack
  <2>2. CASE ~ Error(i, 1)
    BY <1>12, <2>2 DEF AllocateStack, TypeOK, BaseInv, LoaderInv, ResultInv, Runs
  <2> QED  BY <2>1, <2>2
<1>13. CASE WriteLoader(i)
  <2>1. CASE Error(i, 1)
    BY <1>13, <2>1, <1>2 DEF WriteLoader
  <2>2. CASE ~ Error(i, 1)
    <3>1. PICK l \in {"vmmap", "create", "fields"} : pc' = [pc EXCEPT ![i] = l]
      BY <1>13, <2>2 DEF WriteLoader, Goto
    <3>2. pc[i] \in {"code", "fields"} /\ UNCHANGED <<said, r, image, ldrdone, lpc>>
      BY <1>13, <2>2 DEF WriteLoader, loaderVars
    <3> QED  BY <1>13, <3>1, <3>2 DEF ResultInv, TypeOK
  <2> QED  BY <2>1, <2>2
<1>14. CASE FindLibkernel(i)
  <2>1. CASE Error(i, 0)
    BY <1>14, <2>1, <1>2 DEF FindLibkernel
  <2>2. CASE ~ Error(i, 0)
    BY <1>14, <2>2 DEF FindLibkernel, TypeOK, BaseInv, LoaderInv, ResultInv, Runs
  <2> QED  BY <2>1, <2>2
<1>15. CASE CreateThread(i)
  <2>1. CASE Error(i, 1)
    BY <1>15, <2>1, <1>2 DEF CreateThread
  <2>2. CASE ~ Error(i, 1)
    <3>1. /\ pc[i] = "create"
          /\ pc' = [pc EXCEPT ![i] = "wait"]
          /\ lpc' = [lpc EXCEPT ![i] = "attr"]
          /\ UNCHANGED <<said, r, image, ldrdone>>
      BY <1>15, <2>2 DEF CreateThread
    <3> QED  BY <3>1 DEF TypeOK, BaseInv, LoaderInv, ResultInv
  <2> QED  BY <2>1, <2>2
<1>16. CASE WaitDone(i)
  BY <1>16 DEF WaitDone, Error, TypeOK, BaseInv, LoaderInv, ResultInv, Runs
<1>17. CASE WaitFails(i)
  <2>1. pc' = [pc EXCEPT ![i] = "freepage"] /\ r' = [r EXCEPT ![i] = 1]
    BY <1>17 DEF WaitFails, Error, Goto
  <2>2. pc[i] = "wait" /\ UNCHANGED <<said, image, ldrdone, lpc>>
    BY <1>17 DEF WaitFails, Error, loaderVars, memVars
  <2>3. r'[i] = 1 /\ pc'[i] = "freepage" /\ said'[i] # "created"
    BY <1>17, <2>1, <2>2 DEF ResultInv, TypeOK
  <2>4. ASSUME NEW j \in Installers \ {i}
        PROVE  r'[j] = r[j] /\ pc'[j] = pc[j]
    BY <1>17, <2>1 DEF TypeOK
  <2> QED  BY <1>17, <2>2, <2>3, <2>4 DEF ResultInv
<1>18. CASE FreePage(i)
  BY <1>18 DEF FreePage, TypeOK, BaseInv, LoaderInv, ResultInv, Runs
<1>19. CASE FreeStack(i)
  BY <1>19 DEF FreeStack, TypeOK, BaseInv, LoaderInv, ResultInv, Runs
<1>20. CASE LoaderAttr(i)
  BY <1>20 DEF LoaderAttr, TypeOK, BaseInv, LoaderInv, ResultInv, Runs
<1>21. CASE LoaderSpawn(i)
  BY <1>21 DEF LoaderSpawn, TypeOK, BaseInv, LoaderInv, ResultInv, Runs
<1>22. CASE LoaderSetDone(i)
  BY <1>22 DEF LoaderSetDone, TypeOK, BaseInv, LoaderInv, ResultInv, Runs
<1>23. CASE LoaderExit(i)
  BY <1>23 DEF LoaderExit, TypeOK, BaseInv, LoaderInv, ResultInv, Runs
<1>24. CASE LoaderFault(i)
  BY <1>24 DEF LoaderFault, TypeOK, BaseInv, LoaderInv, ResultInv, Runs
<1> QED  BY <1>3, <1>4, <1>5, <1>6, <1>7, <1>8, <1>9, <1>10, <1>11, <1>12, <1>13, <1>14,
            <1>15, <1>16, <1>17, <1>18, <1>19, <1>20, <1>21, <1>22, <1>23, <1>24
            DEF Step, Installer, Loader

\* The system calls are filled again before the installer goes on.
LEMMA NextHooksInv ==
    ASSUME TypeOK, LoaderInv, HooksInv, NEW i \in Installers, Step(i)
    PROVE  HooksInv'
<1> USE DEF instVars, loaderVars, memVars, Goto, Says, BeforeBase, BeforeLoader,
          InThread, BehindLoader
<1>1. CASE Start(i)
  BY <1>1 DEF Start, TypeOK, LoaderInv, HooksInv, Runs
<1>2. CASE PatchKernel(i)
  BY <1>2 DEF PatchKernel, TypeOK, LoaderInv, HooksInv, Runs
<1>3. CASE LoadKdebuggerFails(i)
  BY <1>3 DEF LoadKdebuggerFails, TypeOK, LoaderInv, HooksInv, Runs
<1>4. CASE LoadKdebugger(i)
  BY <1>4 DEF LoadKdebugger, TypeOK, LoaderInv, HooksInv, Runs
<1>5. CASE InstallHooks(i)
  BY <1>5 DEF InstallHooks, TypeOK, LoaderInv, HooksInv, Runs
<1>6. CASE FindShell(i)
  BY <1>6 DEF FindShell, LoadDebuggerFails, TypeOK, LoaderInv, HooksInv, Runs
<1>7. CASE InsertBase(i)
  BY <1>7 DEF InsertBase, LoadDebuggerFails, TypeOK, LoaderInv, HooksInv, Runs
<1>8. CASE WritePayload(i)
  BY <1>8 DEF WritePayload, LoadDebuggerFails, TypeOK, LoaderInv, HooksInv, Runs
<1>9. CASE AllocatePage(i)
  BY <1>9 DEF AllocatePage, Error, TypeOK, LoaderInv, HooksInv, Runs
<1>10. CASE AllocateStack(i)
  BY <1>10 DEF AllocateStack, Error, TypeOK, LoaderInv, HooksInv, Runs
<1>11. CASE WriteLoader(i)
  BY <1>11 DEF WriteLoader, Error, TypeOK, LoaderInv, HooksInv, Runs
<1>12. CASE FindLibkernel(i)
  BY <1>12 DEF FindLibkernel, Error, TypeOK, LoaderInv, HooksInv, Runs
<1>13. CASE CreateThread(i)
  BY <1>13 DEF CreateThread, Error, TypeOK, LoaderInv, HooksInv, Runs
<1>14. CASE WaitDone(i)
  BY <1>14 DEF WaitDone, Error, TypeOK, LoaderInv, HooksInv, Runs
<1>15. CASE WaitFails(i)
  BY <1>15 DEF WaitFails, Error, TypeOK, LoaderInv, HooksInv, Runs
<1>16. CASE FreePage(i)
  BY <1>16 DEF FreePage, TypeOK, LoaderInv, HooksInv, Runs
<1>17. CASE FreeStack(i)
  BY <1>17 DEF FreeStack, TypeOK, LoaderInv, HooksInv, Runs
<1>18. CASE LoaderAttr(i)
  BY <1>18 DEF LoaderAttr, TypeOK, LoaderInv, HooksInv, Runs
<1>19. CASE LoaderSpawn(i)
  BY <1>19 DEF LoaderSpawn, TypeOK, LoaderInv, HooksInv, Runs
<1>20. CASE LoaderSetDone(i)
  BY <1>20 DEF LoaderSetDone, TypeOK, LoaderInv, HooksInv, Runs
<1>21. CASE LoaderExit(i)
  BY <1>21 DEF LoaderExit, TypeOK, LoaderInv, HooksInv, Runs
<1>22. CASE LoaderFault(i)
  BY <1>22 DEF LoaderFault, TypeOK, LoaderInv, HooksInv, Runs
<1> QED  BY <1>1, <1>2, <1>3, <1>4, <1>5, <1>6, <1>7, <1>8, <1>9, <1>10, <1>11, <1>12,
            <1>13, <1>14, <1>15, <1>16, <1>17, <1>18, <1>19, <1>20, <1>21, <1>22
            DEF Step, Installer, Loader

LEMMA StutterInv == IInv /\ UNCHANGED vars => IInv'
<1> SUFFICES ASSUME IInv, UNCHANGED vars PROVE IInv'
  OBVIOUS
<1> USE DEF vars, instVars, loaderVars, memVars
<1>1. TypeOK'
  BY DEF IInv, TypeOK
<1>2. BaseInv' /\ HooksInv'
  BY DEF IInv, BaseInv, HooksInv
<1>3. MemoryInv' /\ LoaderInv' /\ ResultInv'
  BY DEF IInv, MemoryInv, LoaderInv, ResultInv, Mapped
<1> QED  BY <1>1, <1>2, <1>3 DEF IInv

-----------------------------------------------------------------------------
\* What the invariant says.

LEMMA OnePayloadInv == IInv => OnePayload
<1> SUFFICES ASSUME IInv PROVE Cardinality(payload) <= 1
  BY DEF OnePayload
<1>1. \A i, j \in payload : i = j
  BY DEF IInv, TypeOK, LoaderInv, BaseInv
<1>2. CASE payload = {}
  BY <1>2, FS_EmptySet
<1>3. CASE payload # {}
  <2>1. PICK i \in payload : TRUE
    BY <1>3
  <2>2. payload = {i}
    BY <1>1, <2>1
  <2>3. Cardinality(payload) = 1
    BY <2>2, FS_Singleton, Zenon
  <2> QED  BY <2>3
<1> QED  BY <1>2, <1>3

LEMMA HooksUnderPayloadInv == IInv => HooksUnderPayload
<1> SUFFICES ASSUME IInv, payload # {}
             PROVE  hooks = "set" \/ \E i \in Installers \ payload : pc[i] = "hooks"
  BY DEF HooksUnderPayload
<1>1. \A i \in payload : i \in Installers /\ lpc[i] # "none" /\ pc[i] # "hooks"
  BY DEF IInv, TypeOK, LoaderInv, BehindLoader
<1>2. hooks # "stock"
  BY <1>1 DEF IInv, HooksInv
<1> QED  BY <1>1, <1>2 DEF IInv, HooksInv, TypeOK

LEMMA OthersInv ==
    IInv => LoaderComplete /\ NothingLeaked /\ LoaderMapped /\ CreatedIsEarned
<1> SUFFICES ASSUME IInv
             PROVE  LoaderComplete /\ NothingLeaked /\ LoaderMapped /\ CreatedIsEarned
  OBVIOUS
<1>1. LoaderComplete
  BY DEF IInv, LoaderInv, LoaderComplete
<1>2. NothingLeaked
  BY DEF IInv, MemoryInv, NothingLeaked, BeforeLoader, BehindLoader, InThread
<1>3. LoaderMapped
  BY DEF IInv, LoaderInv, MemoryInv, LoaderMapped, Runs
<1>4. CreatedIsEarned
  BY DEF IInv, ResultInv, CreatedIsEarned
<1> QED  BY <1>1, <1>2, <1>3, <1>4

THEOREM InvCorrect == Spec => []IInv
<1>1. IInv /\ [Next]_vars => IInv'
  <2>1. ASSUME IInv, NEW i \in Installers, Step(i) PROVE IInv'
    BY <2>1, NextType, NextBaseInv, NextMemoryInv, NextLoaderInv, NextResultInv,
       NextHooksInv DEF IInv
  <2> QED  BY <2>1, StutterInv DEF Next, Step
<1> QED  BY <1>1, InitInv, PTL DEF Spec

\* However often the file is sent and whatever fails, one payload thread runs.
THEOREM OnePayloadCorrect == Spec => []OnePayload
BY InvCorrect, OnePayloadInv, PTL

\* The payload never runs without its system calls, but while they are replaced.
THEOREM HooksUnderPayloadCorrect == Spec => []HooksUnderPayload
BY InvCorrect, HooksUnderPayloadInv, PTL

\* A loader runs complete code, with a payload to start.
THEOREM LoaderCompleteCorrect == Spec => []LoaderComplete
BY InvCorrect, OthersInv, PTL

\* Every way out of proc_create_thread gives back what it allocated.
THEOREM NothingLeakedCorrect == Spec => []NothingLeaked
BY InvCorrect, OthersInv, PTL

\* The installer frees the loader's page and stack after the loader is done with
\* them, or after a read of ldrdone that failed.
THEOREM LoaderMappedCorrect == Spec => []LoaderMapped
BY InvCorrect, OthersInv, PTL

\* The success line is earned.
THEOREM CreatedIsEarnedCorrect == Spec => []CreatedIsEarned
BY InvCorrect, OthersInv, PTL
=============================================================================
