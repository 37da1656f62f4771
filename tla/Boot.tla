-------------------------------- MODULE Boot --------------------------------
(***************************************************************************)
(* From webrte.bin to a running payload: installer/source/installer.c      *)
(* (runinstaller, load_kdebugger, load_debugger), installer/source/proc.c  *)
(* (proc_create_thread), kdebugger/source/hooks.c (install_hooks) and the  *)
(* loader both copies of rpcasm.h carry.                                   *)
(*                                                                         *)
(* Each time the file is sent an installer runs in the kernel.  It patches *)
(* the kernel, installs the six system calls, maps the payload's fixed     *)
(* address in SceShellCore, and starts a loader thread there on a page and *)
(* a stack of its own; the loader creates the payload's thread, sets       *)
(* ldrdone and exits, and the installer, which has been reading ldrdone,   *)
(* frees the page and the stack.  Each access to the process may fail.     *)
(***************************************************************************)
EXTENDS Naturals, FiniteSets, Firmware

CONSTANTS
    Installers,   \* one for each time the file is sent
    Console       \* the firmware the console runs

\* The kdebugger could not run on a firmware patch_kernel leaves as it is.
ASSUME ConsoleIsPatched == Needed \subseteq PatchesOf(Console)

VARIABLES
    pc,          \* where each installer is
    said,        \* the last stage it printed
    r,           \* the return value of proc_create_thread
    hooks,       \* the system calls: "stock", "clearing" or "set"
    shell,       \* SceShellCore: "up", or "crashed" by a fault of a thread
    base,        \* the installer that mapped PAYLOAD_BASE, in a set
    image,       \* the installers that wrote the payload there
    pages,       \* the installers whose loader page is mapped
    stacks,      \* the installers whose loader stack is mapped
    writes,      \* the writes made to each loader page: its code, then fields
    lpc,         \* where each loader thread is
    ldrdone,     \* the flag in each loader page
    payload,     \* the installers whose loader created a payload thread
    blind        \* history: installers whose read of ldrdone failed

instVars == <<pc, said, r>>
loaderVars == <<lpc, ldrdone, payload, shell>>
memVars == <<base, image, pages, stacks, writes>>
vars == <<instVars, hooks, loaderVars, memVars, blind>>

\* The loader's code and five header fields: stubentry, scePthreadAttrInit,
\* scePthreadAttrSetstacksize, scePthreadCreate, thr_initial.
AllWrites == 6

TypeOK ==
    /\ pc \in [Installers -> {"new", "patch", "kdebugger", "hooks", "find", "insert",
                              "payload", "page", "stack", "code", "vmmap", "fields",
                              "create", "wait", "freepage", "freestack", "returned"}]
    /\ said \in [Installers -> {"", "patching", "kdebugger", "webrte", "failed", "created"}]
    /\ r \in [Installers -> 0..1]
    /\ hooks \in {"stock", "clearing", "set"}
    /\ shell \in {"up", "crashed"}
    /\ base \subseteq Installers /\ image \subseteq Installers
    /\ pages \subseteq Installers /\ stacks \subseteq Installers
    /\ writes \in [Installers -> 0..AllWrites]
    /\ lpc \in [Installers -> {"none", "attr", "spawn", "flag", "exit", "gone"}]
    /\ ldrdone \in [Installers -> BOOLEAN]
    /\ payload \subseteq Installers /\ blind \subseteq Installers

Init ==
    /\ pc = [i \in Installers |-> "new"]
    /\ said = [i \in Installers |-> ""]
    /\ r = [i \in Installers |-> 0]
    /\ hooks = "stock" /\ shell = "up"
    /\ base = {} /\ image = {} /\ pages = {} /\ stacks = {}
    /\ writes = [i \in Installers |-> 0]
    /\ lpc = [i \in Installers |-> "none"]
    /\ ldrdone = [i \in Installers |-> FALSE]
    /\ payload = {} /\ blind = {}

Goto(i, l) == pc' = [pc EXCEPT ![i] = l]
Says(i, w) == said' = [said EXCEPT ![i] = w]

-----------------------------------------------------------------------------
\* runinstaller and load_kdebugger.

Start(i) ==
    /\ pc[i] = "new"
    /\ Goto(i, "patch") /\ Says(i, "patching")
    /\ UNCHANGED <<r, hooks, loaderVars, memVars, blind>>

PatchKernel(i) ==
    /\ pc[i] = "patch"
    /\ Goto(i, "kdebugger") /\ Says(i, "kdebugger")
    /\ UNCHANGED <<r, hooks, loaderVars, memVars, blind>>

\* Mutant of LoadKdebuggerFails: runinstaller goes on.
LoadKdebuggerFailsIgnored(i) ==
    /\ pc[i] = "kdebugger"
    /\ Goto(i, "find") /\ Says(i, "webrte")
    /\ UNCHANGED <<r, hooks, loaderVars, memVars, blind>>

\* The kdebugger's file does not parse, or no memory for it: each prints why.
LoadKdebuggerFails(i) ==
    /\ pc[i] = "kdebugger"
    /\ Goto(i, "returned") /\ Says(i, "failed")
    /\ UNCHANGED <<r, hooks, loaderVars, memVars, blind>>

\* install_syscall clears an entry of the table before it fills it.
LoadKdebugger(i) ==
    /\ pc[i] = "kdebugger"
    /\ hooks' = "clearing"
    /\ Goto(i, "hooks")
    /\ UNCHANGED <<said, r, loaderVars, memVars, blind>>

InstallHooks(i) ==
    /\ pc[i] = "hooks"
    /\ hooks' = "set"
    /\ Goto(i, "find") /\ Says(i, "webrte")
    /\ UNCHANGED <<r, loaderVars, memVars, blind>>

-----------------------------------------------------------------------------
\* load_debugger.

LoadDebuggerFails(i) ==
    /\ Goto(i, "returned") /\ Says(i, "failed")
    /\ UNCHANGED <<r, hooks, loaderVars, memVars, blind>>

FindShell(i) ==
    /\ pc[i] = "find"
    /\ \/ /\ shell = "up"
          /\ Goto(i, "insert")
          /\ UNCHANGED <<said, r, hooks, loaderVars, memVars, blind>>
       \/ shell = "crashed" /\ LoadDebuggerFails(i)

\* Mutant of InsertBase: the result of vm_map_insert is not looked at.
InsertBaseUnchecked(i) ==
    /\ pc[i] = "insert" /\ shell = "up"
    /\ base' = base \cup {i}
    /\ Goto(i, "payload")
    /\ UNCHANGED <<said, r, hooks, loaderVars, image, pages, stacks, writes, blind>>

\* vm_map_insert under the map's lock: it refuses a range that is mapped.
InsertBase(i) ==
    /\ pc[i] = "insert"
    /\ \/ /\ base = {} /\ shell = "up"
          /\ base' = {i}
          /\ Goto(i, "payload")
          /\ UNCHANGED <<said, r, hooks, loaderVars, image, pages, stacks, writes, blind>>
       \/ LoadDebuggerFails(i)

\* A failure here leaves PAYLOAD_BASE mapped.
WritePayload(i) ==
    /\ pc[i] = "payload"
    /\ \/ /\ shell = "up"
          /\ image' = image \cup {i}
          /\ Goto(i, "page")
          /\ UNCHANGED <<said, r, hooks, loaderVars, base, pages, stacks, writes, blind>>
       \/ LoadDebuggerFails(i)

-----------------------------------------------------------------------------
\* proc_create_thread.

\* goto error, which is also the way out of a success: free the page and the
\* stack that were allocated, return r.
Error(i, v) ==
    /\ r' = [r EXCEPT ![i] = v]
    /\ Goto(i, "freepage")
    /\ UNCHANGED <<said, hooks, loaderVars, memVars>>

AllocatePage(i) ==
    /\ pc[i] = "page"
    /\ \/ /\ shell = "up"
          /\ pages' = pages \cup {i}
          /\ Goto(i, "stack")
          /\ UNCHANGED <<said, r, hooks, loaderVars, base, image, stacks, writes>>
       \/ Error(i, 1)
    /\ UNCHANGED blind

\* Mutant of AllocateStack: a failure returns without the clean-up.
AllocateStackReturns(i) ==
    /\ pc[i] = "stack"
    /\ \/ /\ shell = "up"
          /\ stacks' = stacks \cup {i}
          /\ Goto(i, "code")
          /\ UNCHANGED said
       \/ Goto(i, "returned") /\ Says(i, "failed") /\ UNCHANGED stacks
    /\ UNCHANGED <<r, hooks, loaderVars, base, image, pages, writes, blind>>

AllocateStack(i) ==
    /\ pc[i] = "stack"
    /\ \/ /\ shell = "up"
          /\ stacks' = stacks \cup {i}
          /\ Goto(i, "code")
          /\ UNCHANGED <<said, r, hooks, loaderVars, base, image, pages, writes>>
       \/ Error(i, 1)
    /\ UNCHANGED blind

\* Mutant of WriteLoader: the thread is created when a field could not be
\* written.
WriteLoaderUnchecked(i) ==
    /\ pc[i] \in {"code", "fields"} /\ shell = "up"
    /\ writes' \in {writes, [writes EXCEPT ![i] = @ + 1]}
    /\ Goto(i, CASE pc[i] = "code" -> "vmmap"
                 [] writes'[i] # writes[i] /\ writes'[i] < AllWrites -> "fields"
                 [] OTHER -> "create")
    /\ UNCHANGED <<said, r, hooks, loaderVars, base, image, pages, stacks, blind>>

\* The code, and after the vm map has been searched each field of its header.
WriteLoader(i) ==
    /\ pc[i] \in {"code", "fields"}
    /\ \/ /\ shell = "up"
          /\ writes' = [writes EXCEPT ![i] = @ + 1]
          /\ Goto(i, CASE pc[i] = "code" -> "vmmap"
                       [] writes[i] + 1 = AllWrites -> "create"
                       [] OTHER -> "fields")
          /\ UNCHANGED <<said, r, hooks, loaderVars, base, image, pages, stacks>>
       \/ Error(i, 1)
    /\ UNCHANGED blind

\* SceShellCore's libkernel_sys gives the addresses; without a mapping of it that
\* is readable and executable only, or on a firmware that is not listed, the code
\* leaves with the r of the last success.
FindLibkernel(i) ==
    /\ pc[i] = "vmmap"
    /\ \/ /\ InListed(<<"libkernel_sys.sprx", Console>>)
          /\ Goto(i, "fields")
          /\ UNCHANGED <<said, r, hooks, loaderVars, memVars>>
       \/ Error(i, 0)
    /\ UNCHANGED blind

\* Mutant of CreateThread: nobody waits for the loader.
CreateThreadNoWait(i) ==
    /\ pc[i] = "create" /\ shell = "up"
    /\ lpc' = [lpc EXCEPT ![i] = "attr"]
    /\ Goto(i, "freepage")
    /\ UNCHANGED <<said, r, hooks, ldrdone, payload, shell, memVars, blind>>

CreateThread(i) ==
    /\ pc[i] = "create"
    /\ \/ /\ shell = "up"
          /\ lpc' = [lpc EXCEPT ![i] = "attr"]
          /\ Goto(i, "wait")
          /\ UNCHANGED <<said, r, hooks, ldrdone, payload, shell, memVars>>
       \/ Error(i, 1)
    /\ UNCHANGED blind

\* The loop that reads ldrdone is left when the flag is set, or when a read
\* fails: it must once SceShellCore has crashed, and may at any time.
WaitDone(i) ==
    /\ pc[i] = "wait" /\ shell = "up" /\ ldrdone[i]
    /\ Error(i, 0)
    /\ UNCHANGED blind

\* Mutant of WaitFails: a read of ldrdone that fails counts as done.
WaitFailsDone(i) ==
    /\ pc[i] = "wait"
    /\ Error(i, 0)
    /\ blind' = blind \cup {i}

WaitFails(i) ==
    /\ pc[i] = "wait"
    /\ Error(i, 1)
    /\ blind' = blind \cup {i}

FreePage(i) ==
    /\ pc[i] = "freepage"
    /\ pages' = pages \ {i}
    /\ Goto(i, "freestack")
    /\ UNCHANGED <<said, r, hooks, loaderVars, base, image, stacks, writes, blind>>

\* The stack is freed, and load_debugger and runinstaller print the result.
FreeStack(i) ==
    /\ pc[i] = "freestack"
    /\ stacks' = stacks \ {i}
    /\ Goto(i, "returned")
    /\ Says(i, IF r[i] = 0 THEN "created" ELSE "failed")
    /\ UNCHANGED <<r, hooks, loaderVars, base, image, pages, writes, blind>>

-----------------------------------------------------------------------------
\* The loader thread.

Mapped(i) == i \in pages /\ i \in stacks
Runs(i) == lpc[i] \in {"attr", "spawn", "flag", "exit"} /\ shell = "up"

\* Its thread pointer and the attributes of the thread to be.
LoaderAttr(i) ==
    /\ lpc[i] = "attr" /\ Runs(i) /\ Mapped(i)
    /\ lpc' = [lpc EXCEPT ![i] = "spawn"]
    /\ UNCHANGED <<ldrdone, payload, shell, instVars, hooks, memVars, blind>>

\* scePthreadCreate, whose result the loader does not look at.
LoaderSpawn(i) ==
    /\ lpc[i] = "spawn" /\ Runs(i) /\ Mapped(i)
    /\ lpc' = [lpc EXCEPT ![i] = "flag"]
    /\ payload' \in {payload, payload \cup {i}}
    /\ UNCHANGED <<ldrdone, shell, instVars, hooks, memVars, blind>>

\* Mutant of LoaderSetDone: the flag is not set.
LoaderSetDoneForgotten(i) ==
    /\ lpc[i] = "flag" /\ Runs(i) /\ Mapped(i)
    /\ lpc' = [lpc EXCEPT ![i] = "exit"]
    /\ UNCHANGED <<ldrdone, payload, shell, instVars, hooks, memVars, blind>>

LoaderSetDone(i) ==
    /\ lpc[i] = "flag" /\ Runs(i) /\ Mapped(i)
    /\ lpc' = [lpc EXCEPT ![i] = "exit"]
    /\ ldrdone' = [ldrdone EXCEPT ![i] = TRUE]
    /\ UNCHANGED <<payload, shell, instVars, hooks, memVars, blind>>

\* The instructions up to and including thr_exit are on the page.
LoaderExit(i) ==
    /\ lpc[i] = "exit" /\ Runs(i) /\ Mapped(i)
    /\ lpc' = [lpc EXCEPT ![i] = "gone"]
    /\ UNCHANGED <<ldrdone, payload, shell, instVars, hooks, memVars, blind>>

\* A thread whose page or stack is gone faults, and takes the process along.
LoaderFault(i) ==
    /\ Runs(i) /\ ~ Mapped(i)
    /\ shell' = "crashed"
    /\ payload' = {}
    /\ lpc' = [j \in Installers |-> IF lpc[j] = "none" THEN "none" ELSE "gone"]
    /\ UNCHANGED <<ldrdone, instVars, hooks, memVars, blind>>

-----------------------------------------------------------------------------
Installer(i) ==
    \/ PatchKernel(i) \/ LoadKdebuggerFails(i) \/ LoadKdebugger(i) \/ InstallHooks(i)
    \/ FindShell(i) \/ InsertBase(i) \/ WritePayload(i)
    \/ AllocatePage(i) \/ AllocateStack(i) \/ WriteLoader(i) \/ FindLibkernel(i)
    \/ CreateThread(i) \/ WaitDone(i) \/ FreePage(i) \/ FreeStack(i)

Loader(i) ==
    \/ LoaderAttr(i) \/ LoaderSpawn(i) \/ LoaderSetDone(i) \/ LoaderExit(i)
    \/ LoaderFault(i)

Next == \E i \in Installers : Start(i) \/ Installer(i) \/ WaitFails(i) \/ Loader(i)

Spec == Init /\ [][Next]_vars

\* The kernel runs the installer and schedules the loader's thread; a read of a
\* crashed process fails, nothing says that a read of a live one ever does.
Proceeds(i) == Installer(i) \/ (shell = "crashed" /\ WaitFails(i))

FairSpec ==
    /\ Spec
    /\ \A i \in Installers : WF_vars(Proceeds(i)) /\ WF_vars(Loader(i))

-----------------------------------------------------------------------------
\* Properties.

\* However often the file is sent, one payload thread runs: PAYLOAD_BASE can be
\* mapped once, and only the installer that mapped it gets to start a loader.
OnePayload == Cardinality(payload) <= 1

\* The payload calls the kernel through the six system calls: when it runs they
\* are there, unless the file was sent again and they are being replaced.
HooksUnderPayload ==
    payload # {} => hooks = "set" \/ \E i \in Installers \ payload : pc[i] = "hooks"

\* The loader runs code that is complete, with a payload to start.
LoaderComplete ==
    \A i \in Installers : lpc[i] # "none" => writes[i] = AllWrites /\ i \in image

\* Every way out of proc_create_thread, successful or not, gives back what it
\* allocated in SceShellCore.
NothingLeaked == \A i \in Installers : pc[i] = "returned" => i \notin pages \cup stacks

\* Until it has set ldrdone the loader has its page and its stack, unless its
\* installer could not read the flag.
LoaderMapped ==
    \A i \in Installers : Runs(i) /\ ~ ldrdone[i] => Mapped(i) \/ i \in blind

\* The installer's loop on ldrdone, which has no bound, ends.
InstallerReturns == \A i \in Installers : pc[i] # "new" ~> pc[i] = "returned"

\* installer/source/proc.c, of the loop on ldrdone: "wait until loader is done".
\* Freeing the page after it is safe: only an installer that could not read the
\* flag takes the page from under the loader.
LoaderDone == shell = "crashed" => blind # {}

\* The success line is earned: the payload is in place and its loader is done, or
\* libkernel was not found and nothing was ever started.  Every other failure,
\* a crash of SceShellCore included, is said.
CreatedIsEarned ==
    \A i \in Installers :
        said[i] = "created" => i \in image /\ (ldrdone[i] \/ lpc[i] = "none")
=============================================================================
