------------------------------ MODULE ProcCmd ------------------------------
(***************************************************************************)
(* The commands of sys_proc_cmd on one target process (kdebugger/source/   *)
(* hooks.c and proc.c) with the threads they put into it: memory is        *)
(* allocated, freed and protected, the map is read, the stub is installed, *)
(* a program is loaded from an ELF, and the target is paused and resumed.  *)
(* SYS_PROC_CALL is the protocol of RpcStub, which this module extends:    *)
(* the stub runs once it was installed, for as long as its page is there.  *)
(*                                                                         *)
(* One client asks for one command at a time.  The kernel's steps of a     *)
(* command interleave with the target's own threads, with the loader       *)
(* thread of proc_create_thread and with what the loader starts.  The      *)
(* processes' list, and a target that exits under a command, are AllProc.  *)
(*                                                                         *)
(* Memory is pages of PageSize units.  An entry of the vm map is one page; *)
(* a stack is one page.  Page 0 is never mapped.                           *)
(***************************************************************************)
EXTENDS RpcStub, FiniteSets, Sequences, ElfLoad, Firmware

CONSTANTS
    Hosts,       \* <<library, firmware>>: the libkernel the target maps, and where
    Elfs,        \* the programs SYS_PROC_ELF may be given
    PageSize,    \* units in a page
    Top,         \* the first page behind the target's address space
    Half,        \* the page at address 2^31: half of what %i can tell
    Menus,       \* what a client may ask for, and whether the target maps
    Lengths,     \* the lengths SYS_PROC_ALLOC may be given
    Allocs       \* one for each SYS_PROC_ALLOC that succeeds

ExecPage == 1   \* "executable"
LibPage == 2    \* libkernel's code
Word == 2 * Half

ASSUME TargetSizes ==
    /\ PageSize \in Nat \ {0} /\ Half \in Nat \ {0} /\ Lengths \subseteq Nat
    \* an address that wraps is below libkernel's
    /\ Top \in (LibPage + 1)..(Word + LibPage)
\* What an allocation's pages are called is not what others are.
ASSUME AllocsAreNew ==
    Allocs \cap {"free", "exec", "lib", "own", "stub", "image", "install", "elf"} = {}

VARIABLES
    host, menu,  \* the target's element of Hosts, the client's of Menus
    target,      \* "up", "paused" or "crashed"
    vm,          \* what each page holds: "free" or whose it is
    prot,        \* "rx" or "rwx", for a page that is not free
    op,          \* the step of the command that is being executed
    cmd, res,    \* the INSTALL or ELF that is being executed or was the last
                 \* command, and how it ended
    at,          \* the page where the stub, a loader or a stack is, or 0
    stubAt,      \* the address the client was given by INSTALL, or 0
    lpc,         \* where each loader thread is
    ldrdone,     \* the flag in each loader's page
    started,     \* the threads loaders have created
    whole,       \* all of the image was written
    alloc,       \* of each allocation its address, its length, and what became of it
    num,         \* the count that SYS_PROC_VM_MAP gave
    churn,       \* history: what the target did to its map since the count
    blame        \* history: what may bring the target down; "told" outweighs the rest

Commands == {"install", "elf"}
StackOf(c) == IF c = "install" THEN "install stack" ELSE "elf stack"
Pages == 1..(Top - 1)
Holds == {"free", "exec", "lib", "own", "stub", "image"} \cup Commands \cup Allocs
Steps == {"idle", "stub", "image", "main", "page", "stack", "code", "libkernel", "fields",
          "wait", "freepage", "freestack", "fill"}
Places == {"stub"} \cup Commands \cup {"install stack", "elf stack"}
NoAlloc == [page |-> 0, length |-> 0, state |-> "none"]

target_ == <<host, menu, target, vm, prot>>
loaders == <<lpc, ldrdone, started>>
command == <<op, cmd, res, at, stubAt, whole>>
mapping == <<num, churn>>
cmdVars == <<target_, loaders, command, alloc, mapping, blame>>

TargetTypeOK ==
    /\ host \in Hosts /\ menu \in Menus /\ target \in {"up", "paused", "crashed"}
    /\ vm \in [Pages -> Holds] /\ prot \in [Pages -> {"rx", "rwx"}]
    /\ op \in Steps /\ cmd \in Commands \cup {"none"} /\ res \in {"none", "ok", "failed"}
    /\ at \in [Places -> 0..(Top - 1)] /\ stubAt \in 0..(Top - 1)
    /\ lpc \in [Commands -> {"none", "spawn", "flag", "exit", "gone"}]
    /\ ldrdone \in [Commands -> BOOLEAN]
    /\ started \subseteq Commands /\ whole \in BOOLEAN
    /\ DOMAIN alloc = Allocs
    /\ num \in 0..Top /\ churn \subseteq {"mapped", "unmapped"}
    /\ blame \in {"none", "told", "stub", "protected", "image", "blind", "tail"}

ProcInit ==
    /\ Init
    /\ host \in Hosts /\ menu \in Menus /\ target = "up"
    /\ vm = [p \in Pages |-> CASE p = ExecPage -> "exec" [] p = LibPage -> "lib" [] OTHER -> "free"]
    /\ prot = [p \in Pages |-> IF p \in {ExecPage, LibPage} THEN "rx" ELSE "rwx"]
    /\ op = "idle" /\ cmd = "none" /\ res = "none"
    /\ at = [w \in Places |-> 0] /\ stubAt = 0
    /\ lpc = [c \in Commands |-> "none"] /\ ldrdone = [c \in Commands |-> FALSE]
    /\ started = {} /\ whole = TRUE
    /\ alloc = [a \in Allocs |-> NoAlloc]
    /\ num = 0 /\ churn = {} /\ blame = "none"

-----------------------------------------------------------------------------
\* Memory.

AtPlace(w) == IF at[w] = 0 THEN "free" ELSE vm[at[w]]

Blames(x) == IF blame = "none" \/ x = "told" THEN x ELSE blame

PagesOf(len) == (len + PageSize - 1) \div PageSize
\* How the stub, the loader and an image are padded: a whole page more if they fit.
Padded(len) == len + (PageSize - (len % PageSize))

Span(a, k) == a..(a + k - 1)
Gaps(k) == {a \in Pages : a + k <= Top /\ \A p \in Span(a, k) : vm[p] = "free"}
FirstGap(k) == CHOOSE a \in Gaps(k) : \A b \in Gaps(k) : a <= b

\* proc_allocate: the first gap, and an insertion that refuses an empty range.
Placed(len, whose) ==
    /\ PagesOf(len) > 0 /\ Gaps(PagesOf(len)) # {}
    /\ vm' = [p \in Pages |->
                IF p \in Span(FirstGap(PagesOf(len)), PagesOf(len)) THEN whose ELSE vm[p]]
    /\ prot' = [p \in Pages |-> IF vm'[p] # vm[p] THEN "rwx" ELSE prot[p]]

\* proc_deallocate: vm_map_delete takes whatever is mapped there.
Deleted(a, len) ==
    /\ vm' = [p \in Pages |-> IF p \in Span(a, PagesOf(len)) THEN "free" ELSE vm[p]]
    /\ prot' = [p \in Pages |-> IF vm'[p] = "free" THEN "rwx" ELSE prot[p]]

\* A client is told an address by handle_alloc, with %i.
Told(a) == IF a % Word < Half THEN a % Word ELSE (a % Word) - Word

\* The client asks for a command, and has forgotten the result of the last.
Idle == pc = "idle" /\ op = "idle" /\ target # "crashed"
Asks(x, c) == Idle /\ x \in menu /\ cmd' = c /\ res' = "none"

\* /alloc.  A refusal changes nothing.
Alloc(a, len) ==
    /\ Asks("alloc", "none") /\ alloc[a].state = "none"
    /\ Placed(len, a)
    /\ alloc' = [alloc EXCEPT ![a] =
                    [page |-> FirstGap(PagesOf(len)), length |-> len, state |-> "held"]]
    /\ UNCHANGED <<vars, host, menu, target, loaders, op, at, stubAt, whole, mapping, blame>>

\* /free of an allocation, at the address the client was told.
Free(a) ==
    /\ Asks("free", "none") /\ alloc[a].state = "held"
    /\ Deleted(Told(alloc[a].page), alloc[a].length)
    /\ alloc' = [alloc EXCEPT ![a].state = "freed"]
    /\ blame' = IF \E p \in Pages : vm[p] # vm'[p] /\ vm[p] # a
                THEN Blames("told") ELSE blame
    /\ UNCHANGED <<vars, host, menu, target, loaders, op, at, stubAt, whole, mapping>>

\* SYS_PROC_FREE of the stub; the client makes no more calls.
FreeStub ==
    /\ Asks("freestub", "none") /\ stubAt # 0
    /\ Deleted(stubAt, 1)
    /\ stubAt' = 0
    /\ blame' = Blames("stub")
    /\ UNCHANGED <<vars, host, menu, target, loaders, op, at, whole, alloc, mapping>>

\* What a page may do after the first of the two calls of proc_mprotect: what
\* it could and still can.
Meet(p, q) == IF p = "rwx" /\ q = "rwx" THEN "rwx" ELSE "rx"

\* proc_mprotect: the maximum first, which takes from the current protection,
\* then the current protection; the second call may be refused.
Protected(p, q) == \E r \in {q, Meet(prot[p], q)} : prot' = [prot EXCEPT ![p] = r]

Protect(p, q) ==
    /\ Asks("protect", "none") /\ p \in {LibPage, stubAt} \ {0}
    /\ Protected(p, q)
    /\ blame' = IF p = stubAt THEN Blames("protected") ELSE blame
    /\ UNCHANGED <<vars, host, menu, target, vm, loaders, op, at, stubAt, whole, alloc, mapping>>

-----------------------------------------------------------------------------
\* The target's own threads; /pause and /resume.

Pause ==
    /\ Asks("pause", "none") /\ target = "up" /\ target' = "paused"
    /\ UNCHANGED <<vars, host, menu, vm, prot, loaders, op, at, stubAt, whole, alloc, mapping,
                   blame>>

Resume ==
    /\ Asks("pause", "none") /\ target = "paused" /\ target' = "up"
    /\ UNCHANGED <<vars, host, menu, vm, prot, loaders, op, at, stubAt, whole, alloc, mapping,
                   blame>>

Churns(x) == churn' = IF op = "fill" THEN churn \cup {x} ELSE churn

TargetMaps ==
    /\ target = "up" /\ "own" \in menu /\ \A p \in Pages : vm[p] # "own"
    /\ Placed(1, "own")
    /\ Churns("mapped")
    /\ UNCHANGED <<vars, host, menu, target, loaders, command, alloc, num, blame>>

TargetUnmaps ==
    /\ target = "up"
    /\ \E p \in Pages : vm[p] = "own" /\ Deleted(p, 1)
    /\ Churns("unmapped")
    /\ UNCHANGED <<vars, host, menu, target, loaders, command, alloc, num, blame>>

\* A thread that faults takes the target down.
Crash ==
    /\ target' = "crashed"
    /\ lpc' = [c \in Commands |-> IF lpc[c] = "none" THEN "none" ELSE "gone"]
    /\ UNCHANGED <<vars, host, menu, vm, prot, ldrdone, started, command, alloc, mapping>>

TargetFaults ==
    /\ target = "up" /\ (vm[ExecPage] # "exec" \/ vm[LibPage] # "lib")
    /\ Crash /\ UNCHANGED blame

-----------------------------------------------------------------------------
\* proc_create_thread for command cmd: a loader thread, on a page and a stack of
\* its own, creates a thread on the stub or on the image.

\* Libkernel is looked for among the entries that are readable and executable and
\* nothing else.
LibFound == vm[LibPage] = "lib" /\ prot[LibPage] = "rx" /\ Listed(host)

Stack == StackOf(cmd)

Goto(l) == op' = l /\ UNCHANGED <<cmd, res>>
\* goto error, which is also the way out of a success.
Error(r) == op' = "freepage" /\ res' = r /\ UNCHANGED cmd
\* A command that fails outside proc_create_thread returns 1 as it is.
Fail == op' = "idle" /\ res' = "failed" /\ UNCHANGED cmd

\* Allocate memory for whose at the place w and go on at l, or run the failure F.
Allocate(len, whose, w, l) ==
    /\ target # "crashed"
    /\ Placed(len, whose)
    /\ at' = [at EXCEPT ![w] = FirstGap(PagesOf(len))]
    /\ Goto(l)
Keeps == UNCHANGED <<vm, prot, at>>

AllocatePage ==
    /\ op = "page"
    /\ Allocate(1, cmd, cmd, "stack") \/ (Error("failed") /\ Keeps)
    /\ UNCHANGED <<vars, host, menu, target, loaders, stubAt, whole, alloc, mapping, blame>>

\* Mutant of AllocateStack: a failure returns without the clean-up.
AllocateStackReturns ==
    /\ op = "stack"
    /\ Allocate(1, cmd, Stack, "code") \/ (Fail /\ Keeps)
    /\ UNCHANGED <<vars, host, menu, target, loaders, stubAt, whole, alloc, mapping, blame>>

AllocateStack ==
    /\ op = "stack"
    /\ Allocate(1, cmd, Stack, "code") \/ (Error("failed") /\ Keeps)
    /\ UNCHANGED <<vars, host, menu, target, loaders, stubAt, whole, alloc, mapping, blame>>

WriteLoader ==
    /\ op = "code"
    /\ (target # "crashed" /\ Goto("libkernel")) \/ Error("failed")
    /\ UNCHANGED <<vars, target_, loaders, at, stubAt, whole, alloc, mapping, blame>>

\* What is not found leaves with the 0 of the last success.
FindLibkernel ==
    /\ op = "libkernel"
    /\ IF LibFound THEN Goto("fields") ELSE Error("ok")
    /\ UNCHANGED <<vars, target_, loaders, at, stubAt, whole, alloc, mapping, blame>>

\* Mutant of StartLoader: nobody waits for the loader.
StartLoaderNoWait ==
    /\ op = "fields"
    /\ \/ /\ target # "crashed"
          /\ lpc' = [lpc EXCEPT ![cmd] = "spawn"]
          /\ Error("ok")
       \/ Error("failed") /\ UNCHANGED lpc
    /\ UNCHANGED <<vars, target_, ldrdone, started, at, stubAt, whole, alloc, mapping, blame>>

\* The five fields are written and the loader thread is created.
StartLoader ==
    /\ op = "fields"
    /\ \/ /\ target # "crashed"
          /\ lpc' = [lpc EXCEPT ![cmd] = "spawn"]
          /\ Goto("wait")
       \/ Error("failed") /\ UNCHANGED lpc
    /\ UNCHANGED <<vars, target_, ldrdone, started, at, stubAt, whole, alloc, mapping, blame>>

WaitDone ==
    /\ op = "wait" /\ target # "crashed" /\ ldrdone[cmd]
    /\ Error("ok")
    /\ UNCHANGED <<vars, target_, loaders, at, stubAt, whole, alloc, mapping, blame>>

WaitFails ==
    /\ op = "wait"
    /\ Error("failed")
    /\ blame' = Blames("blind")
    /\ UNCHANGED <<vars, target_, loaders, at, stubAt, whole, alloc, mapping>>

\* What has not been allocated is not freed: page 0 is nobody's.
FreePage ==
    /\ op = "freepage"
    /\ Deleted(at[cmd], 1)
    /\ at' = [at EXCEPT ![cmd] = 0]
    /\ Goto("freestack")
    /\ UNCHANGED <<vars, host, menu, target, loaders, stubAt, whole, alloc, mapping, blame>>

\* The stack is freed, and INSTALL or ELF returns what proc_create_thread did; an
\* INSTALL that succeeds gives the client the stub's address.
FreeStack ==
    /\ op = "freestack"
    /\ Deleted(at[Stack], 1)
    /\ at' = [at EXCEPT ![Stack] = 0]
    /\ Goto("idle")
    /\ stubAt' = IF cmd = "install" /\ res = "ok" THEN at["stub"] ELSE stubAt
    /\ UNCHANGED <<vars, host, menu, target, loaders, whole, alloc, mapping, blame>>

-----------------------------------------------------------------------------
\* The loader thread of command c, which stays until its thread has exited.

Mapped(c) == AtPlace(c) = c /\ AtPlace(StackOf(c)) = c
Loads(c) == lpc[c] \in {"spawn", "flag", "exit"} /\ target = "up"

\* scePthreadCreate, whose result the loader does not look at.
LoaderSpawn(c) ==
    /\ Loads(c) /\ lpc[c] = "spawn" /\ Mapped(c)
    /\ lpc' = [lpc EXCEPT ![c] = "flag"]
    /\ started' \in {started, started \cup {c}}
    /\ UNCHANGED <<vars, target_, ldrdone, command, alloc, mapping, blame>>

LoaderSetDone(c) ==
    /\ Loads(c) /\ lpc[c] = "flag" /\ Mapped(c)
    /\ lpc' = [lpc EXCEPT ![c] = "exit"]
    /\ ldrdone' = [ldrdone EXCEPT ![c] = TRUE]
    /\ UNCHANGED <<vars, target_, started, command, alloc, mapping, blame>>

LoaderExit(c) ==
    /\ Loads(c) /\ lpc[c] = "exit" /\ Mapped(c)
    /\ lpc' = [lpc EXCEPT ![c] = "gone"]
    /\ UNCHANGED <<vars, target_, ldrdone, started, command, alloc, mapping, blame>>

\* The page is freed once the flag is set, and the loader has yet to call thr_exit.
LoaderFaults(c) ==
    /\ Loads(c) /\ ~ Mapped(c)
    /\ Crash
    /\ blame' = IF ldrdone[c] THEN Blames("tail") ELSE blame

-----------------------------------------------------------------------------
\* SYS_PROC_INSTALL and SYS_PROC_ELF.  One of each gets as far as a loader; one
\* whose first allocation is refused returns 1 and changes nothing.

Install ==
    /\ Asks("install", "install") /\ lpc["install"] = "none" /\ stubAt = 0
    /\ Placed(1, "stub")
    /\ at' = [at EXCEPT !["stub"] = FirstGap(1)]
    /\ op' = "stub"
    /\ UNCHANGED <<vars, host, menu, target, loaders, stubAt, whole, alloc, mapping, blame>>

\* A failure here leaves the stub's page mapped.
WriteStub ==
    /\ op = "stub"
    /\ (target # "crashed" /\ Goto("page")) \/ Fail
    /\ UNCHANGED <<vars, target_, loaders, at, stubAt, whole, alloc, mapping, blame>>

\* proc_load_elf: the magic is all that is checked.
Elf(e) ==
    /\ Asks("elf", "elf") /\ lpc["elf"] = "none"
    /\ e.magic
    /\ Placed(Padded(MappedSize(e)), "image")
    /\ op' = "image"
    /\ UNCHANGED <<vars, host, menu, target, loaders, at, stubAt, whole, alloc, mapping, blame>>

\* proc_map_elf and proc_relocate_elf look at the result of none of their writes.
MapElf ==
    /\ op = "image"
    /\ Goto("main")
    /\ \/ target # "crashed" /\ whole' = TRUE /\ UNCHANGED blame
       \/ whole' = FALSE /\ blame' = Blames("image")
    /\ UNCHANGED <<vars, target_, loaders, at, stubAt, alloc, mapping>>

\* "executable" is made writable, if it can be and is not yet.
ProtectMain ==
    /\ op = "main"
    /\ Goto("page")
    /\ \/ target # "crashed" /\ prot[ExecPage] = "rx" /\ Protected(ExecPage, "rwx")
       \/ UNCHANGED prot
    /\ UNCHANGED <<vars, host, menu, target, vm, loaders, at, stubAt, whole, alloc, mapping, blame>>

\* A program with cells missing may do anything; here it faults.
ImageFaults ==
    /\ "elf" \in started /\ ~ whole /\ target = "up"
    /\ Crash /\ UNCHANGED blame

-----------------------------------------------------------------------------
\* SYS_PROC_CALL and the stub, the protocol of RpcStub on the stub's page.

StubMapped == target # "crashed" /\ AtPlace("stub") = "stub"
StubWritable == StubMapped /\ prot[at["stub"]] = "rwx"

CallStub ==
    /\ Asks("call", "none") /\ stubAt # 0
    /\ Call
    /\ UNCHANGED <<target_, loaders, op, at, stubAt, whole, alloc, mapping, blame>>

CallerStep ==
    /\ \/ StubWritable /\ (WriteRegs \/ WriteGo \/ ClearDone)
       \/ StubMapped /\ (Poll \/ ReadRax)
    /\ UNCHANGED cmdVars

CallerFails == AccessFails /\ UNCHANGED cmdVars

StubRuns == "install" \in started /\ target = "up"

StubStep ==
    /\ StubRuns
    /\ \/ StubMapped /\ (LoadRegs \/ RunCall)
       \/ StubWritable /\ (StoreRax \/ ClearGo \/ SetDone)
    /\ UNCHANGED cmdVars

StubFaults ==
    /\ StubRuns
    /\ ~ StubMapped \/ (~ StubWritable /\ spc \in {"store", "clear", "signal"})
    /\ Crash /\ UNCHANGED blame

-----------------------------------------------------------------------------
\* SYS_PROC_VM_MAP, which handle_mapping calls twice: once for the count, and
\* once for that many entries.

MappedPages == {p \in Pages : vm[p] # "free"}

MapCount ==
    /\ Asks("map", "none")
    /\ num' = Cardinality(MappedPages) /\ churn' = {}
    /\ op' = "fill"
    /\ UNCHANGED <<vars, target_, loaders, at, stubAt, whole, alloc, blame>>

\* External: the entries form a ring through the map's header, listed as page 0, and
\* the lookup of address 0 finds nothing and so returns the header.
Ring(i) ==
    LET k == i % (Cardinality(MappedPages) + 1)
    IN IF k = 0 THEN 0
       ELSE CHOOSE p \in MappedPages : Cardinality({q \in MappedPages : q <= p}) = k

\* Mutant of Fill: an entry less.
FillOneLess == [i \in 1..(num - 1) |-> Ring(i - 1)]

Fill == [i \in 1..num |-> Ring(i - 1)]

MapFill ==
    /\ op = "fill"
    /\ Goto("idle")
    /\ num' = 0 /\ churn' = {}
    /\ UNCHANGED <<vars, target_, loaders, at, stubAt, whole, alloc, blame>>

-----------------------------------------------------------------------------
Client ==
    \/ \E a \in Allocs : Free(a) \/ \E len \in Lengths : Alloc(a, len)
    \/ \E p \in Pages, q \in {"rx", "rwx"} : Protect(p, q)
    \/ \E e \in Elfs : Elf(e)
    \/ FreeStub \/ Pause \/ Resume \/ Install \/ CallStub \/ MapCount

Kernel ==
    \/ WriteStub \/ MapElf \/ ProtectMain
    \/ AllocatePage \/ AllocateStack \/ WriteLoader \/ FindLibkernel \/ StartLoader
    \/ WaitDone \/ FreePage \/ FreeStack \/ MapFill

Loader(c) == LoaderSpawn(c) \/ LoaderSetDone(c) \/ LoaderExit(c) \/ LoaderFaults(c)
Target == TargetMaps \/ TargetUnmaps \/ TargetFaults \/ ImageFaults

ProcNext ==
    \/ Client \/ Kernel \/ WaitFails \/ CallerStep \/ CallerFails
    \/ StubStep \/ StubFaults \/ Target
    \/ \E c \in Commands : Loader(c)

procVars == <<vars, cmdVars>>
ProcSpec == ProcInit /\ [][ProcNext]_procVars

\* The kernel goes on with a command, and an access to a crashed process or to a
\* page that is not there fails; the threads of a target that is up are scheduled.
Proceeds ==
    \/ Kernel \/ CallerStep
    \/ target = "crashed" /\ WaitFails
    \/ ~ StubWritable /\ CallerFails

ProcFairSpec ==
    /\ ProcSpec
    /\ WF_procVars(Proceeds) /\ WF_procVars(StubStep)
    /\ \A c \in Commands : WF_procVars(Loader(c))

-----------------------------------------------------------------------------
\* Properties.

\* The client's allocations are in the target, each whole and for itself, until
\* they are freed, and freeing one takes nothing else -- while all lie below 2^31.
\* When no command is executed nothing of a loader is left, whatever has failed.
MemoryExact ==
    LET mine(a) == {p \in Pages : vm[p] = a}
        given(a) == Span(alloc[a].page, PagesOf(alloc[a].length))
        toldRight == \A a \in Allocs : alloc[a].page < Half
    IN /\ op = "idle" => \A c \in Commands : mine(c) = {}
       /\ \A a \in Allocs :
            /\ alloc[a].state = "held" => mine(a) = given(a) \/ blame = "told"
            /\ alloc[a].state = "freed" => mine(a) = {} \/ alloc[a].page >= Half
       /\ blame = "told" => ~ toldRight

\* An INSTALL or an ELF that returns 0 has had its loader run to the end -- unless
\* libkernel was not found, which proc_create_thread reports as a success too.
SuccessEarned == op = "idle" /\ res = "ok" /\ LibFound => ldrdone[cmd]

\* The commands do not bring the target down: it takes a client that frees or
\* protects what it has no business with, a write of an image or a read of ldrdone
\* that failed unnoticed, or the loader's last instructions, which are freed when
\* it has set ldrdone.
TargetSurvives == target = "crashed" => blame # "none"

\* /mapping lists what is mapped when it is filled: the page that is highest is
\* missed, a page is listed twice only if the target has unmapped something since
\* the count, and one below is missed only if it has mapped something.
MapFaithful ==
    op = "fill" => \A m \in {Fill} :
        LET listed == {m[i] : i \in DOMAIN m} \ {0}
            highest == {p \in MappedPages : \A q \in MappedPages : q <= p}
        IN /\ churn = {} => listed = MappedPages \ highest
           /\ "unmapped" \notin churn =>
                  \A i, j \in DOMAIN m : m[i] = m[j] => i = j
           /\ "mapped" \notin churn => MappedPages \ highest \subseteq listed

\* A command ends, unless the target is paused, and so can run neither loader nor
\* stub, or the call is of a stub that no thread runs.
CommandEnds ==
    pc # "idle" \/ op # "idle" ~>
        \/ pc = "idle" /\ op = "idle"
        \/ target = "paused"
        \/ pc = "poll" /\ "install" \notin started
=============================================================================
