--------------------------- MODULE ProcCmdProofs ---------------------------
(***************************************************************************)
(* The commands on a process, for any sizes, programs, menus, allocations  *)
(* and number of calls.                                                    *)
(*                                                                         *)
(* First the call protocol of RpcStub: its invariants, and that it         *)
(* implements RpcCall.  Then that ProcCmd takes the steps of RpcStub:      *)
(* whatever the other commands do to the target, a call through the stub   *)
(* keeps what was proved of the protocol.  Then the commands: what is left *)
(* of memory, what a success means, what the target survives and what      *)
(* /mapping lists, all from one inductive invariant.                       *)
(***************************************************************************)
EXTENDS ProcCmd, FiniteSetTheorems, WellFoundedInduction, TLAPS

-----------------------------------------------------------------------------
\* The call protocol of RpcStub.

LEMMA InitType == Init => TypeOK
<1>1. Init => dirty \in BOOLEAN
  BY DEF Init
<1>2. Init => runs \in [Calls -> Nat]
  BY MaxCallsIsNat DEF Init
<1> QED  BY <1>1, <1>2, MaxCallsIsNat DEF Init, TypeOK

LEMMA NextType == TypeOK /\ [Next]_vars => TypeOK'
<1> SUFFICES ASSUME TypeOK, [Next]_vars PROVE TypeOK'
  OBVIOUS
<1> USE MaxCallsIsNat DEF TypeOK, Calls
<1>1. CASE Call
  BY <1>1 DEF Call, header, stubVars
<1>2. CASE Caller
  BY <1>2 DEF Caller, WriteRegs, WriteGo, Poll, ClearDone, ReadRax, header, stubVars
<1>6. CASE AccessFails
  <2>1. dirty' \in BOOLEAN
    BY <1>6, Zenon DEF AccessFails
  <2> QED  BY <1>6, <2>1 DEF AccessFails, header, stubVars
<1>3. CASE LoadRegs \/ StoreRax \/ ClearGo \/ SetDone
  BY <1>3 DEF LoadRegs, StoreRax, ClearGo, SetDone, header, callerVars
<1>4. CASE RunCall
  BY <1>4 DEF RunCall, header, callerVars
<1>5. CASE UNCHANGED vars
  BY <1>5 DEF vars, header, stubVars, callerVars
<1> QED  BY <1>1, <1>2, <1>3, <1>4, <1>5, <1>6 DEF Next, Stub

\* The header, the caller and the stub are of their type.
THEOREM TypeCorrect == Spec => []TypeOK
BY InitType, NextType, PTL DEF Spec

LEMMA InitInv == Init => HandoverInv
BY DEF Init, HandoverInv, Quiet, Calls

\* Each access of the caller, and each step of the stub, hands the header over
\* in the order the invariant describes.
LEMMA NextInv == TypeOK /\ HandoverInv /\ [Next]_vars => HandoverInv'
<1> SUFFICES ASSUME TypeOK, HandoverInv, [Next]_vars PROVE HandoverInv'
  OBVIOUS
<1> USE MaxCallsIsNat DEF TypeOK, Calls, HandoverInv, Quiet, Fresh, Over, Running
<1>1. CASE Call
  BY <1>1 DEF Call, header, stubVars
<1>2. CASE WriteRegs
  BY <1>2 DEF WriteRegs, stubVars
<1>3. CASE WriteGo
  BY <1>3 DEF WriteGo, stubVars
<1>4. CASE Poll
  BY <1>4 DEF Poll, header, stubVars
<1>5. CASE ClearDone
  BY <1>5 DEF ClearDone, stubVars
<1>6. CASE ReadRax
  BY <1>6 DEF ReadRax, header, stubVars
<1>7. CASE AccessFails
  BY <1>7 DEF AccessFails, header, stubVars
<1>8. CASE LoadRegs
  BY <1>8 DEF LoadRegs, header, callerVars
<1>9. CASE RunCall
  BY <1>9 DEF RunCall, header, callerVars
<1>10. CASE StoreRax
  BY <1>10 DEF StoreRax, callerVars
<1>11. CASE ClearGo
  BY <1>11 DEF ClearGo, callerVars
<1>12. CASE SetDone
  BY <1>12 DEF SetDone, callerVars
<1>13. CASE UNCHANGED vars
  BY <1>13 DEF vars, header, stubVars, callerVars
<1> QED  BY <1>1, <1>2, <1>3, <1>4, <1>5, <1>6, <1>7, <1>8, <1>9, <1>10, <1>11, <1>12,
            <1>13 DEF Next, Caller, Stub

\* The header is handed over in order: who may touch it, and what it then holds.
THEOREM InvCorrect == Spec => []HandoverInv
BY TypeCorrect, InitInv, NextInv, PTL DEF Spec

\* A returned result is the call's own, and the call ran exactly once.
THEOREM OwnResultCorrect == Spec => []OwnResult
<1>1. HandoverInv => OwnResult
  BY DEF HandoverInv, OwnResult, Over
<1> QED  BY <1>1, InvCorrect, PTL

\* No call runs twice.
THEOREM RunsAtMostOnceCorrect == Spec => []RunsAtMostOnce
<1>1. HandoverInv => RunsAtMostOnce
  BY DEF HandoverInv, RunsAtMostOnce
<1> QED  BY <1>1, InvCorrect, PTL

-----------------------------------------------------------------------------
LEMMA InitRefines == Init => RC!Init
BY DEF Init, RC!Init, Phase

\* Every step of caller or stub is a step of the promise, or none.
LEMMA NextRefines ==
    TypeOK /\ HandoverInv /\ [Next]_vars => [RC!Next]_(RC!vars)
<1> SUFFICES ASSUME TypeOK, HandoverInv, [Next]_vars PROVE [RC!Next]_(RC!vars)
  OBVIOUS
<1> USE MaxCallsIsNat DEF TypeOK, Calls, HandoverInv, Quiet, Fresh, Over, Running, Phase,
        RC!Next, RC!vars
<1>1. CASE Call
  BY <1>1 DEF Call, header, stubVars, RC!Call, RC!Broken
<1>2. CASE WriteRegs \/ WriteGo \/ Poll \/ ClearDone
  BY <1>2 DEF WriteRegs, WriteGo, Poll, ClearDone, header, stubVars
<1>3. CASE ReadRax
  BY <1>3 DEF ReadRax, header, stubVars, RC!Return, RC!Broken
<1>4. CASE AccessFails
  <2>1. pc # "idle" /\ pc' = "idle" /\ ret' = 0 /\ n' = n /\ runs' = runs
    BY <1>4 DEF AccessFails, stubVars
  <2>2. CASE dirty
    <3>1. dirty'
      BY <1>4, <2>2 DEF AccessFails
    <3> QED  BY <2>1, <2>2, <3>1 DEF RC!Broken
  <2>3. CASE ~ dirty /\ dirty'
    BY <2>1, <2>3 DEF RC!Break
  <2>4. CASE ~ dirty /\ ~ dirty'
    BY <2>1, <2>4 DEF RC!Fail
  <2> QED  BY <2>2, <2>3, <2>4
<1>5. CASE LoadRegs \/ StoreRax \/ ClearGo \/ SetDone
  <2>1. UNCHANGED <<n, ret, dirty, pc, runs>>
    BY <1>5 DEF LoadRegs, StoreRax, ClearGo, SetDone, header, callerVars
  <2> QED  BY <2>1
<1>6. CASE RunCall
  BY <1>6 DEF RunCall, header, callerVars, RC!Execute, RC!Broken
<1>7. CASE UNCHANGED vars
  BY <1>7 DEF vars, header, stubVars, callerVars
<1> QED  BY <1>1, <1>2, <1>3, <1>4, <1>5, <1>6, <1>7 DEF Next, Caller, Stub

\* The protocol implements the promise.
THEOREM Refinement == Spec => RpcCallSpec
BY InitRefines, NextRefines, TypeCorrect, InvCorrect, PTL DEF Spec, RpcCallSpec, RC!Spec

-----------------------------------------------------------------------------
\* The commands and the call protocol.

\* The commands other than a call leave the stub's protocol alone.
LEMMA ClientSteps == Client => [Next]_vars
<1> SUFFICES ASSUME Client PROVE [Next]_vars
  OBVIOUS
<1>1. CASE \E a \in Allocs : Free(a) \/ \E len \in Lengths : Alloc(a, len)
  BY <1>1 DEF Free, Alloc
<1>2. CASE \E p \in Pages, q \in {"rx", "rwx"} : Protect(p, q)
  BY <1>2 DEF Protect
<1>3. CASE \E e \in Elfs : Elf(e)
  BY <1>3 DEF Elf
<1>4. CASE FreeStub \/ Pause \/ Resume \/ Install \/ MapCount
  BY <1>4 DEF FreeStub, Pause, Resume, Install, MapCount
<1>5. CASE CallStub
  BY <1>5 DEF CallStub, Next
<1> QED  BY <1>1, <1>2, <1>3, <1>4, <1>5 DEF Client

\* Nor do the kernel's steps of a command, the loaders and the target's own threads.
LEMMA OtherSteps ==
    Kernel \/ WaitFails \/ Target \/ StubFaults \/ (\E c \in Commands : Loader(c))
        => UNCHANGED vars
<1>1. Kernel => UNCHANGED vars
  <2>1. WriteStub \/ MapElf \/ ProtectMain \/ MapFill => UNCHANGED vars
    BY DEF WriteStub, MapElf, ProtectMain, MapFill
  <2>2. AllocatePage \/ AllocateStack \/ FreePage \/ FreeStack => UNCHANGED vars
    BY DEF AllocatePage, AllocateStack, FreePage, FreeStack
  <2>3. WriteLoader \/ FindLibkernel \/ StartLoader \/ WaitDone => UNCHANGED vars
    BY DEF WriteLoader, FindLibkernel, StartLoader, WaitDone
  <2> QED  BY <2>1, <2>2, <2>3 DEF Kernel
<1>2. WaitFails => UNCHANGED vars
  BY DEF WaitFails
<1>3. Target \/ StubFaults => UNCHANGED vars
  BY DEF Target, TargetMaps, TargetUnmaps, TargetFaults, ImageFaults, StubFaults, Crash
<1>4. ASSUME NEW c \in Commands, Loader(c) PROVE UNCHANGED vars
  BY <1>4 DEF Loader, LoaderSpawn, LoaderSetDone, LoaderExit, LoaderFaults, Crash
<1> QED  BY <1>1, <1>2, <1>3, <1>4

\* The steps of a call are those of RpcStub, when the stub's page lets them be taken.
LEMMA CallSteps == CallerStep \/ CallerFails \/ StubStep => Next
BY DEF CallerStep, CallerFails, StubStep, Next, Caller, Stub

LEMMA ProcNextSteps == [ProcNext]_procVars => [Next]_vars
<1>1. UNCHANGED procVars => UNCHANGED vars
  BY DEF procVars
<1> QED  BY <1>1, ClientSteps, OtherSteps, CallSteps DEF ProcNext

\* Every behaviour of ProcCmd is one of RpcStub.
THEOREM CallsRefine == ProcSpec => Spec
<1>1. ProcInit => Init
  BY DEF ProcInit
<1> QED  BY <1>1, ProcNextSteps, PTL DEF ProcSpec, Spec

\* A result that SYS_PROC_CALL returns is that of its own call, whatever the other
\* commands do in between.
THEOREM CallOwnResult == ProcSpec => []OwnResult
BY CallsRefine, OwnResultCorrect, PTL

\* The calls through the stub keep the promise of RpcCall.
THEOREM CallRefinement == ProcSpec => RpcCallSpec
BY CallsRefine, Refinement, PTL

-----------------------------------------------------------------------------
\* The inductive invariant of the commands.

LoaderOps == {"page", "stack", "code", "libkernel", "fields", "wait", "freepage", "freestack"}
\* An INSTALL or an ELF is being executed.
Busy == op \in LoaderOps \cup {"stub", "image", "main"}

\* How far a command has got, and what its result stands for.
StepInv ==
    /\ Busy => cmd \in Commands
    /\ op = "fill" => cmd = "none"
    /\ op = "stub" => cmd = "install"
    /\ op \notin {"idle", "freepage", "freestack"} => res = "none"
    /\ res = "ok" => cmd \in Commands /\ (ldrdone[cmd] \/ ~ LibFound)
    /\ Busy /\ op \notin {"wait", "freepage", "freestack"} => lpc[cmd] = "none"

\* A loader's page and stack are where the command that made them has noted it, and
\* nowhere else; each is there from its allocation until it is freed.
PlaceInv ==
    /\ \A c \in Commands, p \in Pages : vm[p] = c => p = at[c] \/ p = at[StackOf(c)]
    /\ \A c \in Commands :
          /\ at[c] # 0 => vm[at[c]] = c
          /\ at[StackOf(c)] # 0 => vm[at[StackOf(c)]] = c
          /\ at[c] # 0 => at[c] # at[StackOf(c)]
          /\ at[c] # 0 => cmd = c /\ op \in LoaderOps \ {"page", "freestack"}
          /\ at[StackOf(c)] # 0 => cmd = c /\ op \in LoaderOps \ {"page", "stack"}
          /\ cmd = c /\ op = "wait" => at[c] # 0 /\ at[StackOf(c)] # 0
          /\ cmd = c /\ op \in {"stack", "code", "libkernel", "fields"} => at[c] # 0
          /\ cmd = c /\ op \in {"code", "libkernel", "fields"} => at[StackOf(c)] # 0

\* A loader that has not set its flag is waited for, or its command could not see it.
LoaderInv ==
    \A c \in Commands :
        /\ lpc[c] = "none" => c \notin started
        /\ lpc[c] \in {"none", "spawn", "flag"} => ~ ldrdone[c]
        /\ lpc[c] \in {"spawn", "flag"} => (op = "wait" /\ cmd = c) \/ blame # "none"
        /\ lpc[c] = "exit" => ldrdone[c]

\* As long as nothing is to blame, what the target needs is there.
BlameInv ==
    /\ blame = "none" => target # "crashed" /\ whole /\ vm[ExecPage] = "exec" /\ vm[LibPage] = "lib"
    /\ blame = "none" /\ (lpc["install"] # "none" \/ (Busy /\ cmd = "install")) =>
          at["stub"] # 0 /\ vm[at["stub"]] = "stub" /\ prot[at["stub"]] = "rwx"
    /\ blame # "told" /\ Busy /\ cmd = "install" => at["stub"] # 0 /\ vm[at["stub"]] = "stub"
    /\ blame # "told" /\ stubAt # 0 => vm[stubAt] = "stub"

Allocation == [page : 0..(Top - 1), length : Nat, state : {"none", "held", "freed"}]
AllocInv ==
    /\ alloc \in [Allocs -> Allocation]
    /\ \A a \in Allocs :
          /\ alloc[a].state # "none" =>
                alloc[a].page # 0 /\ alloc[a].page + PagesOf(alloc[a].length) <= Top
          /\ alloc[a].state = "none" => alloc[a].page = 0
          /\ \A p \in Pages : vm[p] = a =>
                /\ alloc[a].state # "none"
                /\ p \in Span(alloc[a].page, PagesOf(alloc[a].length))
          /\ alloc[a].state = "held" /\ blame # "told" =>
                \A p \in Span(alloc[a].page, PagesOf(alloc[a].length)) : vm[p] = a
          /\ alloc[a].state = "freed" =>
                alloc[a].page >= Half \/ \A p \in Pages : vm[p] # a
    /\ blame = "told" => \E a \in Allocs : alloc[a].page >= Half

MapInv ==
    op = "fill" =>
        /\ "unmapped" \notin churn => num <= Cardinality(MappedPages)
        /\ "mapped" \notin churn => Cardinality(MappedPages) <= num

-----------------------------------------------------------------------------
\* Memory.

LEMMA Sizes ==
    /\ PageSize \in Nat \ {0} /\ Half \in Nat \ {0} /\ Lengths \subseteq Nat
    /\ Top \in Nat /\ Top >= 3 /\ 0 \in 0..(Top - 1) /\ ExecPage = 1 /\ LibPage = 2
    /\ ExecPage \in Pages /\ LibPage \in Pages /\ Pages \subseteq 1..(Top - 1)
    /\ \A p \in Pages : p \in Nat \ {0} /\ p < Top /\ p \in 0..(Top - 1)
BY TargetSizes DEF Pages, ExecPage, LibPage, Word

LEMMA PageCount ==
    /\ \A len \in Nat : PagesOf(len) \in Nat
    /\ PagesOf(1) = 1
<1>1. ASSUME NEW len \in Nat PROVE PagesOf(len) \in Nat
  <2>1. len + PageSize - 1 \in Nat
    BY Sizes
  <2> QED  BY <2>1, Sizes DEF PagesOf
<1>2. PageSize \div PageSize = 1
  BY Sizes
<1>3. PagesOf(1) = 1
  <2>1. 1 + PageSize - 1 = PageSize
    BY Sizes
  <2> QED  BY <1>2, <2>1 DEF PagesOf
<1> QED  BY <1>1, <1>3

LEMMA LeastOf ==
    ASSUME NEW T \in SUBSET Nat, T # {}
    PROVE  \E m \in T : \A k \in T : m <= k
<1> DEFINE R == OpToRel(<, Nat)
<1>1. PICK m \in T : \A k \in T : <<k, m>> \notin R
  <2>1. IsWellFoundedOn(R, Nat)
    BY NatLessThanWellFounded
  <2> HIDE DEF R
  <2> QED  BY <2>1, WFMin, Zenon
<1>2. \A k \in T : ~ (k < m)
  BY <1>1 DEF OpToRel
<1> QED  BY <1>2

LEMMA FirstGapIsGap ==
    ASSUME NEW k, Gaps(k) # {}
    PROVE  FirstGap(k) \in Gaps(k)
<1>1. Gaps(k) \in SUBSET Nat
  BY Sizes DEF Gaps
<1>2. \E a \in Gaps(k) : \A b \in Gaps(k) : a <= b
  BY <1>1, LeastOf
<1> QED  BY <1>2, Zenon DEF FirstGap

\* Memory changes only where it was free, and to one owner.
Grows(whose, f, k) ==
    /\ vm' \in [Pages -> Holds] /\ prot' \in [Pages -> {"rx", "rwx"}]
    /\ f \in Pages /\ f + k <= Top
    /\ \A p \in Pages : p \in Span(f, k) => vm[p] = "free" /\ vm'[p] = whose
    /\ \A p \in Pages : vm'[p] # vm[p] => p \in Span(f, k) /\ prot'[p] = "rwx"
    /\ \A p \in Pages : vm'[p] = vm[p] => prot'[p] = prot[p]

LEMMA PlacedGrows ==
    ASSUME TargetTypeOK, NEW len, NEW whose \in Holds, Placed(len, whose)
    PROVE  Grows(whose, FirstGap(PagesOf(len)), PagesOf(len))
<1> DEFINE k == PagesOf(len)
           f == FirstGap(PagesOf(len))
<1>1. /\ Gaps(k) # {}
      /\ vm' = [p \in Pages |-> IF p \in Span(f, k) THEN whose ELSE vm[p]]
      /\ prot' = [p \in Pages |-> IF vm'[p] # vm[p] THEN "rwx" ELSE prot[p]]
  BY DEF Placed
<1>2. f \in Gaps(k)
  BY <1>1, FirstGapIsGap
<1> HIDE DEF k, f
<1>3. f \in Pages /\ f + k <= Top /\ \A p \in Span(f, k) : vm[p] = "free"
  BY <1>2 DEF Gaps
<1>4. vm \in [Pages -> Holds] /\ prot \in [Pages -> {"rx", "rwx"}]
  BY DEF TargetTypeOK
<1>5. vm' \in [Pages -> Holds]
  BY <1>1, <1>4
<1>6. prot' \in [Pages -> {"rx", "rwx"}]
  <2> DEFINE v == vm'
  <2> HIDE DEF v
  <2>1. prot' = [p \in Pages |-> IF v[p] # vm[p] THEN "rwx" ELSE prot[p]]
    BY <1>1 DEF v
  <2> QED  BY <1>4, <2>1
<1>7. \A p \in Pages : vm'[p] = IF p \in Span(f, k) THEN whose ELSE vm[p]
  BY <1>1
<1>8. \A p \in Pages : prot'[p] = IF vm'[p] # vm[p] THEN "rwx" ELSE prot[p]
  BY <1>1
<1>9. Grows(whose, f, k)
  BY <1>3, <1>5, <1>6, <1>7, <1>8 DEF Grows
<1> QED  BY <1>9 DEF k, f

\* One page more.
Took(whose, f) ==
    /\ vm' \in [Pages -> Holds] /\ prot' \in [Pages -> {"rx", "rwx"}]
    /\ f \in Pages /\ vm[f] = "free" /\ vm'[f] = whose /\ prot'[f] = "rwx"
    /\ \A p \in Pages : p # f => vm'[p] = vm[p] /\ prot'[p] = prot[p]

LEMMA PlacedTakes ==
    ASSUME TargetTypeOK, NEW whose \in Holds \ {"free"}, Placed(1, whose)
    PROVE  Took(whose, FirstGap(PagesOf(1))) /\ FirstGap(PagesOf(1)) = FirstGap(1)
<1> DEFINE f == FirstGap(PagesOf(1))
<1>1. PagesOf(1) = 1
  BY PageCount
<1>2. Grows(whose, f, 1)
  BY <1>1, PlacedGrows
<1> HIDE DEF f
<1>3. f \in Nat /\ Span(f, 1) = {f}
  BY <1>2, Sizes DEF Grows, Span
<1>4. Took(whose, f)
  BY <1>2, <1>3 DEF Grows, Took
<1> QED  BY <1>1, <1>4 DEF f

\* Memory changes only to free.
Shrinks(S) ==
    /\ vm' \in [Pages -> Holds] /\ prot' \in [Pages -> {"rx", "rwx"}]
    /\ \A p \in Pages : p \in S => vm'[p] = "free"
    /\ \A p \in Pages : p \notin S => vm'[p] = vm[p]
    /\ \A p \in Pages : vm'[p] # "free" => prot'[p] = prot[p]

LEMMA DeletedShrinks ==
    ASSUME TargetTypeOK, NEW a, NEW len, Deleted(a, len)
    PROVE  Shrinks(Span(a, PagesOf(len)))
<1> DEFINE S == Span(a, PagesOf(len))
<1>1. /\ vm' = [p \in Pages |-> IF p \in S THEN "free" ELSE vm[p]]
      /\ prot' = [p \in Pages |-> IF vm'[p] = "free" THEN "rwx" ELSE prot[p]]
  BY DEF Deleted
<1> HIDE DEF S
<1>2. vm \in [Pages -> Holds] /\ prot \in [Pages -> {"rx", "rwx"}]
  BY DEF TargetTypeOK
<1>3. vm' \in [Pages -> Holds]
  BY <1>1, <1>2 DEF Holds
<1>4. prot' \in [Pages -> {"rx", "rwx"}]
  <2> DEFINE v == vm'
  <2> HIDE DEF v
  <2>1. prot' = [p \in Pages |-> IF v[p] = "free" THEN "rwx" ELSE prot[p]]
    BY <1>1 DEF v
  <2> QED  BY <1>2, <2>1
<1>5. Shrinks(S)
  BY <1>1, <1>3, <1>4 DEF Shrinks
<1> QED  BY <1>5 DEF S

LEMMA DeletedOne ==
    ASSUME TargetTypeOK, NEW a \in Int, Deleted(a, 1)
    PROVE  Shrinks({a})
<1>1. Span(a, 1) = {a}
  BY DEF Span
<1> QED  BY <1>1, PageCount, DeletedShrinks

\* Names are different names.
LEMMA Names ==
    /\ Holds = {"free", "exec", "lib", "own", "stub", "image", "install", "elf"} \cup Allocs
    /\ Commands = {"install", "elf"}
    /\ \A a \in Allocs : a \notin {"free", "exec", "lib", "own", "stub", "image", "install", "elf"}
    /\ Places = {"stub", "install", "elf", "install stack", "elf stack"}
    /\ StackOf("install") = "install stack" /\ StackOf("elf") = "elf stack"
BY AllocsAreNew DEF Holds, Commands, Places, StackOf

-----------------------------------------------------------------------------
\* The type of the target.

LEMMA MappedCount ==
    ASSUME NEW S \in SUBSET Pages
    PROVE  IsFiniteSet(S) /\ Cardinality(S) \in 0..Top
<1>1. IsFiniteSet(Pages) /\ Cardinality(Pages) = Top - 1
  <2>1. 1 \in Int /\ Top - 1 \in Int /\ ~ (1 > Top - 1) /\ Top - 1 - 1 + 1 = Top - 1
    BY Sizes
  <2>2. IsFiniteSet(1..(Top - 1)) /\ Cardinality(1..(Top - 1)) = Top - 1 - 1 + 1
    BY <2>1, FS_Interval
  <2> QED  BY <2>1, <2>2 DEF Pages
<1>2. IsFiniteSet(S) /\ Cardinality(S) <= Cardinality(Pages)
  BY <1>1, FS_Subset
<1>3. Cardinality(S) \in Nat
  BY <1>2, FS_CardinalityType
<1> QED  BY <1>1, <1>2, <1>3, Sizes

LEMMA BlameType ==
    ASSUME NEW b \in {"none", "told", "stub", "protected", "image", "blind", "tail"},
           blame \in {"none", "told", "stub", "protected", "image", "blind", "tail"}
    PROVE  Blames(b) \in {"none", "told", "stub", "protected", "image", "blind", "tail"}
BY DEF Blames

LEMMA ProtectedType ==
    ASSUME TargetTypeOK, NEW p \in Pages, NEW q \in {"rx", "rwx"}, Protected(p, q)
    PROVE  /\ prot' \in [Pages -> {"rx", "rwx"}]
           /\ \A r \in Pages : r # p => prot'[r] = prot[r]
<1>1. PICK r \in {q, Meet(prot[p], q)} : prot' = [prot EXCEPT ![p] = r]
  BY DEF Protected
<1>2. r \in {"rx", "rwx"}
  BY DEF Meet
<1> QED  BY <1>1, <1>2 DEF TargetTypeOK

LEMMA ClientType == TargetTypeOK /\ Client => TargetTypeOK'
<1> SUFFICES ASSUME TargetTypeOK, Client PROVE TargetTypeOK'
  OBVIOUS
<1> USE DEF TargetTypeOK
<1>1. ASSUME NEW a \in Allocs, NEW len \in Lengths, Alloc(a, len) PROVE TargetTypeOK'
  <2>1. vm' \in [Pages -> Holds] /\ prot' \in [Pages -> {"rx", "rwx"}]
    <3>1. Placed(len, a) /\ a \in Holds
      BY <1>1, Names DEF Alloc
    <3> QED  BY <3>1, PlacedGrows DEF Grows
  <2> QED  BY <1>1, <2>1 DEF Alloc, Asks, loaders, mapping
<1>2. ASSUME NEW a \in Allocs, Free(a) PROVE TargetTypeOK'
  <2>1. vm' \in [Pages -> Holds] /\ prot' \in [Pages -> {"rx", "rwx"}]
    BY <1>2, DeletedShrinks DEF Free, Shrinks
  <2>2. blame' \in {"none", "told", "stub", "protected", "image", "blind", "tail"}
    BY <1>2, BlameType DEF Free
  <2> QED  BY <1>2, <2>1, <2>2 DEF Free, Asks, loaders, mapping
<1>3. CASE FreeStub
  <2>1. vm' \in [Pages -> Holds] /\ prot' \in [Pages -> {"rx", "rwx"}]
    BY <1>3, DeletedShrinks DEF FreeStub, Shrinks
  <2>2. blame' \in {"none", "told", "stub", "protected", "image", "blind", "tail"}
    BY <1>3, BlameType DEF FreeStub
  <2> QED  BY <1>3, <2>1, <2>2, Sizes DEF FreeStub, Asks, loaders, mapping
<1>4. ASSUME NEW p \in Pages, NEW q \in {"rx", "rwx"}, Protect(p, q) PROVE TargetTypeOK'
  <2>1. prot' \in [Pages -> {"rx", "rwx"}]
    BY <1>4, ProtectedType DEF Protect
  <2>2. blame' \in {"none", "told", "stub", "protected", "image", "blind", "tail"}
    BY <1>4, BlameType DEF Protect
  <2> QED  BY <1>4, <2>1, <2>2 DEF Protect, Asks, loaders, mapping
<1>5. CASE Pause \/ Resume
  BY <1>5 DEF Pause, Resume, Asks, loaders, mapping
<1>6. CASE Install
  <2>1. /\ vm' \in [Pages -> Holds] /\ prot' \in [Pages -> {"rx", "rwx"}]
        /\ FirstGap(1) \in 0..(Top - 1)
    <3>1. "stub" \in Holds \ {"free"} /\ Placed(1, "stub")
      BY <1>6, Names DEF Install
    <3>2. Took("stub", FirstGap(1))
      BY <3>1, PlacedTakes
    <3> QED  BY <3>2, Sizes DEF Took
  <2>2. at' \in [Places -> 0..(Top - 1)]
    BY <1>6, <2>1 DEF Install
  <2> QED  BY <1>6, <2>1, <2>2 DEF Install, Asks, loaders, mapping, Steps, Commands
<1>7. ASSUME NEW e \in Elfs, Elf(e) PROVE TargetTypeOK'
  <2>1. vm' \in [Pages -> Holds] /\ prot' \in [Pages -> {"rx", "rwx"}]
    BY <1>7, PlacedGrows, Names DEF Elf, Grows
  <2> QED  BY <1>7, <2>1 DEF Elf, Asks, loaders, mapping, Steps, Commands
<1>8. CASE CallStub
  BY <1>8 DEF CallStub, Asks, target_, loaders, mapping
<1>9. CASE MapCount
  <2>1. num' \in 0..Top
    BY <1>9, MappedCount DEF MapCount, MappedPages
  <2> QED  BY <1>9, <2>1 DEF MapCount, Asks, target_, loaders, Steps
<1> QED  BY <1>1, <1>2, <1>3, <1>4, <1>5, <1>6, <1>7, <1>8, <1>9 DEF Client

LEMMA KernelType == TargetTypeOK /\ StepInv /\ (Kernel \/ WaitFails) => TargetTypeOK'
<1> SUFFICES ASSUME TargetTypeOK, StepInv, Kernel \/ WaitFails PROVE TargetTypeOK'
  OBVIOUS
<1> USE DEF TargetTypeOK
<1>1. CASE WriteStub
  BY <1>1 DEF WriteStub, Goto, Fail, target_, loaders, mapping, Steps
<1>2. CASE MapElf
  <2>1. blame' \in {"none", "told", "stub", "protected", "image", "blind", "tail"}
    BY <1>2, BlameType DEF MapElf
  <2> QED  BY <1>2, <2>1 DEF MapElf, Goto, target_, loaders, mapping, Steps
<1>3. CASE ProtectMain
  <2>1. prot' \in [Pages -> {"rx", "rwx"}]
    BY <1>3, ProtectedType, Sizes DEF ProtectMain
  <2> QED  BY <1>3, <2>1 DEF ProtectMain, Goto, loaders, mapping, Steps
<1>4. ASSUME NEW w \in Places, NEW l \in Steps, Allocate(1, cmd, w, l), Busy
      PROVE  /\ vm' \in [Pages -> Holds] /\ prot' \in [Pages -> {"rx", "rwx"}]
             /\ at' \in [Places -> 0..(Top - 1)] /\ op' \in Steps
             /\ UNCHANGED <<cmd, res>>
  <2>1. cmd \in Commands
    BY <1>4 DEF StepInv
  <2>2. /\ vm' \in [Pages -> Holds] /\ prot' \in [Pages -> {"rx", "rwx"}]
        /\ FirstGap(PagesOf(1)) \in 0..(Top - 1)
    <3>1. cmd \in Holds \ {"free"} /\ Placed(1, cmd)
      BY <1>4, <2>1, Names DEF Allocate
    <3>2. Took(cmd, FirstGap(PagesOf(1)))
      BY <3>1, PlacedTakes
    <3> QED  BY <3>2, Sizes DEF Took
  <2> QED  BY <1>4, <2>2 DEF Allocate, Goto
<1>5. CASE AllocatePage \/ AllocateStack
  <2>1. Busy /\ cmd \in Commands /\ cmd \in Places /\ Stack \in Places
    BY <1>5, Names DEF AllocatePage, AllocateStack, Busy, LoaderOps, StepInv, Stack
  <2>2. {"stack", "code", "freepage"} \subseteq Steps
    BY DEF Steps
  <2>3. /\ vm' \in [Pages -> Holds] /\ prot' \in [Pages -> {"rx", "rwx"}]
        /\ at' \in [Places -> 0..(Top - 1)] /\ op' \in Steps
        /\ UNCHANGED cmd /\ res' \in {res, "failed"}
    BY <1>4, <1>5, <2>1, <2>2 DEF AllocatePage, AllocateStack, Error, Keeps
  <2> QED  BY <1>5, <2>3 DEF AllocatePage, AllocateStack, loaders, mapping
<1>6. CASE WriteLoader \/ FindLibkernel \/ WaitDone
  BY <1>6 DEF WriteLoader, FindLibkernel, WaitDone, Goto, Error, target_, loaders, mapping, Steps
<1>7. CASE StartLoader
  <2>1. lpc' \in [Commands -> {"none", "spawn", "flag", "exit", "gone"}]
    BY <1>7 DEF StartLoader
  <2> QED  BY <1>7, <2>1 DEF StartLoader, Goto, Error, target_, mapping, Steps
<1>8. CASE FreePage \/ FreeStack
  <2>1. vm' \in [Pages -> Holds] /\ prot' \in [Pages -> {"rx", "rwx"}]
    BY <1>8, DeletedShrinks DEF FreePage, FreeStack, Shrinks
  <2>2. at' \in [Places -> 0..(Top - 1)]
    BY <1>8, Sizes DEF FreePage, FreeStack
  <2>3. stubAt' \in 0..(Top - 1)
    <3>1. at["stub"] \in 0..(Top - 1)
      BY Names
    <3>2. CASE FreePage
      BY <3>2 DEF FreePage
    <3>3. CASE FreeStack
      BY <3>1, <3>3 DEF FreeStack
    <3> QED  BY <1>8, <3>2, <3>3
  <2> QED  BY <1>8, <2>1, <2>2, <2>3 DEF FreePage, FreeStack, Goto, loaders, mapping, Steps
<1>9. CASE MapFill
  BY <1>9, Sizes DEF MapFill, Goto, target_, loaders, Steps
<1>10. CASE WaitFails
  <2>1. blame' \in {"none", "told", "stub", "protected", "image", "blind", "tail"}
    BY <1>10, BlameType DEF WaitFails
  <2> QED  BY <1>10, <2>1 DEF WaitFails, Error, target_, loaders, mapping, Steps
<1> QED  BY <1>1, <1>2, <1>3, <1>5, <1>6, <1>7, <1>8, <1>9, <1>10 DEF Kernel

LEMMA CrashType ==
    ASSUME TargetTypeOK, Crash
    PROVE  /\ lpc' \in [Commands -> {"none", "spawn", "flag", "exit", "gone"}]
           /\ \A c \in Commands : lpc'[c] = IF lpc[c] = "none" THEN "none" ELSE "gone"
BY DEF TargetTypeOK, Crash

LEMMA ThreadType ==
    TargetTypeOK /\ (Target \/ StubFaults \/ \E c \in Commands : Loader(c)) => TargetTypeOK'
<1> SUFFICES ASSUME TargetTypeOK, Target \/ StubFaults \/ \E c \in Commands : Loader(c)
             PROVE  TargetTypeOK'
  OBVIOUS
<1> USE DEF TargetTypeOK
<1>1. CASE TargetMaps
  <2>1. vm' \in [Pages -> Holds] /\ prot' \in [Pages -> {"rx", "rwx"}]
    BY <1>1, PlacedTakes, Names DEF TargetMaps, Took
  <2> QED  BY <1>1, <2>1 DEF TargetMaps, Churns, loaders, command
<1>2. CASE TargetUnmaps
  <2>1. vm' \in [Pages -> Holds] /\ prot' \in [Pages -> {"rx", "rwx"}]
    BY <1>2, DeletedShrinks DEF TargetUnmaps, Shrinks
  <2> QED  BY <1>2, <2>1 DEF TargetUnmaps, Churns, loaders, command
<1>3. ASSUME Crash, blame' \in {"none", "told", "stub", "protected", "image", "blind", "tail"}
      PROVE  TargetTypeOK'
  BY <1>3, CrashType DEF Crash, command, mapping
<1>4. CASE TargetFaults \/ ImageFaults \/ StubFaults
  BY <1>3, <1>4 DEF TargetFaults, ImageFaults, StubFaults
<1>5. ASSUME NEW c \in Commands, Loader(c) PROVE TargetTypeOK'
  <2>1. CASE LoaderFaults(c)
    <3>1. blame' \in {"none", "told", "stub", "protected", "image", "blind", "tail"}
      BY <2>1, BlameType DEF LoaderFaults
    <3> QED  BY <1>3, <2>1, <3>1 DEF LoaderFaults
  <2>2. CASE LoaderSpawn(c)
    <3>1. lpc' \in [Commands -> {"none", "spawn", "flag", "exit", "gone"}]
      BY <2>2 DEF LoaderSpawn
    <3>2. started' \subseteq Commands
      BY <2>2 DEF LoaderSpawn
    <3> QED  BY <2>2, <3>1, <3>2 DEF LoaderSpawn, target_, command, mapping
  <2>3. CASE LoaderSetDone(c) \/ LoaderExit(c)
    <3>1. lpc' \in [Commands -> {"none", "spawn", "flag", "exit", "gone"}]
      BY <2>3 DEF LoaderSetDone, LoaderExit
    <3>2. ldrdone' \in [Commands -> BOOLEAN]
      BY <2>3 DEF LoaderSetDone, LoaderExit
    <3> QED  BY <2>3, <3>1, <3>2 DEF LoaderSetDone, LoaderExit, target_, command, mapping
  <2> QED  BY <1>5, <2>1, <2>2, <2>3 DEF Loader
<1> QED  BY <1>1, <1>2, <1>4, <1>5 DEF Target

\* The steps of a call through the stub leave the target as it is.
LEMMA CallsKeep == CallerStep \/ CallerFails \/ StubStep \/ UNCHANGED procVars => UNCHANGED cmdVars
BY DEF CallerStep, CallerFails, StubStep, procVars

LEMMA TypeKept == TargetTypeOK /\ UNCHANGED cmdVars => TargetTypeOK'
BY DEF TargetTypeOK, cmdVars, target_, loaders, command, mapping

LEMMA TypeStep == TargetTypeOK /\ StepInv /\ [ProcNext]_procVars => TargetTypeOK'
BY ClientType, KernelType, ThreadType, CallsKeep, TypeKept DEF ProcNext

-----------------------------------------------------------------------------
\* The steps of a command.

\* Only a client's protection of libkernel can make it findable.
LEMMA GrownLib ==
    ASSUME TargetTypeOK, NEW whose \in Holds \ {"lib"}, NEW f, NEW k, Grows(whose, f, k),
           UNCHANGED host, LibFound'
    PROVE  LibFound
<1>1. LibPage \in Pages
  BY Sizes
<1>2. vm'[LibPage] = "lib" /\ prot'[LibPage] = "rx" /\ Listed(host)
  BY DEF LibFound
<1> QED  BY <1>1, <1>2 DEF Grows, LibFound

LEMMA TakenLib ==
    ASSUME TargetTypeOK, NEW whose \in Holds \ {"lib"}, NEW f, Took(whose, f),
           UNCHANGED host, LibFound'
    PROVE  LibFound
<1>1. LibPage \in Pages
  BY Sizes
<1>2. vm'[LibPage] = "lib" /\ prot'[LibPage] = "rx" /\ Listed(host)
  BY DEF LibFound
<1> QED  BY <1>1, <1>2 DEF Took, LibFound

LEMMA ShrunkLib ==
    ASSUME TargetTypeOK, NEW S, Shrinks(S), UNCHANGED host, LibFound'
    PROVE  LibFound
<1>1. LibPage \in Pages
  BY Sizes
<1>2. vm'[LibPage] = "lib" /\ prot'[LibPage] = "rx" /\ Listed(host)
  BY DEF LibFound
<1>3. vm'[LibPage] = vm[LibPage] /\ prot'[LibPage] = prot[LibPage]
  BY <1>1, <1>2 DEF Shrinks
<1> QED  BY <1>2, <1>3 DEF LibFound

LEMMA SameLib == UNCHANGED <<vm, prot, host>> => (LibFound' <=> LibFound)
BY DEF LibFound

LEMMA QuietStep ==
    ASSUME StepInv, UNCHANGED <<op, cmd, res>>, LibFound' => LibFound,
           \A c \in Commands : (ldrdone[c] => ldrdone'[c]) /\ (lpc[c] = "none" => lpc'[c] = "none")
    PROVE  StepInv'
BY DEF StepInv, Busy, LoaderOps

LEMMA ClientStep == StepInv /\ Client => StepInv'
<1> SUFFICES ASSUME StepInv, Client PROVE StepInv'
  OBVIOUS
<1>1. ASSUME op' \in {"idle", "fill"}, res' = "none", cmd' = "none" PROVE StepInv'
  BY <1>1 DEF StepInv, Busy, LoaderOps
<1>2. ASSUME NEW a \in Allocs, Free(a) \/ \E len \in Lengths : Alloc(a, len) PROVE StepInv'
  BY <1>1, <1>2 DEF Free, Alloc, Asks, Idle
<1>3. ASSUME NEW p \in Pages, NEW q \in {"rx", "rwx"}, Protect(p, q) PROVE StepInv'
  BY <1>1, <1>3 DEF Protect, Asks, Idle
<1>4. CASE FreeStub \/ Pause \/ Resume \/ CallStub \/ MapCount
  BY <1>1, <1>4 DEF FreeStub, Pause, Resume, CallStub, MapCount, Asks, Idle
<1>5. CASE Install
  BY <1>5 DEF Install, Asks, StepInv, Busy, LoaderOps, loaders, Commands
<1>6. ASSUME NEW e \in Elfs, Elf(e) PROVE StepInv'
  BY <1>6 DEF Elf, Asks, StepInv, Busy, LoaderOps, loaders, Commands
<1> QED  BY <1>2, <1>3, <1>4, <1>5, <1>6 DEF Client

LEMMA KernelStep == TargetTypeOK /\ StepInv /\ (Kernel \/ WaitFails) => StepInv'
<1> SUFFICES ASSUME TargetTypeOK, StepInv, Kernel \/ WaitFails PROVE StepInv'
  OBVIOUS
<1>1. CASE WriteStub \/ MapElf \/ ProtectMain
  BY <1>1 DEF WriteStub, MapElf, ProtectMain, Goto, Fail, StepInv, Busy, LoaderOps, loaders
<1>2. CASE AllocatePage \/ AllocateStack
  BY <1>2 DEF AllocatePage, AllocateStack, Allocate, Goto, Error, StepInv, Busy, LoaderOps, loaders
<1>3. CASE WriteLoader
  BY <1>3 DEF WriteLoader, Goto, Error, StepInv, Busy, LoaderOps, loaders
<1>4. CASE FindLibkernel
  <2>1. LibFound' <=> LibFound
    BY <1>4, SameLib DEF FindLibkernel, target_
  <2> QED  BY <1>4, <2>1 DEF FindLibkernel, Goto, Error, StepInv, Busy, LoaderOps, loaders
<1>5. CASE StartLoader
  BY <1>5 DEF StartLoader, Goto, Error, StepInv, Busy, LoaderOps
<1>6. CASE WaitDone
  BY <1>6 DEF WaitDone, Error, StepInv, Busy, LoaderOps, loaders
<1>7. CASE WaitFails
  BY <1>7 DEF WaitFails, Error, StepInv, Busy, LoaderOps, loaders
<1>8. CASE FreePage \/ FreeStack
  <2>1. LibFound' => LibFound
    BY <1>8, DeletedShrinks, ShrunkLib DEF FreePage, FreeStack
  <2> QED  BY <1>8, <2>1 DEF FreePage, FreeStack, Goto, StepInv, Busy, LoaderOps, loaders
<1>9. CASE MapFill
  BY <1>9 DEF MapFill, Goto, StepInv, Busy, LoaderOps
<1> QED  BY <1>1, <1>2, <1>3, <1>4, <1>5, <1>6, <1>7, <1>8, <1>9 DEF Kernel

LEMMA ThreadStep ==
    TargetTypeOK /\ StepInv /\ (Target \/ StubFaults \/ \E c \in Commands : Loader(c)) => StepInv'
<1> SUFFICES ASSUME TargetTypeOK, StepInv, Target \/ StubFaults \/ \E c \in Commands : Loader(c)
             PROVE  StepInv'
  OBVIOUS
<1>1. CASE TargetMaps
  <2>1. LibFound' => LibFound
    BY <1>1, PlacedTakes, TakenLib, Names DEF TargetMaps
  <2> QED  BY <1>1, <2>1, QuietStep DEF TargetMaps, loaders, command
<1>2. CASE TargetUnmaps
  <2>1. LibFound' => LibFound
    BY <1>2, DeletedShrinks, ShrunkLib DEF TargetUnmaps
  <2> QED  BY <1>2, <2>1, QuietStep DEF TargetUnmaps, loaders, command
<1>3. ASSUME Crash PROVE StepInv'
  <2>1. LibFound' => LibFound
    BY <1>3, SameLib DEF Crash
  <2> QED  BY <1>3, <2>1, QuietStep, CrashType DEF Crash, command
<1>4. CASE TargetFaults \/ ImageFaults \/ StubFaults
  BY <1>3, <1>4 DEF TargetFaults, ImageFaults, StubFaults
<1>5. ASSUME NEW c \in Commands, Loader(c) PROVE StepInv'
  <2>1. CASE LoaderFaults(c)
    BY <1>3, <2>1 DEF LoaderFaults
  <2>2. CASE LoaderSpawn(c) \/ LoaderSetDone(c) \/ LoaderExit(c)
    <3>1. LibFound' => LibFound
      BY <2>2, SameLib DEF LoaderSpawn, LoaderSetDone, LoaderExit, target_
    <3>2. \A d \in Commands :
              (ldrdone[d] => ldrdone'[d]) /\ (lpc[d] = "none" => lpc'[d] = "none")
      BY <2>2 DEF LoaderSpawn, LoaderSetDone, LoaderExit, TargetTypeOK
    <3> QED  BY <2>2, <3>1, <3>2, QuietStep DEF LoaderSpawn, LoaderSetDone, LoaderExit, command
  <2> QED  BY <1>5, <2>1, <2>2 DEF Loader
<1> QED  BY <1>1, <1>2, <1>4, <1>5 DEF Target

LEMMA StepKept == StepInv /\ UNCHANGED cmdVars => StepInv'
BY DEF StepInv, Busy, LoaderOps, LibFound, cmdVars, target_, loaders, command

LEMMA StepStep == TargetTypeOK /\ StepInv /\ [ProcNext]_procVars => StepInv'
BY ClientStep, KernelStep, ThreadStep, CallsKeep, StepKept DEF ProcNext

-----------------------------------------------------------------------------
\* The places of a loader's page and stack.

\* Nothing of a loader is in the target, and no command counts on it.
NoLoader ==
    /\ \A c \in Commands : at[c] = 0 /\ at[StackOf(c)] = 0
    /\ \A c \in Commands, p \in Pages : vm[p] # c

LEMMA NothingPlaced ==
    PlaceInv /\ op \in {"idle", "stub", "image", "main", "fill", "page"} => NoLoader
<1> SUFFICES ASSUME PlaceInv, op \in {"idle", "stub", "image", "main", "fill", "page"}
             PROVE  NoLoader
  OBVIOUS
<1>1. \A c \in Commands : at[c] = 0 /\ at[StackOf(c)] = 0
  BY DEF PlaceInv, LoaderOps
<1>2. \A p \in Pages : p # 0
  BY Sizes
<1> QED  BY <1>1, <1>2 DEF PlaceInv, NoLoader

LEMMA EmptyPlaces ==
    ASSUME NoLoader', op' \notin {"stack", "code", "libkernel", "fields", "wait"}
    PROVE  PlaceInv'
BY DEF NoLoader, PlaceInv

\* What a loader has in the target stays, and no more comes.
LoadersKeep ==
    /\ \A c \in Commands : at'[c] = at[c] /\ at'[StackOf(c)] = at[StackOf(c)]
    /\ \A c \in Commands, p \in Pages : vm'[p] = c <=> vm[p] = c

LEMMA KeptNone == NoLoader /\ LoadersKeep => NoLoader'
BY DEF NoLoader, LoadersKeep

LEMMA ShrunkNone ==
    ASSUME NoLoader, NEW S, Shrinks(S),
           \A c \in Commands : at'[c] = at[c] /\ at'[StackOf(c)] = at[StackOf(c)]
    PROVE  NoLoader'
BY Names DEF NoLoader, Shrinks

LEMMA GrownKeeps ==
    ASSUME NEW whose \in Holds \ Commands, NEW f, NEW k, Grows(whose, f, k),
           \A c \in Commands : at'[c] = at[c] /\ at'[StackOf(c)] = at[StackOf(c)]
    PROVE  LoadersKeep
BY Names DEF LoadersKeep, Grows

LEMMA TakenKeeps ==
    ASSUME NEW whose \in Holds \ Commands, NEW f, Took(whose, f),
           \A c \in Commands : at'[c] = at[c] /\ at'[StackOf(c)] = at[StackOf(c)]
    PROVE  LoadersKeep
BY Names DEF LoadersKeep, Took

LEMMA SameKeeps == UNCHANGED <<vm, at>> => LoadersKeep
BY DEF LoadersKeep

LEMMA PlaceDomain ==
    TargetTypeOK => \A c \in Commands : /\ at[c] \in Pages \cup {0}
                                        /\ at[StackOf(c)] \in Pages \cup {0}
                                        /\ at[c] \in Int /\ at[StackOf(c)] \in Int
<1> SUFFICES ASSUME TargetTypeOK, NEW c \in Commands
             PROVE  /\ at[c] \in Pages \cup {0} /\ at[StackOf(c)] \in Pages \cup {0}
                    /\ at[c] \in Int /\ at[StackOf(c)] \in Int
  OBVIOUS
<1>1. c \in Places /\ StackOf(c) \in Places
  BY Names
<1>2. at[c] \in 0..(Top - 1) /\ at[StackOf(c)] \in 0..(Top - 1)
  BY <1>1 DEF TargetTypeOK
<1> QED  BY <1>2, Sizes DEF Pages

LEMMA QuietPlace ==
    ASSUME TargetTypeOK, PlaceInv, LoadersKeep, UNCHANGED <<op, cmd>>
    PROVE  PlaceInv'
BY PlaceDomain DEF PlaceInv, LoadersKeep

LEMMA ClientPlace == TargetTypeOK /\ PlaceInv /\ Client => PlaceInv'
<1> SUFFICES ASSUME TargetTypeOK, PlaceInv, Client PROVE PlaceInv'
  OBVIOUS
<1>1. ASSUME op = "idle", op' \in {"idle", "stub", "image", "fill"}, LoadersKeep PROVE PlaceInv'
  BY <1>1, NothingPlaced, KeptNone, EmptyPlaces
<1>2. ASSUME op = "idle", op' = "idle", at' = at, NEW S, Shrinks(S) PROVE PlaceInv'
  BY <1>2, NothingPlaced, ShrunkNone, EmptyPlaces
<1>3. ASSUME NEW a \in Allocs, NEW len \in Lengths, Alloc(a, len) PROVE PlaceInv'
  <2>1. a \in Holds \ Commands /\ Placed(len, a) /\ UNCHANGED <<op, at>> /\ op = "idle"
    BY <1>3, Names DEF Alloc, Asks, Idle
  <2>2. LoadersKeep
    BY <2>1, PlacedGrows, GrownKeeps
  <2> QED  BY <1>1, <2>1, <2>2
<1>4. ASSUME NEW a \in Allocs, Free(a) PROVE PlaceInv'
  BY <1>2, <1>4, DeletedShrinks DEF Free, Asks, Idle
<1>5. CASE FreeStub
  BY <1>2, <1>5, DeletedShrinks DEF FreeStub, Asks, Idle
<1>6. ASSUME NEW p \in Pages, NEW q \in {"rx", "rwx"}, Protect(p, q) PROVE PlaceInv'
  BY <1>1, <1>6, SameKeeps DEF Protect, Asks, Idle
<1>7. CASE Pause \/ Resume \/ CallStub \/ MapCount
  BY <1>1, <1>7, SameKeeps DEF Pause, Resume, CallStub, MapCount, Asks, Idle, target_
<1>8. CASE Install
  <2>1. /\ "stub" \in Holds \ Commands /\ "stub" \in Holds \ {"free"} /\ Placed(1, "stub")
        /\ op = "idle" /\ op' = "stub"
        /\ \A c \in Commands : c # "stub" /\ StackOf(c) # "stub"
    BY <1>8, Names DEF Install, Asks, Idle
  <2>2. \A c \in Commands : at'[c] = at[c] /\ at'[StackOf(c)] = at[StackOf(c)]
    BY <1>8, <2>1, Names DEF Install, TargetTypeOK
  <2>3. LoadersKeep
    BY <2>1, <2>2, PlacedTakes, TakenKeeps
  <2> QED  BY <1>1, <2>1, <2>3
<1>9. ASSUME NEW e \in Elfs, Elf(e) PROVE PlaceInv'
  <2>1. /\ "image" \in Holds \ Commands /\ Placed(Padded(MappedSize(e)), "image")
        /\ op = "idle" /\ op' = "image" /\ at' = at
    BY <1>9, Names DEF Elf, Asks, Idle
  <2>2. LoadersKeep
    BY <2>1, PlacedGrows, GrownKeeps
  <2> QED  BY <1>1, <2>1, <2>2
<1> QED  BY <1>3, <1>4, <1>5, <1>6, <1>7, <1>8, <1>9 DEF Client

LEMMA KernelPlace == TargetTypeOK /\ StepInv /\ PlaceInv /\ (Kernel \/ WaitFails) => PlaceInv'
<1> SUFFICES ASSUME TargetTypeOK, StepInv, PlaceInv, Kernel \/ WaitFails PROVE PlaceInv'
  OBVIOUS
<1>1. CASE WriteStub \/ MapElf \/ ProtectMain \/ MapFill
  <2>1. /\ op \in {"stub", "image", "main", "fill"} /\ op' \in {"idle", "page", "main"}
        /\ UNCHANGED <<vm, at>>
    BY <1>1 DEF WriteStub, MapElf, ProtectMain, MapFill, Goto, Fail, target_
  <2> QED  BY <2>1, NothingPlaced, SameKeeps, KeptNone, EmptyPlaces
<1>2. CASE WriteLoader \/ FindLibkernel \/ StartLoader \/ WaitDone \/ WaitFails
  <2>1. /\ UNCHANGED <<vm, at, cmd>> /\ op \in {"code", "libkernel", "fields", "wait"}
        /\ op = "code" => op' \in {"libkernel", "freepage"}
        /\ op = "libkernel" => op' \in {"fields", "freepage"}
        /\ op = "fields" => op' \in {"wait", "freepage"}
        /\ op = "wait" => op' = "freepage"
    BY <1>2 DEF WriteLoader, FindLibkernel, StartLoader, WaitDone, WaitFails, Goto, Error, target_
  <2> QED  BY <2>1 DEF PlaceInv, LoaderOps
<1>3. ASSUME Busy PROVE /\ cmd \in Commands /\ cmd \in Holds \ {"free"} /\ Stack = StackOf(cmd)
                        /\ cmd \in Places /\ Stack \in Places /\ cmd # Stack
                        /\ \A d \in Commands \ {cmd} :
                               /\ d \notin {cmd, Stack} /\ StackOf(d) \notin {cmd, Stack}
                               /\ d \in Places /\ StackOf(d) \in Places
                               /\ at[d] = 0 /\ at[StackOf(d)] = 0
                               /\ \A p \in Pages : vm[p] # d
  <2>1. cmd \in Commands
    BY <1>3 DEF StepInv
  <2>2. cmd \in Holds \ {"free"} /\ Stack = StackOf(cmd)
    BY <2>1, Names DEF Stack
  <2>3. cmd \in Places /\ Stack \in Places /\ cmd # Stack
    BY <2>1, <2>2, Names
  <2>4. ASSUME NEW d \in Commands \ {cmd}
        PROVE  /\ d \notin {cmd, Stack} /\ StackOf(d) \notin {cmd, Stack}
               /\ d \in Places /\ StackOf(d) \in Places
    BY <2>1, <2>2, Names
  <2>5. ASSUME NEW d \in Commands \ {cmd}
        PROVE  at[d] = 0 /\ at[StackOf(d)] = 0 /\ \A p \in Pages : vm[p] # d
    BY Sizes DEF PlaceInv
  <2> QED  BY <2>1, <2>2, <2>3, <2>4, <2>5
<1>4. CASE AllocatePage
  <2>1. Busy /\ op = "page"
    BY <1>4 DEF AllocatePage, Busy, LoaderOps
  <2>2. CASE Error("failed") /\ Keeps
    <3>1. op' = "freepage" /\ UNCHANGED <<vm, at>>
      BY <2>2 DEF Error, Keeps
    <3> QED  BY <2>1, <3>1, NothingPlaced, SameKeeps, KeptNone, EmptyPlaces
  <2>3. CASE Allocate(1, cmd, cmd, "stack")
    <3> DEFINE f == FirstGap(PagesOf(1))
    <3>1. Took(cmd, f) /\ at' = [at EXCEPT ![cmd] = f] /\ op' = "stack" /\ cmd' = cmd
      BY <1>3, <2>1, <2>3, PlacedTakes DEF Allocate, Goto
    <3> HIDE DEF f
    <3>2. at'[cmd] = f /\ f # 0 /\ \A w \in Places \ {cmd} : at'[w] = at[w]
      BY <1>3, <2>1, <3>1, Sizes DEF TargetTypeOK, Took
    <3>3. NoLoader
      BY <2>1, NothingPlaced
    <3> QED  BY <1>3, <2>1, <3>1, <3>2, <3>3 DEF PlaceInv, Took, NoLoader, LoaderOps
  <2> QED  BY <1>4, <2>2, <2>3 DEF AllocatePage
<1>5. CASE AllocateStack
  <2>1. Busy /\ op = "stack"
    BY <1>5 DEF AllocateStack, Busy, LoaderOps
  <2>2. CASE Error("failed") /\ Keeps
    <3>1. op' = "freepage" /\ UNCHANGED <<vm, at, cmd>>
      BY <2>2 DEF Error, Keeps
    <3> QED  BY <2>1, <3>1 DEF PlaceInv, LoaderOps
  <2>3. CASE Allocate(1, cmd, Stack, "code")
    <3> DEFINE f == FirstGap(PagesOf(1))
    <3>1. Took(cmd, f) /\ at' = [at EXCEPT ![Stack] = f] /\ op' = "code" /\ cmd' = cmd
      BY <1>3, <2>1, <2>3, PlacedTakes DEF Allocate, Goto
    <3> HIDE DEF f
    <3>2. at'[Stack] = f /\ f # 0 /\ \A w \in Places \ {Stack} : at'[w] = at[w]
      BY <1>3, <2>1, <3>1, Sizes DEF TargetTypeOK, Took
    <3>3. /\ at[cmd] # 0 /\ at[Stack] = 0 /\ vm[at[cmd]] = cmd
          /\ \A p \in Pages : vm[p] = cmd => p = at[cmd]
      BY <1>3, <2>1, Sizes DEF PlaceInv
    <3>4. f # at[cmd] /\ at'[cmd] = at[cmd] /\ vm'[at[cmd]] = cmd
      BY <1>3, <2>1, <3>1, <3>2, <3>3, PlaceDomain DEF Took
    <3> QED  BY <1>3, <2>1, <3>1, <3>2, <3>3, <3>4 DEF PlaceInv, Took, LoaderOps
  <2> QED  BY <1>5, <2>2, <2>3 DEF AllocateStack
<1>6. CASE FreePage
  <2>1. Busy /\ op = "freepage" /\ op' = "freestack" /\ cmd' = cmd
    BY <1>6 DEF FreePage, Busy, LoaderOps, Goto
  <2>2. Shrinks({at[cmd]})
    BY <1>3, <1>6, <2>1, DeletedOne DEF FreePage, TargetTypeOK
  <2>3. at'[cmd] = 0 /\ \A w \in Places \ {cmd} : at'[w] = at[w]
    BY <1>3, <1>6, <2>1 DEF FreePage, TargetTypeOK
  <2>4. at'[Stack] = at[Stack]
    BY <1>3, <2>1, <2>3
  <2>5. \A p \in Pages : vm'[p] = cmd => p = at[Stack]
    BY <1>3, <2>1, <2>2 DEF PlaceInv, Shrinks
  <2>6. at[Stack] # 0 => vm'[at[Stack]] = cmd
    <3>1. at[Stack] # 0 => vm[at[Stack]] = cmd /\ at[Stack] # at[cmd] /\ at[Stack] \in Pages
      BY <1>3, <2>1, PlaceDomain, Sizes DEF PlaceInv
    <3> QED  BY <2>2, <3>1 DEF Shrinks
  <2>7. \A d \in Commands \ {cmd} :
            at'[d] = 0 /\ at'[StackOf(d)] = 0 /\ \A p \in Pages : vm'[p] # d
    <3> SUFFICES ASSUME NEW d \in Commands \ {cmd}
                 PROVE  at'[d] = 0 /\ at'[StackOf(d)] = 0 /\ \A p \in Pages : vm'[p] # d
      OBVIOUS
    <3>1. at'[d] = 0 /\ at'[StackOf(d)] = 0
      BY <1>3, <2>1, <2>3
    <3>2. (\A p \in Pages : vm[p] # d) /\ d # "free"
      BY <1>3, <2>1, Names
    <3>3. \A p \in Pages : vm'[p] # d
      BY <2>2, <3>2 DEF Shrinks
    <3> QED  BY <3>1, <3>3
  <2> QED  BY <1>3, <2>1, <2>3, <2>4, <2>5, <2>6, <2>7 DEF PlaceInv, LoaderOps
<1>7. CASE FreeStack
  <2>1. Busy /\ op = "freestack" /\ op' = "idle" /\ cmd' = cmd
    BY <1>7 DEF FreeStack, Busy, LoaderOps, Goto
  <2>2. Shrinks({at[Stack]})
    BY <1>3, <1>7, <2>1, DeletedOne DEF FreeStack, TargetTypeOK
  <2>3. at'[Stack] = 0 /\ \A w \in Places \ {Stack} : at'[w] = at[w]
    BY <1>3, <1>7, <2>1 DEF FreeStack, TargetTypeOK
  <2>4. at[cmd] = 0 /\ at'[cmd] = 0
    BY <1>3, <2>1, <2>3 DEF PlaceInv
  <2>5. \A p \in Pages : vm'[p] # cmd
    BY <1>3, <2>1, <2>2, <2>4, Sizes DEF PlaceInv, Shrinks
  <2>6. \A d \in Commands \ {cmd} :
            at'[d] = 0 /\ at'[StackOf(d)] = 0 /\ \A p \in Pages : vm'[p] # d
    <3> SUFFICES ASSUME NEW d \in Commands \ {cmd}
                 PROVE  at'[d] = 0 /\ at'[StackOf(d)] = 0 /\ \A p \in Pages : vm'[p] # d
      OBVIOUS
    <3>1. at'[d] = 0 /\ at'[StackOf(d)] = 0
      BY <1>3, <2>1, <2>3
    <3>2. (\A p \in Pages : vm[p] # d) /\ d # "free"
      BY <1>3, <2>1, Names
    <3>3. \A p \in Pages : vm'[p] # d
      BY <2>2, <3>2 DEF Shrinks
    <3> QED  BY <3>1, <3>3
  <2>7. NoLoader'
    BY <1>3, <2>1, <2>3, <2>4, <2>5, <2>6 DEF NoLoader
  <2> QED  BY <2>1, <2>7, EmptyPlaces
<1> QED  BY <1>1, <1>2, <1>4, <1>5, <1>6, <1>7 DEF Kernel

LEMMA ThreadPlace ==
    TargetTypeOK /\ PlaceInv /\ (Target \/ StubFaults \/ \E c \in Commands : Loader(c)) => PlaceInv'
<1> SUFFICES ASSUME TargetTypeOK, PlaceInv, Target \/ StubFaults \/ \E c \in Commands : Loader(c)
             PROVE  PlaceInv'
  OBVIOUS
<1>1. CASE TargetMaps
  <2>1. LoadersKeep
    BY <1>1, PlacedTakes, TakenKeeps, Names DEF TargetMaps, command
  <2> QED  BY <1>1, <2>1, QuietPlace DEF TargetMaps, command
<1>2. CASE TargetUnmaps
  <2>1. PICK p \in Pages : vm[p] = "own" /\ Deleted(p, 1)
    BY <1>2 DEF TargetUnmaps
  <2>2. Shrinks({p})
    BY <2>1, DeletedOne, Sizes
  <2>3. LoadersKeep
    BY <1>2, <2>1, <2>2, Names DEF TargetUnmaps, command, Shrinks, LoadersKeep
  <2> QED  BY <1>2, <2>3, QuietPlace DEF TargetUnmaps, command
<1>3. ASSUME UNCHANGED <<vm, command>> PROVE PlaceInv'
  BY <1>3, SameKeeps, QuietPlace DEF command
<1>4. CASE TargetFaults \/ ImageFaults \/ StubFaults
  BY <1>3, <1>4 DEF TargetFaults, ImageFaults, StubFaults, Crash
<1>5. ASSUME NEW c \in Commands, Loader(c) PROVE PlaceInv'
  BY <1>3, <1>5 DEF Loader, LoaderFaults, LoaderSpawn, LoaderSetDone, LoaderExit, Crash, target_
<1> QED  BY <1>1, <1>2, <1>4, <1>5 DEF Target

LEMMA PlaceKept == TargetTypeOK /\ PlaceInv /\ UNCHANGED cmdVars => PlaceInv'
BY SameKeeps, QuietPlace DEF cmdVars, target_, command

LEMMA PlaceStep == TargetTypeOK /\ StepInv /\ PlaceInv /\ [ProcNext]_procVars => PlaceInv'
BY ClientPlace, KernelPlace, ThreadPlace, CallsKeep, PlaceKept DEF ProcNext

-----------------------------------------------------------------------------
\* The loader threads.

LEMMA Blamed ==
    ASSUME TargetTypeOK
    PROVE  \A b : b # "none" => Blames(b) # "none"
BY DEF Blames

LEMMA BlameLasts ==
    ASSUME TargetTypeOK, [ProcNext]_procVars, blame # "none"
    PROVE  blame' # "none"
<1>1. ASSUME Client PROVE blame' # "none"
  BY <1>1, Blamed DEF Client, Free, Alloc, Protect, Elf, FreeStub, Pause, Resume, Install, CallStub,
     MapCount
<1>2. ASSUME Kernel \/ WaitFails PROVE blame' # "none"
  BY <1>2, Blamed DEF Kernel, WaitFails, WriteStub, MapElf, ProtectMain, AllocatePage,
     AllocateStack, WriteLoader, FindLibkernel, StartLoader, WaitDone, FreePage, FreeStack, MapFill
<1>3. ASSUME Target \/ StubFaults PROVE blame' # "none"
  BY <1>3 DEF Target, StubFaults, TargetMaps, TargetUnmaps, TargetFaults, ImageFaults
<1>4. ASSUME NEW c \in Commands, Loader(c) PROVE blame' # "none"
  BY <1>4, Blamed DEF Loader, LoaderSpawn, LoaderSetDone, LoaderExit, LoaderFaults
<1>5. ASSUME UNCHANGED cmdVars PROVE blame' # "none"
  BY <1>5 DEF cmdVars
<1> QED  BY <1>1, <1>2, <1>3, <1>4, <1>5, CallsKeep DEF ProcNext

LEMMA QuietLoader ==
    ASSUME LoaderInv, UNCHANGED loaders, blame # "none" => blame' # "none",
           op = "wait" => (op' = "wait" /\ cmd' = cmd) \/ blame' # "none"
    PROVE  LoaderInv'
BY DEF LoaderInv, loaders

LEMMA CrashLoader == TargetTypeOK /\ LoaderInv /\ Crash => LoaderInv'
<1> SUFFICES ASSUME TargetTypeOK, LoaderInv, Crash, NEW c \in Commands
             PROVE  /\ lpc'[c] = "none" => c \notin started'
                    /\ lpc'[c] \in {"none", "spawn", "flag"} => ~ ldrdone'[c]
                    /\ lpc'[c] \in {"spawn", "flag"} =>
                          (op' = "wait" /\ cmd' = c) \/ blame' # "none"
                    /\ lpc'[c] = "exit" => ldrdone'[c]
  BY DEF LoaderInv
<1>1. lpc'[c] = (IF lpc[c] = "none" THEN "none" ELSE "gone") /\ UNCHANGED <<ldrdone, started>>
  BY CrashType DEF Crash
<1> QED  BY <1>1 DEF LoaderInv

LEMMA LoaderStep ==
    TargetTypeOK /\ StepInv /\ LoaderInv /\ [ProcNext]_procVars => LoaderInv'
<1> SUFFICES ASSUME TargetTypeOK, StepInv, LoaderInv, [ProcNext]_procVars
             PROVE  LoaderInv'
  OBVIOUS
<1>0. blame # "none" => blame' # "none"
  BY BlameLasts
<1>1. CASE Client
  <2>1. op = "idle" /\ UNCHANGED loaders
    BY <1>1 DEF Client, Free, Alloc, Protect, Elf, FreeStub, Pause, Resume, Install, CallStub,
       MapCount, Asks, Idle
  <2> QED  BY <1>0, <2>1, QuietLoader
<1>2. CASE Kernel
  <2>1. CASE StartLoader
    <3>1. op = "fields" /\ Busy
      BY <2>1 DEF StartLoader, Busy, LoaderOps
    <3>2. /\ cmd \in Commands /\ lpc[cmd] = "none"
          /\ lpc \in [Commands -> {"none", "spawn", "flag", "exit", "gone"}]
      BY <3>1 DEF StepInv, TargetTypeOK
    <3>3. CASE lpc' = [lpc EXCEPT ![cmd] = "spawn"] /\ Goto("wait")
      BY <2>1, <3>1, <3>2, <3>3, <1>0 DEF StartLoader, Goto, LoaderInv
    <3>4. CASE UNCHANGED lpc
      <4>1. UNCHANGED loaders
        BY <2>1, <3>4 DEF StartLoader, loaders
      <4> QED  BY <1>0, <3>1, <4>1, QuietLoader
    <3> QED  BY <2>1, <3>3, <3>4 DEF StartLoader
  <2>2. CASE WaitDone
    <3>1. ldrdone[cmd] /\ UNCHANGED loaders /\ op = "wait"
      BY <2>2 DEF WaitDone
    <3> QED  BY <1>0, <3>1 DEF LoaderInv, loaders
  <2>3. CASE WriteStub \/ MapElf \/ ProtectMain \/ AllocatePage \/ AllocateStack \/ WriteLoader
              \/ FindLibkernel \/ FreePage \/ FreeStack \/ MapFill
    <3>1. op # "wait" /\ UNCHANGED loaders
      BY <2>3 DEF WriteStub, MapElf, ProtectMain, AllocatePage, AllocateStack, WriteLoader,
         FindLibkernel, FreePage, FreeStack, MapFill
    <3> QED  BY <1>0, <3>1, QuietLoader
  <2> QED  BY <1>2, <2>1, <2>2, <2>3 DEF Kernel
<1>3. CASE WaitFails
  <2>1. blame' # "none" /\ UNCHANGED loaders
    BY <1>3, Blamed DEF WaitFails
  <2> QED  BY <1>0, <2>1, QuietLoader
<1>4. CASE Target \/ StubFaults
  <2>1. CASE TargetMaps \/ TargetUnmaps
    BY <1>0, <2>1, QuietLoader DEF TargetMaps, TargetUnmaps, command
  <2> QED  BY <1>4, <2>1, CrashLoader DEF Target, StubFaults, TargetFaults, ImageFaults
<1>5. ASSUME NEW c \in Commands, Loader(c) PROVE LoaderInv'
  <2>1. CASE LoaderFaults(c)
    BY <2>1, CrashLoader DEF LoaderFaults
  <2> USE DEF TargetTypeOK
  <2>2. CASE LoaderSpawn(c)
    BY <1>0, <2>2 DEF LoaderSpawn, LoaderInv, command
  <2>3. CASE LoaderSetDone(c)
    BY <1>0, <2>3 DEF LoaderSetDone, LoaderInv, command
  <2>4. CASE LoaderExit(c)
    BY <1>0, <2>4 DEF LoaderExit, LoaderInv, command
  <2> QED  BY <1>5, <2>1, <2>2, <2>3, <2>4 DEF Loader
<1>6. CASE UNCHANGED cmdVars
  BY <1>0, <1>6, QuietLoader DEF cmdVars, command
<1> QED  BY <1>1, <1>2, <1>3, <1>4, <1>5, <1>6, CallsKeep DEF ProcNext

-----------------------------------------------------------------------------
\* What the target needs.

LEMMA ToldLasts ==
    ASSUME TargetTypeOK, [ProcNext]_procVars, blame = "told"
    PROVE  blame' = "told"
<1>0. \A b : Blames(b) = "told"
  BY DEF Blames
<1>1. ASSUME Client PROVE blame' = "told"
  BY <1>0, <1>1 DEF Client, Free, Alloc, Protect, Elf, FreeStub, Pause, Resume, Install, CallStub,
     MapCount
<1>2. ASSUME Kernel \/ WaitFails PROVE blame' = "told"
  BY <1>0, <1>2 DEF Kernel, WaitFails, WriteStub, MapElf, ProtectMain, AllocatePage,
     AllocateStack, WriteLoader, FindLibkernel, StartLoader, WaitDone, FreePage, FreeStack, MapFill
<1>3. ASSUME Target \/ StubFaults PROVE blame' = "told"
  BY <1>3 DEF Target, StubFaults, TargetMaps, TargetUnmaps, TargetFaults, ImageFaults
<1>4. ASSUME NEW c \in Commands, Loader(c) PROVE blame' = "told"
  BY <1>0, <1>4 DEF Loader, LoaderSpawn, LoaderSetDone, LoaderExit, LoaderFaults
<1>5. ASSUME UNCHANGED cmdVars PROVE blame' = "told"
  BY <1>5 DEF cmdVars
<1> QED  BY <1>1, <1>2, <1>3, <1>4, <1>5, CallsKeep DEF ProcNext

Vital == {"exec", "lib", "stub"}
VitalStays == \A p \in Pages : vm[p] \in Vital => vm'[p] = vm[p] /\ prot'[p] = prot[p]

LEMMA VitalGrown ==
    ASSUME NEW whose, NEW f, NEW k, Grows(whose, f, k)
    PROVE  VitalStays
BY DEF Grows, VitalStays, Vital

LEMMA VitalTaken ==
    ASSUME NEW whose, NEW f, Took(whose, f)
    PROVE  VitalStays
BY DEF Took, VitalStays, Vital

LEMMA VitalShrunk ==
    ASSUME NEW S, Shrinks(S), \A p \in S \cap Pages : vm[p] \notin Vital
    PROVE  VitalStays
BY DEF Shrinks, VitalStays, Vital

LEMMA VitalSame == UNCHANGED <<vm, prot>> => VitalStays
BY DEF VitalStays

Installs == Busy /\ cmd = "install"
StubNeeded == lpc["install"] # "none" \/ Installs

LEMMA StubPlace ==
    ASSUME TargetTypeOK
    PROVE  at["stub"] \in Pages \cup {0} /\ stubAt \in Pages \cup {0} /\ stubAt \in Int
<1>1. at["stub"] \in 0..(Top - 1) /\ stubAt \in 0..(Top - 1)
  BY Names DEF TargetTypeOK
<1> QED  BY <1>1, Sizes DEF Pages

LEMMA QuietBlame ==
    ASSUME TargetTypeOK, BlameInv, VitalStays,
           blame # "none" => blame' # "none", blame = "told" => blame' = "told",
           blame' = "none" => (target' = "crashed" => target = "crashed") /\ (whole => whole'),
           at'["stub"] = at["stub"], UNCHANGED stubAt, Installs' => Installs,
           StubNeeded' => StubNeeded
    PROVE  BlameInv'
<1>1. ExecPage \in Pages /\ LibPage \in Pages
  BY Sizes
<1>2. /\ at["stub"] # 0 => at["stub"] \in Pages
      /\ stubAt # 0 => stubAt \in Pages
  BY StubPlace
<1>3. blame' = "none" =>
          target' # "crashed" /\ whole' /\ vm'[ExecPage] = "exec" /\ vm'[LibPage] = "lib"
  BY <1>1 DEF BlameInv, VitalStays, Vital
<1>4. blame' = "none" /\ StubNeeded' =>
          at["stub"] # 0 /\ vm'[at["stub"]] = "stub" /\ prot'[at["stub"]] = "rwx"
  BY <1>2 DEF BlameInv, VitalStays, Vital, StubNeeded, Installs
<1>5. blame' # "told" /\ Installs' => at["stub"] # 0 /\ vm'[at["stub"]] = "stub"
  BY <1>2 DEF BlameInv, VitalStays, Vital, Installs
<1>6. blame' # "told" /\ stubAt # 0 => vm'[stubAt] = "stub"
  BY <1>2 DEF BlameInv, VitalStays, Vital
<1> QED  BY <1>3, <1>4, <1>5, <1>6 DEF BlameInv, StubNeeded, Installs

LEMMA ToldBlames == TargetTypeOK /\ blame' = "told" => BlameInv'
BY DEF BlameInv

LEMMA ClientBlame ==
    TargetTypeOK /\ BlameInv /\ Client
        /\ (blame # "none" => blame' # "none") /\ (blame = "told" => blame' = "told") => BlameInv'
<1> SUFFICES ASSUME TargetTypeOK, BlameInv, Client,
                    blame # "none" => blame' # "none", blame = "told" => blame' = "told"
             PROVE  BlameInv'
  OBVIOUS
<1>1. ASSUME op' \in {"idle", "fill"} \/ cmd' = "elf", lpc' = lpc
      PROVE  ~ Installs' /\ (StubNeeded' => StubNeeded)
  BY <1>1 DEF Installs, StubNeeded, Busy, LoaderOps
<1>2. ASSUME NEW a \in Allocs, NEW len \in Lengths, Alloc(a, len) PROVE BlameInv'
  <2>1. VitalStays
    BY <1>2, PlacedGrows, VitalGrown, Names DEF Alloc
  <2> QED  BY <1>1, <1>2, <2>1, QuietBlame DEF Alloc, Asks, Idle, loaders
<1>3. ASSUME NEW a \in Allocs, Free(a) PROVE BlameInv'
  <2>1. CASE \E p \in Pages : vm[p] # vm'[p] /\ vm[p] # a
    BY <1>3, <2>1, ToldBlames DEF Free, Blames
  <2>2. CASE ~ \E p \in Pages : vm[p] # vm'[p] /\ vm[p] # a
    <3>1. PICK S : Shrinks(S)
      BY <1>3, DeletedShrinks DEF Free
    <3>2. VitalStays
      BY <2>2, <3>1, Names DEF Shrinks, VitalStays, Vital
    <3> QED  BY <1>1, <1>3, <3>2, QuietBlame DEF Free, Asks, Idle, loaders
  <2> QED  BY <2>1, <2>2
<1>4. CASE FreeStub
  <2>1. blame' # "none" /\ stubAt' = 0 /\ ~ Installs'
    BY <1>1, <1>4, Blamed DEF FreeStub, Asks, Idle, loaders
  <2> QED  BY <2>1 DEF BlameInv, Installs
<1>5. ASSUME NEW p \in Pages, NEW q \in {"rx", "rwx"}, Protect(p, q) PROVE BlameInv'
  <2>1. /\ ~ Installs' /\ (StubNeeded' => StubNeeded)
        /\ UNCHANGED <<vm, target, whole, at, stubAt>>
    BY <1>1, <1>5 DEF Protect, Asks, Idle, loaders
  <2>2. CASE p = stubAt
    <3>1. blame' # "none"
      BY <1>5, <2>2, Blamed DEF Protect
    <3> QED  BY <2>1, <3>1 DEF BlameInv, Installs
  <2>3. CASE p # stubAt
    <3>1. /\ blame' = blame /\ p = LibPage
          /\ \A r \in Pages : r # LibPage => prot'[r] = prot[r]
      BY <1>5, <2>3, ProtectedType DEF Protect
    <3>2. at["stub"] \in Pages \cup {0}
      BY StubPlace
    <3>3. blame = "none" /\ StubNeeded => prot'[at["stub"]] = prot[at["stub"]]
      <4>1. blame = "none" /\ StubNeeded => at["stub"] # LibPage /\ at["stub"] # 0
        BY DEF BlameInv, StubNeeded, Installs
      <4> QED  BY <3>1, <3>2, <4>1
    <3> QED  BY <2>1, <3>1, <3>3 DEF BlameInv, StubNeeded, Installs
  <2> QED  BY <2>2, <2>3
<1>6. CASE Pause \/ Resume
  BY <1>1, <1>6, VitalSame, QuietBlame DEF Pause, Resume, Asks, Idle, loaders
<1>7. CASE CallStub \/ MapCount
  BY <1>1, <1>7, VitalSame, QuietBlame DEF CallStub, MapCount, Asks, Idle, target_, loaders
<1>8. CASE Install
  <2> DEFINE f == FirstGap(1)
  <2>1. Took("stub", f)
    BY <1>8, PlacedTakes, Names DEF Install
  <2>2. at'["stub"] = f
    BY <1>8, Names DEF Install, TargetTypeOK
  <2>3. VitalStays
    BY <2>1, VitalTaken
  <2> HIDE DEF f
  <2>4. f # 0 /\ vm'[f] = "stub" /\ prot'[f] = "rwx" /\ ExecPage \in Pages /\ LibPage \in Pages
    BY <2>1, Sizes DEF Took
  <2>5. UNCHANGED <<target, whole, stubAt, blame>> /\ stubAt = 0
    BY <1>8 DEF Install
  <2> QED  BY <2>2, <2>3, <2>4, <2>5 DEF BlameInv, VitalStays, Vital
<1>9. ASSUME NEW e \in Elfs, Elf(e) PROVE BlameInv'
  <2>1. VitalStays
    BY <1>9, PlacedGrows, VitalGrown, Names DEF Elf
  <2> QED  BY <1>1, <1>9, <2>1, QuietBlame DEF Elf, Asks, loaders
<1> QED  BY <1>2, <1>3, <1>4, <1>5, <1>6, <1>7, <1>8, <1>9 DEF Client

LEMMA KernelBlame ==
    TargetTypeOK /\ StepInv /\ PlaceInv /\ BlameInv /\ (Kernel \/ WaitFails)
        /\ (blame # "none" => blame' # "none") /\ (blame = "told" => blame' = "told") => BlameInv'
<1> SUFFICES ASSUME TargetTypeOK, StepInv, PlaceInv, BlameInv, Kernel \/ WaitFails,
                    blame # "none" => blame' # "none", blame = "told" => blame' = "told"
             PROVE  BlameInv'
  OBVIOUS
<1>0. ASSUME Busy, cmd' = cmd PROVE Installs' => Installs
  BY <1>0 DEF Installs
<1>1. ASSUME Busy, cmd' = cmd, lpc' = lpc PROVE StubNeeded' => StubNeeded
  BY <1>0, <1>1 DEF StubNeeded
<1>2. CASE WriteStub \/ WriteLoader \/ FindLibkernel \/ WaitDone \/ WaitFails
  <2>1. Busy /\ cmd' = cmd /\ UNCHANGED <<vm, prot, target, whole, at, stubAt, lpc>>
    BY <1>2 DEF WriteStub, WriteLoader, FindLibkernel, WaitDone, WaitFails, Goto, Error, Fail,
       target_, loaders, Busy, LoaderOps
  <2> QED  BY <1>0, <1>1, <2>1, VitalSame, QuietBlame
<1>3. CASE MapElf
  <2>1. Busy /\ cmd' = cmd /\ UNCHANGED <<vm, prot, target, at, stubAt, lpc>>
    BY <1>3 DEF MapElf, Goto, target_, loaders, Busy
  <2>2. whole' \/ blame' # "none"
    BY <1>3, Blamed DEF MapElf
  <2> QED  BY <1>0, <1>1, <2>1, <2>2, VitalSame, QuietBlame
<1>4. CASE ProtectMain
  <2>1. Busy /\ cmd' = cmd /\ UNCHANGED <<vm, target, whole, at, stubAt, lpc, blame>>
    BY <1>4 DEF ProtectMain, Goto, loaders, Busy
  <2>2. \A p \in Pages : p # ExecPage => prot'[p] = prot[p]
    BY <1>4, ProtectedType, Sizes DEF ProtectMain
  <2>3. (Installs' => Installs) /\ (StubNeeded' => StubNeeded)
    BY <1>0, <1>1, <2>1
  <2>4. blame = "none" /\ StubNeeded => prot'[at["stub"]] = prot[at["stub"]]
    <3>1. blame = "none" /\ StubNeeded => at["stub"] # ExecPage /\ at["stub"] # 0
      BY DEF BlameInv, StubNeeded, Installs
    <3> QED  BY <2>2, <3>1, StubPlace
  <2> QED  BY <2>1, <2>3, <2>4 DEF BlameInv, StubNeeded, Installs
<1>5. ASSUME Busy PROVE cmd \in Commands /\ cmd \in Holds \ {"free"} /\ cmd \notin Vital
                        /\ cmd # "stub" /\ Stack # "stub" /\ Stack = StackOf(cmd)
  BY <1>5, Names DEF StepInv, Vital, Stack
<1>6. CASE AllocatePage \/ AllocateStack
  <2>1. Busy /\ cmd' = cmd /\ UNCHANGED <<target, whole, stubAt, lpc, blame>>
    BY <1>6 DEF AllocatePage, AllocateStack, Allocate, Goto, Error, loaders, Busy, LoaderOps
  <2>2. VitalStays
    <3>1. CASE UNCHANGED <<vm, prot>>
      BY <3>1, VitalSame
    <3>2. CASE Placed(1, cmd)
      BY <1>5, <2>1, <3>2, PlacedTakes, VitalTaken
    <3> QED  BY <1>6, <3>1, <3>2 DEF AllocatePage, AllocateStack, Allocate, Keeps
  <2>3. at'["stub"] = at["stub"]
    <3>1. "stub" \in Places /\ cmd # "stub" /\ Stack # "stub"
      BY <1>5, <2>1, Names
    <3> QED  BY <1>6, <3>1 DEF AllocatePage, AllocateStack, Allocate, Keeps, TargetTypeOK
  <2> QED  BY <1>0, <1>1, <2>1, <2>2, <2>3, QuietBlame
<1>7. CASE StartLoader
  <2>1. /\ Busy /\ cmd' = cmd /\ UNCHANGED <<vm, prot, target, whole, at, stubAt>>
        /\ Installs' = Installs
    BY <1>7 DEF StartLoader, Goto, Error, target_, Busy, LoaderOps, Installs
  <2>2. StubNeeded' => StubNeeded
    <3>1. CASE cmd = "install"
      BY <2>1, <3>1 DEF StubNeeded, Installs
    <3>2. CASE cmd # "install"
      <4>1. lpc'["install"] = lpc["install"]
        BY <1>7, <3>2, Names DEF StartLoader, TargetTypeOK
      <4> QED  BY <2>1, <4>1 DEF StubNeeded
    <3> QED  BY <3>1, <3>2
  <2> QED  BY <2>1, <2>2, VitalSame, QuietBlame
<1>8. CASE FreePage
  <2>1. Busy /\ cmd' = cmd /\ UNCHANGED <<target, whole, stubAt, lpc, blame>>
    BY <1>8 DEF FreePage, Goto, loaders, Busy, LoaderOps
  <2>2. Shrinks({at[cmd]})
    <3>1. Deleted(at[cmd], 1)
      BY <1>8 DEF FreePage
    <3> QED  BY <1>5, <2>1, <3>1, DeletedOne, PlaceDomain
  <2>3. VitalStays
    BY <1>5, <2>1, <2>2, VitalShrunk, Sizes DEF PlaceInv
  <2>4. at'["stub"] = at["stub"]
    BY <1>5, <1>8, <2>1 DEF FreePage, TargetTypeOK
  <2> QED  BY <1>0, <1>1, <2>1, <2>3, <2>4, QuietBlame
<1>9. CASE FreeStack
  <2>1. Busy /\ op' = "idle" /\ UNCHANGED <<target, whole, lpc, blame>>
    BY <1>9 DEF FreeStack, Goto, loaders, Busy, LoaderOps
  <2>2. Shrinks({at[Stack]})
    <3>1. Deleted(at[Stack], 1)
      BY <1>9 DEF FreeStack
    <3> QED  BY <1>5, <2>1, <3>1, DeletedOne, PlaceDomain
  <2>3. VitalStays
    BY <1>5, <2>1, <2>2, VitalShrunk, Sizes DEF PlaceInv
  <2>4. at'["stub"] = at["stub"]
    BY <1>5, <1>9, <2>1 DEF FreeStack, TargetTypeOK
  <2>5. stubAt' = stubAt \/ (Installs /\ stubAt' = at["stub"])
    BY <1>9, <2>1 DEF FreeStack, Installs
  <2>6. blame # "told" /\ stubAt' # 0 => stubAt' \in Pages /\ vm[stubAt'] = "stub"
    <3>1. CASE stubAt' = stubAt
      BY <3>1, StubPlace DEF BlameInv
    <3>2. CASE Installs /\ stubAt' = at["stub"]
      BY <3>2, StubPlace DEF BlameInv, Installs
    <3> QED  BY <2>5, <3>1, <3>2
  <2>7. ~ Installs' /\ (StubNeeded' => StubNeeded)
    BY <2>1 DEF Installs, StubNeeded, Busy, LoaderOps
  <2>8. blame = "none" =>
            target # "crashed" /\ whole /\ vm'[ExecPage] = "exec" /\ vm'[LibPage] = "lib"
    BY <2>3, Sizes DEF BlameInv, VitalStays, Vital
  <2>9. blame = "none" /\ StubNeeded =>
            at["stub"] # 0 /\ vm'[at["stub"]] = "stub" /\ prot'[at["stub"]] = "rwx"
    BY <2>3, StubPlace DEF BlameInv, VitalStays, Vital, StubNeeded, Installs
  <2>10. blame # "told" /\ stubAt' # 0 => vm'[stubAt'] = "stub"
    BY <2>3, <2>6 DEF VitalStays, Vital
  <2> QED  BY <2>1, <2>4, <2>7, <2>8, <2>9, <2>10 DEF BlameInv, StubNeeded, Installs
<1>10. CASE MapFill
  <2>1. UNCHANGED <<vm, prot, target, whole, at, stubAt, lpc>> /\ op' = "idle"
    BY <1>10 DEF MapFill, Goto, target_, loaders
  <2>2. ~ Installs' /\ (StubNeeded' => StubNeeded)
    BY <2>1 DEF Installs, StubNeeded, Busy, LoaderOps
  <2> QED  BY <2>1, <2>2, VitalSame, QuietBlame
<1> QED  BY <1>2, <1>3, <1>4, <1>6, <1>7, <1>8, <1>9, <1>10 DEF Kernel

\* A thread faults only with something to blame.
LEMMA CrashBlame ==
    TargetTypeOK /\ BlameInv /\ Crash /\ blame' # "none"
        /\ (blame = "told" => blame' = "told") => BlameInv'
<1> SUFFICES ASSUME TargetTypeOK, BlameInv, Crash, blame' # "none",
                    blame = "told" => blame' = "told"
             PROVE  BlameInv'
  OBVIOUS
<1>1. UNCHANGED <<vm, at, stubAt, op, cmd>>
  BY DEF Crash, command
<1>2. Installs' => Installs
  BY <1>1 DEF Installs, Busy
<1> QED  BY <1>1, <1>2 DEF BlameInv, Installs

LEMMA ThreadBlame ==
    TargetTypeOK /\ PlaceInv /\ LoaderInv /\ BlameInv
        /\ (Target \/ StubFaults \/ \E c \in Commands : Loader(c))
        /\ (blame # "none" => blame' # "none") /\ (blame = "told" => blame' = "told") => BlameInv'
<1> SUFFICES ASSUME TargetTypeOK, PlaceInv, LoaderInv, BlameInv,
                    Target \/ StubFaults \/ \E c \in Commands : Loader(c),
                    blame # "none" => blame' # "none", blame = "told" => blame' = "told"
             PROVE  BlameInv'
  OBVIOUS
<1>1. ASSUME UNCHANGED <<target, loaders, command>>, VitalStays PROVE BlameInv'
  <2>1. (Installs' => Installs) /\ (StubNeeded' => StubNeeded)
    BY <1>1 DEF Installs, StubNeeded, Busy, loaders, command
  <2> QED  BY <1>1, <2>1, QuietBlame DEF command
<1>2. CASE TargetMaps
  <2>1. VitalStays
    BY <1>2, PlacedTakes, VitalTaken, Names DEF TargetMaps
  <2> QED  BY <1>1, <1>2, <2>1 DEF TargetMaps
<1>3. CASE TargetUnmaps
  <2>1. PICK p \in Pages : vm[p] = "own" /\ Deleted(p, 1)
    BY <1>3 DEF TargetUnmaps
  <2>2. Shrinks({p})
    BY <2>1, DeletedOne, Sizes
  <2>3. VitalStays
    BY <2>1, <2>2, VitalShrunk DEF Vital
  <2> QED  BY <1>1, <1>3, <2>3 DEF TargetUnmaps
<1>4. CASE TargetFaults \/ ImageFaults
  <2>1. blame # "none"
    BY <1>4 DEF TargetFaults, ImageFaults, BlameInv
  <2> QED  BY <1>4, <2>1, CrashBlame DEF TargetFaults, ImageFaults
<1>5. CASE StubFaults
  <2>1. "install" \in started /\ (~ StubMapped \/ ~ StubWritable)
    BY <1>5 DEF StubFaults, StubRuns
  <2>2. lpc["install"] # "none"
    BY <2>1, Names DEF LoaderInv
  <2>3. blame # "none"
    BY <2>1, <2>2 DEF BlameInv, StubMapped, StubWritable, AtPlace
  <2> QED  BY <1>5, <2>3, CrashBlame DEF StubFaults
<1>6. ASSUME NEW c \in Commands, Loader(c) PROVE BlameInv'
  <2>1. CASE LoaderFaults(c)
    <3>1. blame' # "none"
      <4>1. CASE lpc[c] = "exit"
        BY <2>1, <4>1, Blamed DEF LoaderFaults, LoaderInv
      <4>2. CASE lpc[c] \in {"spawn", "flag"}
        <5>1. op = "wait" /\ cmd = c => Mapped(c)
          BY DEF PlaceInv, Mapped, AtPlace
        <5>2. blame # "none"
          BY <2>1, <4>2, <5>1 DEF LoaderFaults, LoaderInv
        <5> QED  BY <5>2
      <4> QED  BY <2>1, <4>1, <4>2 DEF LoaderFaults, Loads
    <3> QED  BY <2>1, <3>1, CrashBlame DEF LoaderFaults
  <2>2. CASE LoaderSpawn(c) \/ LoaderSetDone(c) \/ LoaderExit(c)
    <3>1. UNCHANGED <<vm, prot, target, whole, at, stubAt, op, cmd>>
      BY <2>2 DEF LoaderSpawn, LoaderSetDone, LoaderExit, target_, command
    <3>2. lpc'["install"] # "none" => lpc["install"] # "none"
      BY <2>2, Names DEF LoaderSpawn, LoaderSetDone, LoaderExit, TargetTypeOK
    <3>3. (Installs' => Installs) /\ (StubNeeded' => StubNeeded)
      BY <3>1, <3>2 DEF Installs, StubNeeded, Busy
    <3> QED  BY <3>1, <3>3, VitalSame, QuietBlame
  <2> QED  BY <1>6, <2>1, <2>2 DEF Loader
<1> QED  BY <1>2, <1>3, <1>4, <1>5, <1>6 DEF Target

LEMMA BlameKept == TargetTypeOK /\ BlameInv /\ UNCHANGED cmdVars => BlameInv'
BY DEF BlameInv, Busy, cmdVars, target_, command, loaders

LEMMA BlameStep ==
    TargetTypeOK /\ StepInv /\ PlaceInv /\ LoaderInv /\ BlameInv /\ [ProcNext]_procVars => BlameInv'
BY ClientBlame, KernelBlame, ThreadBlame, CallsKeep, BlameKept, BlameLasts, ToldLasts DEF ProcNext

-----------------------------------------------------------------------------
\* The client's allocations.

LEMMA NotTold ==
    ASSUME TargetTypeOK, [ProcNext]_procVars, \A a \in Allocs : ~ Free(a), blame # "told"
    PROVE  blame' # "told"
<1>0. \A b : b # "told" => Blames(b) # "told"
  BY DEF Blames
<1>1. ASSUME Client PROVE blame' # "told"
  BY <1>0, <1>1 DEF Client, Alloc, Protect, Elf, FreeStub, Pause, Resume, Install, CallStub,
     MapCount
<1>2. ASSUME Kernel \/ WaitFails PROVE blame' # "told"
  BY <1>0, <1>2 DEF Kernel, WaitFails, WriteStub, MapElf, ProtectMain, AllocatePage,
     AllocateStack, WriteLoader, FindLibkernel, StartLoader, WaitDone, FreePage, FreeStack, MapFill
<1>3. ASSUME Target \/ StubFaults PROVE blame' # "told"
  BY <1>3 DEF Target, StubFaults, TargetMaps, TargetUnmaps, TargetFaults, ImageFaults
<1>4. ASSUME NEW c \in Commands, Loader(c) PROVE blame' # "told"
  BY <1>0, <1>4 DEF Loader, LoaderSpawn, LoaderSetDone, LoaderExit, LoaderFaults
<1>5. ASSUME UNCHANGED cmdVars PROVE blame' # "told"
  BY <1>5 DEF cmdVars
<1> QED  BY <1>1, <1>2, <1>3, <1>4, <1>5, CallsKeep DEF ProcNext

LEMMA GivenPages ==
    ASSUME NEW f \in Nat, f # 0, NEW k \in Nat, f + k <= Top
    PROVE  Span(f, k) \subseteq Pages
BY Sizes DEF Span, Pages

LEMMA ToldRight ==
    ASSUME NEW f \in Nat, f < Half
    PROVE  Told(f) = f
<1>1. Word \in Nat /\ f < Word
  BY Sizes DEF Word
<1>2. f % Word = f
  BY <1>1
<1> QED  BY <1>2 DEF Told

LEMMA AllocType ==
    ASSUME AllocInv, NEW a \in Allocs
    PROVE  /\ alloc[a].page \in Nat /\ alloc[a].page \in 0..(Top - 1) /\ alloc[a].length \in Nat
           /\ alloc[a].state \in {"none", "held", "freed"}
           /\ PagesOf(alloc[a].length) \in Nat
<1>1. alloc[a] \in Allocation
  BY DEF AllocInv
<1>2. alloc[a].page \in 0..(Top - 1) /\ alloc[a].length \in Nat
      /\ alloc[a].state \in {"none", "held", "freed"}
  BY <1>1 DEF Allocation
<1> QED  BY <1>2, PageCount, Sizes

\* No page becomes a client's, and none stops being one -- unless it was told amiss.
AllocsKeep ==
    \A a \in Allocs, p \in Pages :
        /\ vm'[p] = a => vm[p] = a
        /\ blame # "told" => (vm[p] = a => vm'[p] = a)

LEMMA QuietAllocs ==
    ASSUME AllocInv, UNCHANGED alloc, AllocsKeep, blame' = "told" <=> blame = "told"
    PROVE  AllocInv'
<1>1. \A a \in Allocs : alloc[a].state # "none" =>
          Span(alloc[a].page, PagesOf(alloc[a].length)) \subseteq Pages
  BY AllocType, GivenPages DEF AllocInv
<1> QED  BY <1>1 DEF AllocInv, AllocsKeep

LEMMA AllocsGrown ==
    ASSUME NEW whose \in Holds \ Allocs, NEW f, NEW k, Grows(whose, f, k)
    PROVE  AllocsKeep
BY Names DEF Grows, AllocsKeep

LEMMA AllocsTaken ==
    ASSUME NEW whose \in Holds \ Allocs, NEW f, Took(whose, f)
    PROVE  AllocsKeep
BY Names DEF Took, AllocsKeep

LEMMA AllocsShrunk ==
    ASSUME NEW S, Shrinks(S), blame # "told" => \A p \in S \cap Pages : vm[p] \notin Allocs
    PROVE  AllocsKeep
BY Names DEF Shrinks, AllocsKeep

LEMMA AllocsSame == UNCHANGED vm => AllocsKeep
BY DEF AllocsKeep

LEMMA AllocHeld ==
    ASSUME TargetTypeOK, AllocInv, NEW a \in Allocs, NEW len \in Lengths, Alloc(a, len)
    PROVE  AllocInv'
<1> DEFINE k == PagesOf(len)
           f == FirstGap(k)
<1>1. Grows(a, f, k)
  BY PlacedGrows, Names DEF Alloc
<1>2. /\ alloc[a].state = "none" /\ blame' = blame
      /\ alloc' = [alloc EXCEPT ![a] = [page |-> f, length |-> len, state |-> "held"]]
  BY DEF Alloc
<1>3. k \in Nat /\ k = PagesOf(len) /\ len \in Nat
  BY PageCount, Sizes
<1> HIDE DEF k, f
<1>4. f \in Nat /\ f \in 0..(Top - 1) /\ f # 0 /\ f + k <= Top
  BY <1>1, Sizes DEF Grows
<1>5. [page |-> f, length |-> len, state |-> "held"] \in Allocation
  BY <1>3, <1>4 DEF Allocation
<1>6. alloc' \in [Allocs -> Allocation]
  BY <1>2, <1>5 DEF AllocInv
<1>7. /\ alloc'[a].page = f /\ alloc'[a].length = len /\ alloc'[a].state = "held"
      /\ \A b \in Allocs \ {a} : alloc'[b] = alloc[b]
  BY <1>2 DEF AllocInv
<1>8. \A b \in Allocs \ {a}, p \in Pages : vm'[p] = b <=> vm[p] = b
  BY <1>1, Names DEF Grows
<1>9. \A p \in Pages : vm'[p] = a <=> p \in Span(f, k)
  <2>1. \A p \in Pages : vm[p] # a
    BY <1>2 DEF AllocInv
  <2> QED  BY <1>1, <2>1 DEF Grows
<1>10. Span(f, k) \subseteq Pages
  BY <1>3, <1>4, GivenPages
<1>11. ASSUME NEW b \in Allocs
       PROVE  /\ alloc'[b].state # "none" =>
                    alloc'[b].page # 0 /\ alloc'[b].page + PagesOf(alloc'[b].length) <= Top
              /\ alloc'[b].state = "none" => alloc'[b].page = 0
              /\ \A p \in Pages : vm'[p] = b =>
                    /\ alloc'[b].state # "none"
                    /\ p \in Span(alloc'[b].page, PagesOf(alloc'[b].length))
              /\ alloc'[b].state = "held" /\ blame' # "told" =>
                    \A p \in Span(alloc'[b].page, PagesOf(alloc'[b].length)) : vm'[p] = b
              /\ alloc'[b].state = "freed" =>
                    alloc'[b].page >= Half \/ \A p \in Pages : vm'[p] # b
  <2>1. CASE b = a
    BY <1>3, <1>4, <1>7, <1>9, <1>10, <2>1
  <2>2. CASE b # a
    <3>1. alloc[b].state # "none" =>
              Span(alloc[b].page, PagesOf(alloc[b].length)) \subseteq Pages
      BY AllocType, GivenPages DEF AllocInv
    <3>2. alloc'[b] = alloc[b] /\ \A p \in Pages : vm'[p] = b <=> vm[p] = b
      BY <1>7, <1>8, <2>2
    <3> QED  BY <1>2, <3>1, <3>2 DEF AllocInv
  <2> QED  BY <2>1, <2>2
<1>12. blame' = "told" => \E b \in Allocs : alloc'[b].page >= Half
  <2>1. ~ (alloc[a].page >= Half)
    BY <1>2, Sizes DEF AllocInv
  <2>2. blame' = "told" => \E b \in Allocs \ {a} : alloc[b].page >= Half
    BY <1>2, <2>1 DEF AllocInv
  <2> QED  BY <1>7, <2>2
<1> QED  BY <1>6, <1>11, <1>12 DEF AllocInv

LEMMA AllocFreed ==
    ASSUME TargetTypeOK, AllocInv, NEW a \in Allocs, Free(a), blame = "told" => blame' = "told"
    PROVE  AllocInv'
<1> DEFINE f == alloc[a].page
           k == PagesOf(alloc[a].length)
<1>1. alloc[a].state = "held" /\ alloc' = [alloc EXCEPT ![a].state = "freed"]
  BY DEF Free
<1>2. Shrinks(Span(Told(f), k))
  BY DeletedShrinks DEF Free
<1>3. /\ (\E p \in Pages : vm[p] # vm'[p] /\ vm[p] # a) => blame' = "told"
      /\ ~ (\E p \in Pages : vm[p] # vm'[p] /\ vm[p] # a) => blame' = blame
  BY DEF Free, Blames
<1>4. f \in Nat /\ k \in Nat /\ f # 0 /\ f + k <= Top /\ Span(f, k) \subseteq Pages
  <2>1. f \in Nat /\ k \in Nat /\ f # 0 /\ f + k <= Top
    BY <1>1, AllocType DEF AllocInv
  <2> QED  BY <2>1, GivenPages
<1>5. \A b \in Allocs, p \in Pages : vm'[p] = b => vm[p] = b
  BY <1>2, Names DEF Shrinks
<1>6. f < Half => Shrinks(Span(f, k))
  BY <1>2, <1>4, ToldRight
<1>7. \A b \in Allocs : alloc'[b].page = alloc[b].page /\ alloc'[b].length = alloc[b].length
  BY <1>1 DEF AllocInv, Allocation
<1>8. alloc'[a].state = "freed" /\ \A b \in Allocs \ {a} : alloc'[b] = alloc[b]
  BY <1>1 DEF AllocInv, Allocation
<1>9. alloc' \in [Allocs -> Allocation]
  <2>1. alloc \in [Allocs -> Allocation]
    BY DEF AllocInv
  <2>2. [alloc[a] EXCEPT !.state = "freed"] \in Allocation
    BY <2>1 DEF Allocation
  <2> QED  BY <1>1, <2>1, <2>2
<1>10. \A p \in Pages : vm[p] = a => p \in Span(f, k)
  BY DEF AllocInv
<1>11. blame # "told" => \A p \in Span(f, k) : vm[p] = a
  BY <1>1 DEF AllocInv
<1> HIDE DEF f, k
<1>12. blame' = "told" => \E b \in Allocs : alloc'[b].page >= Half
  <2>1. CASE blame = "told"
    BY <1>7, <2>1 DEF AllocInv
  <2>2. CASE blame # "told" /\ f < Half
    <3>1. \A p \in Pages : vm[p] # vm'[p] => vm[p] = a
      BY <1>4, <1>6, <1>11, <2>2 DEF Shrinks
    <3> QED  BY <1>3, <2>2, <3>1
  <2>3. CASE f >= Half
    BY <1>7, <2>3 DEF f
  <2> QED  BY <1>4, <2>1, <2>2, <2>3, Sizes
<1>13. blame' # "told" =>
           blame # "told" /\ \A b \in Allocs \ {a}, p \in Pages : vm[p] = b => vm'[p] = b
  BY <1>3
<1>14. ASSUME NEW b \in Allocs
       PROVE  /\ alloc'[b].state # "none" =>
                    alloc'[b].page # 0 /\ alloc'[b].page + PagesOf(alloc'[b].length) <= Top
              /\ alloc'[b].state = "none" => alloc'[b].page = 0
              /\ \A p \in Pages : vm'[p] = b =>
                    /\ alloc'[b].state # "none"
                    /\ p \in Span(alloc'[b].page, PagesOf(alloc'[b].length))
              /\ alloc'[b].state = "held" /\ blame' # "told" =>
                    \A p \in Span(alloc'[b].page, PagesOf(alloc'[b].length)) : vm'[p] = b
              /\ alloc'[b].state = "freed" =>
                    alloc'[b].page >= Half \/ \A p \in Pages : vm'[p] # b
  <2>1. CASE b = a
    <3>1. alloc'[a].page = f /\ PagesOf(alloc'[a].length) = k
      BY <1>7 DEF f, k
    <3>2. \A p \in Pages : vm'[p] = a => p \in Span(f, k)
      BY <1>5, <1>10
    <3>3. f < Half => \A p \in Pages : vm'[p] # a
      BY <1>6, <3>2, Names DEF Shrinks
    <3>4. f >= Half \/ \A p \in Pages : vm'[p] # a
      BY <1>4, <3>3, Sizes
    <3> QED  BY <1>4, <1>8, <2>1, <3>1, <3>2, <3>4
  <2>2. CASE b # a
    <3>1. alloc[b].state # "none" =>
              Span(alloc[b].page, PagesOf(alloc[b].length)) \subseteq Pages
      BY AllocType, GivenPages DEF AllocInv
    <3>2. alloc'[b] = alloc[b]
      BY <1>8, <2>2
    <3>3. \A p \in Pages : vm'[p] = b => vm[p] = b
      BY <1>5
    <3>4. blame' # "told" => blame # "told" /\ \A p \in Pages : vm[p] = b => vm'[p] = b
      BY <1>13, <2>2
    <3> QED  BY <3>1, <3>2, <3>3, <3>4 DEF AllocInv
  <2> QED  BY <2>1, <2>2
<1> QED  BY <1>9, <1>12, <1>14 DEF AllocInv

LEMMA OtherAllocs ==
    ASSUME TargetTypeOK, StepInv, PlaceInv, BlameInv, [ProcNext]_procVars,
           \A a \in Allocs : ~ Free(a) /\ \A len \in Lengths : ~ Alloc(a, len)
    PROVE  UNCHANGED alloc /\ AllocsKeep
<1>1. CASE Client
  <2>1. ASSUME NEW p \in Pages, NEW q \in {"rx", "rwx"}, Protect(p, q)
        PROVE  UNCHANGED alloc /\ AllocsKeep
    BY <2>1, AllocsSame DEF Protect
  <2>2. CASE Pause \/ Resume \/ CallStub \/ MapCount
    BY <2>2, AllocsSame DEF Pause, Resume, CallStub, MapCount, target_
  <2>3. ASSUME NEW e \in Elfs, Elf(e) PROVE UNCHANGED alloc /\ AllocsKeep
    BY <2>3, PlacedGrows, AllocsGrown, Names DEF Elf
  <2>4. CASE Install
    BY <2>4, PlacedTakes, AllocsTaken, Names DEF Install
  <2>5. CASE FreeStub
    <3>1. Deleted(stubAt, 1) /\ stubAt # 0 /\ UNCHANGED alloc
      BY <2>5 DEF FreeStub
    <3>2. Shrinks({stubAt})
      BY <3>1, DeletedOne, StubPlace
    <3>3. blame # "told" => \A p \in {stubAt} \cap Pages : vm[p] \notin Allocs
      BY <3>1, Names DEF BlameInv
    <3> QED  BY <3>1, <3>2, <3>3, AllocsShrunk
  <2> QED  BY <1>1, <2>1, <2>2, <2>3, <2>4, <2>5 DEF Client
<1>2. CASE Kernel \/ WaitFails
  <2>1. CASE WriteStub \/ MapElf \/ ProtectMain \/ WriteLoader \/ FindLibkernel \/ StartLoader
              \/ WaitDone \/ WaitFails \/ MapFill
    BY <2>1, AllocsSame DEF WriteStub, MapElf, ProtectMain, WriteLoader, FindLibkernel, StartLoader,
       WaitDone, WaitFails, MapFill, target_
  <2>2. ASSUME Busy PROVE cmd \in Commands /\ cmd \in Holds \ Allocs /\ cmd \in Holds \ {"free"}
                          /\ Stack = StackOf(cmd)
    BY <2>2, Names DEF StepInv, Stack
  <2>3. CASE AllocatePage \/ AllocateStack
    <3>1. Busy /\ UNCHANGED alloc /\ (UNCHANGED vm \/ Placed(1, cmd))
      BY <2>3 DEF AllocatePage, AllocateStack, Allocate, Keeps, Busy, LoaderOps
    <3> QED  BY <2>2, <3>1, PlacedTakes, AllocsTaken, AllocsSame
  <2>4. CASE FreePage
    <3>1. Deleted(at[cmd], 1) /\ UNCHANGED alloc /\ Busy
      BY <2>4 DEF FreePage, Busy, LoaderOps
    <3>2. Shrinks({at[cmd]})
      BY <2>2, <3>1, DeletedOne, PlaceDomain
    <3>3. \A p \in {at[cmd]} \cap Pages : vm[p] \notin Allocs
      BY <2>2, <3>1, Sizes DEF PlaceInv
    <3> QED  BY <3>1, <3>2, <3>3, AllocsShrunk
  <2>5. CASE FreeStack
    <3>1. Deleted(at[Stack], 1) /\ UNCHANGED alloc /\ Busy
      BY <2>5 DEF FreeStack, Busy, LoaderOps
    <3>2. Shrinks({at[Stack]})
      BY <2>2, <3>1, DeletedOne, PlaceDomain
    <3>3. \A p \in {at[Stack]} \cap Pages : vm[p] \notin Allocs
      BY <2>2, <3>1, Sizes DEF PlaceInv
    <3> QED  BY <3>1, <3>2, <3>3, AllocsShrunk
  <2> QED  BY <1>2, <2>1, <2>3, <2>4, <2>5 DEF Kernel
<1>3. CASE Target \/ StubFaults
  <2>1. CASE TargetMaps
    BY <2>1, PlacedTakes, AllocsTaken, Names DEF TargetMaps
  <2>2. CASE TargetUnmaps
    <3>1. PICK p \in Pages : vm[p] = "own" /\ Deleted(p, 1)
      BY <2>2 DEF TargetUnmaps
    <3>2. Shrinks({p})
      BY <3>1, DeletedOne, Sizes
    <3> QED  BY <2>2, <3>1, <3>2, AllocsShrunk, Names DEF TargetUnmaps
  <2> QED  BY <1>3, <2>1, <2>2, AllocsSame DEF Target, StubFaults, TargetFaults, ImageFaults, Crash
<1>4. ASSUME NEW c \in Commands, Loader(c) PROVE UNCHANGED alloc /\ AllocsKeep
  BY <1>4, AllocsSame DEF Loader, LoaderFaults, LoaderSpawn, LoaderSetDone, LoaderExit,
     Crash, target_
<1>5. CASE UNCHANGED cmdVars
  BY <1>5, AllocsSame DEF cmdVars, target_
<1> QED  BY <1>1, <1>2, <1>3, <1>4, <1>5, CallsKeep DEF ProcNext

LEMMA AllocStep ==
    TargetTypeOK /\ StepInv /\ PlaceInv /\ BlameInv /\ AllocInv /\ [ProcNext]_procVars => AllocInv'
<1> SUFFICES ASSUME TargetTypeOK, StepInv, PlaceInv, BlameInv, AllocInv, [ProcNext]_procVars
             PROVE  AllocInv'
  OBVIOUS
<1>1. ASSUME NEW a \in Allocs, NEW len \in Lengths, Alloc(a, len) PROVE AllocInv'
  BY <1>1, AllocHeld
<1>2. ASSUME NEW a \in Allocs, Free(a) PROVE AllocInv'
  BY <1>2, AllocFreed, ToldLasts
<1>3. CASE \A a \in Allocs : ~ Free(a) /\ \A len \in Lengths : ~ Alloc(a, len)
  <2>1. UNCHANGED alloc /\ AllocsKeep
    BY <1>3, OtherAllocs
  <2>2. blame' = "told" <=> blame = "told"
    BY <1>3, NotTold, ToldLasts
  <2> QED  BY <2>1, <2>2, QuietAllocs
<1> QED  BY <1>1, <1>2, <1>3

-----------------------------------------------------------------------------
\* The map of the target.

LEMMA MapSizes ==
    /\ IsFiniteSet(MappedPages) /\ Cardinality(MappedPages) \in Nat
    /\ MappedPages \subseteq Pages
<1>1. MappedPages \in SUBSET Pages
  BY DEF MappedPages
<1> QED  BY <1>1, MappedCount, Sizes

LEMMA QuietMap ==
    ASSUME MapInv, op' = "fill" => op = "fill", UNCHANGED <<vm, num, churn>>
    PROVE  MapInv'
<1>1. MappedPages' = MappedPages
  BY DEF MappedPages
<1> QED  BY <1>1 DEF MapInv

LEMMA MapGrows ==
    ASSUME TargetTypeOK, MapInv, UNCHANGED <<op, num>>, Churns("mapped"),
           \A p \in Pages : vm[p] # "free" => vm'[p] = vm[p]
    PROVE  MapInv'
<1> SUFFICES ASSUME op = "fill"
             PROVE  /\ "unmapped" \notin churn' => num <= Cardinality(MappedPages')
                    /\ "mapped" \notin churn' => Cardinality(MappedPages') <= num
  BY DEF MapInv
<1>1. churn' = churn \cup {"mapped"}
  BY DEF Churns
<1>2. MappedPages \subseteq MappedPages' /\ MappedPages' \in SUBSET Pages
  BY DEF MappedPages
<1>3. Cardinality(MappedPages) <= Cardinality(MappedPages')
  BY <1>2, MappedCount, FS_Subset
<1>4. Cardinality(MappedPages) \in Nat /\ Cardinality(MappedPages') \in Nat /\ num \in Nat
  BY <1>2, MapSizes, MappedCount, Sizes DEF TargetTypeOK
<1> QED  BY <1>1, <1>3, <1>4 DEF MapInv

LEMMA MapShrinks ==
    ASSUME TargetTypeOK, MapInv, UNCHANGED <<op, num>>, Churns("unmapped"), NEW S, Shrinks(S)
    PROVE  MapInv'
<1> SUFFICES ASSUME op = "fill"
             PROVE  /\ "unmapped" \notin churn' => num <= Cardinality(MappedPages')
                    /\ "mapped" \notin churn' => Cardinality(MappedPages') <= num
  BY DEF MapInv
<1>1. churn' = churn \cup {"unmapped"}
  BY DEF Churns
<1>2. MappedPages' \subseteq MappedPages /\ MappedPages' \in SUBSET Pages
  BY DEF MappedPages, Shrinks
<1>3. Cardinality(MappedPages') <= Cardinality(MappedPages)
  BY <1>2, MapSizes, FS_Subset
<1>4. Cardinality(MappedPages) \in Nat /\ Cardinality(MappedPages') \in Nat /\ num \in Nat
  BY <1>2, MapSizes, MappedCount, Sizes DEF TargetTypeOK
<1> QED  BY <1>1, <1>3, <1>4 DEF MapInv

LEMMA MapStep == TargetTypeOK /\ MapInv /\ [ProcNext]_procVars => MapInv'
<1> SUFFICES ASSUME TargetTypeOK, MapInv, [ProcNext]_procVars PROVE MapInv'
  OBVIOUS
<1>1. CASE Client
  <2>1. CASE MapCount
    <3>1. num' = Cardinality(MappedPages) /\ UNCHANGED vm
      BY <2>1 DEF MapCount, target_
    <3>2. MappedPages' = MappedPages
      BY <3>1 DEF MappedPages
    <3> QED  BY <3>1, <3>2, MapSizes DEF MapInv
  <2>2. ASSUME op' # "fill" PROVE MapInv'
    BY <2>2 DEF MapInv
  <2>3. CASE CallStub \/ FreeStub \/ Pause \/ Resume \/ Install
    BY <2>2, <2>3 DEF CallStub, FreeStub, Pause, Resume, Install, Asks, Idle
  <2>4. ASSUME NEW a \in Allocs, Free(a) \/ \E len \in Lengths : Alloc(a, len) PROVE MapInv'
    BY <2>2, <2>4 DEF Free, Alloc, Asks, Idle
  <2>5. ASSUME NEW p \in Pages, NEW q \in {"rx", "rwx"}, Protect(p, q) PROVE MapInv'
    BY <2>2, <2>5 DEF Protect, Asks, Idle
  <2>6. ASSUME NEW e \in Elfs, Elf(e) PROVE MapInv'
    BY <2>2, <2>6 DEF Elf
  <2> QED  BY <1>1, <2>1, <2>3, <2>4, <2>5, <2>6 DEF Client
<1>2. CASE Kernel \/ WaitFails
  <2>1. op' # "fill"
    BY <1>2 DEF Kernel, WriteStub, MapElf, ProtectMain, AllocatePage, AllocateStack, WriteLoader,
       FindLibkernel, StartLoader, WaitDone, WaitFails, FreePage, FreeStack, MapFill, Allocate,
       Goto, Error, Fail
  <2> QED  BY <2>1 DEF MapInv
<1>3. CASE Target \/ StubFaults
  <2>1. CASE TargetMaps
    <3>1. Took("own", FirstGap(PagesOf(1)))
      BY <2>1, PlacedTakes, Names DEF TargetMaps
    <3>2. \A p \in Pages : vm[p] # "free" => vm'[p] = vm[p]
      BY <3>1 DEF Took
    <3> QED  BY <2>1, <3>2, MapGrows DEF TargetMaps, command
  <2>2. CASE TargetUnmaps
    <3>1. PICK p \in Pages : vm[p] = "own" /\ Deleted(p, 1)
      BY <2>2 DEF TargetUnmaps
    <3>2. Shrinks({p})
      BY <3>1, DeletedOne, Sizes
    <3> QED  BY <2>2, <3>2, MapShrinks DEF TargetUnmaps, command
  <2> QED  BY <1>3, <2>1, <2>2, QuietMap DEF Target, StubFaults, TargetFaults, ImageFaults, Crash,
      command, mapping
<1>4. ASSUME NEW c \in Commands, Loader(c) PROVE MapInv'
  BY <1>4, QuietMap DEF Loader, LoaderFaults, LoaderSpawn, LoaderSetDone, LoaderExit, Crash,
     target_, command, mapping
<1>5. CASE UNCHANGED cmdVars
  BY <1>5, QuietMap DEF cmdVars, target_, command, mapping
<1> QED  BY <1>1, <1>2, <1>3, <1>4, <1>5, CallsKeep DEF ProcNext

\* The place of a page among those that are mapped.
Rank(p) == Cardinality({q \in MappedPages : q <= p})

LEMMA Ranks ==
    /\ \A p \in MappedPages : Rank(p) \in 1..Cardinality(MappedPages)
    /\ \A p, r \in MappedPages : p < r => Rank(p) < Rank(r)
    /\ \A p, r \in MappedPages : Rank(p) = Rank(r) => p = r
    /\ \A k \in 1..Cardinality(MappedPages) : \E p \in MappedPages : Rank(p) = k
<1> DEFINE M == MappedPages
           size == Cardinality(M)
           below(p) == {q \in M : q <= p}
<1>1. IsFiniteSet(M) /\ size \in Nat /\ \A p \in M : p \in Nat
  BY MapSizes, Sizes
<1>2. ASSUME NEW p \in M
      PROVE  IsFiniteSet(below(p)) /\ Rank(p) \in Nat /\ Rank(p) <= size /\ Rank(p) # 0
  <2>1. below(p) \in SUBSET M /\ p \in below(p)
    BY <1>1
  <2>2. IsFiniteSet(below(p)) /\ Cardinality(below(p)) <= size
    BY <1>1, <2>1, FS_Subset
  <2>3. Cardinality(below(p)) \in Nat /\ Cardinality(below(p)) # 0
    BY <2>1, <2>2, FS_CardinalityType, FS_EmptySet
  <2> QED  BY <2>2, <2>3 DEF Rank
<1>3. ASSUME NEW p \in M, NEW r \in M, p < r PROVE Rank(p) < Rank(r)
  <2>1. below(p) \in SUBSET below(r) /\ r \in below(r) /\ r \notin below(p)
    BY <1>1, <1>3
  <2>2. /\ Cardinality(below(p)) <= Cardinality(below(r))
        /\ Cardinality(below(r)) # Cardinality(below(p))
    BY <1>2, <2>1, FS_Subset
  <2> QED  BY <1>2, <2>2 DEF Rank
<1>4. ASSUME NEW p \in M, NEW r \in M, Rank(p) = Rank(r) PROVE p = r
  <2>1. p \in Nat /\ r \in Nat /\ Rank(p) \in Nat
    BY <1>1, <1>2
  <2>2. ~ (p < r) /\ ~ (r < p)
    BY <1>3, <1>4, <2>1
  <2> QED  BY <2>1, <2>2
<1>5. ASSUME NEW p \in M PROVE Rank(p) \in 1..size
  <2>1. Rank(p) \in Nat /\ Rank(p) <= size /\ Rank(p) # 0
    BY <1>2
  <2> HIDE DEF size
  <2> QED  BY <1>1, <2>1
<1>6. ASSUME NEW k \in 1..size PROVE \E p \in M : Rank(p) = k
  <2> DEFINE f == [p \in M |-> Rank(p)]
  <2>1. f \in [M -> 1..size]
    BY <1>5
  <2>2. f \in Injection(M, 1..size)
    BY <1>4, <2>1 DEF Injection, IsInjective
  <2>3. IsFiniteSet(1..size) /\ Cardinality(1..size) = size
    BY <1>1, FS_Interval
  <2>4. f \in Surjection(M, 1..size)
    BY <2>2, <2>3, FS_Injection
  <2>5. \E p \in M : f[p] = k
    BY <2>4 DEF Surjection
  <2> QED  BY <2>5
<1> QED  BY <1>3, <1>4, <1>5, <1>6

\* The ring starts with the header and goes on with the pages in their order.
LEMMA RingEntry ==
    ASSUME NEW j \in 0..Cardinality(MappedPages)
    PROVE  /\ j = 0 => Ring(j) = 0
           /\ j # 0 => Ring(j) \in MappedPages /\ Rank(Ring(j)) = j
<1> DEFINE size == Cardinality(MappedPages)
<1>1. size \in Nat
  BY MapSizes
<1>2. j % (size + 1) = j
  BY <1>1
<1>3. CASE j = 0
  BY <1>2, <1>3 DEF Ring
<1>4. CASE j # 0
  <2>1. \E p \in MappedPages : Rank(p) = j
    BY <1>1, <1>4, Ranks
  <2>2. Ring(j) = CHOOSE p \in MappedPages : Rank(p) = j
    BY <1>2, <1>4 DEF Ring, Rank
  <2> QED  BY <1>4, <2>1, <2>2
<1> QED  BY <1>3, <1>4

LEMMA MapListed == TargetTypeOK /\ MapInv => MapFaithful
<1> SUFFICES ASSUME TargetTypeOK, MapInv, op = "fill"
             PROVE  MapFaithful
  BY DEF MapFaithful
<1> DEFINE size == Cardinality(MappedPages)
           m == Fill
           listed == {m[i] : i \in DOMAIN m} \ {0}
           highest == {p \in MappedPages : \A q \in MappedPages : q <= p}
<1>1. size \in Nat /\ num \in Nat /\ \A p \in MappedPages : p \in Nat /\ p # 0
  BY MapSizes, Sizes DEF TargetTypeOK
<1>2. DOMAIN m = 1..num /\ \A i \in 1..num : m[i] = Ring(i - 1)
  BY DEF Fill
<1>3. /\ "unmapped" \notin churn => num <= size
      /\ "mapped" \notin churn => size <= num
  BY DEF MapInv
<1> HIDE DEF m, size
<1>4. \A p \in MappedPages : p \in highest <=> Rank(p) = size
  <2> SUFFICES ASSUME NEW p \in MappedPages PROVE p \in highest <=> Rank(p) = size
    OBVIOUS
  <2>1. Rank(p) \in 1..size
    BY Ranks DEF size
  <2>2. ASSUME Rank(p) = size PROVE p \in highest
    <3>1. \A q \in MappedPages : Rank(q) <= size /\ Rank(q) \in Nat
      BY <1>1, Ranks DEF size
    <3>2. \A q \in MappedPages : ~ (p < q)
      BY <1>1, <2>2, <3>1, Ranks
    <3> QED  BY <1>1, <3>2
  <2>3. ASSUME p \in highest PROVE Rank(p) = size
    <3>1. size \in 1..size
      BY <1>1, <2>1
    <3>2. PICK q \in MappedPages : Rank(q) = size
      BY <3>1, Ranks DEF size
    <3>3. q <= p /\ q \in Nat /\ p \in Nat
      BY <1>1, <2>3
    <3>4. q = p \/ q < p
      BY <3>3
    <3>5. q < p => size < Rank(p)
      BY <3>2, Ranks
    <3> QED  BY <1>1, <2>1, <3>2, <3>4, <3>5
  <2> QED  BY <2>2, <2>3
<1>5. ASSUME num <= size, NEW i \in 1..num
      PROVE  /\ i = 1 => m[i] = 0
             /\ i # 1 => m[i] \in MappedPages /\ Rank(m[i]) = i - 1
  <2>1. i - 1 \in 0..size /\ (i - 1 = 0 <=> i = 1)
    BY <1>1, <1>5
  <2> QED  BY <1>2, <2>1, RingEntry DEF size
<1>6. num <= size => \A i, j \in DOMAIN m : m[i] = m[j] => i = j
  <2> SUFFICES ASSUME num <= size, NEW i \in 1..num, NEW j \in 1..num, m[i] = m[j]
               PROVE  i = j
    BY <1>2
  <2>1. i = 1 <=> j = 1
    BY <1>1, <1>5
  <2>2. i # 1 => i - 1 = j - 1
    BY <1>5, <2>1
  <2> QED  BY <2>1, <2>2
<1>7. ASSUME size <= num PROVE MappedPages \ highest \subseteq listed
  <2> SUFFICES ASSUME NEW p \in MappedPages, p \notin highest PROVE p \in listed
    OBVIOUS
  <2>1. Rank(p) \in 1..size /\ Rank(p) # size
    BY <1>4, Ranks DEF size
  <2>2. PICK i \in 1..num : i - 1 = Rank(p) /\ i - 1 # 0 /\ i - 1 \in 0..size
    <3>1. Rank(p) + 1 \in 1..num /\ Rank(p) + 1 - 1 = Rank(p)
      BY <1>1, <1>7, <2>1
    <3> QED  BY <2>1, <3>1
  <2>3. Ring(i - 1) \in MappedPages /\ Rank(Ring(i - 1)) = i - 1
    BY <2>2, RingEntry DEF size
  <2>4. m[i] = p
    BY <1>2, <2>2, <2>3, Ranks
  <2> QED  BY <1>1, <1>2, <2>4
<1>8. ASSUME num = size PROVE listed = MappedPages \ highest
  <2>1. ASSUME NEW i \in 1..num, m[i] # 0 PROVE m[i] \in MappedPages /\ m[i] \notin highest
    <3>1. num <= size
      BY <1>1, <1>8
    <3>2. i # 1 /\ m[i] \in MappedPages /\ Rank(m[i]) = i - 1
      BY <1>5, <2>1, <3>1
    <3>3. i - 1 # size
      BY <1>1, <1>8
    <3> QED  BY <1>4, <3>2, <3>3
  <2>2. listed \subseteq MappedPages \ highest
    BY <1>2, <2>1
  <2> QED  BY <1>1, <1>7, <1>8, <2>2
<1>9. churn = {} => num = size
  BY <1>1, <1>3
<1>10. /\ churn = {} => listed = MappedPages \ highest
       /\ "unmapped" \notin churn => \A i, j \in DOMAIN m : m[i] = m[j] => i = j
       /\ "mapped" \notin churn => MappedPages \ highest \subseteq listed
  BY <1>3, <1>6, <1>7, <1>8, <1>9
<1> QED  BY <1>10 DEF MapFaithful, m

-----------------------------------------------------------------------------
\* The theorems.

CmdInv == StepInv /\ PlaceInv /\ LoaderInv /\ BlameInv /\ AllocInv /\ MapInv

LEMMA CmdStart == ProcInit => TargetTypeOK /\ CmdInv
<1> SUFFICES ASSUME ProcInit PROVE TargetTypeOK /\ CmdInv
  OBVIOUS
<1> USE DEF ProcInit
<1>1. TargetTypeOK
  <2>1. vm \in [Pages -> Holds] /\ prot \in [Pages -> {"rx", "rwx"}]
    <3>1. vm \in [Pages -> Holds]
      BY DEF Holds
    <3>2. prot \in [Pages -> {"rx", "rwx"}]
      OBVIOUS
    <3> QED  BY <3>1, <3>2
  <2>2. at \in [Places -> 0..(Top - 1)] /\ stubAt \in 0..(Top - 1) /\ num \in 0..Top
    BY Sizes
  <2> QED  BY <2>1, <2>2 DEF TargetTypeOK, Steps
<1>2. StepInv
  BY DEF StepInv, Busy, LoaderOps
<1>3. \A p \in Pages : vm[p] \in {"exec", "lib", "free"}
  OBVIOUS
<1>4. PlaceInv
  <2>1. \A c \in Commands : at[c] = 0 /\ at[StackOf(c)] = 0
    BY Names
  <2>2. \A c \in Commands, p \in Pages : vm[p] # c
    BY <1>3, Names
  <2> QED  BY <2>1, <2>2 DEF PlaceInv
<1>5. LoaderInv
  BY DEF LoaderInv
<1>6. BlameInv
  <2>1. vm[ExecPage] = "exec" /\ vm[LibPage] = "lib"
    BY Sizes
  <2>2. lpc["install"] = "none" /\ ~ Busy
    BY Names DEF Busy, LoaderOps
  <2> QED  BY <2>1, <2>2 DEF BlameInv
<1>7. AllocInv
  <2>1. NoAlloc \in Allocation
    BY Sizes DEF NoAlloc, Allocation
  <2>2. alloc \in [Allocs -> Allocation]
    BY <2>1
  <2>3. \A a \in Allocs : alloc[a].state = "none" /\ alloc[a].page = 0
    BY DEF NoAlloc
  <2>4. \A a \in Allocs, p \in Pages : vm[p] # a
    BY <1>3, Names
  <2> QED  BY <2>2, <2>3, <2>4 DEF AllocInv
<1>8. MapInv
  BY DEF MapInv
<1> QED  BY <1>1, <1>2, <1>4, <1>5, <1>6, <1>7, <1>8 DEF CmdInv

LEMMA CmdStep == TargetTypeOK /\ CmdInv /\ [ProcNext]_procVars => TargetTypeOK' /\ CmdInv'
BY TypeStep, StepStep, PlaceStep, LoaderStep, BlameStep, AllocStep, MapStep DEF CmdInv

\* What the commands keep of the target is of its type.
THEOREM TargetTypeCorrect == ProcSpec => []TargetTypeOK
<1>1. ProcInit => TargetTypeOK /\ CmdInv
  BY CmdStart
<1>2. TargetTypeOK /\ CmdInv /\ [ProcNext]_procVars => TargetTypeOK' /\ CmdInv'
  BY CmdStep
<1> QED  BY <1>1, <1>2, PTL DEF ProcSpec

\* The inductive invariant of the commands holds, whatever fails in between.
THEOREM CmdInvCorrect == ProcSpec => []CmdInv
<1>1. ProcInit => TargetTypeOK /\ CmdInv
  BY CmdStart
<1>2. TargetTypeOK /\ CmdInv /\ [ProcNext]_procVars => TargetTypeOK' /\ CmdInv'
  BY CmdStep
<1> QED  BY <1>1, <1>2, PTL DEF ProcSpec

LEMMA InvIsExact == CmdInv => MemoryExact
<1> SUFFICES ASSUME CmdInv PROVE MemoryExact
  OBVIOUS
<1>1. op = "idle" => \A c \in Commands : {p \in Pages : vm[p] = c} = {}
  BY NothingPlaced DEF CmdInv, NoLoader
<1>2. ASSUME NEW a \in Allocs
      PROVE  /\ alloc[a].state = "held" =>
                    \/ {p \in Pages : vm[p] = a} = Span(alloc[a].page, PagesOf(alloc[a].length))
                    \/ blame = "told"
             /\ alloc[a].state = "freed" =>
                    {p \in Pages : vm[p] = a} = {} \/ alloc[a].page >= Half
  <2>1. alloc[a].state # "none" => Span(alloc[a].page, PagesOf(alloc[a].length)) \subseteq Pages
    BY AllocType, GivenPages DEF CmdInv, AllocInv
  <2> QED  BY <2>1 DEF CmdInv, AllocInv
<1>3. blame = "told" => ~ \A a \in Allocs : alloc[a].page < Half
  BY AllocType, Sizes DEF CmdInv, AllocInv
<1> QED  BY <1>1, <1>2, <1>3 DEF MemoryExact

\* What was allocated for a client is in the target until it is freed, and nothing of a
\* loader stays behind, for any sizes and any number of allocations.
THEOREM MemoryExactCorrect == ProcSpec => []MemoryExact
BY CmdInvCorrect, InvIsExact, PTL

LEMMA InvEarns == CmdInv => SuccessEarned
BY DEF CmdInv, StepInv, SuccessEarned

\* A command that returns 0 has had its loader set its flag, or libkernel was not found.
THEOREM SuccessEarnedCorrect == ProcSpec => []SuccessEarned
BY CmdInvCorrect, InvEarns, PTL

LEMMA InvSurvives == CmdInv => TargetSurvives
BY DEF CmdInv, BlameInv, TargetSurvives

\* The commands do not bring the target down, but for what blame lists.
THEOREM TargetSurvivesCorrect == ProcSpec => []TargetSurvives
BY CmdInvCorrect, InvSurvives, PTL

LEMMA InvLists == TargetTypeOK /\ CmdInv => MapFaithful
BY MapListed DEF CmdInv

\* /mapping lists what is mapped, but for the highest page and what the target has
\* changed since the count, for an address space of any size.
THEOREM MapFaithfulCorrect == ProcSpec => []MapFaithful
BY TargetTypeCorrect, CmdInvCorrect, InvLists, PTL
=============================================================================
