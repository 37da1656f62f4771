------------------------------ MODULE AllProc ------------------------------
(***************************************************************************)
(* The kernel's process list, the walks the kdebugger makes over it, and   *)
(* the payload's requests that are built from those walks.                 *)
(*                                                                         *)
(* kdebugger/source/proc.c and hooks.c walk allproc in three ways: to      *)
(* count it and to copy it (the two branches of sys_proc_list), and to     *)
(* find a pid (proc_find_by_pid).  Each walk holds allproc_lock shared     *)
(* from before it reads the list head until after its last step.  fork and *)
(* exit are the kernel's own: they change the list under the exclusive     *)
(* lock, and a proc structure that exits may be reused by a later fork.    *)
(*                                                                         *)
(* debugger/source/server.c answers /list with two system calls, a count   *)
(* and a fill, and nothing holds the lock in between.  The handlers that   *)
(* name a process find its pid, release the lock, and use the pointer.     *)
(***************************************************************************)
EXTENDS Integers, Sequences, SequencesExt

CONSTANTS
    Slots,        \* the kernel addresses a struct proc can live at
    Pids,         \* process ids
    Threads,      \* threads that are inside, or may enter, these system calls
    WalkMax,      \* PROC_WALK_MAX, the bound on every walk (4096)
    LockMapped,   \* the firmware has addresses for sx_slock and allproc_lock
    NULL

ASSUME WalkMaxIsPos == WalkMax \in Nat \ {0}
ASSUME LockMappedIsBool == LockMapped \in BOOLEAN
ASSUME NullIsNoValue == NULL \notin Slots /\ NULL \notin Pids

VARIABLES
    list,     \* allproc, the head first
    pidOf,    \* the pid field of the proc structure at each address
    sharers,  \* the threads that hold allproc_lock shared
    pc,       \* where each thread is
    op,       \* which walk it makes: "count", "fill" or "find"
    cur,      \* p, the pointer the walk is at
    num,      \* num, i or guard: the steps the walk has taken
    arg,      \* uap->num for a fill, uap->pid for a find
    found,    \* the pointer proc_find_by_pid returns
    plist,    \* the caller's buffer, one entry per process, zeroed at first
    alive,    \* history: the pids alive since the request began
    forked,   \* history: a process was created since the request began
    exited    \* history: a process exited since the request began

vars == <<list, pidOf, sharers, pc, op, cur, num, arg, found, plist,
          alive, forked, exited>>
walkVars == <<op, cur, num, arg, found, plist>>
history == <<alive, forked, exited>>

Listed == {list[i] : i \in DOMAIN list}
LivePids == {pidOf[s] : s \in Listed}

\* A list entry the loop's conditions accept as a pointer, or NULL past the end.
At(i) == IF i \in DOMAIN list THEN list[i] ELSE NULL

\* p->p_forw.  In a structure that has left the list the field holds anything.
Forw(p) ==
    IF p \in Listed
    THEN {At(i + 1) : i \in {j \in DOMAIN list : list[j] = p}}
    ELSE Slots \cup {NULL}

TypeOK ==
    /\ list \in Seq(Slots)
    /\ pidOf \in [Slots -> Pids]
    /\ sharers \subseteq Threads
    /\ pc \in [Threads -> {"idle", "lock", "walk", "unlock", "use", "reply"}]
    /\ op \in [Threads -> {"count", "fill", "find"}]
    /\ cur \in [Threads -> Slots \cup {NULL}]
    /\ num \in [Threads -> Nat]
    /\ arg \in [Threads -> Nat \cup Pids]
    /\ \A t \in Threads : op[t] = "fill" => arg[t] \in Nat
    /\ found \in [Threads -> Slots \cup {NULL}]
    /\ plist \in [Threads -> Seq(Pids \cup {NULL})]
    /\ alive \in [Threads -> SUBSET Pids]
    /\ forked \in [Threads -> BOOLEAN]
    /\ exited \in [Threads -> BOOLEAN]

Init ==
    /\ list = << >>
    /\ pidOf \in [Slots -> Pids]
    /\ sharers = {}
    /\ pc = [t \in Threads |-> "idle"]
    /\ op = [t \in Threads |-> "count"]
    /\ cur = [t \in Threads |-> NULL]
    /\ num = [t \in Threads |-> 0]
    /\ arg = [t \in Threads |-> 0]
    /\ found = [t \in Threads |-> NULL]
    /\ plist = [t \in Threads |-> << >>]
    /\ alive = [t \in Threads |-> {}]
    /\ forked = [t \in Threads |-> FALSE]
    /\ exited = [t \in Threads |-> FALSE]

-----------------------------------------------------------------------------
\* The kernel's fork and exit, under the exclusive lock.

\* A new process goes in at the head of the list.
Fork(s, k) ==
    /\ sharers = {}
    /\ s \notin Listed
    /\ k \notin LivePids
    /\ list' = <<s>> \o list
    /\ pidOf' = [pidOf EXCEPT ![s] = k]
    /\ forked' = [t \in Threads |-> forked[t] \/ pc[t] # "idle"]
    /\ UNCHANGED <<sharers, pc, walkVars, alive, exited>>

\* Its structure leaves the list; the memory keeps its contents until reused.
Exit(i) ==
    /\ sharers = {}
    /\ list' = RemoveAt(list, i)
    /\ exited' = [t \in Threads |-> exited[t] \/ pc[t] # "idle"]
    /\ alive' = [t \in Threads |-> alive[t] \ {pidOf[list[i]]}]
    /\ UNCHANGED <<pidOf, sharers, pc, walkVars, forked>>

-----------------------------------------------------------------------------
\* The payload's requests.

BeginRequest(t) ==
    /\ pc[t] = "idle"
    /\ pc' = [pc EXCEPT ![t] = "lock"]
    /\ alive' = [alive EXCEPT ![t] = LivePids]
    /\ UNCHANGED <<forked, exited>>

\* The system call or the handler returns, and its locals are gone.
Return(t) ==
    /\ pc' = [pc EXCEPT ![t] = "idle"]
    /\ op' = [op EXCEPT ![t] = "count"]
    /\ cur' = [cur EXCEPT ![t] = NULL]
    /\ num' = [num EXCEPT ![t] = 0]
    /\ arg' = [arg EXCEPT ![t] = 0]
    /\ found' = [found EXCEPT ![t] = NULL]
    /\ plist' = [plist EXCEPT ![t] = << >>]
    /\ alive' = [alive EXCEPT ![t] = {}]
    /\ forked' = [forked EXCEPT ![t] = FALSE]
    /\ exited' = [exited EXCEPT ![t] = FALSE]
    /\ UNCHANGED <<list, pidOf>>

\* handle_list: the first sys_proc_list call passes no buffer.
List(t) ==
    /\ BeginRequest(t)
    /\ op' = [op EXCEPT ![t] = "count"]
    /\ UNCHANGED <<list, pidOf, sharers, cur, num, arg, found, plist>>

\* sys_proc_rw and sys_proc_cmd start by looking the pid up.
Find(t, k) ==
    /\ BeginRequest(t)
    /\ op' = [op EXCEPT ![t] = "find"]
    /\ arg' = [arg EXCEPT ![t] = k]
    /\ UNCHANGED <<list, pidOf, sharers, cur, num, found, plist>>

-----------------------------------------------------------------------------
\* The walks.

\* Mutant of Slock: the walk starts without the lock.
SlockWithoutLock(t) ==
    /\ pc[t] = "lock"
    /\ cur' = [cur EXCEPT ![t] = At(1)]
    /\ num' = [num EXCEPT ![t] = 0]
    /\ found' = [found EXCEPT ![t] = NULL]
    /\ pc' = [pc EXCEPT ![t] = "walk"]
    /\ UNCHANGED <<list, pidOf, sharers, op, arg, plist, history>>

\* allproc_slock, which does nothing on a firmware whose addresses are not
\* mapped, and then p = *allproc.
Slock(t) ==
    /\ pc[t] = "lock"
    /\ sharers' = IF LockMapped THEN sharers \cup {t} ELSE sharers
    /\ cur' = [cur EXCEPT ![t] = At(1)]
    /\ num' = [num EXCEPT ![t] = 0]
    /\ found' = [found EXCEPT ![t] = NULL]
    /\ pc' = [pc EXCEPT ![t] = "walk"]
    /\ UNCHANGED <<list, pidOf, op, arg, plist, history>>

\* Mutant of MoreToWalk: the count's bound is off by one.
MoreToWalkOneTooMany(t) ==
    /\ cur[t] # NULL
    /\ \/ op[t] = "count" /\ num[t] <= WalkMax
       \/ op[t] = "fill" /\ num[t] < arg[t]
       \/ op[t] = "find" /\ num[t] + 1 < WalkMax

\* The loops' conditions: each bounds its walk, the find one step sooner
\* because its counter is incremented before it is compared.
MoreToWalk(t) ==
    /\ cur[t] # NULL
    /\ \/ op[t] = "count" /\ num[t] < WalkMax
       \/ op[t] = "fill" /\ num[t] < arg[t]
       \/ op[t] = "find" /\ num[t] + 1 < WalkMax

CountStep(t) ==
    /\ pc[t] = "walk" /\ op[t] = "count" /\ MoreToWalk(t)
    /\ num' = [num EXCEPT ![t] = @ + 1]
    /\ \E p \in Forw(cur[t]) : cur' = [cur EXCEPT ![t] = p]
    /\ UNCHANGED <<list, pidOf, sharers, pc, op, arg, found, plist, history>>

FillStep(t) ==
    /\ pc[t] = "walk" /\ op[t] = "fill" /\ MoreToWalk(t)
    /\ num' = [num EXCEPT ![t] = @ + 1]
    /\ plist' = [plist EXCEPT ![t] = [@ EXCEPT ![num[t] + 1] = pidOf[cur[t]]]]
    /\ \E p \in Forw(cur[t]) : cur' = [cur EXCEPT ![t] = p]
    /\ UNCHANGED <<list, pidOf, sharers, pc, op, arg, found, history>>

\* Mutant of FindStep: the pointer advances before it is kept.
FindStepAdvancesFirst(t) ==
    /\ pc[t] = "walk" /\ op[t] = "find" /\ MoreToWalk(t)
    /\ num' = [num EXCEPT ![t] = @ + 1]
    /\ \E p \in Forw(cur[t]) :
           /\ cur' = [cur EXCEPT ![t] = p]
           /\ IF pidOf[cur[t]] = arg[t]
              THEN found' = [found EXCEPT ![t] = p] /\ pc' = [pc EXCEPT ![t] = "unlock"]
              ELSE UNCHANGED <<found, pc>>
    /\ UNCHANGED <<list, pidOf, sharers, op, arg, plist, history>>

FindStep(t) ==
    /\ pc[t] = "walk" /\ op[t] = "find" /\ MoreToWalk(t)
    /\ num' = [num EXCEPT ![t] = @ + 1]
    /\ \/ /\ pidOf[cur[t]] = arg[t]
          /\ found' = [found EXCEPT ![t] = cur[t]]
          /\ pc' = [pc EXCEPT ![t] = "unlock"]
          /\ UNCHANGED cur
       \/ /\ pidOf[cur[t]] # arg[t]
          /\ \E p \in Forw(cur[t]) : cur' = [cur EXCEPT ![t] = p]
          /\ UNCHANGED <<found, pc>>
    /\ UNCHANGED <<list, pidOf, sharers, op, arg, plist, history>>

WalkEnd(t) ==
    /\ pc[t] = "walk" /\ ~ MoreToWalk(t)
    /\ pc' = [pc EXCEPT ![t] = "unlock"]
    /\ UNCHANGED <<list, pidOf, sharers, walkVars, history>>

Release(t) == sharers' = sharers \ {t}

\* Mutant of SunlockCount: an empty count returns before it releases the lock.
SunlockCountReturnsEarly(t) ==
    /\ pc[t] = "unlock" /\ op[t] = "count"
    /\ \/ num[t] = 0 /\ Return(t) /\ UNCHANGED sharers
       \/ /\ num[t] # 0
          /\ Release(t)
          /\ pc' = [pc EXCEPT ![t] = "lock"]
          /\ op' = [op EXCEPT ![t] = "fill"]
          /\ arg' = [arg EXCEPT ![t] = num[t]]
          /\ plist' = [plist EXCEPT ![t] = [i \in 1..num[t] |-> NULL]]
          /\ UNCHANGED <<list, pidOf, cur, num, found, history>>

\* Mutant of SunlockCount: the buffer has an entry to spare, and it is reported.
SunlockCountOneMore(t) ==
    /\ pc[t] = "unlock" /\ op[t] = "count"
    /\ Release(t)
    /\ pc' = [pc EXCEPT ![t] = "lock"]
    /\ op' = [op EXCEPT ![t] = "fill"]
    /\ arg' = [arg EXCEPT ![t] = num[t] + 1]
    /\ plist' = [plist EXCEPT ![t] = [i \in 1..(num[t] + 1) |-> NULL]]
    /\ UNCHANGED <<list, pidOf, cur, num, found, history>>

\* The count branch stores *uap->num.  handle_list answers 404 to an empty
\* count, and otherwise zeroes a buffer of that many entries and calls again
\* with the count it was given.
SunlockCount(t) ==
    /\ pc[t] = "unlock" /\ op[t] = "count"
    /\ Release(t)
    /\ \/ num[t] = 0 /\ Return(t)
       \/ /\ num[t] # 0
          /\ pc' = [pc EXCEPT ![t] = "lock"]
          /\ op' = [op EXCEPT ![t] = "fill"]
          /\ arg' = [arg EXCEPT ![t] = num[t]]
          /\ plist' = [plist EXCEPT ![t] = [i \in 1..num[t] |-> NULL]]
          /\ UNCHANGED <<list, pidOf, cur, num, found, history>>

SunlockFill(t) ==
    /\ pc[t] = "unlock" /\ op[t] = "fill"
    /\ Release(t)
    /\ pc' = [pc EXCEPT ![t] = "reply"]
    /\ UNCHANGED <<list, pidOf, walkVars, history>>

SunlockFind(t) ==
    /\ pc[t] = "unlock" /\ op[t] = "find"
    /\ Release(t)
    /\ \/ found[t] = NULL /\ Return(t)
       \/ /\ found[t] # NULL
          /\ pc' = [pc EXCEPT ![t] = "use"]
          /\ UNCHANGED <<list, pidOf, walkVars, history>>

\* The handler works on the pointer, which nothing pins any more.
Use(t) == pc[t] = "use" /\ Return(t) /\ UNCHANGED sharers

\* handle_list prints one JSON object per counted entry.
Reply(t) == pc[t] = "reply" /\ Return(t) /\ UNCHANGED sharers

-----------------------------------------------------------------------------
Walk(t) ==
    \/ Slock(t) \/ CountStep(t) \/ FillStep(t) \/ FindStep(t) \/ WalkEnd(t)
    \/ SunlockCount(t) \/ SunlockFill(t) \/ SunlockFind(t) \/ Use(t) \/ Reply(t)

Next ==
    \/ \E s \in Slots, k \in Pids : Fork(s, k)
    \/ \E i \in DOMAIN list : Exit(i)
    \/ \E t \in Threads : List(t) \/ Walk(t)
    \/ \E t \in Threads, k \in Pids : Find(t, k)

Spec == Init /\ [][Next]_vars

\* A thread inside a system call keeps running: nothing in a walk sleeps.
FairSpec == Spec /\ \A t \in Threads : WF_vars(Walk(t))

-----------------------------------------------------------------------------
\* A walk never stands on a structure that has left the list: what the lock
\* is for ("instead of racing anything created or destroyed mid-walk").
WalkSafe ==
    LockMapped => \A t \in Threads :
        pc[t] = "walk" => cur[t] \in Listed \cup {NULL}

\* What each walk computed, when it is about to release the lock, is what the
\* list as a whole holds at that moment: a walk is one atomic look at the list.
CountExact(t) == num[t] = IF Len(list) < WalkMax THEN Len(list) ELSE WalkMax
FillExact(t) ==
    /\ Len(plist[t]) = arg[t]
    /\ \A i \in 1..arg[t] :
           plist[t][i] = IF i \in DOMAIN list THEN pidOf[list[i]] ELSE NULL
Matches(t) == {i \in DOMAIN list : i < WalkMax /\ pidOf[list[i]] = arg[t]}
FindExact(t) ==
    IF found[t] = NULL
    THEN Matches(t) = {}
    ELSE \E i \in Matches(t) : found[t] = list[i]

Exact(t) ==
    /\ op[t] = "count" => CountExact(t)
    /\ op[t] = "fill" => FillExact(t)
    /\ op[t] = "find" => FindExact(t)
WalkExact == LockMapped => \A t \in Threads : pc[t] = "unlock" => Exact(t)

\* /list: a process that was alive from before the count until after the fill
\* is missing from the reply only if something forked in between (or the walk
\* bound cut the count), and the reply has a blank entry only if something
\* exited.
Reported(t) == {plist[t][i] : i \in DOMAIN plist[t]}
ListFaithful ==
    LockMapped => \A t \in Threads : pc[t] = "reply" =>
        /\ ~ forked[t] /\ arg[t] < WalkMax => alive[t] \subseteq Reported(t)
        /\ ~ exited[t] => NULL \notin Reported(t)

\* The pointer a handler works on is the process the request named, unless
\* some process has exited since the lookup began.
UseCurrent ==
    LockMapped => \A t \in Threads : pc[t] = "use" =>
        exited[t] \/ (found[t] \in Listed /\ pidOf[found[t]] = arg[t])

\* No walk keeps the lock: "leaking this lock would block every fork and exit
\* on the system".
LockReleased == \A t \in Threads : t \in sharers ~> t \notin sharers

-----------------------------------------------------------------------------
\* The inductive invariant behind WalkSafe, WalkExact, ListFaithful and
\* UseCurrent.  A walk under way has copied, counted or rejected exactly the
\* first num entries of a list that cannot change, and stands on the next.
Distinct == \A i, j \in DOMAIN list : list[i] = list[j] => i = j
Holders == sharers = {t \in Threads : pc[t] \in {"walk", "unlock"}}
Copied(t) ==
    /\ arg[t] \in Nat
    /\ num[t] <= arg[t]
    /\ Len(plist[t]) = arg[t]
    /\ \A i \in 1..arg[t] :
           plist[t][i] = IF i <= num[t] THEN pidOf[list[i]] ELSE NULL
Rejected(t) ==
    /\ found[t] = NULL
    /\ num[t] < WalkMax
    /\ \A i \in 1..num[t] : pidOf[list[i]] # arg[t]
Walking(t) ==
    /\ num[t] <= Len(list)
    /\ cur[t] = At(num[t] + 1)
    /\ op[t] = "count" => num[t] <= WalkMax
    /\ op[t] = "fill" => Copied(t)
    /\ op[t] = "find" => Rejected(t)
Blank(t) == Len(plist[t]) = arg[t] /\ \A i \in 1..arg[t] : plist[t][i] = NULL
ThreadInv(t) ==
    /\ pc[t] = "walk" => Walking(t)
    /\ pc[t] = "unlock" => Exact(t)
    /\ pc[t] = "lock" /\ op[t] = "fill" => Blank(t)
WalkInv ==
    /\ Distinct
    /\ LockMapped => Holders /\ \A t \in Threads : ThreadInv(t)

\* What ties a request's two steps together: forks and exits since it began
\* bound how far the list has moved away from the count.
RequestInv(t) ==
    /\ pc[t] # "idle" => alive[t] \subseteq LivePids
    /\ op[t] = "fill" /\ pc[t] \in {"lock", "walk", "unlock"} =>
           /\ ~ forked[t] /\ arg[t] < WalkMax => Len(list) <= arg[t]
           /\ ~ exited[t] => arg[t] <= Len(list)
HistoryInv == LockMapped =>
    /\ \A t \in Threads : RequestInv(t)
    /\ ListFaithful
    /\ UseCurrent
=============================================================================
