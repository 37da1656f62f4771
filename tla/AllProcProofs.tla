--------------------------- MODULE AllProcProofs ---------------------------
(***************************************************************************)
(* What holds of AllProc for every value of its constants: the types, and  *)
(* on firmwares whose lock is mapped, that no walk stands on a structure   *)
(* that has left the list and that each walk is one atomic look at it.     *)
(***************************************************************************)
EXTENDS AllProc, TLAPS, SequenceTheorems

\* Taking one element out of a sequence, as LIST_REMOVE does.
LEMMA RemoveAtProperties ==
    ASSUME NEW S, NEW s \in Seq(S), NEW i \in DOMAIN s
    PROVE  /\ RemoveAt(s, i) \in Seq(S)
           /\ Len(RemoveAt(s, i)) = Len(s) - 1
           /\ \A j \in 1..(Len(s) - 1) :
                  RemoveAt(s, i)[j] = IF j < i THEN s[j] ELSE s[j + 1]
<1> DEFINE a == SubSeq(s, 1, i - 1)
           b == SubSeq(s, i + 1, Len(s))
<1>0. i \in 1..Len(s) /\ Len(s) \in Nat /\ \A j \in 1..Len(s) : s[j] \in S
  OBVIOUS
<1>1. /\ a \in Seq(S) /\ Len(a) = i - 1
      /\ \A j \in 1..(i - 1) : a[j] = s[j]
  BY <1>0, SubSeqProperties
<1>2. /\ b \in Seq(S) /\ Len(b) = Len(s) - i
      /\ \A j \in 1..(Len(s) - i) : b[j] = s[i + j]
  <2>1. i + 1 \in Int /\ Len(s) \in Int /\ \A j \in (i + 1)..Len(s) : s[j] \in S
    BY <1>0
  <2> QED  BY <1>0, <2>1, SubSeqProperties
<1>3. /\ a \o b \in Seq(S)
      /\ Len(a \o b) = Len(a) + Len(b)
      /\ \A j \in 1..(Len(a) + Len(b)) :
             (a \o b)[j] = IF j <= Len(a) THEN a[j] ELSE b[j - Len(a)]
  <2> HIDE DEF a, b
  <2> QED  BY <1>1, <1>2, ConcatProperties
<1>4. RemoveAt(s, i) = a \o b
  BY DEF RemoveAt
<1> HIDE DEF a, b
<1>5. Len(a) + Len(b) = Len(s) - 1
  BY <1>0, <1>1, <1>2
<1>6. ASSUME NEW j \in 1..(Len(s) - 1)
      PROVE  (a \o b)[j] = IF j < i THEN s[j] ELSE s[j + 1]
  <2>1. (a \o b)[j] = IF j <= i - 1 THEN a[j] ELSE b[j - (i - 1)]
    <3>1. (a \o b)[j] = IF j <= Len(a) THEN a[j] ELSE b[j - Len(a)]
      BY <1>3, <1>5
    <3> QED  BY <1>1, <3>1
  <2>2. CASE j < i
    BY <1>0, <1>1, <2>1, <2>2
  <2>3. CASE ~ (j < i)
    <3>1. j - (i - 1) \in 1..(Len(s) - i) /\ i + (j - (i - 1)) = j + 1
      BY <1>0, <2>3
    <3> QED  BY <1>0, <1>2, <2>1, <2>3, <3>1
  <2> QED  BY <2>2, <2>3
<1> QED  BY <1>3, <1>4, <1>6, <1>5

\* Every pointer a walk reads is an address or NULL.
LEMMA ForwType ==
    ASSUME TypeOK, NEW t \in Threads
    PROVE  Forw(cur[t]) \subseteq Slots \cup {NULL}
BY DEF Forw, At, TypeOK, Listed

\* Storing one entry of a buffer keeps the buffer's type and length.
LEMMA StoreProperties ==
    ASSUME NEW S, NEW s \in Seq(S), NEW n \in Int, NEW v \in S
    PROVE  /\ [s EXCEPT ![n] = v] \in Seq(S)
           /\ Len([s EXCEPT ![n] = v]) = Len(s)
           /\ \A j \in 1..Len(s) : [s EXCEPT ![n] = v][j] = IF j = n THEN v ELSE s[j]
<1>1. CASE n \in 1..Len(s)
  BY <1>1, ExceptSeq
<1>2. CASE n \notin 1..Len(s)
  <2>1. s \in [1..Len(s) -> S]
    BY LenProperties
  <2>2. [s EXCEPT ![n] = v] = s
    BY <1>2, <2>1
  <2> QED  BY <1>2, <2>2
<1> QED  BY <1>1, <1>2

LEMMA InitType == Init => TypeOK
BY NullIsNoValue DEF Init, TypeOK

\* The assignments that end a request.
LEMMA ReturnType ==
    ASSUME TypeOK, NEW t \in Threads, Return(t), sharers' \subseteq Threads
    PROVE  TypeOK'
BY DEF TypeOK, Return

\* The types hold in every reachable state.
LEMMA NextType == TypeOK /\ [Next]_vars => TypeOK'
<1> SUFFICES ASSUME TypeOK, [Next]_vars PROVE TypeOK'
  OBVIOUS
<1>1. ASSUME NEW s \in Slots, NEW k \in Pids, Fork(s, k) PROVE TypeOK'
  <2>1. list' \in Seq(Slots)
    BY <1>1, ConcatProperties DEF Fork, TypeOK
  <2> QED  BY <1>1, <2>1 DEF Fork, TypeOK, walkVars
<1>2. ASSUME NEW i \in DOMAIN list, Exit(i) PROVE TypeOK'
  <2>1. list' \in Seq(Slots)
    BY <1>2, RemoveAtProperties DEF Exit, TypeOK
  <2> QED  BY <1>2, <2>1 DEF Exit, TypeOK, walkVars
<1>3. ASSUME NEW t \in Threads, List(t) PROVE TypeOK'
  <2>1. LivePids \subseteq Pids
    BY DEF TypeOK, LivePids, Listed
  <2> QED  BY <1>3, <2>1 DEF List, BeginRequest, TypeOK
<1>4. ASSUME NEW t \in Threads, NEW k \in Pids, Find(t, k) PROVE TypeOK'
  <2>1. LivePids \subseteq Pids
    BY DEF TypeOK, LivePids, Listed
  <2> QED  BY <1>4, <2>1 DEF Find, BeginRequest, TypeOK
<1>5. ASSUME NEW t \in Threads, Slock(t) PROVE TypeOK'
  <2>1. At(1) \in Slots \cup {NULL}
    BY DEF TypeOK, At
  <2> QED  BY <1>5, <2>1 DEF Slock, TypeOK, history
<1>6. ASSUME NEW t \in Threads, CountStep(t) PROVE TypeOK'
  <2>1. num[t] + 1 \in Nat
    BY DEF TypeOK
  <2> QED  BY <1>6, <2>1, ForwType DEF CountStep, TypeOK, history
<1>7. ASSUME NEW t \in Threads, FillStep(t) PROVE TypeOK'
  <2>1. pidOf[cur[t]] \in Pids \cup {NULL} /\ num[t] + 1 \in Int
    BY <1>7 DEF FillStep, MoreToWalk, TypeOK
  <2>2. plist'[t] \in Seq(Pids \cup {NULL})
    <3>1. plist[t] \in Seq(Pids \cup {NULL})
      BY DEF TypeOK
    <3>2. plist'[t] = [plist[t] EXCEPT ![num[t] + 1] = pidOf[cur[t]]]
      BY <1>7 DEF FillStep, TypeOK
    <3>3. [plist[t] EXCEPT ![num[t] + 1] = pidOf[cur[t]]] \in Seq(Pids \cup {NULL})
      BY <2>1, <3>1, StoreProperties, Zenon
    <3> QED  BY <3>2, <3>3
  <2>3. plist' \in [Threads -> Seq(Pids \cup {NULL})]
    BY <1>7, <2>2 DEF FillStep, TypeOK
  <2> QED  BY <1>7, <2>3, ForwType DEF FillStep, TypeOK, history
<1>8. ASSUME NEW t \in Threads, FindStep(t) PROVE TypeOK'
  <2>1. num[t] + 1 \in Nat
    BY DEF TypeOK
  <2>2. CASE pidOf[cur[t]] = arg[t]
    BY <1>8, <2>1, <2>2 DEF FindStep, TypeOK, history
  <2>3. CASE pidOf[cur[t]] # arg[t]
    BY <1>8, <2>1, <2>3, ForwType DEF FindStep, TypeOK, history
  <2> QED  BY <2>2, <2>3
<1>9. ASSUME NEW t \in Threads, WalkEnd(t) PROVE TypeOK'
  BY <1>9 DEF WalkEnd, TypeOK, walkVars, history
<1>10. ASSUME NEW t \in Threads, SunlockCount(t) PROVE TypeOK'
  <2>1. CASE num[t] = 0
    BY <1>10, <2>1, ReturnType DEF SunlockCount, Release, TypeOK
  <2>2. CASE num[t] # 0
    <3>1. [i \in 1..num[t] |-> NULL] \in Seq(Pids \cup {NULL})
      BY DEF TypeOK
    <3>2. plist' \in [Threads -> Seq(Pids \cup {NULL})]
      <4> DEFINE empty == [i \in 1..num[t] |-> NULL]
      <4>1. plist' = [plist EXCEPT ![t] = empty]
        BY <1>10, <2>2, Zenon DEF SunlockCount
      <4>2. plist \in [Threads -> Seq(Pids \cup {NULL})]
        BY Zenon DEF TypeOK
      <4> HIDE DEF empty
      <4>3. empty \in Seq(Pids \cup {NULL})
        BY <3>1 DEF empty
      <4> QED  BY <4>1, <4>2, <4>3
    <3>3. arg' \in [Threads -> Nat \cup Pids] /\ arg'[t] \in Nat
      BY <1>10, <2>2 DEF SunlockCount, TypeOK
    <3> QED  BY <1>10, <2>2, <3>2, <3>3 DEF SunlockCount, Release, TypeOK, history
  <2> QED  BY <2>1, <2>2
<1>11. ASSUME NEW t \in Threads, SunlockFill(t) PROVE TypeOK'
  BY <1>11 DEF SunlockFill, Release, TypeOK, walkVars, history
<1>12. ASSUME NEW t \in Threads, SunlockFind(t) PROVE TypeOK'
  <2>1. CASE found[t] = NULL
    BY <1>12, <2>1, ReturnType DEF SunlockFind, Release, TypeOK
  <2>2. CASE found[t] # NULL
    BY <1>12, <2>2 DEF SunlockFind, Release, TypeOK, walkVars, history
  <2> QED  BY <2>1, <2>2
<1>13. ASSUME NEW t \in Threads, Use(t) PROVE TypeOK'
  BY <1>13, ReturnType DEF Use, TypeOK
<1>14. ASSUME NEW t \in Threads, Reply(t) PROVE TypeOK'
  BY <1>14, ReturnType DEF Reply, TypeOK
<1>15. CASE UNCHANGED vars
  BY <1>15 DEF TypeOK, vars, walkVars, history
<1> QED  BY <1>1, <1>2, <1>3, <1>4, <1>5, <1>6, <1>7, <1>8, <1>9, <1>10, <1>11,
            <1>12, <1>13, <1>14, <1>15 DEF Next, Walk

\* Every variable keeps its type.
THEOREM TypeCorrect == Spec => []TypeOK
BY InitType, NextType, PTL DEF Spec

-----------------------------------------------------------------------------
\* A thread whose own variables a step leaves alone keeps its invariant while
\* the list and the memory stay as they are.
LEMMA Frame ==
    ASSUME NEW u \in Threads, ThreadInv(u), list' = list, pidOf' = pidOf,
           pc'[u] = pc[u], op'[u] = op[u], cur'[u] = cur[u], num'[u] = num[u],
           arg'[u] = arg[u], found'[u] = found[u], plist'[u] = plist[u]
    PROVE  ThreadInv(u)'
BY DEF ThreadInv, Walking, Copied, Rejected, Exact, CountExact, FillExact,
       FindExact, Matches, Blank, At

\* The step along the list from the entry a walk has reached.
LEMMA ForwNext ==
    ASSUME TypeOK, Distinct, NEW n \in Nat, n < Len(list)
    PROVE  /\ At(n + 1) = list[n + 1]
           /\ list[n + 1] \in Slots
           /\ Forw(list[n + 1]) = {At(n + 2)}
<1>1. n + 1 \in DOMAIN list
  BY DEF TypeOK
<1>2. {j \in DOMAIN list : list[j] = list[n + 1]} = {n + 1}
  BY <1>1 DEF Distinct
<1>3. (n + 1) + 1 = n + 2
  OBVIOUS
<1> QED  BY <1>1, <1>2, <1>3 DEF Forw, At, Listed, TypeOK

LEMMA InitInv == Init => WalkInv
BY DEF Init, WalkInv, Distinct, Holders, ThreadInv

\* fork and exit wait for every walk, and leave the list without repetition.
LEMMA ForkInv ==
    ASSUME TypeOK, WalkInv, NEW s \in Slots, NEW k \in Pids, Fork(s, k)
    PROVE  WalkInv'
<1>1. /\ Len(list') = Len(list) + 1
      /\ \A i \in 1..Len(list') : list'[i] = IF i = 1 THEN s ELSE list[i - 1]
      /\ list' \in Seq(Slots)
  <2>1. <<s>> \in Seq(Slots) /\ Len(<<s>>) = 1 /\ <<s>>[1] = s
    OBVIOUS
  <2> QED  BY <2>1, ConcatProperties DEF Fork, TypeOK
<1>2. Distinct'
  <2>1. \A i \in 1..Len(list) : list[i] # s
    BY DEF Fork, Listed
  <2>2. DOMAIN list = 1..Len(list) /\ DOMAIN list' = 1..Len(list') /\ Len(list) \in Nat
    BY <1>1 DEF TypeOK
  <2>3. ASSUME NEW i \in 1..Len(list'), NEW j \in 1..Len(list'), list'[i] = list'[j]
        PROVE  i = j
    <3>1. CASE i = 1 \/ j = 1
      BY <1>1, <2>1, <2>2, <2>3, <3>1
    <3>2. CASE i # 1 /\ j # 1
      BY <1>1, <2>2, <2>3, <3>2 DEF WalkInv, Distinct
    <3> QED  BY <3>1, <3>2
  <2> QED  BY <2>2, <2>3 DEF Distinct
<1>3. LockMapped => Holders' /\ \A t \in Threads : ThreadInv(t)'
  <2> SUFFICES ASSUME LockMapped PROVE Holders' /\ \A t \in Threads : ThreadInv(t)'
    OBVIOUS
  <2>1. \A t \in Threads : pc[t] \notin {"walk", "unlock"}
    BY DEF WalkInv, Holders, Fork
  <2>2. UNCHANGED <<sharers, pc, op, arg, plist>>
    BY DEF Fork, walkVars
  <2> QED  BY <2>1, <2>2 DEF WalkInv, Holders, ThreadInv, Blank
<1> QED  BY <1>2, <1>3 DEF WalkInv

LEMMA ExitInv ==
    ASSUME TypeOK, WalkInv, NEW i \in DOMAIN list, Exit(i)
    PROVE  WalkInv'
<1>1. /\ Len(list') = Len(list) - 1
      /\ \A j \in 1..Len(list') : list'[j] = IF j < i THEN list[j] ELSE list[j + 1]
      /\ list' \in Seq(Slots)
  BY RemoveAtProperties DEF Exit, TypeOK
<1>2. Distinct'
  <2>2. /\ DOMAIN list = 1..Len(list)
        /\ DOMAIN list' = 1..Len(list')
        /\ Len(list) \in Nat
    BY <1>1 DEF TypeOK
  <2> QED  BY <1>1, <2>2 DEF WalkInv, Distinct
<1>3. LockMapped => Holders' /\ \A t \in Threads : ThreadInv(t)'
  <2> SUFFICES ASSUME LockMapped PROVE Holders' /\ \A t \in Threads : ThreadInv(t)'
    OBVIOUS
  <2>1. \A t \in Threads : pc[t] \notin {"walk", "unlock"}
    BY DEF WalkInv, Holders, Exit
  <2>2. UNCHANGED <<sharers, pc, op, arg, plist>>
    BY DEF Exit, walkVars
  <2> QED  BY <2>1, <2>2 DEF WalkInv, Holders, ThreadInv, Blank
<1> QED  BY <1>2, <1>3 DEF WalkInv

\* One step of a walk that goes on advances num and cur together, so that the
\* walk has dealt with exactly the entries behind it.
LEMMA WalkStepInv ==
    ASSUME TypeOK, WalkInv, LockMapped, NEW t \in Threads,
           CountStep(t) \/ FillStep(t) \/ FindStep(t)
    PROVE  ThreadInv(t)'
<1> DEFINE n == num[t]
<1>1. pc[t] = "walk" /\ Walking(t) /\ MoreToWalk(t) /\ Distinct
  BY DEF WalkInv, ThreadInv, CountStep, FillStep, FindStep
<1>2. n \in Nat /\ Len(list) \in Nat /\ n < Len(list)
  BY <1>1 DEF TypeOK, Walking, MoreToWalk, At
<1>3. cur[t] = list[n + 1] /\ Forw(cur[t]) = {At(n + 2)}
  BY <1>1, <1>2, ForwNext DEF Walking
<1>4. UNCHANGED <<list, pidOf, sharers, op, arg>> /\ num'[t] = n + 1
  BY DEF CountStep, FillStep, FindStep, TypeOK, history
<1>5. At(num[t] + 1)' = At(n + 2)
  BY <1>2, <1>4 DEF At
<1>6. CASE CountStep(t)
  <2>1. pc'[t] = "walk" /\ op'[t] = "count" /\ cur'[t] = At(n + 2)
    BY <1>1, <1>3, <1>6 DEF CountStep, TypeOK
  <2>2. n < WalkMax
    BY <1>1, <1>6 DEF CountStep, MoreToWalk
  <2>3. cur'[t] = At(num[t] + 1)'
    BY <1>5, <2>1
  <2> QED  BY <1>2, <1>4, <2>1, <2>2, <2>3, WalkMaxIsPos DEF ThreadInv, Walking
<1>7. CASE FillStep(t)
  <2>1. pc'[t] = "walk" /\ op'[t] = "fill" /\ cur'[t] = At(n + 2)
    BY <1>1, <1>3, <1>7 DEF FillStep, TypeOK
  <2>2. n < arg[t] /\ Copied(t) /\ arg[t] \in Nat
    BY <1>1, <1>7 DEF FillStep, MoreToWalk, Walking, Copied
  <2>3. cur'[t] = At(num[t] + 1)'
    BY <1>5, <2>1
  <2>4. plist[t] \in Seq(Pids \cup {NULL}) /\ n + 1 \in 1..Len(plist[t])
    BY <1>2, <2>2 DEF TypeOK, Copied
  <2>5. plist'[t] = [plist[t] EXCEPT ![n + 1] = pidOf[list[n + 1]]]
    BY <1>3, <1>7 DEF FillStep, TypeOK
  <2>6. /\ Len(plist'[t]) = arg[t]
        /\ \A i \in 1..arg[t] :
               plist'[t][i] = IF i = n + 1 THEN pidOf[list[n + 1]] ELSE plist[t][i]
    <3>1. pidOf[list[n + 1]] \in Pids \cup {NULL}
      BY <1>2 DEF TypeOK
    <3> QED  BY <2>2, <2>4, <2>5, <3>1, ExceptSeq DEF Copied
  <2>7. Copied(t)'
    BY <1>2, <1>4, <2>2, <2>6 DEF Copied
  <2> QED  BY <1>2, <1>4, <2>1, <2>3, <2>7 DEF ThreadInv, Walking
<1>8. CASE FindStep(t)
  <2>1. n + 1 < WalkMax /\ Rejected(t)
    BY <1>1, <1>8 DEF FindStep, MoreToWalk, Walking
  <2>2. CASE pidOf[cur[t]] = arg[t]
    <3>1. pc'[t] = "unlock" /\ op'[t] = "find" /\ found'[t] = list[n + 1]
      BY <1>1, <1>3, <1>8, <2>2 DEF FindStep, TypeOK
    <3>2. n + 1 \in Matches(t)'
      BY <1>2, <1>3, <1>4, <2>1, <2>2 DEF Matches, TypeOK
    <3>3. found'[t] # NULL
      BY <1>2, <3>1, NullIsNoValue DEF TypeOK
    <3>4. FindExact(t)'
      BY <1>4, <3>1, <3>2, <3>3 DEF FindExact
    <3> QED  BY <3>1, <3>4 DEF ThreadInv, Exact
  <2>3. CASE pidOf[cur[t]] # arg[t]
    <3>1. pc'[t] = "walk" /\ op'[t] = "find" /\ cur'[t] = At(n + 2) /\ found'[t] = found[t]
      BY <1>1, <1>3, <1>8, <2>3 DEF FindStep, TypeOK
    <3>2. cur'[t] = At(num[t] + 1)'
      BY <1>5, <3>1
    <3>3. Rejected(t)'
      BY <1>2, <1>3, <1>4, <2>1, <2>3, <3>1 DEF Rejected
    <3> QED  BY <1>2, <1>4, <3>1, <3>2, <3>3 DEF ThreadInv, Walking
  <2> QED  BY <2>2, <2>3
<1> QED  BY <1>6, <1>7, <1>8

\* A walk whose loop condition fails has seen what it was asked to see.
LEMMA WalkEndInv ==
    ASSUME TypeOK, WalkInv, LockMapped, NEW t \in Threads, WalkEnd(t)
    PROVE  ThreadInv(t)'
<1>1. pc[t] = "walk" /\ Walking(t) /\ ~ MoreToWalk(t) /\ pc'[t] = "unlock"
  BY DEF WalkInv, ThreadInv, WalkEnd, TypeOK
<1>2. UNCHANGED <<list, pidOf, op, cur, num, arg, found, plist>>
  BY DEF WalkEnd, walkVars
<1>3. num[t] \in Nat /\ Len(list) \in Nat /\ DOMAIN list = 1..Len(list) /\ WalkMax \in Nat
  BY WalkMaxIsPos DEF TypeOK
<1>4. cur[t] = NULL => num[t] = Len(list)
  BY <1>1, <1>3, NullIsNoValue DEF Walking, At, TypeOK
<1>5. op[t] = "count" => CountExact(t)
  BY <1>1, <1>3, <1>4 DEF CountExact, Walking, MoreToWalk
<1>6. op[t] = "fill" => FillExact(t)
  BY <1>1, <1>3, <1>4 DEF FillExact, Walking, Copied, MoreToWalk
<1>7. op[t] = "find" => FindExact(t)
  BY <1>1, <1>3, <1>4 DEF FindExact, Matches, Walking, Rejected, MoreToWalk
<1>8. Exact(t)
  BY <1>5, <1>6, <1>7 DEF Exact
<1>9. Exact(t)'
  BY <1>2, <1>8 DEF Exact, CountExact, FillExact, FindExact, Matches
<1> QED  BY <1>1, <1>9 DEF ThreadInv

\* Walk(t) and the two requests change no variable of another thread.
LEMMA OthersFrame ==
    ASSUME TypeOK, WalkInv, LockMapped, NEW t \in Threads, NEW u \in Threads, u # t,
           List(t) \/ (\E k \in Pids : Find(t, k)) \/ Walk(t)
    PROVE  ThreadInv(u)' /\ pc'[u] = pc[u]
<1>1. ThreadInv(u)
  BY DEF WalkInv
<1>2. UNCHANGED <<list, pidOf>>
  BY DEF List, Find, Walk, Slock, CountStep, FillStep, FindStep, WalkEnd, SunlockCount,
         SunlockFill, SunlockFind, Use, Reply, Return
<1>3. pc'[u] = pc[u] /\ op'[u] = op[u] /\ cur'[u] = cur[u] /\ num'[u] = num[u]
  BY DEF TypeOK, List, Find, BeginRequest, Walk, Slock, CountStep, FillStep, FindStep,
         WalkEnd, SunlockCount, SunlockFill, SunlockFind, Use, Reply, Return, walkVars
<1>4. arg'[u] = arg[u] /\ found'[u] = found[u] /\ plist'[u] = plist[u]
  BY DEF TypeOK, List, Find, BeginRequest, Walk, Slock, CountStep, FillStep, FindStep,
         WalkEnd, SunlockCount, SunlockFill, SunlockFind, Use, Reply, Return, walkVars
<1> QED  BY <1>1, <1>2, <1>3, <1>4, Frame

\* The thread that steps keeps its own invariant, and joins or leaves the
\* holders exactly when it enters or leaves the walk.
LEMMA OwnStep ==
    ASSUME TypeOK, WalkInv, LockMapped, NEW t \in Threads,
           List(t) \/ (\E k \in Pids : Find(t, k)) \/ Walk(t)
    PROVE  /\ ThreadInv(t)'
           /\ sharers' \ {t} = sharers \ {t}
           /\ t \in sharers' <=> pc'[t] \in {"walk", "unlock"}
<1>0. t \in sharers <=> pc[t] \in {"walk", "unlock"}
  BY DEF WalkInv, Holders
<1>1. CASE List(t)
  BY <1>0, <1>1 DEF List, BeginRequest, TypeOK, ThreadInv
<1>2. ASSUME NEW k \in Pids, Find(t, k)
      PROVE  /\ ThreadInv(t)'
             /\ sharers' \ {t} = sharers \ {t}
             /\ t \in sharers' <=> pc'[t] \in {"walk", "unlock"}
  BY <1>0, <1>2 DEF Find, BeginRequest, TypeOK, ThreadInv
<1>3. CASE Slock(t)
  <2>1. /\ pc'[t] = "walk" /\ num'[t] = 0 /\ cur'[t] = At(1) /\ found'[t] = NULL
        /\ UNCHANGED <<list, pidOf, op, arg, plist>>
    BY <1>3 DEF Slock, TypeOK
  <2>2. op[t] = "fill" => Blank(t) /\ arg[t] \in Nat
    BY <1>3 DEF Slock, WalkInv, ThreadInv, TypeOK
  <2>3. op'[t] = "fill" => Copied(t)'
    BY <2>1, <2>2 DEF Copied, Blank
  <2>4. op'[t] = "find" => Rejected(t)'
    BY <2>1, WalkMaxIsPos DEF Rejected
  <2>5. At(num[t] + 1)' = At(1)
    BY <2>1 DEF At
  <2>6. Len(list) \in Nat
    BY DEF TypeOK
  <2>7. Walking(t)'
    BY <2>1, <2>3, <2>4, <2>5, <2>6, WalkMaxIsPos DEF Walking
  <2> QED  BY <1>3, <2>1, <2>7 DEF Slock, ThreadInv
<1>4. CASE CountStep(t) \/ FillStep(t) \/ FindStep(t)
  <2>1. pc[t] = "walk" /\ pc'[t] \in {"walk", "unlock"} /\ sharers' = sharers
    BY <1>4 DEF CountStep, FillStep, FindStep, TypeOK
  <2> QED  BY <1>0, <1>4, <2>1, WalkStepInv
<1>5. CASE WalkEnd(t)
  BY <1>0, <1>5, WalkEndInv DEF WalkEnd, TypeOK
<1>6. CASE SunlockCount(t)
  <2>1. CASE num[t] = 0
    BY <1>6, <2>1 DEF SunlockCount, Release, Return, TypeOK, ThreadInv
  <2>2. CASE num[t] # 0
    <3>1. /\ pc'[t] = "lock" /\ arg'[t] = num[t]
          /\ plist'[t] = [i \in 1..num[t] |-> NULL]
      BY <1>6, <2>2 DEF SunlockCount, TypeOK
    <3>2. num[t] \in Nat
      BY DEF TypeOK
    <3>3. Blank(t)'
      BY <3>1, <3>2 DEF Blank
    <3> QED  BY <1>6, <3>1, <3>3 DEF SunlockCount, Release, ThreadInv
  <2> QED  BY <2>1, <2>2
<1>7. CASE SunlockFill(t)
  BY <1>7 DEF SunlockFill, Release, TypeOK, ThreadInv
<1>8. CASE SunlockFind(t)
  BY <1>8 DEF SunlockFind, Release, Return, TypeOK, ThreadInv
<1>9. CASE Use(t) \/ Reply(t)
  BY <1>0, <1>9 DEF Use, Reply, Return, TypeOK, ThreadInv
<1> QED  BY <1>1, <1>2, <1>3, <1>4, <1>5, <1>6, <1>7, <1>8, <1>9 DEF Walk

LEMMA ThreadStepInv ==
    ASSUME TypeOK, WalkInv, NEW t \in Threads,
           List(t) \/ (\E k \in Pids : Find(t, k)) \/ Walk(t)
    PROVE  WalkInv'
<1>1. list' = list
  BY DEF List, Find, Walk, Slock, CountStep, FillStep, FindStep, WalkEnd, SunlockCount,
         SunlockFill, SunlockFind, Use, Reply, Return
<1>2. Distinct'
  BY <1>1 DEF WalkInv, Distinct
<1>3. ASSUME LockMapped PROVE Holders' /\ \A u \in Threads : ThreadInv(u)'
  <2>1. \A u \in Threads : ThreadInv(u)'
    BY <1>3, OwnStep, OthersFrame
  <2>2. \A u \in Threads : u \in sharers' <=> pc'[u] \in {"walk", "unlock"}
    <3>1. ASSUME NEW u \in Threads, u # t
          PROVE  u \in sharers' <=> pc'[u] \in {"walk", "unlock"}
      BY <1>3, <3>1, OwnStep, OthersFrame DEF WalkInv, Holders
    <3> QED  BY <1>3, <3>1, OwnStep
  <2>3. sharers' \subseteq Threads
    BY <1>3, OwnStep DEF TypeOK
  <2> QED  BY <2>1, <2>2, <2>3 DEF Holders
<1> QED  BY <1>2, <1>3 DEF WalkInv

LEMMA NextInv == TypeOK /\ WalkInv /\ [Next]_vars => WalkInv'
<1> SUFFICES ASSUME TypeOK, WalkInv, [Next]_vars PROVE WalkInv'
  OBVIOUS
<1>1. CASE Next
  BY <1>1, ForkInv, ExitInv, ThreadStepInv DEF Next
<1>2. CASE UNCHANGED vars
  <2>1. Distinct' /\ (Holders => Holders')
    BY <1>2 DEF WalkInv, Distinct, Holders, vars
  <2>2. \A t \in Threads : ThreadInv(t) => ThreadInv(t)'
    BY <1>2, Frame DEF vars, walkVars
  <2> QED  BY <2>1, <2>2 DEF WalkInv
<1> QED  BY <1>1, <1>2

THEOREM InvCorrect == Spec => []WalkInv
BY TypeCorrect, InitInv, NextInv, PTL DEF Spec

\* No walk ever stands on a structure that has left the process list.
THEOREM WalkSafeCorrect == Spec => []WalkSafe
<1>1. TypeOK /\ WalkInv => WalkSafe
  BY DEF WalkSafe, WalkInv, ThreadInv, Walking, At, Listed
<1> QED  BY <1>1, TypeCorrect, InvCorrect, PTL

\* Every walk computes what the list as a whole holds when the lock is released.
THEOREM WalkExactCorrect == Spec => []WalkExact
<1>1. WalkInv => WalkExact
  BY DEF WalkExact, WalkInv, ThreadInv
<1> QED  BY <1>1, InvCorrect, PTL

-----------------------------------------------------------------------------
LEMMA InitHistory == Init => HistoryInv
BY DEF Init, HistoryInv, RequestInv, ListFaithful, UseCurrent

LEMMA ForkHistory ==
    ASSUME TypeOK, WalkInv, HistoryInv, LockMapped,
           NEW s \in Slots, NEW k \in Pids, Fork(s, k)
    PROVE  HistoryInv'
<1>1. /\ Len(list') = Len(list) + 1 /\ list' \in Seq(Slots)
      /\ \A i \in 1..Len(list') : list'[i] = IF i = 1 THEN s ELSE list[i - 1]
  <2>1. <<s>> \in Seq(Slots) /\ Len(<<s>>) = 1 /\ <<s>>[1] = s
    OBVIOUS
  <2> QED  BY <2>1, ConcatProperties DEF Fork, TypeOK
<1>2. /\ DOMAIN list = 1..Len(list) /\ DOMAIN list' = 1..Len(list')
      /\ Len(list) \in Nat
  BY <1>1 DEF TypeOK
<1>3. Listed \subseteq Listed'
  <2>1. \A i \in 1..Len(list) : i + 1 \in 1..Len(list') /\ list'[i + 1] = list[i]
    BY <1>1, <1>2
  <2> QED  BY <1>2, <2>1 DEF Listed
<1>4. \A q \in Listed : pidOf'[q] = pidOf[q]
  BY DEF Fork, Listed, TypeOK
<1>5. LivePids \subseteq LivePids'
  BY <1>3, <1>4 DEF LivePids
<1>6. UNCHANGED <<pc, op, arg, found, plist, alive, exited>>
  BY DEF Fork, walkVars
<1>7. \A t \in Threads : pc[t] # "idle" => forked'[t]
  BY DEF Fork
<1>8. ASSUME NEW t \in Threads PROVE RequestInv(t)'
  <2>1. RequestInv(t)
    BY DEF HistoryInv
  <2>2. alive'[t] = alive[t] /\ pc'[t] = pc[t] /\ op'[t] = op[t] /\ arg'[t] = arg[t]
        /\ exited'[t] = exited[t]
    BY <1>6
  <2>3. op[t] = "fill" => arg[t] \in Nat
    BY DEF TypeOK
  <2> QED  BY <1>1, <1>2, <1>5, <1>7, <2>1, <2>2, <2>3 DEF RequestInv
<1>9. ListFaithful'
  BY <1>6, <1>7 DEF HistoryInv, ListFaithful, Reported
<1>10. UseCurrent'
  BY <1>3, <1>4, <1>6 DEF HistoryInv, UseCurrent
<1> QED  BY <1>8, <1>9, <1>10 DEF HistoryInv

LEMMA ExitHistory ==
    ASSUME TypeOK, WalkInv, HistoryInv, LockMapped, NEW i \in DOMAIN list, Exit(i)
    PROVE  HistoryInv'
<1>1. /\ Len(list') = Len(list) - 1 /\ list' \in Seq(Slots)
      /\ \A j \in 1..Len(list') : list'[j] = IF j < i THEN list[j] ELSE list[j + 1]
  BY RemoveAtProperties DEF Exit, TypeOK
<1>2. /\ DOMAIN list = 1..Len(list) /\ DOMAIN list' = 1..Len(list')
      /\ Len(list) \in Nat
  BY <1>1 DEF TypeOK
<1>3. \A j \in DOMAIN list : j # i => list[j] \in Listed'
  <2>1. ASSUME NEW j \in DOMAIN list, j < i PROVE list[j] \in Listed'
    <3>1. j \in DOMAIN list' /\ list'[j] = list[j]
      BY <1>1, <1>2, <2>1
    <3> QED  BY <3>1 DEF Listed
  <2>2. ASSUME NEW j \in DOMAIN list, i < j PROVE list[j] \in Listed'
    <3>1. j - 1 \in DOMAIN list' /\ list'[j - 1] = list[j]
      BY <1>1, <1>2, <2>2
    <3> QED  BY <3>1 DEF Listed
  <2> QED  BY <1>2, <2>1, <2>2
<1>4. UNCHANGED <<pidOf, pc, op, arg, found, plist, forked>>
  BY DEF Exit, walkVars
<1>5. LivePids \ {pidOf[list[i]]} \subseteq LivePids'
  BY <1>3, <1>4 DEF LivePids, Listed
<1>6. \A t \in Threads : /\ pc[t] # "idle" => exited'[t]
                          /\ alive'[t] = alive[t] \ {pidOf[list[i]]}
  BY DEF Exit
<1>7. ASSUME NEW t \in Threads PROVE RequestInv(t)'
  <2>1. RequestInv(t)
    BY DEF HistoryInv
  <2>2. op[t] = "fill" => arg[t] \in Nat
    BY DEF TypeOK
  <2> QED  BY <1>1, <1>2, <1>4, <1>5, <1>6, <2>1, <2>2 DEF RequestInv
<1>8. ListFaithful'
  BY <1>4, <1>6 DEF HistoryInv, ListFaithful, Reported
<1>9. UseCurrent'
  BY <1>4, <1>6 DEF HistoryInv, UseCurrent
<1> QED  BY <1>7, <1>8, <1>9 DEF HistoryInv

\* What a walk's own step does to a request: it keeps what the history promises.
LEMMA StepHistory ==
    ASSUME TypeOK, WalkInv, HistoryInv, LockMapped, NEW t \in Threads,
           List(t) \/ (\E k \in Pids : Find(t, k)) \/ Walk(t)
    PROVE  HistoryInv'
<1> DEFINE H(u) ==
        /\ RequestInv(u)
        /\ pc[u] = "reply" =>
               /\ ~ forked[u] /\ arg[u] < WalkMax => alive[u] \subseteq Reported(u)
               /\ ~ exited[u] => NULL \notin Reported(u)
        /\ pc[u] = "use" =>
               exited[u] \/ (found[u] \in Listed /\ pidOf[found[u]] = arg[u])
<1>1. UNCHANGED <<list, pidOf>>
  BY DEF List, Find, Walk, Slock, CountStep, FillStep, FindStep, WalkEnd, SunlockCount,
         SunlockFill, SunlockFind, Use, Reply, Return
<1>2. Listed' = Listed /\ LivePids' = LivePids
  BY <1>1 DEF Listed, LivePids
<1>3. \A u \in Threads : H(u)
  BY DEF HistoryInv, ListFaithful, UseCurrent
<1>4. ASSUME NEW u \in Threads, u # t PROVE H(u)'
  <2>1. pc'[u] = pc[u] /\ op'[u] = op[u] /\ arg'[u] = arg[u] /\ found'[u] = found[u]
        /\ plist'[u] = plist[u]
    BY <1>4 DEF TypeOK, List, Find, BeginRequest, Walk, Slock, CountStep, FillStep,
         FindStep, WalkEnd, SunlockCount, SunlockFill, SunlockFind, Use, Reply, Return,
         walkVars
  <2>2. alive'[u] = alive[u] /\ forked'[u] = forked[u] /\ exited'[u] = exited[u]
    BY <1>4 DEF TypeOK, List, Find, BeginRequest, Walk, Slock, CountStep, FillStep,
         FindStep, WalkEnd, SunlockCount, SunlockFill, SunlockFind, Use, Reply, Return,
         history
  <2> QED  BY <1>1, <1>2, <1>3, <2>1, <2>2 DEF RequestInv, Reported
<1>5. H(t)'
  <2>0. H(t) /\ ThreadInv(t) /\ Len(list) \in Nat /\ DOMAIN list = 1..Len(list)
    BY <1>3 DEF WalkInv, TypeOK
  <2>1. CASE List(t) \/ (\E k \in Pids : Find(t, k))
    <3>1. pc'[t] = "lock" /\ op'[t] \in {"count", "find"} /\ alive'[t] = LivePids
      BY <2>1 DEF List, Find, BeginRequest, TypeOK
    <3> QED  BY <1>2, <3>1 DEF RequestInv
  <2>2. CASE Slock(t) \/ CountStep(t) \/ FillStep(t) \/ FindStep(t) \/ WalkEnd(t)
    <3>1. /\ pc[t] \in {"lock", "walk"} /\ pc'[t] \in {"walk", "unlock"}
          /\ op'[t] = op[t] /\ arg'[t] = arg[t]
          /\ UNCHANGED <<alive, forked, exited>>
      BY <2>2 DEF Slock, CountStep, FillStep, FindStep, WalkEnd, TypeOK, walkVars, history
    <3> QED  BY <1>1, <1>2, <2>0, <3>1 DEF RequestInv
  <2>3. ASSUME Return(t) PROVE H(t)'
    <3>1. pc'[t] = "idle" /\ op'[t] = "count"
      BY <2>3 DEF Return, TypeOK
    <3> QED  BY <3>1 DEF RequestInv
  <2>4. CASE SunlockCount(t) /\ num[t] # 0
    <3>1. /\ pc[t] = "unlock" /\ pc'[t] = "lock" /\ op'[t] = "fill" /\ arg'[t] = num[t]
          /\ UNCHANGED <<alive, forked, exited>>
      BY <2>4 DEF SunlockCount, TypeOK, history
    <3>2. CountExact(t) /\ num[t] \in Nat
      BY <2>0, <2>4 DEF SunlockCount, ThreadInv, Exact, TypeOK
    <3>3. /\ num[t] < WalkMax => Len(list) <= num[t]
          /\ num[t] <= Len(list)
      BY <2>0, <3>2, WalkMaxIsPos DEF CountExact
    <3> QED  BY <1>1, <1>2, <2>0, <3>1, <3>3 DEF RequestInv
  <2>5. CASE SunlockFill(t)
    <3>1. /\ pc[t] = "unlock" /\ op[t] = "fill" /\ pc'[t] = "reply"
          /\ op'[t] = op[t] /\ arg'[t] = arg[t] /\ plist'[t] = plist[t]
          /\ UNCHANGED <<alive, forked, exited>>
      BY <2>5 DEF SunlockFill, TypeOK, walkVars, history
    <3>2. FillExact(t) /\ arg[t] \in Nat /\ DOMAIN plist[t] = 1..arg[t]
      BY <2>0, <3>1 DEF ThreadInv, Exact, FillExact, TypeOK
    <3>3. ASSUME ~ forked[t], arg[t] < WalkMax PROVE alive[t] \subseteq Reported(t)
      <4>1. Len(list) <= arg[t] /\ alive[t] \subseteq LivePids
        BY <2>0, <3>1, <3>3 DEF RequestInv
      <4>2. \A i \in DOMAIN list : i \in DOMAIN plist[t] /\ plist[t][i] = pidOf[list[i]]
        BY <2>0, <3>2, <4>1 DEF FillExact
      <4> QED  BY <4>1, <4>2 DEF Reported, LivePids, Listed
    <3>4. ASSUME ~ exited[t] PROVE NULL \notin Reported(t)
      <4>1. arg[t] <= Len(list)
        BY <2>0, <3>1, <3>4 DEF RequestInv
      <4>2. \A i \in DOMAIN plist[t] : plist[t][i] = pidOf[list[i]] /\ list[i] \in Slots
        BY <2>0, <3>2, <4>1 DEF FillExact, TypeOK
      <4> QED  BY <4>2, NullIsNoValue DEF Reported, TypeOK
    <3> QED  BY <1>1, <1>2, <2>0, <3>1, <3>3, <3>4 DEF RequestInv, Reported
  <2>6. CASE SunlockFind(t) /\ found[t] # NULL
    <3>1. /\ pc[t] = "unlock" /\ op[t] = "find" /\ pc'[t] = "use"
          /\ op'[t] = op[t] /\ arg'[t] = arg[t] /\ found'[t] = found[t]
          /\ UNCHANGED <<alive, forked, exited>>
      BY <2>6 DEF SunlockFind, TypeOK, walkVars, history
    <3>2. FindExact(t)
      BY <2>0, <3>1 DEF ThreadInv, Exact
    <3>3. found[t] \in Listed /\ pidOf[found[t]] = arg[t]
      BY <2>6, <3>2 DEF FindExact, Matches, Listed
    <3> QED  BY <1>1, <1>2, <2>0, <3>1, <3>3 DEF RequestInv
  <2> QED  BY <2>1, <2>2, <2>3, <2>4, <2>5, <2>6 DEF Walk, Use, Reply, SunlockCount, SunlockFind
<1> QED  BY <1>4, <1>5 DEF HistoryInv, ListFaithful, UseCurrent

LEMMA NextHistory == TypeOK /\ WalkInv /\ HistoryInv /\ [Next]_vars => HistoryInv'
<1> SUFFICES ASSUME TypeOK, WalkInv, HistoryInv, [Next]_vars, LockMapped
             PROVE  HistoryInv'
  BY DEF HistoryInv
<1>1. CASE Next
  BY <1>1, ForkHistory, ExitHistory, StepHistory DEF Next
<1>2. CASE UNCHANGED vars
  BY <1>2 DEF HistoryInv, RequestInv, ListFaithful, UseCurrent, Reported, Listed,
              LivePids, vars, walkVars, history
<1> QED  BY <1>1, <1>2

\* /list misses a living process only if something forked between its two
\* system calls, and invents an entry only if something exited.
THEOREM ListFaithfulCorrect == Spec => []ListFaithful
<1>1. Spec => []HistoryInv
  BY TypeCorrect, InvCorrect, InitHistory, NextHistory, PTL DEF Spec
<1>2. HistoryInv => ListFaithful
  BY DEF HistoryInv, ListFaithful
<1> QED  BY <1>1, <1>2, PTL

\* The pointer a request works on is the process it named, unless a process
\* has exited since.
THEOREM UseCurrentCorrect == Spec => []UseCurrent
<1>1. Spec => []HistoryInv
  BY TypeCorrect, InvCorrect, InitHistory, NextHistory, PTL DEF Spec
<1>2. HistoryInv => UseCurrent
  BY DEF HistoryInv, UseCurrent
<1> QED  BY <1>1, <1>2, PTL

=============================================================================
