-------------------------- MODULE KlogBridgeProofs --------------------------
(***************************************************************************)
(* KlogBridge and the ring it fills, for any sizes, any number of request  *)
(* threads and of reader threads.                                          *)
(***************************************************************************)
EXTENDS KlogBridge, FiniteSetTheorems, SequenceTheorems, TLAPS

-----------------------------------------------------------------------------
\* The ring.

RingInv == RingTypeOK /\ RingContiguous

LEMMA RingInitInv == RingInit => RingInv
<1> SUFFICES ASSUME RingInit PROVE RingInv
  OBVIOUS
<1>1. RingTypeOK
  BY RingIsPos, MaxSeqIsNat DEF RingInit, RingTypeOK
<1>2. << >> = [i \in 1..0 |-> seq - 0 + i]
  OBVIOUS
<1> QED  BY <1>1, <1>2 DEF RingInv, RingInit, RingContiguous

\* A run of numbers that ends at q: what it is made of, and that it is the ring then.
Run(s, n, q) == s \in Seq(Int) /\ Len(s) = n /\ \A i \in 1..n : s[i] = q - n + i

LEMMA RingIsRun == RingTypeOK => (RingContiguous <=> Run(lines, Len(lines), seq))
<1> SUFFICES ASSUME RingTypeOK PROVE RingContiguous <=> Run(lines, Len(lines), seq)
  OBVIOUS
<1>1. lines \in Seq(Int) /\ Len(lines) \in Nat /\ seq \in Int
  BY MaxSeqIsNat DEF RingTypeOK
<1>2. lines = [i \in 1..Len(lines) |-> lines[i]]
  BY <1>1
<1> QED  BY <1>1, <1>2 DEF Run, RingContiguous

\* Numbering k more lines behind the ring prolongs the run.
LEMMA RunGrows ==
    ASSUME NEW s, NEW n \in Nat, NEW q \in Nat, NEW k \in Nat, Run(s, n, q)
    PROVE  Run(s \o [i \in 1..k |-> q + i], n + k, q + k)
<1> DEFINE t == [i \in 1..k |-> q + i]
<1>1. t \in Seq(Int) /\ Len(t) = k /\ \A i \in 1..k : t[i] = q + i
  OBVIOUS
<1>0. s \in Seq(Int) /\ Len(s) = n
  BY DEF Run
<1> HIDE DEF t
<1>2. s \o t \in Seq(Int) /\ Len(s \o t) = n + k
  BY <1>1, <1>0
<1>3. \A i \in 1..(n + k) : (s \o t)[i] = IF i <= n THEN s[i] ELSE t[i - n]
  BY <1>0, <1>1, ConcatProperties
<1>4. \A i \in 1..(n + k) : (s \o t)[i] = q + k - (n + k) + i
  BY <1>1, <1>3 DEF Run
<1> QED  BY <1>2, <1>4 DEF Run, t

\* Dropping lines from the front leaves a shorter run with the same end.
LEMMA RunIsCut ==
    ASSUME NEW s, NEW n \in Nat, NEW q \in Nat, NEW k \in Nat, Run(s, n, q)
    PROVE  Run(LastOf(s, k), IF n > k THEN k ELSE n, q)
<1>1. CASE n > k
  <2> DEFINE t == SubSeq(s, n - k + 1, n)
  <2>1. LastOf(s, k) = t
    BY <1>1 DEF LastOf, Run
  <2>2. t \in Seq(Int) /\ Len(t) = k /\ \A i \in 1..k : t[i] = s[n - k + i]
    BY <1>1 DEF Run
  <2> HIDE DEF t
  <2> QED  BY <1>1, <2>1, <2>2 DEF Run
<1>2. CASE ~ (n > k)
  BY <1>2 DEF LastOf, Run
<1> QED  BY <1>1, <1>2

LEMMA AddInv ==
    ASSUME RingInv, NEW m \in Nat, Add(m)
    PROVE  RingInv'
<1> DEFINE k == IF seq + m <= MaxSeq THEN m ELSE MaxSeq - seq
           t == lines \o [i \in 1..k |-> seq + i]
           n == Len(lines) + k
<1>1. seq \in Nat /\ k \in Nat /\ seq' = seq + k /\ seq' \in 0..MaxSeq
  BY MaxSeqIsNat DEF RingInv, RingTypeOK, Add
<1>2. lines' = LastOf(t, Ring)
  BY DEF Add
<1>3. Len(lines) \in Nat /\ Run(lines, Len(lines), seq)
  BY RingIsRun DEF RingInv, RingTypeOK
<1> HIDE DEF k
<1>4. Run(t, n, seq')
  BY <1>1, <1>3, RunGrows
<1>5. Run(lines', IF n > Ring THEN Ring ELSE n, seq')
  <2>1. n \in Nat /\ seq' \in Nat /\ Ring \in Nat
    BY <1>1, <1>3, RingIsPos
  <2> HIDE DEF t, n
  <2> QED  BY <1>2, <1>4, <2>1, RunIsCut
<1>6. Len(lines) <= seq
  <2>1. CASE Len(lines) = 0
    BY <1>1, <2>1
  <2>2. CASE Len(lines) > 0
    <3>1. lines[1] \in 1..MaxSeq /\ lines[1] = seq - Len(lines) + 1
      <4>1. 1 \in 1..Len(lines) /\ lines \in Seq(1..MaxSeq)
        BY <1>3, <2>2 DEF RingInv, RingTypeOK
      <4>2. lines[1] \in 1..MaxSeq
        BY <4>1, ElementOfSeq
      <4> QED  BY <1>3, <4>1, <4>2 DEF Run
    <3> QED  BY <1>1, <1>3, <3>1
  <2> QED  BY <1>3, <2>1, <2>2
<1>7. Len(lines') \in Nat /\ Len(lines') <= Ring /\ Len(lines') <= seq'
  BY <1>1, <1>3, <1>5, <1>6, RingIsPos DEF Run
<1>8. \A i \in 1..Len(lines') : lines'[i] \in 1..MaxSeq
  BY <1>1, <1>5, <1>7, MaxSeqIsNat DEF Run
<1>9. lines' \in Seq(1..MaxSeq)
  <2>1. lines' \in Seq(Int)
    BY <1>5 DEF Run
  <2>2. lines' = [i \in 1..Len(lines') |-> lines'[i]]
    BY <2>1
  <2>3. [i \in 1..Len(lines') |-> lines'[i]] \in Seq(1..MaxSeq)
    BY <1>7, <1>8
  <2> QED  BY <2>2, <2>3
<1>10. RingTypeOK'
  BY <1>1, <1>7, <1>9 DEF RingTypeOK
<1>11. Run(lines', Len(lines'), seq')
  BY <1>5 DEF Run
<1>12. RingContiguous'
  <2>1. lines' \in Seq(Int) /\ seq' \in Int
    BY <1>1, <1>11 DEF Run
  <2>2. lines' = [i \in 1..Len(lines') |-> lines'[i]]
    BY <2>1
  <2> QED  BY <1>7, <1>11, <2>2 DEF RingContiguous, Run
<1> QED  BY <1>10, <1>12 DEF RingInv

LEMMA ClearRingInv ==
    ASSUME RingInv, ClearRing
    PROVE  RingInv'
<1>1. << >> = [i \in 1..0 |-> seq - 0 + i]
  OBVIOUS
<1> QED
  BY <1>1, RingIsPos, MaxSeqIsNat DEF RingInv, RingTypeOK, RingContiguous, ClearRing

LEMMA RingStays == RingInv /\ UNCHANGED store => RingInv'
BY DEF RingInv, RingTypeOK, RingContiguous, store

-----------------------------------------------------------------------------
\* The threads.

\* Where a reader is while it has not decided to return.
Live == {"loop", "connect", "session", "recv", "wait"}

\* The thread object of the field is the only one not started yet, and whoever made
\* it is about to start it.
NewInv ==
    /\ \A r \in Readers :
          rpc[r] = "new" => thread = r /\ \E h \in Handlers : hpc[h] = "begin"
    /\ \A h \in Handlers : hpc[h] = "begin" => thread \in Readers

\* A wanted connection has a thread that has not decided to return, or gets one.
WantInv ==
    want /\ ~ late => /\ thread \in Readers
                      /\ rpc[thread] \in Live \cup {"new"}

\* As long as no two start() calls have overlapped: one is in progress at most, no
\* thread but the field's has work left, and none has when a new one is to be made.
LoneInv ==
    ~ raced =>
        /\ \A g, h \in Handlers : hpc[g] # "idle" /\ hpc[h] # "idle" => g = h
        /\ \A r \in Readers : rpc[r] # "dead" => thread = r
        /\ \A h \in Handlers : hpc[h] = "spawn" => \A r \in Readers : ~ Alive(r)

IInv == TypeOK /\ RingContiguous /\ NewInv /\ WantInv /\ LoneInv

LEMMA InitInv == Init => IInv
<1> SUFFICES ASSUME Init PROVE IInv
  OBVIOUS
<1>1. RingInv
  BY RingInitInv DEF Init
<1>2. TypeOK
  <2>1. rpc = [r \in Readers |-> "dead"] /\ hpc = [h \in Handlers |-> "idle"]
    BY DEF Init
  <2>2. want \in BOOLEAN /\ connected \in BOOLEAN /\ raced \in BOOLEAN /\ late \in BOOLEAN
    BY Zenon DEF Init
  <2>4. thread = NULL /\ client = NULL /\ churn = 0
    BY DEF Init
  <2>3. /\ rpc \in [Readers -> {"dead", "new", "loop", "connect", "session", "recv",
                               "wait", "exit"}]
        /\ hpc \in [Handlers -> {"idle", "keep", "spawn", "begin"}]
    BY <2>1
  <2> QED  BY <1>1, <2>2, <2>3, <2>4 DEF RingInv, TypeOK
<1>3. NewInv /\ WantInv /\ LoneInv
  BY DEF Init, NewInv, WantInv, LoneInv
<1> QED  BY <1>1, <1>2, <1>3 DEF IInv, RingInv

\* Lines are only ever added, or all of them dropped.
LEMMA StoreSteps == [Next]_vars => (\E m \in Nat : Add(m)) \/ ClearRing \/ UNCHANGED store
<1> SUFFICES ASSUME [Next]_vars
             PROVE  (\E m \in Nat : Add(m)) \/ ClearRing \/ UNCHANGED store
  OBVIOUS
<1>1. ASSUME NEW h \in Handlers, StartCheck(h) \/ Starter(h) PROVE UNCHANGED store
  BY <1>1 DEF StartCheck, Starter, StartKeep, StartSpawn, StartBegin
<1>2. CASE Stop \/ UNCHANGED vars
  BY <1>2 DEF Stop, vars
<1>3. CASE Clear
  BY <1>3 DEF Clear
<1>4. ASSUME NEW r \in Readers, Reader(r)
      PROVE  (\E m \in Nat : Add(m)) \/ UNCHANGED store
  <2>1. CASE ConnectFails(r) \/ Connect(r) \/ \E m \in 0..2 : Receive(r, m)
    BY <2>1 DEF ConnectFails, Connect, Receive
  <2>2. ASSUME NEW m \in {0, 1}, CloseSession(r, m) PROVE \E k \in Nat : Add(k)
    BY <2>2 DEF CloseSession
  <2>3. CASE SessionStops(r) \/ SessionEnds(r)
    <3>1. \E m \in {0, 1} : CloseSession(r, m)
      BY <2>3 DEF SessionStops, SessionEnds
    <3> QED  BY <2>2, <3>1
  <2>4. CASE Loop(r) \/ Session(r) \/ Wait(r) \/ Exit(r)
    BY <2>4 DEF Loop, Session, Wait, Exit
  <2> QED  BY <1>4, <2>1, <2>3, <2>4 DEF Reader
<1> QED  BY <1>1, <1>2, <1>3, <1>4 DEF Next

LEMMA NextRing ==
    ASSUME RingInv, [Next]_vars
    PROVE  RingInv'
BY StoreSteps, AddInv, ClearRingInv, RingStays

\* What any step of a reader thread comes to.  A reader that decides to return found
\* that it is not wanted.
ReaderMoves(r) ==
    /\ UNCHANGED <<want, thread, hpc, raced, late>>
    /\ \/ \E l \in Live : rpc[r] \in Live /\ rpc' = [rpc EXCEPT ![r] = l]
       \/ ~ want /\ rpc[r] \in Live /\ rpc' = [rpc EXCEPT ![r] = "exit"]
       \/ rpc[r] = "exit" /\ rpc' = [rpc EXCEPT ![r] = "dead"]

LEMMA ReaderSteps ==
    ASSUME TypeOK, NEW r \in Readers, Reader(r)
    PROVE  ReaderMoves(r)
<1> USE DEF Goto, Live, ReaderMoves
<1>1. CASE Loop(r)
  BY <1>1 DEF Loop
<1>2. CASE ConnectFails(r) \/ Connect(r)
  BY <1>2 DEF ConnectFails, Connect
<1>3. CASE Session(r) \/ \E m \in 0..2 : Receive(r, m)
  BY <1>3 DEF Session, Receive
<1>4. CASE SessionStops(r) \/ SessionEnds(r)
  BY <1>4 DEF SessionStops, SessionEnds, CloseSession
<1>5. CASE Wait(r) \/ Exit(r)
  BY <1>5 DEF Wait, Exit
<1> QED  BY <1>1, <1>2, <1>3, <1>4, <1>5 DEF Reader

LEMMA ReaderType ==
    ASSUME TypeOK, NEW r \in Readers, Reader(r)
    PROVE  client' \in Readers \cup {NULL} /\ connected' \in BOOLEAN /\ churn' \in 0..3
<1>1. CASE ConnectFails(r) \/ Connect(r)
  BY <1>1 DEF ConnectFails, Connect, TypeOK
<1>2. ASSUME NEW m, CloseSession(r, m)
      PROVE  client' \in Readers \cup {NULL} /\ connected' \in BOOLEAN /\ churn' \in 0..3
  <2>1. client' \in {NULL, client}
    BY <1>2 DEF CloseSession
  <2>3. connected' \in BOOLEAN
    BY <1>2, Zenon DEF CloseSession
  <2>2. churn' = 0 \/ churn' = IF churn < 3 THEN churn + 1 ELSE 3
    BY <1>2 DEF CloseSession
  <2> QED  BY <2>1, <2>2, <2>3 DEF TypeOK
<1>3. CASE UNCHANGED <<client, connected, churn>>
  BY <1>3 DEF TypeOK
<1> QED
  BY <1>1, <1>2, <1>3
     DEF Reader, Loop, Session, Receive, SessionStops, SessionEnds, Wait, Exit

LEMMA NextType ==
    ASSUME TypeOK, NewInv, RingTypeOK', [Next]_vars
    PROVE  TypeOK'
<1>1. ASSUME NEW r \in Readers, Reader(r) PROVE TypeOK'
  <2>1. ReaderMoves(r)
    BY <1>1, ReaderSteps
  <2>2. rpc' \in [Readers -> {"dead", "new", "loop", "connect", "session", "recv",
                             "wait", "exit"}]
    BY <2>1 DEF ReaderMoves, Live, TypeOK
  <2> QED  BY <1>1, <2>1, <2>2, ReaderType DEF ReaderMoves, TypeOK
<1>2. ASSUME NEW h \in Handlers, StartCheck(h) PROVE TypeOK'
  <2>1. raced' \in BOOLEAN
    BY <1>2, Zenon DEF StartCheck
  <2> QED  BY <1>2, <2>1 DEF StartCheck, TypeOK
<1>3. ASSUME NEW h \in Handlers, StartKeep(h) PROVE TypeOK'
  <2>1. late' \in BOOLEAN
    BY <1>3, Zenon DEF StartKeep
  <2> QED  BY <1>3, <2>1 DEF StartKeep, TypeOK
<1>4. ASSUME NEW h \in Handlers, StartSpawn(h) PROVE TypeOK'
  <2>1. PICK r \in Readers :
          /\ thread' = r
          /\ rpc' = [x \in Readers |-> CASE x = r -> "new"
                                         [] x # r /\ rpc[x] = "new" -> "dead"
                                         [] OTHER -> rpc[x]]
    BY <1>4 DEF StartSpawn
  <2>2. \A x \in Readers : \/ x = r /\ rpc'[x] = "new"
                           \/ x # r /\ rpc[x] = "new" /\ rpc'[x] = "dead"
                           \/ x # r /\ rpc[x] # "new" /\ rpc'[x] = rpc[x]
    BY <2>1
  <2>3. rpc' \in [Readers -> {"dead", "new", "loop", "connect", "session", "recv",
                             "wait", "exit"}]
    BY <2>1, <2>2 DEF TypeOK
  <2> QED  BY <1>4, <2>1, <2>3 DEF StartSpawn, TypeOK
<1>5. ASSUME NEW h \in Handlers, StartBegin(h) PROVE TypeOK'
  BY <1>5 DEF StartBegin, TypeOK
<1>6. CASE Stop \/ Clear \/ UNCHANGED vars
  BY <1>6 DEF Stop, Clear, TypeOK, vars
<1> QED  BY <1>1, <1>2, <1>3, <1>4, <1>5, <1>6 DEF Next, Starter

-----------------------------------------------------------------------------
\* A step of start() or stop().

\* The new thread object takes the field.
LEMMA SpawnStep ==
    ASSUME TypeOK, NEW h \in Handlers, StartSpawn(h)
    PROVE  /\ thread' \in Readers /\ rpc'[thread'] = "new"
           /\ \A x \in Readers \ {thread'} :
                 IF rpc[x] = "new" THEN rpc'[x] = "dead" ELSE rpc'[x] = rpc[x]
           /\ hpc' = [hpc EXCEPT ![h] = "begin"] /\ hpc[h] = "spawn"
           /\ want' = TRUE /\ late' = FALSE /\ raced' = raced
<1>1. PICK r \in Readers :
        /\ thread' = r
        /\ rpc' = [x \in Readers |-> CASE x = r -> "new"
                                       [] x # r /\ rpc[x] = "new" -> "dead"
                                       [] OTHER -> rpc[x]]
  BY DEF StartSpawn
<1>2. \A x \in Readers : \/ x = r /\ rpc'[x] = "new"
                         \/ x # r /\ rpc[x] = "new" /\ rpc'[x] = "dead"
                         \/ x # r /\ rpc[x] # "new" /\ rpc'[x] = rpc[x]
  BY <1>1
<1> QED  BY <1>1, <1>2 DEF StartSpawn

LEMMA NextNew ==
    ASSUME TypeOK, NewInv, [Next]_vars
    PROVE  NewInv'
<1>1. ASSUME NEW r \in Readers, Reader(r) PROVE NewInv'
  <2>1. ReaderMoves(r)
    BY <1>1, ReaderSteps
  <2> QED  BY <2>1 DEF ReaderMoves, NewInv, Live, TypeOK
<1>2. ASSUME NEW h \in Handlers, StartCheck(h) \/ StartKeep(h) PROVE NewInv'
  <2>1. UNCHANGED <<thread, rpc>> /\ \A g \in Handlers : hpc'[g] = "begin" <=> hpc[g] = "begin"
    BY <1>2 DEF StartCheck, StartKeep, TypeOK
  <2> QED  BY <2>1 DEF NewInv
<1>3. ASSUME NEW h \in Handlers, StartSpawn(h) PROVE NewInv'
  <2>1. hpc'[h] = "begin"
    BY <1>3, SpawnStep DEF TypeOK
  <2>2. \A x \in Readers : rpc'[x] = "new" => x = thread'
    BY <1>3, SpawnStep
  <2> QED  BY <1>3, <2>1, <2>2, SpawnStep DEF NewInv
<1>4. ASSUME NEW h \in Handlers, StartBegin(h) PROVE NewInv'
  <2>1. thread \in Readers /\ thread' = thread
    BY <1>4 DEF StartBegin, NewInv
  <2>2. \A x \in Readers : rpc'[x] # "new"
    BY <1>4, <2>1 DEF StartBegin, NewInv, TypeOK
  <2> QED  BY <2>1, <2>2 DEF NewInv
<1>5. CASE Stop \/ Clear \/ UNCHANGED vars
  BY <1>5 DEF Stop, Clear, NewInv, vars
<1> QED  BY <1>1, <1>2, <1>3, <1>4, <1>5 DEF Next, Starter

LEMMA NextWant ==
    ASSUME TypeOK, NewInv, WantInv, [Next]_vars
    PROVE  WantInv'
<1>1. ASSUME NEW r \in Readers, Reader(r) PROVE WantInv'
  <2>1. ReaderMoves(r)
    BY <1>1, ReaderSteps
  <2> QED  BY <2>1 DEF ReaderMoves, WantInv, Live, TypeOK
<1>2. ASSUME NEW h \in Handlers, StartCheck(h) PROVE WantInv'
  BY <1>2 DEF StartCheck, WantInv
<1>3. ASSUME NEW h \in Handlers, StartKeep(h) PROVE WantInv'
  <2>1. UNCHANGED <<thread, rpc>>
    BY <1>3 DEF StartKeep
  <2>2. ~ late' => thread # NULL /\ rpc[thread] \notin {"exit", "dead"}
    BY <1>3 DEF StartKeep
  <2>3. ~ late' => thread \in Readers /\ rpc[thread] \in Live \cup {"new"}
    BY <2>2 DEF TypeOK, Live
  <2> QED  BY <2>1, <2>3 DEF WantInv
<1>4. ASSUME NEW h \in Handlers, StartSpawn(h) PROVE WantInv'
  BY <1>4, SpawnStep DEF WantInv
<1>5. ASSUME NEW h \in Handlers, StartBegin(h) PROVE WantInv'
  <2>1. rpc'[thread] = IF rpc[thread] = "new" THEN "loop" ELSE rpc[thread]
    BY <1>5 DEF StartBegin, NewInv, TypeOK
  <2> QED  BY <1>5, <2>1 DEF StartBegin, WantInv, Live
<1>6. CASE Stop \/ Clear \/ UNCHANGED vars
  BY <1>6 DEF Stop, Clear, WantInv, vars
<1> QED  BY <1>1, <1>2, <1>3, <1>4, <1>5, <1>6 DEF Next, Starter

\* Without an overlap, the thread found dead is the only one that could have been
\* alive, and no other start() makes one before this one does.
LEMMA NextLone ==
    ASSUME TypeOK, NewInv, LoneInv, [Next]_vars
    PROVE  LoneInv'
<1> SUFFICES ASSUME ~ raced'
             PROVE  /\ \A g, h \in Handlers : hpc'[g] # "idle" /\ hpc'[h] # "idle" => g = h
                    /\ \A r \in Readers : rpc'[r] # "dead" => thread' = r
                    /\ \A h \in Handlers : hpc'[h] = "spawn" => \A r \in Readers : ~ Alive(r)'
  BY DEF LoneInv
<1>1. ASSUME NEW r \in Readers, Reader(r) PROVE LoneInv'
  <2>1. ReaderMoves(r)
    BY <1>1, ReaderSteps
  <2> QED  BY <2>1 DEF ReaderMoves, LoneInv, Live, Alive, TypeOK
<1>2. ASSUME NEW h \in Handlers, StartCheck(h) PROVE LoneInv'
  <2>1. ~ raced /\ \A g \in Handlers \ {h} : hpc[g] = "idle"
    BY <1>2 DEF StartCheck
  <2>2. UNCHANGED <<thread, rpc>>
    BY <1>2 DEF StartCheck
  <2>3. \A g \in Handlers \ {h} : hpc'[g] = "idle"
    BY <1>2, <2>1 DEF StartCheck, TypeOK
  <2>4. hpc'[h] = "spawn" => ~ IsAlive
    BY <1>2 DEF StartCheck, TypeOK
  <2>5. ~ IsAlive => \A r \in Readers : ~ Alive(r)
    BY <2>1, NullIsNoReader DEF LoneInv, IsAlive, Alive
  <2> QED  BY <2>1, <2>2, <2>3, <2>4, <2>5 DEF LoneInv, Alive
<1>3. ASSUME NEW h \in Handlers, StartKeep(h) PROVE LoneInv'
  BY <1>3 DEF StartKeep, LoneInv, Alive, TypeOK
<1>4. ASSUME NEW h \in Handlers, StartSpawn(h) PROVE LoneInv'
  <2>1. ~ raced /\ hpc[h] = "spawn" /\ hpc' = [hpc EXCEPT ![h] = "begin"]
    BY <1>4, SpawnStep
  <2>2. \A r \in Readers : ~ Alive(r)
    BY <2>1 DEF LoneInv
  <2>3. \A r \in Readers \ {thread'} : rpc'[r] = "dead"
    BY <1>4, <2>2, SpawnStep DEF Alive, TypeOK
  <2>4. \A g \in Handlers : hpc'[g] # "idle" => g = h
    BY <2>1 DEF LoneInv, TypeOK
  <2>5. \A g \in Handlers : hpc'[g] # "spawn"
    BY <2>1, <2>4 DEF TypeOK
  <2> QED  BY <2>3, <2>4, <2>5 DEF LoneInv
<1>5. ASSUME NEW h \in Handlers, StartBegin(h) PROVE LoneInv'
  <2>1. ~ raced /\ hpc[h] = "begin" /\ hpc' = [hpc EXCEPT ![h] = "idle"] /\ thread' = thread
    BY <1>5 DEF StartBegin
  <2>2. \A g \in Handlers : hpc'[g] = "idle"
    BY <2>1 DEF LoneInv, TypeOK
  <2>3. \A r \in Readers : rpc'[r] # "dead" => rpc[r] # "dead"
    BY <1>5, <2>1 DEF StartBegin, NewInv, TypeOK
  <2> QED  BY <2>1, <2>2, <2>3 DEF LoneInv
<1>6. CASE Stop \/ Clear \/ UNCHANGED vars
  BY <1>6 DEF Stop, Clear, LoneInv, Alive, vars
<1> QED  BY <1>1, <1>2, <1>3, <1>4, <1>5, <1>6 DEF Next, Starter, LoneInv

-----------------------------------------------------------------------------
THEOREM InvCorrect == Spec => []IInv
<1>1. IInv /\ [Next]_vars => IInv'
  <2> SUFFICES ASSUME IInv, [Next]_vars PROVE IInv'
    OBVIOUS
  <2>1. RingInv'
    BY NextRing DEF IInv, RingInv, TypeOK
  <2> QED  BY <2>1, NextType, NextNew, NextWant, NextLone DEF IInv, RingInv
<1> QED  BY InitInv, <1>1, PTL DEF Spec

\* The ring holds the last lines added, without a gap up to seq, whatever the reader,
\* clear() and the requests do.
THEOREM RingContiguousCorrect == Spec => []RingContiguous
<1>1. IInv => RingContiguous
  BY DEF IInv
<1> QED  BY InvCorrect, <1>1, PTL

\* Unless two start() calls overlap, one thread at most holds the klog connection.
THEOREM OneReaderCorrect == Spec => []OneReader
<1>1. IInv => OneReader
  <2> SUFFICES ASSUME IInv, ~ raced
               PROVE  Cardinality({r \in Readers : Alive(r)}) <= 1
    BY DEF OneReader
  <2>1. {r \in Readers : Alive(r)} \subseteq {thread}
    BY DEF IInv, LoneInv, Alive
  <2>2. IsFiniteSet({thread}) /\ Cardinality({thread}) = 1
    BY FS_Singleton
  <2>3. Cardinality({r \in Readers : Alive(r)}) <= Cardinality({thread})
    BY <2>1, <2>2, FS_Subset
  <2> QED  BY <2>2, <2>3
<1> QED  BY InvCorrect, <1>1, PTL

\* Once no start() is in progress, a wanted connection has its thread, unless start()
\* kept one that had stopped looking.
THEOREM WantedIsReadCorrect == Spec => []WantedIsRead
<1>1. IInv => WantedIsRead
  <2> SUFFICES ASSUME IInv, want, ~ late, \A h \in Handlers : hpc[h] = "idle"
               PROVE  IsAlive
    BY DEF WantedIsRead
  <2>1. thread \in Readers /\ rpc[thread] \in Live \cup {"new"}
    BY DEF IInv, WantInv
  <2>2. rpc[thread] # "new"
    BY <2>1 DEF IInv, NewInv
  <2> QED  BY <2>1, <2>2, NullIsNoReader DEF IsAlive, Alive, Live
<1> QED  BY InvCorrect, <1>1, PTL
=============================================================================
