----------------------------- MODULE KlogBridge -----------------------------
(***************************************************************************)
(* The klog bridge of the dashboard's proxy (dashboard/klogbridge.py): one *)
(* reader thread that keeps a connection to the console's klog server and  *)
(* reconnects for as long as it is wanted.  dashboard/serve.py handles each*)
(* HTTP request on a thread of its own, so start, stop and clear run       *)
(* concurrently with the reader and with each other; only the ring has a   *)
(* lock.  The klog server serves one client at a time: a new connection    *)
(* takes it from the old one.                                              *)
(***************************************************************************)
EXTENDS KlogRing, FiniteSets

CONSTANTS
    Handlers,   \* the proxy's request threads that may be inside start()
    Readers,    \* thread objects start() may create, reused once dead
    NULL

ASSUME NullIsNoReader == NULL \notin Readers

VARIABLES
    want,        \* self.want
    thread,      \* self._thread
    rpc,         \* where each reader thread is; "new" before Thread.start()
    hpc,         \* where each request thread is inside start()
    client,      \* the reader the console's klog server is serving
    connected,   \* self.connected
    churn,       \* self.churn, saturated at 3
    raced,       \* history: two start() calls have overlapped
    late         \* history: start() kept a thread that had stopped looking at want

vars == <<want, thread, rpc, hpc, client, connected, churn, raced, late, store>>

\* Thread.is_alive(): from start() until the thread function has returned.
Alive(r) == rpc[r] \in {"loop", "connect", "session", "recv", "wait", "exit"}

\* Mutant of IsAlive: a thread that was told to stop counts as gone.
IsAliveAndWanted == thread # NULL /\ Alive(thread) /\ want

IsAlive == thread # NULL /\ Alive(thread)

TypeOK ==
    /\ RingTypeOK
    /\ want \in BOOLEAN /\ connected \in BOOLEAN
    /\ raced \in BOOLEAN /\ late \in BOOLEAN
    /\ thread \in Readers \cup {NULL}
    /\ rpc \in [Readers -> {"dead", "new", "loop", "connect", "session", "recv",
                            "wait", "exit"}]
    /\ hpc \in [Handlers -> {"idle", "keep", "spawn", "begin"}]
    /\ client \in Readers \cup {NULL}
    /\ churn \in 0..3

Init ==
    /\ RingInit
    /\ want = FALSE /\ thread = NULL /\ rpc = [r \in Readers |-> "dead"]
    /\ hpc = [h \in Handlers |-> "idle"]
    /\ client = NULL /\ connected = FALSE /\ churn = 0
    /\ raced = FALSE /\ late = FALSE

Clear ==
    /\ lines # << >>
    /\ ClearRing
    /\ UNCHANGED <<want, thread, rpc, hpc, client, connected, churn, raced, late>>

-----------------------------------------------------------------------------
\* start() and stop(), on the proxy's request threads.

StartCheck(h) ==
    /\ hpc[h] = "idle"
    /\ hpc' = [hpc EXCEPT ![h] = IF IsAlive THEN "keep" ELSE "spawn"]
    /\ raced' = (raced \/ \E g \in Handlers \ {h} : hpc[g] # "idle")
    /\ UNCHANGED <<want, thread, rpc, client, connected, churn, late, store>>

\* The thread was alive, so it is told to go on.
StartKeep(h) ==
    /\ hpc[h] = "keep"
    /\ want' = TRUE
    /\ hpc' = [hpc EXCEPT ![h] = "idle"]
    /\ late' = (late \/ thread = NULL \/ rpc[thread] \in {"exit", "dead"})
    /\ UNCHANGED <<thread, rpc, client, connected, churn, raced, store>>

\* A new thread object takes the field; one that was never started is dropped.
StartSpawn(h) ==
    /\ hpc[h] = "spawn"
    /\ want' = TRUE
    /\ \E r \in Readers :
          /\ rpc[r] = "dead"
          /\ thread' = r
          /\ rpc' = [x \in Readers |-> CASE x = r -> "new"
                                         [] x # r /\ rpc[x] = "new" -> "dead"
                                         [] OTHER -> rpc[x]]
    /\ hpc' = [hpc EXCEPT ![h] = "begin"]
    /\ late' = FALSE
    /\ UNCHANGED <<client, connected, churn, raced, store>>

\* self._thread.start(): whichever thread object the field holds by now.  A
\* second start of the same object raises, and only the request fails.
StartBegin(h) ==
    /\ hpc[h] = "begin"
    /\ rpc' = IF rpc[thread] = "new" THEN [rpc EXCEPT ![thread] = "loop"] ELSE rpc
    /\ hpc' = [hpc EXCEPT ![h] = "idle"]
    /\ UNCHANGED <<want, thread, client, connected, churn, raced, late, store>>

Stop ==
    /\ want' = FALSE
    /\ UNCHANGED <<thread, rpc, hpc, client, connected, churn, raced, late, store>>

-----------------------------------------------------------------------------
\* The reader thread, _run.

Goto(r, l) == rpc' = [rpc EXCEPT ![r] = l]

Loop(r) ==
    /\ rpc[r] = "loop"
    /\ Goto(r, IF want THEN "connect" ELSE "exit")
    /\ UNCHANGED <<want, thread, hpc, client, connected, churn, raced, late, store>>

\* Mutant of ConnectFails: a refused connection ends the thread.
ConnectFailsReturns(r) ==
    /\ rpc[r] = "connect"
    /\ connected' = FALSE
    /\ Add(1)
    /\ Goto(r, "exit")
    /\ UNCHANGED <<want, thread, hpc, client, churn, raced, late>>

\* The connection is refused: one meta line, and a pause.
ConnectFails(r) ==
    /\ rpc[r] = "connect"
    /\ connected' = FALSE
    /\ Add(1)
    /\ Goto(r, "wait")
    /\ UNCHANGED <<want, thread, hpc, client, churn, raced, late>>

Connect(r) ==
    /\ rpc[r] = "connect"
    /\ client' = r
    /\ connected' = TRUE
    /\ IF churn < 2 THEN Add(1) ELSE UNCHANGED store
    /\ Goto(r, "session")
    /\ UNCHANGED <<want, thread, hpc, churn, raced, late>>

\* Mutant of Session: the session does not look at want.
SessionIgnoresStop(r) ==
    /\ rpc[r] = "session"
    /\ Goto(r, "recv")
    /\ UNCHANGED <<want, thread, hpc, client, connected, churn, raced, late, store>>

\* while self.want: recv
Session(r) ==
    /\ rpc[r] = "session" /\ want
    /\ Goto(r, "recv")
    /\ UNCHANGED <<want, thread, hpc, client, connected, churn, raced, late, store>>

\* recv brings the complete lines of one packet, or times out with none.
Receive(r, m) ==
    /\ rpc[r] = "recv"
    /\ m > 0 => client = r
    /\ Add(m)
    /\ Goto(r, "session")
    /\ UNCHANGED <<want, thread, hpc, client, connected, churn, raced, late>>

\* The socket is closed, with m meta lines about the reason.  A session that
\* was short counts as churn, and the second in a row adds the warning.
CloseSession(r, m) ==
    /\ connected' = FALSE
    /\ client' = IF client = r THEN NULL ELSE client
    /\ \/ churn' = 0 /\ Add(m)
       \/ churn' = (IF churn < 3 THEN churn + 1 ELSE 3) /\ Add(IF churn = 1 THEN m + 1 ELSE m)
    /\ Goto(r, "wait")
    /\ UNCHANGED <<want, thread, hpc, raced, late>>

SessionStops(r) == rpc[r] = "session" /\ ~ want /\ CloseSession(r, 0)
SessionEnds(r) ==
    /\ rpc[r] = "recv"
    /\ \/ CloseSession(r, IF churn < 2 THEN 1 ELSE 0)    \* end of file
       \/ CloseSession(r, 1)                             \* OSError

\* The pause before the next attempt looks at want every tenth of a second.
Wait(r) ==
    /\ rpc[r] = "wait"
    /\ \/ want /\ Goto(r, "loop")
       \/ ~ want /\ Goto(r, "exit")
    /\ UNCHANGED <<want, thread, hpc, client, connected, churn, raced, late, store>>

\* The thread function has returned and is_alive() turns false.
Exit(r) ==
    /\ rpc[r] = "exit"
    /\ Goto(r, "dead")
    /\ UNCHANGED <<want, thread, hpc, client, connected, churn, raced, late, store>>

-----------------------------------------------------------------------------
Starter(h) == StartKeep(h) \/ StartSpawn(h) \/ StartBegin(h)

Reader(r) ==
    \/ Loop(r) \/ ConnectFails(r) \/ Connect(r) \/ Session(r)
    \/ \E m \in 0..2 : Receive(r, m)
    \/ SessionStops(r) \/ SessionEnds(r) \/ Wait(r) \/ Exit(r)

Next ==
    \/ \E h \in Handlers : StartCheck(h) \/ Starter(h)
    \/ Stop \/ Clear
    \/ \E r \in Readers : Reader(r)

Spec == Init /\ [][Next]_vars

\* Threads are scheduled, and every blocking call of the reader has a timeout.
FairSpec ==
    /\ Spec
    /\ \A h \in Handlers : WF_vars(Starter(h))
    /\ \A r \in Readers : WF_vars(Reader(r))

-----------------------------------------------------------------------------
\* Properties.

\* A console serves one client, so two readers would take the connection from
\* each other for ever.  start() makes a second only when two calls overlap.
OneReader == ~ raced => Cardinality({r \in Readers : Alive(r)}) <= 1

\* Once no start() is in progress, a wanted connection has a thread to hold it,
\* unless start() found a thread alive that had already decided to return.
WantedIsRead == want /\ ~ late /\ (\A h \in Handlers : hpc[h] = "idle") => IsAlive

\* stop() ends every reader, whatever it was doing, unless start() is called
\* again: no pause or receive outlasts its timeout.
StopEndsReader == ~ want ~> (want \/ \A r \in Readers : ~ Alive(r))
=============================================================================
