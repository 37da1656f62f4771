------------------------------ MODULE RpcCall ------------------------------
(***************************************************************************)
(* What sys_proc_call promises its caller: a call is executed in the       *)
(* target process exactly once and then returns its own result, or it      *)
(* fails.  A call that fails after it was triggered leaves the stub in a   *)
(* state nothing is promised about any more.                               *)
(***************************************************************************)
EXTENDS Naturals

CONSTANT MaxCalls   \* bound on the calls made

VARIABLES
    n,       \* the number of the latest call
    phase,   \* of that call: "idle", "pending", "executed", or "broken" for good
    ret      \* the call whose result was last returned, 0 after a failure

vars == <<n, phase, ret>>

Init == n = 0 /\ phase = "idle" /\ ret = 0

Call ==
    /\ phase = "idle" /\ n < MaxCalls
    /\ n' = n + 1 /\ phase' = "pending"
    /\ UNCHANGED ret

Execute ==
    /\ phase = "pending" /\ phase' = "executed"
    /\ UNCHANGED <<n, ret>>

Return ==
    /\ phase = "executed" /\ phase' = "idle" /\ ret' = n
    /\ UNCHANGED n

\* A failure the next call does not notice: the call was never triggered, or
\* it is over and only its result could not be read.
Fail ==
    /\ phase \in {"pending", "executed"} /\ phase' = "idle" /\ ret' = 0
    /\ UNCHANGED n

Break ==
    /\ phase \in {"pending", "executed"} /\ phase' = "broken" /\ ret' = 0
    /\ UNCHANGED n

Broken ==
    /\ phase = "broken" /\ UNCHANGED phase
    /\ n' \in {n, n + 1} /\ ret' \in 0..MaxCalls

Next == Call \/ Execute \/ Return \/ Fail \/ Break \/ Broken

Spec == Init /\ [][Next]_vars
=============================================================================
