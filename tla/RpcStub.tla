------------------------------ MODULE RpcStub ------------------------------
(***************************************************************************)
(* Calling a function inside another process.                              *)
(*                                                                         *)
(* sys_proc_install puts a stub, a small loop with a header in front, into *)
(* the target and starts a thread on it.  sys_proc_call_handle (the        *)
(* caller, in the kernel) and that thread (the stub, in the target) then   *)
(* talk through the header alone: the caller writes the registers and sets *)
(* rpc_go, the stub runs the call, stores rpc_rax, clears rpc_go and sets  *)
(* rpc_done, and the caller clears rpc_done and reads rpc_rax.  Each of    *)
(* the caller's accesses is a proc_rwmem that may fail, and then the       *)
(* handler returns at once whatever the stub is doing.                     *)
(*                                                                         *)
(* A call is its number: the registers of call k are k, and so is the      *)
(* result of running them.                                                 *)
(***************************************************************************)
EXTENDS Integers

CONSTANT MaxCalls   \* bound on the calls made

ASSUME MaxCallsIsNat == MaxCalls \in Nat

VARIABLES
    regs, go, done, rax,   \* struct rpcstub_header
    spc,                   \* the stub: at its test of rpc_go, or inside a call
    hold,                  \* the registers the stub has loaded, then the result
    pc,                    \* the caller: its next access to the header
    n,                     \* calls made so far; the latest has number n
    ret,                   \* result last returned, 0 after a failure
    runs,                  \* history: how often each call has been run
    dirty                  \* history: a call failed after it was triggered

callerVars == <<pc, n, ret, dirty>>
stubVars == <<spc, hold, runs>>
header == <<regs, go, done, rax>>
vars == <<header, stubVars, callerVars>>

Calls == 1..MaxCalls

TypeOK ==
    /\ regs \in 0..MaxCalls /\ rax \in 0..MaxCalls /\ hold \in 0..MaxCalls
    /\ go \in {0, 1} /\ done \in {0, 1}
    /\ spc \in {"check", "call", "store", "clear", "signal"}
    /\ pc \in {"idle", "regs", "go", "poll", "clear", "rax"}
    /\ n \in 0..MaxCalls /\ ret \in 0..MaxCalls
    /\ runs \in [Calls -> Nat]
    /\ dirty \in BOOLEAN

Init ==
    /\ regs = 0 /\ rax = 0 /\ go = 0 /\ done = 0
    /\ spc = "check" /\ hold = 0
    /\ pc = "idle" /\ n = 0 /\ ret = 0
    /\ runs = [c \in Calls |-> 0]
    /\ dirty = FALSE

-----------------------------------------------------------------------------
\* The caller, sys_proc_call_handle.

Call ==
    /\ pc = "idle" /\ n < MaxCalls
    /\ n' = n + 1
    /\ pc' = "regs"
    /\ UNCHANGED <<header, stubVars, ret, dirty>>

WriteRegs ==
    /\ pc = "regs"
    /\ regs' = n
    /\ pc' = "go"
    /\ UNCHANGED <<go, done, rax, stubVars, n, ret, dirty>>

WriteGo ==
    /\ pc = "go"
    /\ go' = 1
    /\ pc' = "poll"
    /\ UNCHANGED <<regs, done, rax, stubVars, n, ret, dirty>>

\* The loop that reads rpc_done leaves it only when the read finds it set.
Poll ==
    /\ pc = "poll" /\ done # 0
    /\ pc' = "clear"
    /\ UNCHANGED <<header, stubVars, n, ret, dirty>>

\* Mutant of ClearDone: the flag is left set for the next call.
ClearDoneForgotten ==
    /\ pc = "clear"
    /\ pc' = "rax"
    /\ UNCHANGED <<header, stubVars, n, ret, dirty>>

ClearDone ==
    /\ pc = "clear"
    /\ done' = 0
    /\ pc' = "rax"
    /\ UNCHANGED <<regs, go, rax, stubVars, n, ret, dirty>>

ReadRax ==
    /\ pc = "rax"
    /\ ret' = rax
    /\ pc' = "idle"
    /\ UNCHANGED <<header, stubVars, n, dirty>>

\* proc_write_mem or proc_read_mem fails, and the handler returns 1.
AccessFails ==
    /\ pc # "idle"
    /\ pc' = "idle"
    /\ ret' = 0
    /\ dirty' = (dirty \/ pc \in {"poll", "clear"})
    /\ UNCHANGED <<header, stubVars, n>>

Caller == WriteRegs \/ WriteGo \/ Poll \/ ClearDone \/ ReadRax

-----------------------------------------------------------------------------
\* The stub's loop, the code of rpcstub.  It sleeps between two tests of rpc_go.

\* Mutant of LoadRegs: completion is signalled as the call starts.
LoadRegsSignals ==
    /\ spc = "check" /\ go # 0
    /\ hold' = regs
    /\ done' = 1
    /\ spc' = "call"
    /\ UNCHANGED <<regs, go, rax, runs, callerVars>>

LoadRegs ==
    /\ spc = "check" /\ go # 0
    /\ hold' = regs
    /\ spc' = "call"
    /\ UNCHANGED <<header, runs, callerVars>>

RunCall ==
    /\ spc = "call"
    /\ runs' = IF hold \in Calls THEN [runs EXCEPT ![hold] = @ + 1] ELSE runs
    /\ spc' = "store"
    /\ UNCHANGED <<header, hold, callerVars>>

StoreRax ==
    /\ spc = "store"
    /\ rax' = hold
    /\ spc' = "clear"
    /\ UNCHANGED <<regs, go, done, hold, runs, callerVars>>

ClearGo ==
    /\ spc = "clear"
    /\ go' = 0
    /\ spc' = "signal"
    /\ UNCHANGED <<regs, done, rax, hold, runs, callerVars>>

\* Mutant of SetDone: completion is never signalled.
SetDoneForgotten ==
    /\ spc = "signal"
    /\ spc' = "check"
    /\ hold' = 0
    /\ UNCHANGED <<header, runs, callerVars>>

SetDone ==
    /\ spc = "signal"
    /\ done' = 1
    /\ spc' = "check"
    /\ hold' = 0
    /\ UNCHANGED <<regs, go, rax, runs, callerVars>>

Stub == LoadRegs \/ RunCall \/ StoreRax \/ ClearGo \/ SetDone

-----------------------------------------------------------------------------
Next == Call \/ Caller \/ AccessFails \/ Stub

Spec == Init /\ [][Next]_vars

-----------------------------------------------------------------------------
\* A result that is returned belongs to the call that asked for it, and that
\* call has run exactly once -- unless an earlier call was abandoned after it
\* had been triggered.
OwnResult ==
    pc = "rax" /\ ~ dirty => rax = n /\ runs[n] = 1

\* No call runs twice, and none runs after it was reported as failed before
\* it was triggered.
RunsAtMostOnce ==
    ~ dirty => \A c \in Calls : runs[c] <= 1

\* The protocol implements the promise of RpcCall.
Phase ==
    CASE dirty -> "broken"
      [] ~ dirty /\ pc = "idle" -> "idle"
      [] ~ dirty /\ pc # "idle" /\ runs[n] = 0 -> "pending"
      [] OTHER -> "executed"

RC == INSTANCE RpcCall WITH phase <- Phase
RpcCallSpec == RC!Spec

-----------------------------------------------------------------------------
\* The inductive invariant: where the stub is and what the header holds, for
\* every place the caller can be.
Quiet == go = 0 /\ done = 0 /\ spc = "check"
Fresh == runs[n] = 0
Over == rax = n /\ runs[n] = 1
Running ==
    \/ spc = "check" /\ go = 1 /\ done = 0 /\ regs = n /\ Fresh
    \/ spc = "call" /\ go = 1 /\ done = 0 /\ hold = n /\ Fresh
    \/ spc = "store" /\ go = 1 /\ done = 0 /\ hold = n /\ runs[n] = 1
    \/ spc = "clear" /\ go = 1 /\ done = 0 /\ Over
    \/ spc = "signal" /\ go = 0 /\ done = 0 /\ Over
    \/ spc = "check" /\ go = 0 /\ done = 1 /\ Over
HandoverInv ==
    /\ pc # "idle" => n \in Calls
    /\ ~ dirty =>
        /\ pc = "idle" => Quiet
        /\ pc = "regs" => Quiet /\ Fresh
        /\ pc = "go" => Quiet /\ Fresh /\ regs = n
        /\ pc = "poll" => Running
        /\ pc = "clear" => go = 0 /\ done = 1 /\ spc = "check" /\ Over
        /\ pc = "rax" => Quiet /\ Over
        /\ \A c \in Calls : runs[c] <= 1 /\ (c > n => runs[c] = 0)
=============================================================================
