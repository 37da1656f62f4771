----------------------------- MODULE HttpServer -----------------------------
(***************************************************************************)
(* The payload's HTTP server (debugger/source/server.c): one thread that   *)
(* accepts one connection at a time, receives until it has seen the end of *)
(* a request, dispatches it to a handler, answers and closes.              *)
(*                                                                         *)
(* A handler is the sequence of its steps: what may fail, what is then     *)
(* freed and answered, what is allocated, freed, changed on the console.   *)
(* A handler that returns 1 is answered 404 by handle_request.  Requests   *)
(* are those an HTTP client sends: Pieces parts, the first of which holds  *)
(* the whole request line, with a value for every parameter.               *)
(*                                                                         *)
(* An answer is at most Units long.  send_response hands it to one send    *)
(* and does not look at how much of it was taken; the transfers of /dl and *)
(* /kdump announce a length and send until all of it is gone, the source   *)
(* ends or the connection is broken.                                       *)
(*                                                                         *)
(* External: the network.  A connection that was reset gives one error,    *)
(* then the end.  accept does not set errno when it gives a connection,    *)
(* and pfmalloc touches what it allocates, so the tests of its result      *)
(* behind it never fire.  A send takes any part of what it is given.       *)
(***************************************************************************)
EXTENDS Integers, Sequences

CONSTANTS
    Clients,   \* who connects; fewer than the listen queue holds (32)
    Pieces,    \* in how many parts a request may arrive
    Units,     \* bound on the length of an answer
    NULL

ASSUME PiecesIsPos == Pieces \in Nat \ {0}
ASSUME UnitsIsPos == Units \in Nat \ {0}
ASSUME NullIsNothing == NULL \notin Clients /\ NULL \notin STRING

VARIABLES
    link,     \* of each client: "none", "open", "closed", "reset", "broken"
    sent,     \* how many pieces of its request it has sent
    queue,    \* connections that wait for accept
    pc,       \* where the server is; "down" when start_http_server returned
    cur,      \* the client it serves, or NULL
    got,      \* how many pieces it has received
    grown,    \* the buffer was extended; the extension is not initialised
    op, at,   \* the handler and the step it is at
    held,     \* what was allocated or opened for this request
    answers,  \* history: the answers given on this connection
    left,     \* how much of the answer has not been sent
    lost,     \* history: why it never will: "send", "source" or "gone"; or "no"
    changed,  \* history: this request changed something on the console
    kept      \* history: what was never freed or closed

clients == <<link, sent, queue>>
buffer == <<cur, got, grown>>
handler == <<op, at>>
answer == <<answers, left, lost>>
vars == <<clients, pc, buffer, handler, held, answer, changed, kept>>

-----------------------------------------------------------------------------
\* The steps handlers are made of.

\* fails: how it may fail ("404": return 1; "200": send_err and return 0; "cut":
\* the connection is broken, return 0); drops: what is freed then.
Always == [fails |-> "never", drops |-> {}, keeps |-> {}, frees |-> {}, does |-> "nothing"]

CheckFreeing(F) == [Always EXCEPT !.fails = "404", !.drops = F]
Check == CheckFreeing({})
Refuse(F) == [Always EXCEPT !.fails = "200", !.drops = F]
Open(fd) == [Refuse({}) EXCEPT !.keeps = {fd}]
Keep(buf) == [Always EXCEPT !.keeps = {buf}]
Free(F) == [Always EXCEPT !.frees = F]
Change == [Always EXCEPT !.does = "change"]
TryChange(F) == [CheckFreeing(F) EXCEPT !.does = "change"]
Answer == [Always EXCEPT !.does = "answer"]
Header(F) == [Always EXCEPT !.does = "header", !.fails = "cut", !.drops = F]
Stream == [Always EXCEPT !.does = "stream"]

\* Processes.
List == <<Check, Check, Keep("plist"), Check, Keep("json"), Answer, Free({"plist", "json"})>>
Info == <<Check, Check, Keep("json"), Answer, Free({"json"})>>

\* Mutant of Mapping: the list is not freed when the second call fails.
MappingKeepsMaps ==
    <<Check, Check, Keep("maps"), Check,
      Keep("json"), Answer, Free({"maps", "json"})>>

Mapping ==
    <<Check, Check, Keep("maps"), CheckFreeing({"maps"}),
      Keep("json"), Answer, Free({"maps", "json"})>>
Write == <<Check, Keep("raw"), TryChange({"raw"}), Answer, Free({"raw"})>>
Read ==
    <<Check, Keep("data"), CheckFreeing({"data"}),
      Keep("b64"), Answer, Free({"data", "b64"})>>
AllocOrFree == <<Check, TryChange({}), Answer>>
Signal == <<Check, Change, Answer>>
SignalAny == <<Check, Check, Change, Answer>>
ThrInfo == <<Check, Check, Answer>>

\* Telemetry.  A sysctl that /sensors cannot read is reported as null.
SysctlRead == <<Check, Keep("buf"), CheckFreeing({"buf"})>>
Sysctl == <<Check>> \o SysctlRead \o <<Keep("json"), Answer, Free({"json", "buf"})>>
Sensors == <<Keep("json"), Answer, Free({"json"})>>
KernBase == <<Check, Answer>>
KRead ==
    <<Check, Keep("data"), CheckFreeing({"data"}),
      Keep("b64"), Answer, Free({"data", "b64"})>>
Fan == <<Open("fan"), Free({"fan"}), Answer>>
FanOp == <<Open("fan"), CheckFreeing({"fan"}), Change, Free({"fan"}), Answer>>
Storage ==
    <<Refuse({}), Keep("buf"), CheckFreeing({"buf"}),
      Keep("json"), Answer, Free({"json", "buf"})>>

\* Files and the kernel.
Ls ==
    <<Check, Open("dir"), Keep("dbuf"), Keep("json"), Free({"dir"}), Answer,
      Free({"json", "dbuf"})>>
FStat == <<Check, Refuse({}), Answer>>
Dl ==
    <<Check, Refuse({}), Open("file"), Refuse({"file"}), Header({"file"}),
      Keep("buf"), Stream, Free({"buf", "file"})>>
KDumpInfo == <<Refuse({}), Refuse({}), Answer>>
KDump ==
    <<Refuse({}), Refuse({}), Refuse({}), Refuse({}), Header({}),
      Keep("buf"), Stream, Free({"buf"})>>
Verbose == <<Change, Answer>>

\* operations; /fan and /kdump do different things with parameters and without.
Steps == [
    list |-> List, info |-> Info, mapping |-> Mapping, write |-> Write, read |-> Read,
    alloc |-> AllocOrFree, free |-> AllocOrFree, pause |-> Signal, resume |-> Signal,
    signal |-> SignalAny, thrinfo |-> ThrInfo, sysctl |-> Sysctl, sensors |-> Sensors,
    kernbase |-> KernBase, kread |-> KRead, fan |-> Fan, fan_op |-> FanOp,
    storage |-> Storage, ls |-> Ls, fstat |-> FStat, dl |-> Dl,
    kdump |-> KDumpInfo, kdump_range |-> KDump, verbose |-> Verbose]
Operations == DOMAIN Steps
Now == Steps[op][at]

Resources ==
    {"buffer", "params"}
        \cup UNION {UNION {Steps[o][i].keeps : i \in DOMAIN Steps[o]} : o \in Operations}

-----------------------------------------------------------------------------
TypeOK ==
    /\ link \in [Clients -> {"none", "open", "closed", "reset", "broken"}]
    /\ sent \in [Clients -> 0..Pieces]
    /\ queue \in Seq(Clients)
    /\ pc \in {"start", "accept", "recv", "parse", "handle", "finish", "down"}
    /\ cur \in Clients \cup {NULL} /\ got \in 0..Pieces /\ grown \in BOOLEAN
    /\ op \in Operations \cup {NULL} /\ at \in Nat
    /\ pc = "handle" => op \in Operations /\ at \in 1..(Len(Steps[op]) + 1)
    /\ held \subseteq Resources /\ kept \subseteq Resources
    /\ answers \in Seq({"200", "404", "405"}) /\ changed \in BOOLEAN
    /\ left \in 0..Units /\ lost \in {"no", "send", "source", "gone"}
    /\ (cur = NULL) = (pc \in {"start", "accept", "down"})

\* Every connection is either waiting, once, or the one that is served.
InTurn ==
    /\ \A c \in Clients :
          (link[c] # "none") = (c = cur \/ \E i \in DOMAIN queue : queue[i] = c)
    /\ \A i, j \in DOMAIN queue : queue[i] = queue[j] => i = j
    /\ \A i \in DOMAIN queue : queue[i] # cur

Init ==
    /\ link = [c \in Clients |-> "none"] /\ sent = [c \in Clients |-> 0] /\ queue = << >>
    /\ pc = "start" /\ cur = NULL /\ got = 0 /\ grown = FALSE
    /\ op = NULL /\ at = 1
    /\ held = {} /\ answers = << >> /\ left = 0 /\ lost = "no"
    /\ changed = FALSE /\ kept = {}

-----------------------------------------------------------------------------
\* The clients.

Connect(c) ==
    /\ pc \notin {"start", "down"} /\ link[c] = "none"
    /\ link' = [link EXCEPT ![c] = "open"]
    /\ queue' = Append(queue, c)
    /\ UNCHANGED <<sent, pc, buffer, handler, held, answer, changed, kept>>

Send(c) ==
    /\ link[c] = "open" /\ sent[c] < Pieces
    /\ sent' = [sent EXCEPT ![c] = @ + 1]
    /\ UNCHANGED <<link, queue, pc, buffer, handler, held, answer, changed, kept>>

\* It closes the connection, times out, or the network breaks.
Leave(c) ==
    /\ link[c] = "open"
    /\ \E l \in {"closed", "reset"} : link' = [link EXCEPT ![c] = l]
    /\ UNCHANGED <<sent, queue, pc, buffer, handler, held, answer, changed, kept>>

-----------------------------------------------------------------------------
\* start_http_server.

Listen ==
    /\ pc = "start"
    /\ pc' \in {"accept", "down"}
    /\ UNCHANGED <<clients, buffer, handler, held, answer, changed, kept>>

Accept ==
    /\ pc = "accept" /\ queue # << >>
    /\ cur' = Head(queue) /\ queue' = Tail(queue)
    /\ held' = {"buffer"}
    /\ pc' = "recv"
    /\ UNCHANGED <<link, sent, got, grown, handler, answer, changed, kept>>

-----------------------------------------------------------------------------
\* handle_request.

\* Is the end of the request found, and if not, is the buffer extended?  An
\* extension that is not initialised may hold the end of an earlier request.
Search(complete) ==
    \/ /\ complete \/ grown
       /\ pc' = "parse" /\ held' = held \cup {"params"}
       /\ UNCHANGED grown
    \/ /\ ~ complete
       /\ grown' = TRUE
       /\ UNCHANGED <<pc, held>>

RecvPiece ==
    /\ pc = "recv" /\ got < sent[cur] /\ link[cur] \in {"open", "closed"}
    /\ \E m \in (got + 1)..sent[cur] : got' = m
    /\ Search(got' = Pieces)
    /\ UNCHANGED <<clients, cur, handler, answer, changed, kept>>

\* The error of a reset connection is counted as data.
RecvError ==
    /\ pc = "recv" /\ link[cur] = "reset"
    /\ link' = [link EXCEPT ![cur] = "broken"]
    /\ Search(FALSE)
    /\ UNCHANGED <<sent, queue, cur, got, handler, answer, changed, kept>>

AtEnd == link[cur] = "broken" \/ (link[cur] = "closed" /\ got = sent[cur])

RecvEnd ==
    /\ pc = "recv" /\ AtEnd
    /\ pc' = "finish" /\ held' = held \cup {"params"}
    /\ UNCHANGED <<clients, buffer, handler, answer, changed, kept>>

\* send_response: what its one send does not take, or all of it when that fails, is
\* lost, and nobody is told.
SendOnce ==
    /\ left' \in 0..Units
    /\ lost' = IF left' = 0 THEN "no" ELSE "send"

NotGet ==
    /\ pc = "parse"
    /\ answers' = Append(answers, "405") /\ SendOnce
    /\ pc' = "finish"
    /\ UNCHANGED <<clients, buffer, handler, held, changed, kept>>

UnknownOperation ==
    /\ pc = "parse" /\ got > 0
    /\ answers' = Append(answers, "404") /\ SendOnce
    /\ pc' = "finish"
    /\ UNCHANGED <<clients, buffer, handler, held, changed, kept>>

\* The request line is in the first piece.
Dispatch ==
    /\ pc = "parse" /\ got > 0
    /\ op' \in Operations
    /\ pc' = "handle"
    /\ UNCHANGED <<clients, buffer, at, held, answer, changed, kept>>

-----------------------------------------------------------------------------
\* The handlers.

\* An answer is sent; the header of a transfer, whole, announces its length.
Answers ==
    \/ Now.does = "answer" /\ answers' = Append(answers, "200") /\ SendOnce
    \/ /\ Now.does = "header" /\ answers' = Append(answers, "200")
       /\ left' \in 0..Units /\ UNCHANGED lost
    \/ Now.does \notin {"answer", "header"} /\ UNCHANGED answer

StepDone ==
    /\ pc = "handle" /\ at <= Len(Steps[op])
    /\ Now.does = "stream" => left = 0
    /\ at' = at + 1
    /\ held' = (held \cup Now.keeps) \ Now.frees
    /\ Answers
    /\ changed' = (changed \/ Now.does = "change")
    /\ UNCHANGED <<clients, pc, buffer, op, kept>>

Streaming == pc = "handle" /\ at <= Len(Steps[op]) /\ Now.does = "stream" /\ left > 0

\* Mutant of StreamSome: send_all does not look at how much was taken, either.
StreamOnce ==
    /\ Streaming
    /\ left' \in 0..(left - 1)
    /\ at' = at + 1
    /\ UNCHANGED <<clients, pc, buffer, op, held, answers, lost, changed, kept>>

\* One send of send_all, of what was read from the file or the kernel.
StreamSome ==
    /\ Streaming
    /\ left' \in 0..(left - 1)
    /\ UNCHANGED <<clients, pc, buffer, handler, held, answers, lost, changed, kept>>

\* The source has less than was announced, or a send fails; the handler goes on as
\* if all had been sent.
StreamBreaks ==
    /\ Streaming
    /\ at' = at + 1
    /\ \/ lost' = "source"
       \/ link[cur] # "open" /\ lost' = "gone"
    /\ UNCHANGED <<clients, pc, buffer, op, held, answers, left, changed, kept>>

\* What the client is told when a step fails.
Replies(how) == IF how = "cut" THEN << >> ELSE <<how>>

\* A write into a process may break off in the middle.
StepFails ==
    /\ pc = "handle" /\ at <= Len(Steps[op]) /\ Now.fails # "never"
    /\ Now.fails = "cut" => link[cur] # "open"
    /\ held' = held \ Now.drops
    /\ answers' = answers \o Replies(Now.fails)
    /\ IF Now.fails = "cut" THEN UNCHANGED <<left, lost>> ELSE SendOnce
    /\ changed' \in IF op = "write" THEN {changed, changed \/ Now.does = "change"} ELSE {changed}
    /\ pc' = "finish"
    /\ UNCHANGED <<clients, buffer, handler, kept>>

HandlerReturns ==
    /\ pc = "handle" /\ at > Len(Steps[op])
    /\ pc' = "finish"
    /\ UNCHANGED <<clients, buffer, handler, held, answer, changed, kept>>

\* Mutant of Finish: a request that failed ends the loop of start_http_server.
FinishBreaks ==
    /\ pc = "finish"
    /\ kept' = kept \cup (held \ {"buffer", "params"}) /\ held' = {}
    /\ link' = [link EXCEPT ![cur] = "none"] /\ sent' = [sent EXCEPT ![cur] = 0]
    /\ cur' = NULL /\ got' = 0 /\ grown' = FALSE /\ op' = NULL /\ at' = 1
    /\ answers' = << >> /\ left' = 0 /\ lost' = "no" /\ changed' = FALSE
    /\ pc' = IF answers = <<"404">> THEN "down" ELSE "accept"
    /\ UNCHANGED queue

\* The buffer and the parameters are freed and the connection is closed; what is
\* about this request is forgotten.
Finish ==
    /\ pc = "finish"
    /\ kept' = kept \cup (held \ {"buffer", "params"}) /\ held' = {}
    /\ link' = [link EXCEPT ![cur] = "none"] /\ sent' = [sent EXCEPT ![cur] = 0]
    /\ cur' = NULL /\ got' = 0 /\ grown' = FALSE /\ op' = NULL /\ at' = 1
    /\ answers' = << >> /\ left' = 0 /\ lost' = "no" /\ changed' = FALSE
    /\ pc' = "accept"
    /\ UNCHANGED queue

-----------------------------------------------------------------------------
Handle == StepDone \/ StreamSome \/ StreamBreaks \/ StepFails \/ HandlerReturns
Request == RecvPiece \/ RecvError \/ RecvEnd \/ NotGet \/ UnknownOperation \/ Dispatch
Server == Accept \/ Request \/ Handle \/ Finish

Next == Listen \/ Server \/ \E c \in Clients : Connect(c) \/ Send(c) \/ Leave(c)

Spec == Init /\ [][Next]_vars

\* The server's thread is scheduled, and every client has a timeout after which
\* it leaves a connection that is still open.  The server has none: a client that
\* vanishes from the network without closing would hold it for ever.
FairSpec ==
    /\ Spec
    /\ WF_vars(Server)
    /\ \A c \in Clients : WF_vars(Leave(c))

-----------------------------------------------------------------------------
Transfers == {"dl", "kdump_range"}
AtItsEnd == pc = "finish" /\ op # NULL /\ at > Len(Steps[op])

\* Nobody is given two answers, and a client that is still there when its connection
\* is closed has been given one.  All of it has been sent, however many sends that
\* took, unless the source of a transfer ended early, or it was no transfer that came
\* to its end but an answer of send_response, and its one send took less.  A 404 means
\* that nothing was done, so the request may be repeated; only a write into a process
\* can be done in part.
AnswerIsTrue ==
    /\ Len(answers) <= 1
    /\ pc = "finish" /\ link[cur] = "open" =>
          /\ Len(answers) = 1
          /\ left > 0 => lost = "source" \/ (lost = "send" /\ ~ (op \in Transfers /\ AtItsEnd))
    /\ pc = "finish" /\ answers = <<"404">> /\ changed => op = "write"

\* A request leaves nothing allocated or open, however it ends; only /list keeps
\* its list when its second system call fails.
NothingKept ==
    [][kept' # kept =>
          op = "list" /\ answers = <<"404">> /\ kept' = kept \cup {"plist"}]_vars

\* The server does not stop serving: every connection, also one that waits behind
\* a client that stalls or breaks off, is in the end closed by the server.
EveryoneServed == \A c \in Clients : link[c] # "none" ~> link[c] = "none"
=============================================================================
