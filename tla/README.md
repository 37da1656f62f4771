# Formal models of WebRTE

WebRTE gives a jailbroken console an HTTP API. A single file, `webrte.bin`, is
sent to the console; it runs in the kernel, installs six system calls, and starts
a payload thread in SceShellCore that answers HTTP on port 771. On the PC side a
proxy with a web page uses that API, reads the kernel log and records samples.

This directory holds TLA+ models of the stateful parts of that system, the TLC
runs that check them on small instances, and TLAPS proofs of the main results
for every value of the constants. `PROJECT.json` lists components, runs, the
source lines behind each definition, the hazards, findings and theorems.

    tlc -config MCAllProc.cfg MCAllProc.tla      # any module/cfg pair of PROJECT.json
    tlapm AllProcProofs.tla                      # any *Proofs module

## 1. Inventory

### On the console

**Installer** (`installer/source/installer.c`, `proc.c`). Runs once per send, in
the kernel. State: the kernel's code, the kdebugger's memory, the fixed mapping
`PAYLOAD_BASE` in SceShellCore, and a loader page and stack there. Operations:
`patch_kernel`, `load_kdebugger`, `load_debugger`, `proc_create_thread`. It talks
to the loader thread through one byte, `ldrdone`. Hard: any of a dozen accesses
can fail part way; the file may be sent again; the wait for `ldrdone` has no bound.
Correct when one payload runs, never without its system calls or on half a loader,
and nothing is left behind.

**kdebugger** (`kdebugger/source/hooks.c`, `proc.c`). Six system calls. State: none
of its own; it walks the kernel's `allproc` list, which fork and exit change
concurrently, and reads and writes other processes: it allocates and protects
memory there, lists its map, installs a stub that makes calls for it, and starts a
program from an ELF, both through a loader thread. Hard: the walks against fork
and exit, pointers used after the lock is released, the header protocol of
`sys_proc_call_handle` with a thread in another process, accesses that fail half way
through a command, memory freed under a thread that runs on it. Correct when a walk
sees only listed structures and sees them all, when the lock is always released,
when a remote call runs once and returns its own result, when a command gives back
what it took, and when it reports what it did.

**ELF loaders** (`installer/source/elf.c`, `kdebugger/source/elf.c`, and
`proc_map_elf`, `proc_relocate_elf` in the kdebugger's `proc.c`). No state: bytes of a
file to an image in memory. Correct when the image is what the file describes.

**Firmware tables** (`installer.c`, both `proc.c`). Constants: which kernel is patched
where, and where the four functions a loader needs lie in each of three libkernels.
Correct when the copies agree and a firmware that is patched is served.

**Payload** (`debugger/source/server.c`, `kdbg.c`, `paramdict.c`, `encode.c`).
One thread, one connection at a time. State: sockets, the request buffer, the
parameter list. Some twenty endpoints; `/list` makes two system calls, `/dl` and
`/kdump` stream. Hard: partial sends and receives, clients that stall or leave,
transfers that end early, files that change under a download, 32-bit lengths.
Correct when every request gets one answer, every descriptor and buffer is given
back, and what is decoded is what was encoded.

### On the PC

**Proxy** (`dashboard/serve.py`). A thread per request; relays `/api/...` to the
console and owns one klog bridge and one recorder.

**klog bridge** (`dashboard/klogbridge.py`). State: `want`, the reader thread, the
ring of numbered lines, `churn`. `start`, `stop`, `clear` and `since` run on the
proxy's request threads; `_run` on the reader. Only the ring has a lock. Correct
when the ring is contiguous, one reader holds the console's single klog
connection, and start and stop do what they say.

**Recorder** (`dashboard/recorder.py`). State: a rolling window of samples, the changes,
the armed incident, the cached kernel base and last deep sample. Hard: the reboot is
recognised across an outage from stale and fresh uptimes; stop, clear and start
while an incident is armed.

**pull client** (`dashboard/pull.py`). Ranged, resumed downloads of files and of
the kernel's readable windows.

**Page** (`dashboard/dashboard.html`). Timers that poll without waiting for the
last answer: the klog cursor, the process watchdog, the fan drawer, the kernel
dump. Correct when what it shows is in order, complete or marked as cut.

**Tools** (`send.py`, `send.sh`, `build.sh`, Makefiles, CI). Not modelled; a send is
an event of `Boot`.

## 2. Modules

| Module | Models | Used by |
|---|---|---|
| `AllProc` | the process list, its three walks, `/list` and find-then-use | `MCAllProc`, `AllProcProofs` |
| `RpcCall` | what a remote call promises | `RpcStub` |
| `RpcStub` | the header protocol between `sys_proc_call_handle` and the stub | `ProcCmd`, `ProcCmdProofs` |
| `ProcCmd` | the commands on a process, its loader threads and the stub's page | `MCProcCmd`, `ProcCmdProofs` |
| `ElfLoad` | the two ELF loaders, as operators | `ProcCmd` |
| `Firmware` | which firmware is patched, and listed for which libkernel | `ProcCmd`, `Boot` |
| `Boot` | installer, hooks, `proc_create_thread`, loader thread | `MCBoot`, `BootProofs` |
| `KlogRing` | the numbered ring of the bridge: `_add`, `since`, `clear` | `KlogBridge`, `KlogPage` |
| `KlogBridge` | `start`/`stop` on request threads against the reader thread | `MCKlogBridge`, `KlogBridgeProofs` |
| `KlogPage` | the page's polls and cursor against the ring | `KlogIncident` |
| `KlogIncident` | the klog lines that an incident of the recorder takes from the ring | `Page` |
| `FanPanel` | the thermal drawer's jobs against `/fan` | `Page` |
| `Page` | the klog tab and the drawer | `MCPage`, `PageProofs` |
| `Recorder` | the recorder's sampling loop against a console that crashes and reboots | `MCRecorder`, `RecorderProofs` |
| `KernelPull` | `/kdump` against `pull.py kernel` | `Pull` |
| `FilePull` | `/dl` against `pull.py file`, for a file that changes | `Pull` |
| `Pull` | `pull.py`, which runs one of the two | `MCKernelPull`, `PullProofs` |
| `Encodings` | percent-decoding, the parameters, base64, as operators | `MCHttpServer` |
| `HttpServer` | the payload's server: accept, receive, dispatch, every handler's steps, close | `MCHttpServer`, `HttpServerProofs` |

An `MC` module extends the component's module for TLC; its header says why its
bounds are enough. Definitions named `...` with the comment *Mutant of X* are
wrong versions of `X`, kept to show that each property can fail.

### AllProc

`list` is `allproc`, head first, and `pidOf` the pid field of each `struct proc`,
which outlives the process: `Exit` removes an entry, a later `Fork` may reuse its
slot under another pid. `sharers` are the holders of `allproc_lock` in shared
mode; fork and exit (the kernel's own) need it empty. A thread's walk is one step
per entry (`CountStep`, `FillStep`, `FindStep`) between `Slock` and a `Sunlock*`
action. `p_forw` of a structure that is off the list is any address. `List` is
`handle_list`: a count, an unlocked gap, a fill of at most that many. `Find` and
`Use` are `sys_proc_rw`/`sys_proc_cmd`: the pointer is used with no lock held.
`LockMapped = FALSE` is a firmware whose lock addresses are unknown, where the
helpers do nothing; there nothing is claimed, and only there is a comment of the page
still true that says every walk goes "without a lock" (`dashboard.html:732`).

### RpcCall, RpcStub

Each access to the header is a step and each of the caller's may fail. A call is
its number, which stands for its registers and its result. `dirty` records that a
call was abandoned after its trigger; from then on RpcCall promises nothing
(phase `broken`), because the leftovers of that call are answered to the next.

### ProcCmd

The target is pages: `vm` says whose each page is, `prot` what it may do. `op` is the
step of the command that the system call is executing, `cmd` and `res` the INSTALL or
ELF it belongs to and its result. The kernel's steps interleave with the target's own
`mmap` and `munmap`, with the loader threads (`lpc`), with the stub (`spc` of
`RpcStub`, which this module extends: the protocol's steps are taken only while the
stub's page is mapped, and writable where they write), and every access can fail. One
command is asked for at a time, as the payload has one connection. `proc_allocate` is
a first fit, `proc_deallocate` deletes whatever is in the range, and `handle_alloc`
tells an address with `%i` (`Told`). A thread that faults takes the target down;
`blame` records who may be the cause: a client that frees or protects the stub, or
frees what it was told wrongly, an image with cells missing, a failed read of
`ldrdone`, or the loader's own last instructions, whose page is freed once `ldrdone` is
set. A program with cells missing may do anything; here it faults. A menu is the
commands one client uses, which keeps the runs to the combinations that interact.

### ElfLoad, Firmware, Encodings

These are operators without state; the MC modules that use them check them by
`ASSUME` over all small inputs (section 3). An ELF is a record of segments, sections
and relocation tables in cells of one pointer; a firmware is a number; a text is the
sequence of its character codes.

### Boot

Installers are the times the file was sent; they may overlap. `writes` counts the
writes to the loader page (its code and five header fields). The loader thread
runs from that page: if it or its stack is gone the thread faults and SceShellCore
is `crashed`. `WaitFails` is a failed read of `ldrdone` in a live process.

### KlogRing, KlogBridge, KlogPage

A line is its number. `start()` is three steps, because `self.want`, `_thread` and
`Thread.start()` are separate and nothing locks them; `is_alive()` is true until
the thread function has returned. `raced` records two overlapping `start()` calls
and `late` a `start()` that kept a thread which had already decided to return. In
the page, `overlapped` records two polls outstanding and `cut` an answer that left
a new line out. In `KlogIncident` the recorder is one more reader of the ring: it
arms at a line, and `_write_incident` keeps the last 600 of the first 4000.

### FanPanel, Page

Each zone has a table, which is its setpoint here. The page's asynchronous functions
are jobs; a job has a plan (read the zones, show them, set one, restore one) and one
request in the page's `chain`, which is served in order. An answer may be an
acceptance, a refusal, which the page ignores, or a failure, which ends what `guard`
encloses: a read, one zone's restore, a whole row of sets. `excused` is history: the
zones a restore does not reach, or that others have written since it began. `own`
is what the console was shipped with. The drawer's raw operation and other clients are
`OthersWrite`. The two parts of `Page` share no state, so each is checked with the
other at rest.

### Recorder

`up`, `uptime` and `boot` are the console. `pc` walks through one turn of `_loop`:
`Tick`, then the requests of `_sample` (`AskList`, `Prime`, `ReadUptime`, `ReadCp`,
or `CopyLast` when the sample is not deep), then `Record`, everything `_loop` does
under its lock. `self.deep` is tested at `AskList` and again at `ReadCp`, and
`Start` may come in between (`torn`); the reading left
over is then repeated after a newer one and taken for a reboot, so `TrueReboots`
claims nothing after it. `kbase` is the boot in which the cached base
was read; a read with the base of another boot sets `stale` and returns anything.
A sample carries beside its uptime the boot it was read in (`from`), which the
program does not know and the properties compare. A console takes minutes to boot
and a running loop notices its silence within seconds, so `Boot` waits until the
loop has failed a sample (`unseen`).

The window, `self.samples`, is a run of numbers from `first` to `seq`. `Record` trims it
by age (`Trimmed`). While the loop runs, the 20 samples of an incident and the one before
it are taken to be younger than 900 seconds, which is 45 for a turn: it pauses for 8 at
most, a request takes some 60 ms, and one that times out after 6 seconds mostly fails the
sample. (A console that took nearly that long for every request of every sample could
exceed it.) A loop that was off may come back later than 900 seconds, so everything from before may go, and `Clear`
takes all at once. `dropped` is history: no sample up to it need be there. `Finished` is
`_write_incident`: it keeps which samples the file got.

### KernelPull

A byte of the kernel is its offset from the base, so a byte in the wrong place is
seen. The server's state is `serving` and the locals of `handle_kdump`; an accepted
request is copied piece by piece and may break off after any byte (`CopyFails`).
Another client may ask for any address and any length at any time. The connection
is the request, the bytes on their way, the announced length and whether it is
closed. The client is `pull_range` inside `cmd_kernel`: `AskRange`, `ReadBytes`,
`RangeEnds`, then `WindowEnds`, `NextWindow`, `WriteElf`. `short` and `refused` are
history: a window ended before its length, and a refusal, which is a JSON text
with status 200, was taken for kernel bytes. Addresses are numbers below `Top`,
and sums wrap there.

### FilePull, Pull

A byte of the file is its position. The file may grow, be cut or be removed at every
step; `ToSend` is what `read` finds. `Expected` is what `http.client` makes of
Content-Length. `Half` stands for 2^31, so that a file of `2 * Half` bytes has a length
that `(int)` makes 0. `meant`, `ended` and `refused` are history. `pull.py` runs one
command, so `Pull` chooses between the two and `MCKernelPull` checks both.

### HttpServer

`queue` and `link` are the network's side of the connections, `got` and `grown` the
receive loop's. A client sends a well-formed request of `Pieces` parts, the first of
which holds the request line, and may leave or be reset at any point. A reset gives
`recv` one error, which the loop counts as data (`RecvError`), and then the end. The
buffer is extended without being cleared, so an old end of a request may be found in
it (`Search`). A handler is a row of `Steps`, one for each entry of `operations`
(two for `/fan` and `/kdump`, which do something else with parameters): a step says
how it can fail, what is freed then, and what it allocates, frees, changes or
answers. `StepDone` and `StepFails` run any handler. `send_response` gives its answer to one
`sceNetSend` and does not look at what was taken (`SendOnce`): `left` of the answer's
`Units` may be lost. A transfer announces its length in a header that `send_all` sends
whole, and then streams: `StreamSome` is one send, after which `send_all` goes on with
what is left, and `StreamBreaks` the end of the file or of the readable memory, or a send
that fails. `lost` says which it was. The values the handlers read and format are left
out. `pfmalloc` is taken never to fail, since it touches what it
allocates before its callers test it. `answers`, `left` of an
answer, `lost`, `changed` and `kept` are history; `Finish` forgets what belongs to one request.

## 3. Runs

Passing runs:

| Run | Shows | Bounds |
|---|---|---|
| `allproc` | walks are safe and exact, `/list` and find-then-use go wrong only after a fork or exit, the lock is released | 3 structures, 3 pids, 1 thread, walk bound 2 |
| `proc_cmd` | own result and `RpcCall` for the stub; memory given and taken exactly, a success is earned, the target comes down only for a named cause, `/mapping` is faithful, a command ends | 9 pages of 2 units, 2 calls, 1 allocation, one INSTALL and one ELF that get as far as a loader, 8 menus, 2 libkernels |
| `boot` | one payload, hooks first, complete loader, no leak, page kept until `ldrdone`, the success line is earned, installer returns | 2 sends |
| `klog_bridge` | contiguous ring, one reader, a wanted connection is read, stop ends the reader | 2 request threads, 2 thread objects, ring 2, 3 lines |
| `page` | klog: order, no duplicates, no unexplained gap; an incident has the lines around its trigger; a restore of the fan leaves the zones as shipped | 2 polls, ring 3, answers of 2, 4 lines, an incident of 1 out of 2; 2 zones, 2 setpoints, one click's job against the timer's |
| `recorder` | no invented reboot, every incident complete and its window with it unless it was cleared or the loop was off, every trigger inside one, armed incidents are finished | every 2nd sample deep, incident of 2 samples, uptimes 0 and 1, 2 boots, 4 samples |
| `kernel_pull` | reads stay in the windows, a window is pulled without loss or repeat, an exact ELF when no window was short; a file's bytes are in place, and it is whole but for named reasons; either command ends | windows of 4 and 2 with a hole of 1, pieces of 2, requests of 3, base 8, 16 addresses; files of up to 9 bytes, an `int` of 3 bits |
| `http_server` | one truthful answer per request, a transfer sent whole, nothing kept but `/list`'s list when its second system call fails, every connection is closed | 2 clients, requests of 3 pieces, answers of 2 units |

Runs that refute a statement of the repository:

| Run | Statement | What happens |
|---|---|---|
| `boot_loader` | `proc.c`: "wait until loader is done" | the loader's page is freed before its `thr_exit`, and it faults |
| `klog_cursor` | page: "a dying console still delivers its last lines" | more than 2000 waiting: the newest are skipped |
| `recorder_base` | `recorder.py`: "change every boot, so re-read both" | stop, a reboot, start: kernel memory is read at the old boot's addresses |
| `kernel_pull_elf` | `pull.py`: the ELF maps the windows "where they live" | a window ends early; the next one's bytes become the end of its segment |

`MCProcCmd`, `MCBoot` and `MCHttpServer` also evaluate facts about operators: the image
of every small ELF is right when its tables are of type SHT_REL, a SHT_RELA table is
ignored and a SHT_NOBITS section copied from the file; the firmware tables of the two
`proc.c` agree, every patched firmware is listed for SceShellCore's libkernel, three
listed ones are never patched, and some patched ones are missing from the other two
libkernels; a quoted value arrives as it was, base64 comes back as it was, a `+` that
was not quoted does not, and the parameters' arrays always hold the next entry.

Passing runs show more places where the code and a statement about it differ;
PROJECT.json lists them under findings. Six are exemptions a property needs: the first
4000 lines of an incident, an incident written without its event after a clear or a long
stop, where `recorder.py` promises "the whole retained window", the fan's 13.00 tables on
every console, a file that was cut reported as written, the address told with `%i`, and
answers, such as `/ls`'s of up to 256 KB, that leave by the one send of `send_response`
although `server.c` says that what is below line 1083 "sends its own header and then
streams". One is a property that holds where a
comment denies it: `WalkSafe`, against `dashboard.html:732-734`, by which the kernel walks
`allproc` "without a lock" and two requests in flight can panic the console. And the
facts above show the relocation types and the firmwares that are not served.

**Bounds.** The walk bound is below the longest list, so both "bound hit" and
"list ended" occur; slots equal pids plus reuse, so a stale pointer can name a
different process. Two calls allow a success, a failure at any access, and a call
that meets what it left. The target's nine pages hold its two, a stub, an image of two
with the loader's page and stack, and an allocation of two, so that gaps are filled
anew after a free; `Half` is page 4, below which a first allocation lies and above
which one lies that follows a stub and a loader. The menus leave out
combinations that only multiply states: no client both pauses and allocates. One INSTALL
and one ELF may reach the loader, so a second loader of the same command is not seen,
but a loader of the other is. A file has up to 2^32 and one more bytes, in a scale
where 2^31 is 4, so that lengths are right, negative and wrapped; it is sent in pieces
of two, each of which can be the last. One click's job runs in the drawer at a time,
against the timer's. Two installers give a resend after, during and over a
failed send. The ring is smaller than the number of lines and the answer smaller
than the ring, so trimming and cutting both occur. With every second sample deep an
outage is met by a deep sample and by a light one; four samples hold an incident,
a trigger inside it and a trigger after it. The first window needs two requests
and a request two pieces, each of which can be cut, and a second window follows.
The kernel lies in the upper half of the 16 addresses, so that a request near the
top would wrap if a sum were careless. Of two clients one waits behind the other, and
they come back, so more would only queue; a request in three pieces is incomplete
before and after the buffer has been extended. An answer of two units is sent whole, in
part or not at all, and a transfer in two sends. `MaxSeq` (of `KlogRing`'s users and of
`Recorder`), `MaxCalls`, `MaxUp` and `MaxBoot` only bound behaviour; each is a
constant of its module. `WalkMax` is the code's own bound, made small.

**Fairness.** Weak fairness of a thread's own steps: the kernel runs the system
calls and its installer, schedules the loader and the stub of a target that is not
paused, and Python schedules
the reader and the recorder, all of whose blocking calls have timeouts. In
`Pull` the kernel request of the client is served under strong fairness: the
listen queue is first come, first served, so other clients delay it and cannot
keep it out. In `HttpServer` every client leaves a connection that stays open: they
all have timeouts. The server itself has none, so a client that vanishes from the
network without closing its connection would hold it for ever, and `EveryoneServed`
says nothing of that case. A send that waits for a client that does not read ends
when that client leaves. Nothing is assumed about
requests, forks, sends, failures, or lines arriving. The functions a stub calls
are assumed to return.

## 4. Proofs

Every safety property of the passing runs, state invariant or action property, is a
theorem for every value of the constants: any number of processes, sends, calls,
samples, polls, zones and clients, and any sizes. Type correctness is proved with
them and not repeated as an invariant of the runs. A module `XProofs` states an
inductive invariant (`IInv`, `CmdInv`, `FileInv`, `FanInv` or `Inv`), proves that the
initial states have it and that each action keeps it, and takes the properties from
it. The properties are seldom inductive; what had to be added is this.

**`AllProcProofs`.** `WalkInv`: while the lock is held shared the list cannot change, so
a walk at step `num` stands on entry `num + 1` and has counted, copied or rejected
exactly the first `num`. Without "stands on entry `num + 1`" nothing says that `p_forw`
stays on the list. `HistoryInv` adds what ties the count to the fill: forks and
exits since the request bound how far the list has moved.

**`ProcCmdProofs`, the stub.** The header protocol returns each call's own result, runs
none twice, and implements `RpcCall`. `HandoverInv` says for every place of the caller
where the stub is and what the four header fields hold. `CallsRefine` carries this over
to `ProcCmd`: each of its steps is a step of `RpcStub` or leaves its variables alone, so
no other command on the process can give a call another's result.

**`ProcCmdProofs`, the commands.** `CmdInv` has six parts. `StepInv` ties a result to
the flag it was earned by; `PlaceInv` says where the page and the stack of a loader are
from their allocation to their release, and that no other page is theirs; `LoaderInv`
that a loader which still needs them is waited for, or something is to blame;
`BlameInv` that without blame the stub, the image and libkernel's pages are there;
`AllocInv` which pages each allocation holds. They are inductive only together: that an
allocation is whole needs that a loader frees its own pages, and that the target survives
needs that freeing an allocation takes nothing else. `MapFaithful` needs a last fact,
which is about sets and not about steps: the *n*-th entry is the page of rank *n*, so a
count that was not overtaken leaves out the highest page at most.

**`BootProofs`.** `BaseInv` gives the fixed mapping one owner; `MemoryInv` says for every
place of an installer what it has mapped and how much of the page is written; `LoaderInv`
that a loader thread has a complete page, and an installer that waits for it, has seen
its flag or could not (`blind`); `HooksInv` that somebody is at the system calls while
they are being cleared, or nobody has got that far.

**`KlogBridgeProofs`, `PageProofs`.** The ring is a run of numbers that ends at `seq`, so
that a cut of it and what `since` picks are runs again. `OneReader` needs `LoneInv`: as
long as no two `start()` calls have overlapped no thread but the field's has work left,
and none has when a new one is made. The page adds to it that an answer on its way
follows the cursor, which itself is never ahead of the ring (`PollInv`, `CursorInv`),
and the incident that what came since the trigger is still in the ring, or fills it.

**`PageProofs`, the drawer.** A job's plan ends with a show and has each of its restores at
its head or behind a show (`PlanInv`), so that a failure, which skips to behind the next
show, never skips a restore. A request in the chain is what its job's plan is at, and it
carries the factory's table when it restores (`ChainInv`, `BaseInv`). With these
`RestoreInv` is inductive: a zone of a restore under way is as shipped or still to be done.

**`RecorderProofs`.** `ReadingsInv` gives every reading in the room the boot it was taken
in and an order to readings of one boot; without it a light sample, which copies the last
reading, says nothing. It holds only while no reading is `torn` and no base `stale`.
`ArmedInv` counts: the samples an incident still waits for and those it has make up its
length. `WindowInv` says of the window that it lacks no sample from the one before the
trigger on but what is accounted for in `dropped`; that trimming by age keeps this is
the lemma `TrimmedKeeps`.

**`PullProofs`.** The dump: `CopyInv` (what is copied lies in one window) gives
`ReadsMapped`, once `AcceptedIsInside` has shown that the sum the check tests does not
wrap. `PulledIsPrefix` needs `RangeInv`, which ties the server to the
client (a request on its way, and an answer while it is copied, are the range the client
is at, and the server is `Len(wire)` bytes ahead of it) and `StreamInv`: the bytes on
their way continue the file. `ElfInv` adds where each window begins in the file. The
download: `TurnInv` says that a request is the client's only one, and `AnswerInv` that
what was sent is the range from its start on and stops short only with a reason; that
the announced length is right below `Half` and negative or smaller from there on is a
lemma about `AsInt`, for any width.

**`HttpServerProofs`.** A handler is a row of steps, and its *book* says what is held
before each of them, which one answers, which one streams and which is the first to
change something. Each
of the 24 operations is checked once against its book (`GoesBy`), and from there on the
proof never looks into a handler: the invariant says that a request is where its
book says. `TypeOK` alone is not inductive: it needs `BeforeInv`, by which a handler
starts at its first step. `SentInv` and `LostInv` say when a part of an answer may still
be missing and why: a stream is left only when nothing is, or for a named reason.
`NothingKept` is an action property and follows from the
invariant before the step.

**Recursion.** `Before` (where a window begins in the file) and `InOrder` (the zones of a
plan) are recursive functions. The induction they need is done by a least
counterexample: a set of naturals has a least member (`LeastOf`, from the library's
`NatLessThanWellFounded` and `WFMin`). The library's induction theorems take an
operator as a parameter and cannot be used here.

**Assumptions** are the named ones on constants. Most give a type or say that a bound is
a number (`WalkMaxIsPos`, `LockMappedIsBool`, `MaxCallsIsNat`, `RingIsPos`, `LimitIsPos`,
`MaxSeqIsNat`, `KlMaxIsPos`, `IncidentBoundsArePos`, `DeepEveryIsPos`, `PostTriggerIsPos`,
`BoundsAreNat`, `PiecesIsPos`, `SizesAreNat`, `LastZoneIsNat`, `TablesAreSet`,
`RequestsAreRanges`, `ChunksArePos`, `UnitsIsPos`) or that a mark is not a value (`NullIsNoValue`,
`NullIsNoReader`, `NullIsNoLine`, `NullIsNothing`, `NoneIsNoTable`, `MarksAreNoBytes`,
`AllocsAreNew`). The others say something about the code's constants:
`WindowsAreRanges`, `WindowsAreMapped` and `MaxWantFits` of the kernel's windows,
`TargetSizes` of the address space, `ConsoleIsPatched` that the console is one the
installer patches, since otherwise the kdebugger could not run there, and `RingHoldsKept`
that the ring (20000 lines) is no smaller than what an incident keeps (600), without
which `IncidentSurrounded` is false.

**Model-checked only.** The liveness properties (`LockReleased`, `CommandEnds`,
`InstallerReturns`, `StopEndsReader`, `IncidentWritten`, `CommandDone`,
`EveryoneServed`): fairness and ENABLED are outside the prover's reach. The operators of
`ElfLoad`, `Encodings` and `Firmware`, which are checked over small inputs and not for
all: the first two fold over a file and a text, and the third is a table. What the runs
of the second table refute is, of course, not proved either.

## 5. Plan

What is left, in this order.

1. Lemmas about `ElfLoad` and `Encodings` for inputs of any length: that a quoted
   value is read back as it was, that a load writes no cell outside the image.
2. The proxy's creation of the klog bridge (`serve.py:99`), which nothing locks: two
   first requests make two bridges, and one that was started is orphaned.
3. The page's process watchdog, and the kernel base it caches for its dumps, which
   differs after a reboot of the console (`dashboard.html:1446`).
4. The recorder's other kinds of change and its back-off.

## 6. Not modelled

The addresses of kernel patches and the offsets in the firmware tables (data), the
declarations of `elf.h`, the SDK, `sys_kern_base`, `sys_kern_rw` and
`sys_console_cmd` (one step without state each), `sys_proc_info`, rendering in the page,
formatting of replies, sensors and storage readings, the values that most handlers
format. `pull.py dir` and `elf` repeat what `file` and `kernel` do. The kernel's fork,
exit, locks, memory map and `proc_rwmem`, the target's own threads, the SYSCON, Python's
threads and `http.client`, and GoldHEN's klog server are external and modelled from how
the code uses them.
