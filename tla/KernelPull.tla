----------------------------- MODULE KernelPull -----------------------------
(***************************************************************************)
(* A dump of the running kernel: /kdump on the console (handle_kdump) and  *)
(* `pull.py kernel' (cmd_kernel, pull_range, write_elf) on the PC.         *)
(*                                                                         *)
(* sys_kern_rw is a bare memcpy: an address outside the mapped windows     *)
(* takes the console down, so handle_kdump refuses any range that is not   *)
(* inside one.  An accepted range is streamed in pieces of XferChunk; the  *)
(* stream may end early, after any byte.  The client asks for at most      *)
(* Chunk at a time and goes on where the last answer ended; it appends the *)
(* windows to one file and cuts that file into the segments of an ELF.     *)
(*                                                                         *)
(* A byte of the kernel is its offset from the base.  A refusal is a JSON  *)
(* text under the same status 200: one JUNK byte in place of the answer.   *)
(* The console serves one connection at a time; other clients ask for any  *)
(* range and their answers are not followed.  pfmalloc touches what it     *)
(* allocates, so the tests of its result behind it never fire.             *)
(***************************************************************************)
EXTENDS Integers, Sequences

CONSTANTS
    Windows,    \* kwin_1300: a sequence of [start, end]
    Base,       \* the kernel base
    Top,        \* 2^64
    MaxWant,    \* 0x800000
    XferChunk,  \* XFER_CHUNK
    Chunk,      \* CHUNK of pull.py
    JUNK, NULL

Min2(a, b) == IF a < b THEN a ELSE b
WindowNumbers == 1..Len(Windows)
Length(w) == Windows[w].end - Windows[w].start

ASSUME WindowsAreRanges ==
    /\ Windows \in Seq([start : Nat, end : Nat])
    /\ \A w \in WindowNumbers : Windows[w].start < Windows[w].end
\* The kernel lies below the top of the address space, and its base above every
\* offset into it: an offset is not taken for an address.
ASSUME WindowsAreMapped ==
    /\ Base \in Nat /\ Top \in Nat
    /\ \A w \in WindowNumbers : Windows[w].end <= Base /\ Base + Windows[w].end <= Top
ASSUME MaxWantFits ==
    MaxWant \in Nat \ {0} /\ \E w \in WindowNumbers : MaxWant <= Windows[w].end
ASSUME ChunksArePos == XferChunk \in Nat \ {0} /\ Chunk \in 1..MaxWant
ASSUME MarksAreNoBytes == JUNK \notin Int /\ NULL \notin Int

VARIABLES
    serving,  \* the server: "idle", or copying for "pull" or "other"
    off, want, done,         \* handle_kdump's locals
    ask,      \* the request of the client: [address, length], or NULL
    wire,     \* bytes sent to the client and not read yet
    clen,     \* Content-Length of the answer, or NULL while there is no answer
    closed,   \* the server has closed the connection
    cpc,      \* where the client is
    win,      \* the window it pulls
    pulled,   \* done of pull_range
    n, got,   \* n and got of pull_range
    file,     \* the file as written so far
    from,     \* history: its length when this window began
    short,    \* history: a window ended early
    refused   \* history: an answer was the text of a refusal

request == <<off, want, done>>
connection == <<ask, wire, clen, closed>>
image == <<file, from, short>>
client == <<cpc, win, pulled, n, got>>
vars == <<serving, request, connection, client, image, refused>>

Bytes == Nat \cup {JUNK}

TypeOK ==
    /\ serving \in {"idle", "pull", "other"}
    /\ off \in Nat /\ want \in Nat /\ done \in Nat /\ done <= want
    /\ ask \in [address : 0..(Top - 1), length : 1..Chunk] \cup {NULL}
    /\ wire \in Seq(Bytes) /\ file \in Seq(Bytes)
    /\ clen \in Nat \cup {NULL} /\ closed \in BOOLEAN
    /\ cpc \in {"info", "ask", "read", "next", "elf", "done", "failed"}
    /\ win \in WindowNumbers /\ pulled \in 0..Length(win)
    /\ n \in 0..Chunk /\ got \in 0..n
    /\ from \in 0..Len(file) /\ short \in BOOLEAN /\ refused \in BOOLEAN

Init ==
    /\ serving = "idle" /\ off = 0 /\ want = 0 /\ done = 0
    /\ ask = NULL /\ wire = << >> /\ clen = NULL /\ closed = FALSE
    /\ cpc = "info" /\ win = 1 /\ pulled = 0 /\ n = 0 /\ got = 0
    /\ file = << >> /\ from = 0 /\ short = FALSE /\ refused = FALSE

-----------------------------------------------------------------------------
\* handle_kdump.

\* A sum of two 64-bit numbers.
Wrap(x) == IF x >= Top THEN x - Top ELSE x

\* An absolute address or an offset from the base.
Offset(address) == IF address >= Base THEN address - Base ELSE address

\* Mutant of Inside: only where the range begins is tested.
BeginsInside(o, length) ==
    \E w \in WindowNumbers : o >= Windows[w].start /\ o < Windows[w].end

Inside(o, length) ==
    \E w \in WindowNumbers :
        o >= Windows[w].start /\ Wrap(o + length) <= Windows[w].end

Accepted(o, length) == length # 0 /\ length <= MaxWant /\ Inside(o, length)

Serve(who, address, length) ==
    /\ serving = "idle"
    /\ serving' = who
    /\ off' = Offset(address) /\ want' = length /\ done' = 0

\* A range another client asks for.  A refusal changes nothing.
ServeOther ==
    /\ \E address, length \in 0..(Top - 1) :
          /\ Accepted(Offset(address), length)
          /\ Serve("other", address, length)
    /\ UNCHANGED <<connection, client, image, refused>>

ServePull ==
    /\ ask # NULL
    /\ Accepted(Offset(ask.address), ask.length)
    /\ Serve("pull", ask.address, ask.length)
    /\ clen' = ask.length /\ ask' = NULL
    /\ UNCHANGED <<wire, closed, client, image, refused>>

\* The range is refused, or the firmware or the kernel base cannot be told.
RefusePull ==
    /\ ask # NULL /\ serving = "idle"
    /\ wire' = <<JUNK>> /\ clen' = 1 /\ closed' = TRUE /\ ask' = NULL
    /\ refused' = TRUE
    /\ UNCHANGED <<serving, request, client, image>>

\* One piece: read, then sent.  An answer nobody waits for any more is lost.
Piece == Min2(XferChunk, want - done)
Sent(k) == [j \in 1..k |-> off + done + j - 1]
Deliver(k) == wire' = IF serving = "pull" /\ clen # NULL THEN wire \o Sent(k) ELSE wire

CopyPiece ==
    /\ serving # "idle" /\ done < want
    /\ Deliver(Piece)
    /\ done' = done + Piece
    /\ UNCHANGED <<serving, off, want, ask, clen, closed, client, image, refused>>

\* The loop ends, and handle_request's caller closes the connection.
Close ==
    /\ serving' = "idle"
    /\ closed' = IF serving = "pull" /\ clen # NULL THEN TRUE ELSE closed

CopyEnds ==
    /\ serving # "idle" /\ done = want
    /\ Close
    /\ UNCHANGED <<request, ask, wire, clen, client, image, refused>>

\* sys_kern_rw or send_all fails; part of the piece may have gone out.
CopyFails ==
    /\ serving # "idle" /\ done < want
    /\ \E k \in 0..(Piece - 1) : Deliver(k)
    /\ Close
    /\ UNCHANGED <<request, ask, clen, client, image, refused>>

-----------------------------------------------------------------------------
\* pull.py.

Hangs == ask' = NULL /\ wire' = << >> /\ clen' = NULL /\ closed' = FALSE

\* /kdump without an address answers with the windows.
Info ==
    /\ cpc = "info"
    /\ cpc' = "ask"
    /\ UNCHANGED <<serving, request, connection, win, pulled, n, got, image, refused>>

\* Mutant of AskRange: every request asks from the start of the window.
AskRangeFromStart ==
    /\ cpc = "ask" /\ pulled < Length(win)
    /\ n' = Min2(Chunk, Length(win) - pulled) /\ got' = 0
    /\ ask' = [address |-> Windows[win].start, length |-> n']
    /\ cpc' = "read"
    /\ UNCHANGED <<serving, request, wire, clen, closed, win, pulled, image, refused>>

AskRange ==
    /\ cpc = "ask" /\ pulled < Length(win)
    /\ n' = Min2(Chunk, Length(win) - pulled) /\ got' = 0
    /\ ask' = [address |-> Windows[win].start + pulled, length |-> n']
    /\ cpc' = "read"
    /\ UNCHANGED <<serving, request, wire, clen, closed, win, pulled, image, refused>>

\* What has arrived is written at once.
ReadBytes ==
    /\ cpc = "read" /\ got < n /\ wire # << >>
    /\ LET k == Min2(Len(wire), n - got) IN
          /\ file' = file \o SubSeq(wire, 1, k)
          /\ wire' = SubSeq(wire, k + 1, Len(wire))
          /\ got' = got + k
    /\ UNCHANGED <<serving, request, ask, clen, closed, cpc, win, pulled, n,
                   from, short, refused>>

\* The range is complete, or its answer is at an end before it is.
AnswerEnds == got = n \/ (wire = << >> /\ (got = clen \/ closed))

\* Mutant of RangeEnds: an answer with nothing in it is asked for again.
RangeEndsNever ==
    /\ cpc = "read" /\ clen # NULL /\ AnswerEnds
    /\ Hangs
    /\ pulled' = pulled + got /\ cpc' = "ask"
    /\ UNCHANGED <<serving, request, win, n, got, image, refused>>

\* An answer with nothing in it ends the window, any other one goes on after it.
RangeEnds ==
    /\ cpc = "read" /\ clen # NULL /\ AnswerEnds
    /\ Hangs
    /\ pulled' = pulled + got
    /\ cpc' = IF got = 0 THEN "next" ELSE "ask"
    /\ UNCHANGED <<serving, request, win, n, got, image, refused>>

WindowEnds ==
    /\ cpc = "ask" /\ pulled = Length(win)
    /\ cpc' = "next"
    /\ UNCHANGED <<serving, request, connection, win, pulled, n, got, image, refused>>

NextWindow ==
    /\ cpc = "next"
    /\ short' = (short \/ pulled < Length(win))
    /\ \/ /\ win < Len(Windows)
          /\ win' = win + 1 /\ pulled' = 0 /\ from' = Len(file) /\ n' = 0 /\ got' = 0
          /\ cpc' = "ask"
       \/ /\ win = Len(Windows)
          /\ cpc' = "elf"
          /\ UNCHANGED <<win, pulled, from, n, got>>
    /\ UNCHANGED <<serving, request, connection, file, refused>>

\* A reset, a timeout, or no answer to the first request: main() gives up.
Fails ==
    /\ cpc \in {"info", "read"}
    /\ cpc' = "failed"
    /\ Hangs
    /\ UNCHANGED <<serving, request, win, pulled, n, got, image, refused>>

\* write_elf is given the file, cut into pieces of the windows' lengths.
WriteElf ==
    /\ cpc = "elf"
    /\ cpc' = "done"
    /\ UNCHANGED <<serving, request, connection, win, pulled, n, got, image, refused>>

\* Mutant of Position: the file is taken to be laid out like the kernel.
KernelPosition(w) == Windows[w].start

Before[w \in 0..Len(Windows)] == IF w = 0 THEN 0 ELSE Before[w - 1] + Length(w)
Position(w) == Before[w - 1]
SegmentEnd(w) == Min2(Position(w) + Length(w), Len(file))
Segment(w) == SubSeq(file, Position(w) + 1, SegmentEnd(w))

-----------------------------------------------------------------------------
Server == CopyPiece \/ CopyEnds \/ CopyFails
Client ==
    \/ AskRange \/ ReadBytes \/ RangeEnds \/ WindowEnds \/ NextWindow \/ WriteElf

Next ==
    \/ ServeOther \/ ServePull \/ RefusePull \/ Server
    \/ Info \/ Client \/ Fails

Spec == Init /\ [][Next]_vars

-----------------------------------------------------------------------------
Mapped(address) ==
    \E w \in WindowNumbers :
        address >= Base + Windows[w].start /\ address < Base + Windows[w].end

\* Whatever address and length anybody asks for, the copy never touches kernel
\* memory outside the windows.
ReadsMapped ==
    serving # "idle" =>
        \A j \in 0..(Piece - 1) : Mapped(Wrap(Base + off + done + j))

\* Wherever its answers were cut, what a window has given so far is that window
\* from its start on, with nothing left out and nothing twice.
PulledIsPrefix ==
    ~ refused => \A j \in 1..(Len(file) - from) : file[from + j] = Windows[win].start + j - 1

\* When no window ended early, each segment of the ELF is its window.
ElfFaithful ==
    (cpc = "done" /\ ~ refused /\ ~ short) =>
        \A w \in WindowNumbers :
            Segment(w) = [j \in 1..Length(w) |-> Windows[w].start + j - 1]

\* pull.py:75: "Wraps the windows in an ELF so a disassembler maps them where
\* they live": no byte of a segment is one that lives elsewhere.
ElfMapsBytesWhereTheyLive ==
    (cpc = "done" /\ ~ refused) =>
        \A w \in WindowNumbers : \A j \in 1..Len(Segment(w)) :
            Segment(w)[j] = Windows[w].start + j - 1

\* Why the two hold.  What is being copied is inside a window; a request or an
\* answer belongs to the range the client is at; and the answer goes on in the
\* window where the file and what is on its way end.
CopyInv ==
    serving # "idle" =>
        \E w \in WindowNumbers : off >= Windows[w].start /\ off + want <= Windows[w].end
RangeInv ==
    /\ cpc = "read" => n <= Length(win) - pulled
    /\ ask # NULL => /\ cpc = "read" /\ clen = NULL /\ got = 0
                     /\ ask.address = Windows[win].start + pulled /\ ask.length = n
    /\ clen = NULL => wire = << >>
    /\ clen # NULL => cpc = "read" /\ ask = NULL
    /\ clen # NULL /\ serving = "pull" =>
           off = Windows[win].start + pulled /\ want = n /\ done = got + Len(wire)
StreamInv ==
    ~ refused =>
        /\ \A j \in 1..Len(wire) : wire[j] = Windows[win].start + pulled + got + j - 1
        /\ cpc \in {"info", "ask"} => Len(file) = from + pulled
        /\ cpc = "read" => Len(file) = from + pulled + got
        /\ PulledIsPrefix

=============================================================================
