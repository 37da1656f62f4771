------------------------------ MODULE FilePull ------------------------------
(***************************************************************************)
(* A file of the console: /dl (handle_dl) and `pull.py file', which asks   *)
(* /fstat first, and then for the file in one request; another client may  *)
(* ask for a range.  `pull.py dir' does the same for each file that /ls    *)
(* names.                                                                  *)
(*                                                                         *)
(* The file is alive: it may grow, be cut or be removed at any time.  Its  *)
(* byte at position j is j.  The answer is sent in pieces of what can be   *)
(* read; it may end early, after any byte.  A refusal is a JSON text under *)
(* the same status 200: one JUNK byte in place of the answer.  pfmalloc    *)
(* touches what it allocates, so the test of its result never fires.       *)
(***************************************************************************)
EXTENDS Integers, Sequences

CONSTANTS
    MaxSize,      \* bound on the size of the file
    Half,         \* 2^31
    XferChunk,        \* XFER_CHUNK
    Requests,     \* [offset, length], the length perhaps ABSENT
    ABSENT, JUNK

VARIABLES
    size,         \* of the file, or ABSENT when it is removed
    srv,          \* the server: "idle" or "send"
    off, want, done,         \* handle_dl's locals
    req,          \* the request, until it is answered, or ABSENT
    wire,         \* bytes sent to the client and not read yet
    clen,         \* Content-Length of the answer, or ABSENT
    closed,       \* the server has closed the connection
    fpc,          \* the client: "stat", "ask", "read", "wrote" or "failed"
    asked,        \* its request
    out,          \* the file it has written
    meant,        \* history: of the answer, how many bytes it was to have
    ended,        \* history: why it has fewer: "file" or "failure"
    refused       \* history: it was the text of a refusal

locals == <<off, want, done>>
answer == <<req, wire, clen, closed>>
download == <<fpc, asked, out>>
dlHistory == <<meant, ended, refused>>
dlVars == <<size, srv, locals, answer, download, dlHistory>>

Whole == [offset |-> 0, length |-> ABSENT]

DlInit ==
    /\ size \in (0..MaxSize) \cup {ABSENT}
    /\ srv = "idle" /\ off = 0 /\ want = 0 /\ done = 0
    /\ req = ABSENT /\ wire = << >> /\ clen = ABSENT /\ closed = FALSE
    /\ fpc = "stat" /\ asked = Whole /\ out = << >>
    /\ meant = 0 /\ ended = "no" /\ refused = FALSE

Less(a, b) == IF a < b THEN a ELSE b

-----------------------------------------------------------------------------
\* The console.

FileChanges ==
    /\ size # ABSENT
    /\ size' \in (0..(size - 1)) \cup {ABSENT} \cup (IF size < MaxSize THEN {size + 1} ELSE {})
    /\ UNCHANGED <<srv, locals, answer, download, dlHistory>>

\* want, a uint64_t, printed through a cast to int.
AsInt(x) == ((x + Half) % (2 * Half)) - Half

Want(r, o) == IF r.length = ABSENT THEN size - o ELSE Less(r.length, size - o)

Open ==
    /\ srv = "idle" /\ req # ABSENT /\ size # ABSENT
    /\ srv' = "send" /\ req' = ABSENT
    /\ off' = Less(req.offset, size) /\ want' = Want(req, off') /\ done' = 0
    /\ clen' = AsInt(want') /\ meant' = want'
    /\ UNCHANGED <<size, wire, closed, download, ended, refused>>

\* stat, open or lseek fails.
Refuse ==
    /\ srv = "idle" /\ req # ABSENT
    /\ req' = ABSENT /\ wire' = <<JUNK>> /\ clen' = 1 /\ closed' = TRUE
    /\ refused' = TRUE
    /\ UNCHANGED <<size, srv, locals, download, meant, ended>>

Readable == IF size = ABSENT THEN 0 ELSE size - off - done
ToSend == Less(Less(XferChunk, want - done), Readable)

\* Mutant of Bytes: the file is not positioned at the offset.
BytesUnseeked(k) == [j \in 1..k |-> done + j - 1]

Bytes(k) == [j \in 1..k |-> off + done + j - 1]

\* Mutant of SendPiece: what was asked of read is counted, not what it gave.
SendPieceCounted ==
    /\ srv = "send" /\ done < want /\ ToSend > 0
    /\ wire' = wire \o Bytes(ToSend)
    /\ done' = done + Less(XferChunk, want - done)
    /\ UNCHANGED <<size, srv, off, want, req, clen, closed, download, dlHistory>>

SendPiece ==
    /\ srv = "send" /\ done < want /\ ToSend > 0
    /\ wire' = wire \o Bytes(ToSend)
    /\ done' = done + ToSend
    /\ UNCHANGED <<size, srv, off, want, req, clen, closed, download, dlHistory>>

\* Mutant of SendEnds: only a negative result of read ends the loop.
SendEndsLast ==
    /\ srv = "send" /\ done = want
    /\ srv' = "idle" /\ closed' = TRUE
    /\ UNCHANGED <<size, locals, req, wire, clen, download, dlHistory>>

\* The loop ends with the last byte, or where read finds no more.
SendEnds ==
    /\ srv = "send" /\ (done = want \/ ToSend <= 0)
    /\ srv' = "idle" /\ closed' = TRUE
    /\ ended' = IF done < want THEN "file" ELSE ended
    /\ UNCHANGED <<size, locals, req, wire, clen, download, meant, refused>>

\* read or send_all fails; part of the piece may have gone out.
SendFails ==
    /\ srv = "send" /\ done < want
    /\ \E k \in 0..Less(XferChunk, want - done) : k <= Readable /\ wire' = wire \o Bytes(k)
    /\ srv' = "idle" /\ closed' = TRUE /\ ended' = "failure"
    /\ UNCHANGED <<size, locals, req, clen, download, meant, refused>>

-----------------------------------------------------------------------------
\* The client.

Stat ==
    /\ fpc = "stat"
    /\ fpc' = IF size = ABSENT THEN "failed" ELSE "ask"
    /\ UNCHANGED <<size, srv, locals, answer, asked, out, dlHistory>>

Ask(r) ==
    /\ fpc = "ask"
    /\ req' = r /\ asked' = r
    /\ fpc' = "read"
    /\ UNCHANGED <<size, srv, locals, wire, clen, closed, out, dlHistory>>

\* External: http.client reads as many bytes as it was told, or to the end of the
\* connection when that is negative; it does not say that there were too few.
Expected == IF clen < 0 THEN MaxSize ELSE clen

Read ==
    /\ fpc = "read" /\ wire # << >> /\ Len(out) < Expected
    /\ LET k == Less(Len(wire), Expected - Len(out))
       IN out' = out \o SubSeq(wire, 1, k) /\ wire' = SubSeq(wire, k + 1, Len(wire))
    /\ UNCHANGED <<size, srv, locals, req, clen, closed, fpc, asked, dlHistory>>

\* Nothing more to read: "wrote".
Wrote ==
    /\ fpc = "read" /\ clen # ABSENT
    /\ Len(out) = Expected \/ (wire = << >> /\ closed)
    /\ fpc' = "wrote"
    /\ UNCHANGED <<size, srv, locals, answer, asked, out, dlHistory>>

\* A reset or a timeout.
Fails ==
    /\ fpc \in {"stat", "read"}
    /\ fpc' = "failed"
    /\ req' = ABSENT
    /\ UNCHANGED <<size, srv, locals, wire, clen, closed, asked, out, dlHistory>>

-----------------------------------------------------------------------------
Sends == SendPiece \/ SendEnds
Reads == Read \/ Wrote
Asks == Stat \/ \E r \in Requests : Ask(r)

DlNext ==
    \/ FileChanges \/ Open \/ Refuse \/ Sends \/ SendFails
    \/ Asks \/ Reads \/ Fails

-----------------------------------------------------------------------------
\* Whatever happens to the file and to the connection, what is written is the
\* range that was asked for, from its start on.
InPlace ==
    ~ refused => \A j \in 1..Len(out) : out[j] = asked.offset + j - 1

\* A download that ends as "wrote" is all of the range that the file had when it
\* was opened -- unless the answer was cut, which the client does not tell, or
\* was of 2^32 bytes and more, whose length wraps.
WroteIsWhole ==
    fpc = "wrote" /\ ~ refused =>
        \/ Len(out) = meant
        \/ ended # "no"
        \/ meant >= 2 * Half /\ Len(out) < meant
=============================================================================
