------------------------------ MODULE KlogPage ------------------------------
(***************************************************************************)
(* The dashboard page's side of the klog (dashboard/dashboard.html klPoll, *)
(* klStart, klStop, klClear; dashboard/serve.py _klog).  While its timer   *)
(* runs the page asks every half second for what is newer than its cursor  *)
(* klSeq, whether or not its last question has been answered; the proxy    *)
(* answers each request on a thread of its own.  The bridge that fills the *)
(* ring is KlogBridge; here its lines simply arrive.                       *)
(***************************************************************************)
EXTENDS KlogRing

CONSTANTS
    Polls,      \* the page's requests that may be outstanding
    KlMax       \* KL_MAX, the lines the page keeps

ASSUME KlMaxIsPos == KlMax \in Nat \ {0}

VARIABLES
    klOn,        \* the page's timer is running
    klSeq,       \* the page's cursor
    klLines,     \* the lines the page shows
    poll,        \* each request of the page: its state, question and answer
    delivered,   \* history: the lines an answer has brought to this page
    cut,         \* history: an answer to this page left a new line out
    overlapped   \* history: this page had two requests outstanding at once

vars == <<store, klOn, klSeq, klLines, poll, delivered, cut, overlapped>>

NoPoll == [st |-> "none", since |-> 0, lines |-> << >>, seq |-> 0]

TypeOK ==
    /\ RingTypeOK
    /\ klOn \in BOOLEAN /\ cut \in BOOLEAN /\ overlapped \in BOOLEAN
    /\ klSeq \in 0..MaxSeq
    /\ klLines \in Seq(1..MaxSeq) /\ Len(klLines) <= KlMax
    /\ poll \in [Polls -> [st : {"none", "asked", "answered"}, since : 0..MaxSeq,
                          lines : Seq(1..MaxSeq), seq : 0..MaxSeq]]
    /\ \A q \in Polls : Len(poll[q].lines) <= Limit
    /\ delivered \subseteq 1..MaxSeq

Init ==
    /\ RingInit
    /\ klOn = FALSE /\ klSeq = 0 /\ klLines = << >>
    /\ poll = [q \in Polls |-> NoPoll]
    /\ delivered = {} /\ cut = FALSE /\ overlapped = FALSE

\* The reader adds a line.
Arrive ==
    /\ seq < MaxSeq
    /\ Add(1)
    /\ UNCHANGED <<klOn, klSeq, klLines, poll, delivered, cut, overlapped>>

\* Anyone's ?action=clear.
Clear ==
    /\ lines # << >>
    /\ ClearRing
    /\ UNCHANGED <<klOn, klSeq, klLines, poll, delivered, cut, overlapped>>

\* klStart: the timer runs, and the first poll goes out.
PageStart ==
    /\ ~ klOn
    /\ klOn' = TRUE
    /\ UNCHANGED <<klSeq, klLines, poll, delivered, cut, overlapped, store>>

PageStop ==
    /\ klOn
    /\ klOn' = FALSE
    /\ UNCHANGED <<klSeq, klLines, poll, delivered, cut, overlapped, store>>

\* The timer fires, or the first poll goes out.
PollAsk(q) ==
    /\ klOn /\ poll[q].st = "none"
    /\ poll' = [poll EXCEPT ![q] = [NoPoll EXCEPT !.st = "asked", !.since = klSeq]]
    /\ overlapped' = (overlapped \/ \E p \in Polls : poll[p].st # "none")
    /\ UNCHANGED <<klOn, klSeq, klLines, delivered, cut, store>>

\* serve.py answers from the ring as it is now, under the ring's lock.
PollAnswer(q) ==
    /\ poll[q].st = "asked"
    /\ poll' = [poll EXCEPT ![q].st = "answered",
                            ![q].lines = Since(poll[q].since), ![q].seq = seq]
    /\ cut' = (cut \/ Len(Since(poll[q].since)) < seq - poll[q].since)
    /\ UNCHANGED <<klOn, klSeq, klLines, delivered, overlapped, store>>

\* Mutant of PollTake: an answer that comes after the timer was stopped moves the cursor
\* and is dropped.
PollTakeDropsLate(q) ==
    /\ poll[q].st = "answered"
    /\ poll' = [poll EXCEPT ![q] = NoPoll]
    /\ IF poll[q].lines = << >>
       THEN UNCHANGED <<klSeq, klLines, delivered>>
       ELSE /\ klSeq' = poll[q].seq
            /\ klLines' = IF klOn THEN LastOf(klLines \o poll[q].lines, KlMax) ELSE klLines
            /\ delivered' = IF klOn THEN delivered \cup ToSet(poll[q].lines) ELSE delivered
    /\ UNCHANGED <<klOn, cut, overlapped, store>>

\* klPoll takes the answer: the cursor becomes the answer's seq.
PollTake(q) ==
    /\ poll[q].st = "answered"
    /\ poll' = [poll EXCEPT ![q] = NoPoll]
    /\ IF poll[q].lines = << >>
       THEN UNCHANGED <<klSeq, klLines, delivered>>
       ELSE /\ klSeq' = poll[q].seq
            /\ klLines' = LastOf(klLines \o poll[q].lines, KlMax)
            /\ delivered' = delivered \cup ToSet(poll[q].lines)
    /\ UNCHANGED <<klOn, cut, overlapped, store>>

\* klClear: the proxy has cleared the ring, the page clears what it shows.
PageClear ==
    /\ klLines # << >>
    /\ klLines' = << >>
    /\ UNCHANGED <<klOn, klSeq, poll, delivered, cut, overlapped, store>>

\* The page is loaded anew: its state is gone, the bridge's is not.
Reload ==
    /\ klOn' = FALSE /\ klSeq' = 0 /\ klLines' = << >>
    /\ poll' = [q \in Polls |-> NoPoll]
    /\ delivered' = {} /\ cut' = FALSE /\ overlapped' = FALSE
    /\ UNCHANGED store

-----------------------------------------------------------------------------
Next ==
    \/ Arrive \/ Clear
    \/ PageStart \/ PageStop \/ PageClear \/ Reload
    \/ \E q \in Polls : PollAsk(q) \/ PollAnswer(q) \/ PollTake(q)

Spec == Init /\ [][Next]_vars

-----------------------------------------------------------------------------
\* Properties.

\* What the page shows is in the order of arrival, no line twice and none newer
\* than its cursor, unless two of its requests were outstanding at once: klPoll
\* does not ask whether the last one has been answered.
PageInOrder ==
    ~ overlapped =>
        /\ \A i, j \in DOMAIN klLines : i < j => klLines[i] < klLines[j]
        /\ \A i \in DOMAIN klLines : klLines[i] <= klSeq

\* A line older than the cursor that never reached the page was left out of an
\* answer: it had left the ring, or the limit cut it off.
NoSilentGap == ~ overlapped /\ ~ cut => delivered = 1..klSeq

\* dashboard.html, of klPoll's half second: "fast enough that a dying console
\* still delivers its last lines".  The cursor is the last line the page got.
CursorHonest == klSeq # 0 => klSeq \in delivered
=============================================================================
