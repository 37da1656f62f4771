------------------------------ MODULE KlogRing ------------------------------
(***************************************************************************)
(* The klog lines the dashboard's proxy keeps (dashboard/klogbridge.py):   *)
(* numbered as they arrive, the last RING of them kept, and handed out by  *)
(* since().  A line is its number.  The three operations hold the bridge's *)
(* lock, so each is one step.                                              *)
(***************************************************************************)
EXTENDS Integers, Sequences, FiniteSets, SequencesExt

CONSTANTS
    Ring,       \* RING, the lines kept
    Limit,      \* the most lines one answer of since() carries
    MaxSeq      \* bound on the lines ever added

ASSUME RingIsPos == Ring \in Nat \ {0}
ASSUME LimitIsPos == Limit \in Nat \ {0}
ASSUME MaxSeqIsNat == MaxSeq \in Nat

VARIABLES
    seq,         \* self.seq
    lines        \* self.lines

store == <<seq, lines>>

RingTypeOK ==
    /\ seq \in 0..MaxSeq
    /\ lines \in Seq(1..MaxSeq) /\ Len(lines) <= Ring

RingInit == seq = 0 /\ lines = << >>

\* Mutant of LastOf: one line too many is kept.
LastOfOneMore(s, k) ==
    IF Len(s) > k + 1 THEN SubSeq(s, Len(s) - k, Len(s)) ELSE s

\* The last k entries of s, what del s[:len(s) - k] leaves.
LastOf(s, k) == IF Len(s) > k THEN SubSeq(s, Len(s) - k + 1, Len(s)) ELSE s

\* Mutant of Add: a full ring refuses the new lines.
AddKeepsFirst(m) ==
    LET k == IF seq + m <= MaxSeq THEN m ELSE MaxSeq - seq
    IN  /\ seq' = seq + k
        /\ lines' = SubSeq(lines \o [i \in 1..k |-> seq + i], 1,
                           IF Len(lines) + k < Ring THEN Len(lines) + k ELSE Ring)

\* _add, for m lines that arrive together: each is numbered, appended and
\* trimmed under the lock.  Bound: once MaxSeq lines exist, no more are kept.
Add(m) ==
    LET k == IF seq + m <= MaxSeq THEN m ELSE MaxSeq - seq
    IN  /\ seq' = seq + k
        /\ lines' = LastOf(lines \o [i \in 1..k |-> seq + i], Ring)

\* The entries of the ring at the places in S, in their order.
Picked(S) ==
    [k \in 1..Cardinality(S) |->
        lines[CHOOSE i \in S : Cardinality({j \in S : j <= i}) = k]]

\* Mutant of Newer: the line at the cursor is handed out again.
NewerOrSame(s) == Picked({i \in DOMAIN lines : lines[i] >= s})

\* since(): the first Limit of the lines after the cursor s.
Newer(s) == Picked({i \in DOMAIN lines : lines[i] > s})
Since(s) == SubSeq(Newer(s), 1, IF Len(Newer(s)) < Limit THEN Len(Newer(s)) ELSE Limit)

\* clear() empties the ring and leaves the numbering alone.
ClearRing == lines' = << >> /\ UNCHANGED seq

\* The lock is enough: however readers, clear() and since() interleave, the
\* ring holds the last lines added, numbered without a gap up to seq.
RingContiguous == lines = [i \in 1..Len(lines) |-> seq - Len(lines) + i]
=============================================================================
