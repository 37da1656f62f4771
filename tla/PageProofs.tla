----------------------------- MODULE PageProofs -----------------------------
(***************************************************************************)
(* The page, for any sizes, zones and tables and any number of requests or *)
(* jobs under way: first its klog tab and the klog of an incident, then    *)
(* its thermal drawer.  The lemmas about the ring are those of             *)
(* KlogBridgeProofs; the bridge's threads play no part in them.            *)
(***************************************************************************)
EXTENDS Page, FiniteSetTheorems, SequenceTheorems, WellFoundedInduction, TLAPS

R == INSTANCE KlogBridgeProofs WITH
        Handlers <- {}, Readers <- {}, want <- FALSE, thread <- NULL, rpc <- << >>,
        hpc <- << >>, client <- NULL, connected <- FALSE, churn <- 0, raced <- FALSE,
        late <- FALSE

RingInv == RingTypeOK /\ RingContiguous

\* A run of numbers that ends at q, as the ring is one.
Run(s, n, q) == s \in Seq(Int) /\ Len(s) = n /\ \A i \in 1..n : s[i] = q - n + i

LEMMA RingInitInv == RingInit => RingInv
BY R!RingInitInv, RingIsPos, LimitIsPos, MaxSeqIsNat
   DEF RingInit, RingInv, RingTypeOK, RingContiguous, R!RingInit, R!RingInv, R!RingTypeOK,
       R!RingContiguous

LEMMA RingIsRun == RingInv => Run(lines, Len(lines), seq)
BY R!RingIsRun, RingIsPos, LimitIsPos, MaxSeqIsNat
   DEF RingInv, RingTypeOK, RingContiguous, Run, R!RingTypeOK, R!RingContiguous, R!Run

LEMMA AddInv ==
    ASSUME RingInv, NEW m \in Nat, Add(m)
    PROVE  RingInv'
<1>1. R!RingInv /\ R!Add(m)
  BY DEF RingInv, RingTypeOK, RingContiguous, R!RingInv, R!RingTypeOK, R!RingContiguous,
         Add, LastOf, R!Add, R!LastOf
<1>2. R!RingInv'
  BY <1>1, R!AddInv, RingIsPos, LimitIsPos, MaxSeqIsNat
<1> QED
  BY <1>2 DEF RingInv, RingTypeOK, RingContiguous, R!RingInv, R!RingTypeOK, R!RingContiguous

LEMMA RunIsCut ==
    ASSUME NEW s, NEW n \in Nat, NEW q \in Nat, NEW k \in Nat, Run(s, n, q)
    PROVE  Run(LastOf(s, k), IF n > k THEN k ELSE n, q)
BY R!RunIsCut, RingIsPos, LimitIsPos, MaxSeqIsNat DEF Run, LastOf, R!Run, R!LastOf

-----------------------------------------------------------------------------
\* What since() hands out.

\* The places of a ring behind a cursor are its last ones.
LEMMA PickedIsTail ==
    ASSUME NEW n \in Nat, NEW a \in 1..(n + 1), n = Len(lines)
    PROVE  Picked(a..n) = [k \in 1..(n - a + 1) |-> lines[a + k - 1]]
<1>0. a \in Int /\ n \in Int /\ a <= n + 1
  OBVIOUS
<1>1. Cardinality(a..n) = n - a + 1
  <2>1. Cardinality(a..n) = IF a > n THEN 0 ELSE n - a + 1
    BY <1>0, FS_Interval
  <2> QED  BY <1>0, <2>1
<1> DEFINE upTo(i) == Cardinality({j \in a..n : j <= i})
<1>2. ASSUME NEW i \in a..n PROVE upTo(i) = i - a + 1
  <2>1. {j \in a..n : j <= i} = a..i
    OBVIOUS
  <2>2. i \in Int /\ i >= a
    OBVIOUS
  <2>3. Cardinality(a..i) = IF a > i THEN 0 ELSE i - a + 1
    BY <1>0, <2>2, FS_Interval
  <2>4. upTo(i) = Cardinality(a..i)
    BY <2>1, Zenon
  <2> HIDE DEF upTo
  <2> QED  BY <1>0, <2>2, <2>3, <2>4
<1>3. Picked(a..n) = [k \in 1..(n - a + 1) |-> lines[CHOOSE i \in a..n : upTo(i) = k]]
  BY <1>1, Zenon DEF Picked
<1> HIDE DEF upTo
<1>4. ASSUME NEW k \in 1..(n - a + 1)
      PROVE  (CHOOSE i \in a..n : upTo(i) = k) = a + k - 1
  <2>1. a + k - 1 \in a..n
    BY <1>0
  <2>2. \A i \in a..n : upTo(i) = k <=> i = a + k - 1
    BY <1>0, <1>2
  <2> QED  BY <2>1, <2>2
<1> QED  BY <1>3, <1>4

\* What is newer than c is a run behind f, which is c unless more has left the ring.
LEMMA NewerIsRun ==
    ASSUME RingInv, NEW c \in Nat, c <= seq
    PROVE  \E f \in c..seq : /\ Newer(c) \in Seq(1..MaxSeq) /\ Len(Newer(c)) = seq - f
                             /\ \A k \in 1..(seq - f) : Newer(c)[k] = f + k
<1>1. PICK n \in Nat : n = Len(lines)
  BY DEF RingInv, RingTypeOK
<1>2. lines \in Seq(1..MaxSeq) /\ DOMAIN lines = 1..n /\ seq \in Nat
  BY <1>1 DEF RingInv, RingTypeOK
<1>3. \A i \in 1..n : lines[i] = seq - n + i
  BY <1>1, RingIsRun DEF Run
<1>4. \A i \in 1..n : lines[i] \in 1..MaxSeq
  BY <1>1, <1>2, ElementOfSeq
<1>5. n <= seq
  <2>1. n > 0 => lines[1] \in 1..MaxSeq /\ lines[1] = seq - n + 1
    BY <1>3, <1>4
  <2> QED  BY <1>2, <2>1, MaxSeqIsNat
<1>6. PICK f \in c..seq : f = IF seq - n >= c THEN seq - n ELSE c
  <2>1. (IF seq - n >= c THEN seq - n ELSE c) \in c..seq
    BY <1>2, <1>5
  <2> QED  BY <2>1, Zenon
<1>7. PICK a \in 1..(n + 1) : a = f - (seq - n) + 1
  BY <1>2, <1>5, <1>6
<1>8. {i \in DOMAIN lines : lines[i] > c} = a..n
  <2>1. \A i \in 1..n : seq - n + i > c <=> i >= a
    BY <1>2, <1>5, <1>6, <1>7
  <2>2. \A i \in 1..n : lines[i] > c <=> i >= a
    BY <1>3, <2>1
  <2>3. a..n \subseteq 1..n
    BY <1>7
  <2>4. \A i \in a..n : i >= a
    OBVIOUS
  <2>5. \A i \in 1..n : i >= a => i \in a..n
    OBVIOUS
  <2> QED  BY <1>2, <2>2, <2>3, <2>4, <2>5
<1>9. Newer(c) = [k \in 1..(n - a + 1) |-> lines[a + k - 1]]
  BY <1>1, <1>8, PickedIsTail DEF Newer
<1>10. n - a + 1 = seq - f /\ seq - f \in Nat
  BY <1>2, <1>6, <1>7
<1>11. \A k \in 1..(seq - f) : lines[a + k - 1] \in 1..MaxSeq /\ lines[a + k - 1] = f + k
  <2> TAKE k \in 1..(seq - f)
  <2>1. a + k - 1 \in 1..n /\ seq - n + (a + k - 1) = f + k
    BY <1>2, <1>6, <1>7, <1>10
  <2> QED  BY <1>3, <1>4, <2>1
<1>12. Newer(c) = [k \in 1..(seq - f) |-> lines[a + k - 1]]
  BY <1>9, <1>10
<1>13. Newer(c) \in Seq(1..MaxSeq)
  <2> DEFINE m == seq - f
             t(k) == lines[a + k - 1]
  <2>1. m \in Nat /\ \A k \in 1..m : t(k) \in 1..MaxSeq
    BY <1>10, <1>11
  <2> HIDE DEF m, t
  <2>2. [k \in 1..m |-> t(k)] \in Seq(1..MaxSeq)
    BY <2>1
  <2> QED  BY <1>12, <2>2 DEF m, t
<1>14. Len(Newer(c)) = seq - f /\ \A k \in 1..(seq - f) : Newer(c)[k] = f + k
  BY <1>10, <1>11, <1>12
<1> QED  BY <1>6, <1>13, <1>14

\* An answer to the cursor c is a run that begins behind c and ends at seq or before;
\* when it is as long as what is new, it is all of that.
LEMMA SinceIsRun ==
    ASSUME RingInv, NEW c \in Nat, c <= seq
    PROVE  /\ Since(c) \in Seq(1..MaxSeq) /\ Len(Since(c)) <= Limit
           /\ \E f \in 0..MaxSeq :
                 /\ Run(Since(c), Len(Since(c)), f + Len(Since(c)))
                 /\ c <= f /\ f + Len(Since(c)) <= seq
                 /\ Len(Since(c)) >= seq - c => f = c /\ f + Len(Since(c)) = seq
<1>1. seq \in Nat /\ seq <= MaxSeq
  BY MaxSeqIsNat DEF RingInv, RingTypeOK
<1>2. PICK new \in Seq(1..MaxSeq) : new = Newer(c)
  BY NewerIsRun
<1>3. PICK f \in c..seq : Len(new) = seq - f /\ \A k \in 1..(seq - f) : new[k] = f + k
  BY <1>2, NewerIsRun
<1>4. PICK l \in 0..(seq - f) : l = IF Len(new) < Limit THEN Len(new) ELSE Limit
  <2>1. (IF Len(new) < Limit THEN Len(new) ELSE Limit) \in 0..(seq - f)
    BY <1>1, <1>3, LimitIsPos
  <2> QED  BY <2>1, Zenon
<1>5. Since(c) = SubSeq(new, 1, l)
  BY <1>2, <1>4 DEF Since
<1>6. \A k \in 1..l : new[k] \in 1..MaxSeq /\ new[k] = f + k
  <2>1. \A k \in 1..l : k \in 1..(seq - f) /\ k \in 1..Len(new)
    BY <1>1, <1>3, <1>4
  <2> QED  BY <1>3, <2>1, ElementOfSeq
<1>7. l \in Nat /\ f \in Nat
  OBVIOUS
<1>8. Since(c) = [k \in 1..l |-> new[k]]
  BY <1>2, <1>3, <1>4, <1>5, <1>7
<1>9. Since(c) \in Seq(1..MaxSeq) /\ Len(Since(c)) = l /\ \A k \in 1..l : Since(c)[k] = f + k
  BY <1>6, <1>7, <1>8
<1>10. Since(c) \in Seq(Int)
  <2>1. \A k \in 1..l : new[k] \in Int
    BY <1>6, <1>7
  <2> QED  BY <1>7, <1>8, <2>1
<1>11. Run(Since(c), l, f + l)
  BY <1>7, <1>9, <1>10 DEF Run
<1>12. /\ f \in 0..MaxSeq /\ c <= f /\ f + l <= seq /\ l <= Limit
       /\ l >= seq - c => f = c /\ f + l = seq
  BY <1>1, <1>3, <1>4, LimitIsPos, MaxSeqIsNat
<1> QED  BY <1>9, <1>11, <1>12

-----------------------------------------------------------------------------
\* The inductive invariant.

\* Nobody is ahead of the ring.
CursorInv ==
    /\ klSeq <= seq
    /\ \A q \in Polls : poll[q].since <= seq /\ poll[q].seq <= seq

\* The page waits for one answer, which was asked for at its cursor and goes on
\* behind it -- without a gap, unless the answer was cut.
Follows(p) ==
    \E f \in 0..MaxSeq :
        /\ Run(p.lines, Len(p.lines), f + Len(p.lines))
        /\ klSeq <= f /\ f + Len(p.lines) <= p.seq
        /\ ~ cut => f = klSeq /\ f + Len(p.lines) = p.seq

PollInv ==
    ~ overlapped =>
        /\ \A p, q \in Polls : poll[p].st # "none" /\ poll[q].st # "none" => p = q
        /\ \A q \in Polls : /\ poll[q].st # "none" => poll[q].since = klSeq
                            /\ poll[q].st = "answered" => Follows(poll[q])

ShownInv == PageInOrder /\ NoSilentGap

\* While the ring was not cleared, what came since the trigger is in it, or fills it.
ArmedInv ==
    /\ armedAt \in Nat \cup {NULL}
    /\ armedAt # NULL => armedAt <= seq
    /\ armedAt # NULL /\ ~ cleared => seq - armedAt <= Len(lines) \/ Len(lines) = Ring

KlogInv == TypeOK /\ RingContiguous /\ CursorInv /\ PollInv /\ ShownInv
IInv == KlogInv /\ ArmedInv

\* Numbers that rise up to b at most.
Rising(s, b) ==
    /\ s \in Seq(Int)
    /\ \A i, j \in 1..Len(s) : i < j => s[i] < s[j]
    /\ \A i \in 1..Len(s) : s[i] <= b

LEMMA ShownIsRising ==
    ASSUME klLines \in Seq(1..MaxSeq)
    PROVE  PageInOrder <=> (~ overlapped => Rising(klLines, klSeq))
<1>1. klLines \in Seq(Int) /\ DOMAIN klLines = 1..Len(klLines)
  BY MaxSeqIsNat
<1> QED  BY <1>1 DEF PageInOrder, Rising

LEMMA RisingGrows ==
    ASSUME NEW s, NEW b \in Int, NEW t, NEW l \in Nat, NEW f \in Nat,
           Rising(s, b), Run(t, l, f + l), b <= f
    PROVE  Rising(s \o t, f + l)
<1>1. s \in Seq(Int) /\ t \in Seq(Int) /\ Len(t) = l /\ \A i \in 1..l : t[i] = f + i
  BY DEF Rising, Run
<1>2. PICK n \in Nat : n = Len(s)
  BY <1>1
<1>3. /\ s \o t \in Seq(Int) /\ Len(s \o t) = n + l
      /\ \A i \in 1..(n + l) : (s \o t)[i] = IF i <= n THEN s[i] ELSE t[i - n]
  BY <1>1, <1>2, ConcatProperties
<1>4. \A i \in 1..n : s[i] \in Int /\ s[i] <= b
  BY <1>1, <1>2, ElementOfSeq DEF Rising
<1>5. \A i, j \in 1..n : i < j => s[i] < s[j]
  BY <1>2 DEF Rising
<1> DEFINE u == s \o t
<1>10. \A i \in 1..(n + l) : u[i] = IF i <= n THEN s[i] ELSE t[i - n]
  BY <1>3
<1> HIDE DEF u
<1>6. \A i \in 1..(n + l) : i <= n => u[i] = s[i] /\ u[i] <= b /\ u[i] \in Int
  BY <1>4, <1>10
<1>7. \A i \in 1..(n + l) : i > n => u[i] = f + (i - n) /\ u[i] > b
  <2> TAKE i \in 1..(n + l)
  <2> HAVE i > n
  <2>1. i - n \in 1..l /\ u[i] = t[i - n]
    BY <1>10
  <2> QED  BY <1>1, <2>1
<1>8. \A i, j \in 1..(n + l) : i < j => u[i] < u[j]
  <2> TAKE i, j \in 1..(n + l)
  <2> HAVE i < j
  <2>1. CASE j <= n
    BY <1>5, <1>6, <2>1
  <2>2. CASE i <= n /\ j > n
    BY <1>6, <1>7, <2>2
  <2>3. CASE i > n /\ j > n
    BY <1>7, <2>3
  <2> QED  BY <2>1, <2>2, <2>3
<1>9. \A i \in 1..(n + l) : u[i] <= f + l
  BY <1>6, <1>7
<1> QED  BY <1>3, <1>8, <1>9 DEF Rising, u

\* Of a sequence, the page keeps the end.
LEMMA LastOfType ==
    ASSUME NEW S, NEW s \in Seq(S), NEW k \in Nat
    PROVE  LastOf(s, k) \in Seq(S) /\ Len(LastOf(s, k)) <= k
<1>1. CASE Len(s) > k
  BY <1>1 DEF LastOf
<1>2. CASE ~ (Len(s) > k)
  BY <1>2 DEF LastOf
<1> QED  BY <1>1, <1>2

LEMMA RisingIsCut ==
    ASSUME NEW s, NEW b \in Int, NEW k \in Nat, Rising(s, b)
    PROVE  Rising(LastOf(s, k), b)
<1>0. s \in Seq(Int) /\ Len(s) \in Nat
  BY DEF Rising
<1>1. CASE Len(s) > k
  <2>1. PICK d \in Nat : d = Len(s) - k
    BY <1>0, <1>1
  <2>2. PICK t \in Seq(Int) : t = LastOf(s, k)
    BY <1>0, LastOfType
  <2>3. Len(t) = k /\ \A i \in 1..k : t[i] = s[d + i] /\ d + i \in 1..Len(s)
    BY <1>0, <1>1, <2>1, <2>2 DEF LastOf
  <2>4. \A i, j \in 1..k : i < j => t[i] < t[j]
    <3> TAKE i, j \in 1..k
    <3> HAVE i < j
    <3>1. d + i < d + j
      OBVIOUS
    <3> QED  BY <2>3, <3>1 DEF Rising
  <2>5. \A i \in 1..k : t[i] <= b
    BY <2>3 DEF Rising
  <2> QED  BY <2>2, <2>3, <2>4, <2>5 DEF Rising
<1>2. CASE ~ (Len(s) > k)
  BY <1>2 DEF LastOf
<1> QED  BY <1>1, <1>2

-----------------------------------------------------------------------------
LEMMA InitInv == IncInit => IInv
<1> SUFFICES ASSUME IncInit PROVE IInv
  OBVIOUS
<1> USE DEF IncInit, Init
<1>1. RingInv /\ seq = 0
  BY RingInitInv DEF RingInit
<1>2. klOn \in BOOLEAN /\ cut \in BOOLEAN /\ overlapped \in BOOLEAN
  BY Zenon
<1>3. poll \in [Polls -> [st : {"none", "asked", "answered"}, since : 0..MaxSeq,
                          lines : Seq(1..MaxSeq), seq : 0..MaxSeq]]
  BY MaxSeqIsNat DEF NoPoll
<1>4. \A q \in Polls : poll[q].st = "none" /\ poll[q].since = 0 /\ poll[q].seq = 0
                       /\ poll[q].lines = << >>
  BY DEF NoPoll
<1>5. TypeOK
  BY <1>1, <1>2, <1>3, <1>4, MaxSeqIsNat, LimitIsPos, KlMaxIsPos DEF TypeOK, RingInv
<1>6. CursorInv /\ PollInv
  BY <1>1, <1>4 DEF CursorInv, PollInv
<1>7. ShownInv
  BY DEF ShownInv, PageInOrder, NoSilentGap
<1>8. ArmedInv
  BY <1>1 DEF ArmedInv
<1> QED  BY <1>1, <1>5, <1>6, <1>7, <1>8 DEF IInv, KlogInv, RingInv

-----------------------------------------------------------------------------
\* The ring and those that read it.

\* The ring only takes lines, or loses them all; its numbering goes on.
LEMMA RingSteps ==
    ASSUME RingInv, Next \/ UNCHANGED vars
    PROVE  /\ RingInv'
           /\ seq' >= seq /\ seq' \in Nat
           /\ \/ lines' = << >>
              \/ /\ seq' - Len(lines') <= seq - Len(lines)
                 /\ Len(lines') >= Len(lines)
              \/ Len(lines') = Ring
<1>0. seq \in Nat /\ Len(lines) \in Nat
  BY DEF RingInv, RingTypeOK
<1>1. CASE Arrive
  <2>1. Add(1) /\ seq < MaxSeq
    BY <1>1 DEF Arrive
  <2>2. RingInv'
    BY <2>1, AddInv
  <2>3. seq' = seq + 1
    BY <1>0, <2>1, MaxSeqIsNat DEF Add
  <2>4. lines' = LastOf(lines \o [i \in 1..1 |-> seq + i], Ring)
    BY <1>0, <2>1, MaxSeqIsNat DEF Add
  <2>5. Len(lines') = IF Len(lines) + 1 > Ring THEN Ring ELSE Len(lines) + 1
    <3> DEFINE t == lines \o [i \in 1..1 |-> seq + i]
    <3>1. t \in Seq(Int) /\ Len(t) = Len(lines) + 1
      <4>1. lines \in Seq(Int)
        BY MaxSeqIsNat DEF RingInv, RingTypeOK
      <4>2. [i \in 1..1 |-> seq + i] \in Seq(Int) /\ Len([i \in 1..1 |-> seq + i]) = 1
        BY <1>0
      <4> QED  BY <4>1, <4>2, ConcatProperties
    <3> HIDE DEF t
    <3>2. lines' = LastOf(t, Ring)
      BY <2>4 DEF t
    <3> QED  BY <3>1, <3>2, RingIsPos DEF LastOf
  <2> QED  BY <1>0, <2>2, <2>3, <2>5, RingIsPos
<1>2. CASE Clear
  <2>1. lines' = << >> /\ seq' = seq
    BY <1>2 DEF Clear, ClearRing
  <2>2. << >> = [i \in 1..0 |-> seq - 0 + i]
    OBVIOUS
  <2> QED
    BY <1>0, <2>1, <2>2, RingIsPos, MaxSeqIsNat DEF RingInv, RingTypeOK, RingContiguous
<1>3. CASE UNCHANGED store
  BY <1>0, <1>3 DEF RingInv, RingTypeOK, RingContiguous, store
<1> QED
  BY <1>1, <1>2, <1>3 DEF Next, PageStart, PageStop, PageClear, Reload, PollAsk, PollAnswer,
     PollTake, vars

\* What a poll of the page is like, field by field.
LEMMA PollTypes ==
    ASSUME TypeOK, NEW q \in Polls
    PROVE  /\ poll[q].since \in Nat /\ poll[q].seq \in 0..MaxSeq
           /\ poll[q].lines \in Seq(1..MaxSeq) /\ Len(poll[q].lines) \in Nat
           /\ klSeq \in 0..MaxSeq /\ klLines \in Seq(1..MaxSeq)
BY MaxSeqIsNat DEF TypeOK

\* Every step but those of the requests, and but the page's own starting over.
LEMMA QuietSteps ==
    ASSUME KlogInv, RingInv', seq' >= seq, seq' \in Nat,
           UNCHANGED <<klSeq, klLines, poll, delivered, cut, overlapped>>, klOn' \in BOOLEAN
    PROVE  KlogInv'
<1>1. TypeOK'
  BY DEF KlogInv, TypeOK, RingInv
<1>2. CursorInv'
  BY PollTypes DEF KlogInv, CursorInv, TypeOK, RingTypeOK
<1>3. PollInv'
  BY DEF KlogInv, PollInv, Follows, Run
<1>4. ShownInv'
  BY DEF KlogInv, ShownInv, PageInOrder, NoSilentGap
<1> QED  BY <1>1, <1>2, <1>3, <1>4 DEF KlogInv, RingInv

\* The page shows nothing, and still knows what it got.
LEMMA PageClearStep ==
    ASSUME KlogInv, RingInv', PageClear
    PROVE  KlogInv'
<1> USE DEF PageClear, store
<1>1. TypeOK'
  BY KlMaxIsPos DEF KlogInv, TypeOK, RingInv
<1>2. CursorInv' /\ PollInv'
  BY DEF KlogInv, CursorInv, PollInv, Follows, Run
<1>3. ShownInv'
  BY DEF KlogInv, ShownInv, PageInOrder, NoSilentGap
<1> QED  BY <1>1, <1>2, <1>3 DEF KlogInv, RingInv

LEMMA ReloadStep ==
    ASSUME KlogInv, RingInv', Reload
    PROVE  KlogInv'
<1>1. klOn' \in BOOLEAN /\ cut' \in BOOLEAN /\ overlapped' \in BOOLEAN
  BY Zenon DEF Reload
<1>2. poll' \in [Polls -> [st : {"none", "asked", "answered"}, since : 0..MaxSeq,
                           lines : Seq(1..MaxSeq), seq : 0..MaxSeq]]
  BY MaxSeqIsNat DEF Reload, NoPoll
<1>3. \A q \in Polls : poll'[q].st = "none" /\ poll'[q].since = 0 /\ poll'[q].seq = 0
                       /\ poll'[q].lines = << >>
  BY DEF Reload, NoPoll
<1>4. klSeq' = 0 /\ klLines' = << >> /\ delivered' = {} /\ seq' = seq /\ seq \in Nat
  BY DEF Reload, store, KlogInv, TypeOK, RingTypeOK
<1>5. TypeOK'
  BY <1>1, <1>2, <1>3, <1>4, MaxSeqIsNat, LimitIsPos, KlMaxIsPos DEF TypeOK, RingInv
<1>6. CursorInv' /\ PollInv'
  BY <1>3, <1>4 DEF CursorInv, PollInv
<1>7. ShownInv'
  BY <1>4 DEF ShownInv, PageInOrder, NoSilentGap
<1> QED  BY <1>5, <1>6, <1>7 DEF KlogInv, RingInv

-----------------------------------------------------------------------------
\* The requests.

LEMMA AskStep ==
    ASSUME KlogInv, RingInv', NEW q \in Polls, PollAsk(q)
    PROVE  KlogInv'
<1> DEFINE p == [NoPoll EXCEPT !.st = "asked", !.since = klSeq]
<1>1. /\ poll' = [poll EXCEPT ![q] = p] /\ poll[q].st = "none"
      /\ UNCHANGED <<klOn, klSeq, klLines, delivered, cut, seq, lines>>
  BY Zenon DEF PollAsk, store
<1>2. overlapped' \in BOOLEAN
  BY Zenon DEF PollAsk
<1>3. ~ overlapped' => ~ overlapped /\ \A r \in Polls : poll[r].st = "none"
  BY DEF PollAsk
<1>4. p \in [st : {"none", "asked", "answered"}, since : 0..MaxSeq,
             lines : Seq(1..MaxSeq), seq : 0..MaxSeq]
  <2>1. NoPoll \in [st : {"none", "asked", "answered"}, since : 0..MaxSeq,
                    lines : Seq(1..MaxSeq), seq : 0..MaxSeq]
    BY MaxSeqIsNat DEF NoPoll
  <2>2. klSeq \in 0..MaxSeq
    BY DEF KlogInv, TypeOK
  <2> QED  BY <2>1, <2>2
<1>5. /\ p.st = "asked" /\ p.since = klSeq /\ p.lines = << >> /\ p.seq = 0
      /\ \A r \in Polls : poll'[r] = IF r = q THEN p ELSE poll[r]
  BY <1>1 DEF KlogInv, TypeOK, NoPoll
<1> HIDE DEF p
<1>6. TypeOK'
  BY <1>1, <1>2, <1>4, <1>5, LimitIsPos DEF KlogInv, TypeOK, RingInv
<1>7. CursorInv'
  BY <1>1, <1>5 DEF KlogInv, CursorInv, TypeOK, RingTypeOK
<1>8. PollInv'
  BY <1>1, <1>3, <1>5 DEF PollInv
<1>9. ShownInv'
  BY <1>1, <1>3 DEF KlogInv, ShownInv, PageInOrder, NoSilentGap
<1> QED  BY <1>6, <1>7, <1>8, <1>9 DEF KlogInv, RingInv

LEMMA AnswerStep ==
    ASSUME KlogInv, RingInv', NEW q \in Polls, PollAnswer(q)
    PROVE  KlogInv'
<1> DEFINE c == poll[q].since
<1>1. /\ poll' = [poll EXCEPT ![q].st = "answered", ![q].lines = Since(c), ![q].seq = seq]
      /\ poll[q].st = "asked"
      /\ UNCHANGED <<klOn, klSeq, klLines, delivered, overlapped, seq, lines>>
  BY DEF PollAnswer, store
<1>2. cut' \in BOOLEAN
  BY Zenon DEF PollAnswer
<1>3. c \in Nat /\ c <= seq /\ seq \in 0..MaxSeq /\ RingInv
  BY PollTypes DEF KlogInv, CursorInv, TypeOK, RingTypeOK, RingInv
<1>4. ~ cut' => ~ cut /\ Len(Since(c)) >= seq - c
  <2>1. ~ cut' => ~ cut /\ ~ (Len(Since(c)) < seq - c)
    BY DEF PollAnswer
  <2>2. Len(Since(c)) \in Nat
    BY <1>3, SinceIsRun
  <2> QED  BY <1>3, <2>1, <2>2
<1>5. /\ poll'[q].st = "answered" /\ poll'[q].since = c
      /\ poll'[q].lines = Since(c) /\ poll'[q].seq = seq
      /\ \A r \in Polls \ {q} : poll'[r] = poll[r]
  BY <1>1 DEF KlogInv, TypeOK
<1>6. Since(c) \in Seq(1..MaxSeq) /\ Len(Since(c)) <= Limit
  BY <1>3, SinceIsRun
<1>7. poll' \in [Polls -> [st : {"none", "asked", "answered"}, since : 0..MaxSeq,
                           lines : Seq(1..MaxSeq), seq : 0..MaxSeq]]
  BY <1>1, <1>3, <1>6 DEF KlogInv, TypeOK
<1>8. TypeOK'
  BY <1>1, <1>2, <1>5, <1>6, <1>7 DEF KlogInv, TypeOK, RingInv
<1>9. CursorInv'
  <2>1. klSeq' <= seq' /\ seq' = seq
    BY <1>1 DEF KlogInv, CursorInv
  <2>2. poll'[q].since <= seq /\ poll'[q].seq <= seq
    BY <1>3, <1>5
  <2>3. \A r \in Polls \ {q} : poll'[r].since <= seq /\ poll'[r].seq <= seq
    BY <1>5 DEF KlogInv, CursorInv
  <2> QED  BY <2>1, <2>2, <2>3 DEF CursorInv
<1>10. PollInv'
  <2> SUFFICES ASSUME ~ overlapped'
               PROVE  /\ \A p, r \in Polls : poll'[p].st # "none" /\ poll'[r].st # "none" => p = r
                      /\ \A r \in Polls :
                            /\ poll'[r].st # "none" => poll'[r].since = klSeq'
                            /\ poll'[r].st = "answered" => Follows(poll[r])'
    BY DEF PollInv
  <2>1. \A r \in Polls : poll[r].st # "none" => r = q
    BY <1>1 DEF KlogInv, PollInv
  <2>2. c = klSeq
    BY <1>1 DEF KlogInv, PollInv
  <2>3. Follows(poll[q])'
    <3>1. PICK f \in 0..MaxSeq :
            /\ Run(Since(c), Len(Since(c)), f + Len(Since(c)))
            /\ c <= f /\ f + Len(Since(c)) <= seq
            /\ Len(Since(c)) >= seq - c => f = c /\ f + Len(Since(c)) = seq
      BY <1>3, SinceIsRun
    <3> HIDE DEF c
    <3>2. /\ Run(Since(c), Len(Since(c)), f + Len(Since(c)))
          /\ klSeq' <= f /\ f + Len(Since(c)) <= seq
          /\ ~ cut' => f = klSeq' /\ f + Len(Since(c)) = seq
      BY <1>1, <1>4, <2>2, <3>1
    <3> QED  BY <1>5, <3>2 DEF Follows, Run
  <2> QED  BY <1>1, <1>5, <2>1, <2>2, <2>3
<1>11. ShownInv'
  BY <1>1, <1>4 DEF KlogInv, ShownInv, PageInOrder, NoSilentGap
<1> QED  BY <1>8, <1>9, <1>10, <1>11 DEF KlogInv, RingInv

\* The answer the page takes goes on where the page is.
LEMMA TakeStep ==
    ASSUME KlogInv, RingInv', NEW q \in Polls, PollTake(q)
    PROVE  KlogInv'
<1> DEFINE p == poll[q]
<1>1. /\ poll' = [poll EXCEPT ![q] = NoPoll] /\ p.st = "answered"
      /\ UNCHANGED <<klOn, cut, overlapped, seq, lines>>
  BY DEF PollTake, store
<1>2. /\ \A r \in Polls : poll'[r] = IF r = q THEN NoPoll ELSE poll[r]
      /\ NoPoll.st = "none" /\ NoPoll.since = 0 /\ NoPoll.lines = << >> /\ NoPoll.seq = 0
  BY <1>1 DEF KlogInv, TypeOK, NoPoll
<1>3. poll' \in [Polls -> [st : {"none", "asked", "answered"}, since : 0..MaxSeq,
                           lines : Seq(1..MaxSeq), seq : 0..MaxSeq]]
  <2>1. NoPoll \in [st : {"none", "asked", "answered"}, since : 0..MaxSeq,
                    lines : Seq(1..MaxSeq), seq : 0..MaxSeq]
    BY MaxSeqIsNat DEF NoPoll
  <2> QED  BY <1>1, <2>1 DEF KlogInv, TypeOK
<1>4. /\ p.lines \in Seq(1..MaxSeq) /\ Len(p.lines) \in Nat /\ p.seq \in 0..MaxSeq
      /\ klSeq \in 0..MaxSeq /\ klLines \in Seq(1..MaxSeq)
      /\ p.seq <= seq /\ klSeq <= seq /\ seq \in 0..MaxSeq /\ p.since <= seq
  BY PollTypes DEF KlogInv, CursorInv, TypeOK, RingTypeOK
<1>5. \/ p.lines = << >> /\ UNCHANGED <<klSeq, klLines, delivered>>
      \/ /\ p.lines # << >>
         /\ klSeq' = p.seq /\ klLines' = LastOf(klLines \o p.lines, KlMax)
         /\ delivered' = delivered \cup ToSet(p.lines)
  BY DEF PollTake
<1>6. klSeq' \in 0..MaxSeq /\ klSeq' <= seq
  BY <1>4, <1>5
<1>7. klLines' \in Seq(1..MaxSeq) /\ Len(klLines') <= KlMax
  <2>1. klLines \o p.lines \in Seq(1..MaxSeq)
    BY <1>4, ConcatProperties
  <2>2. LastOf(klLines \o p.lines, KlMax) \in Seq(1..MaxSeq)
        /\ Len(LastOf(klLines \o p.lines, KlMax)) <= KlMax
    BY <2>1, KlMaxIsPos, LastOfType
  <2>3. Len(klLines) <= KlMax
    BY DEF KlogInv, TypeOK
  <2> HIDE DEF p
  <2> QED  BY <1>4, <1>5, <2>2, <2>3
<1>8. delivered' \subseteq 1..MaxSeq
  <2>1. ToSet(p.lines) \subseteq 1..MaxSeq
    <3> SUFFICES ASSUME NEW i \in DOMAIN p.lines PROVE p.lines[i] \in 1..MaxSeq
      BY DEF ToSet
    <3> HIDE DEF p
    <3>1. i \in 1..Len(p.lines)
      BY <1>4
    <3> QED  BY <1>4, <3>1, ElementOfSeq
  <2> QED  BY <1>5, <2>1 DEF KlogInv, TypeOK
<1>9. TypeOK'
  BY <1>1, <1>2, <1>3, <1>6, <1>7, <1>8, LimitIsPos DEF KlogInv, TypeOK, RingInv
<1>10. CursorInv'
  BY <1>1, <1>2, <1>4, <1>6 DEF KlogInv, CursorInv
<1>11. ~ overlapped => \A r \in Polls : poll'[r].st = "none"
  BY <1>1, <1>2 DEF KlogInv, PollInv
<1>12. PollInv'
  BY <1>1, <1>11 DEF PollInv
<1>13. ShownInv'
  <2> SUFFICES ASSUME ~ overlapped PROVE ShownInv'
    BY <1>1 DEF ShownInv, PageInOrder, NoSilentGap
  <2>1. PICK f \in 0..MaxSeq :
          /\ Run(p.lines, Len(p.lines), f + Len(p.lines))
          /\ klSeq <= f /\ f + Len(p.lines) <= p.seq
          /\ ~ cut => f = klSeq /\ f + Len(p.lines) = p.seq
    BY <1>1 DEF KlogInv, PollInv, Follows
  <2>2. Rising(klLines, klSeq)
    BY <1>4, ShownIsRising DEF KlogInv, ShownInv
  <2>3. PICK l \in Nat : l = Len(p.lines)
    BY <1>4
  <2>4. f \in Nat /\ klSeq \in Int /\ f + l <= p.seq
    BY <1>4, <2>1, <2>3
  <2>5. Rising(LastOf(klLines \o p.lines, KlMax), f + l)
    <3>1. Run(p.lines, l, f + l) /\ klSeq <= f
      BY <2>1, <2>3
    <3> HIDE DEF p
    <3>2. Rising(klLines \o p.lines, f + l)
      BY <2>2, <2>4, <3>1, RisingGrows
    <3> QED  BY <2>4, <3>2, KlMaxIsPos, RisingIsCut
  <2>6. Rising(klLines', klSeq')
    <3>1. CASE p.lines = << >>
      <4>1. klLines' = klLines /\ klSeq' = klSeq
        BY <1>5, <3>1
      <4> QED  BY <2>2, <4>1
    <3>2. CASE p.lines # << >>
      <4>1. klSeq' = p.seq /\ klLines' = LastOf(klLines \o p.lines, KlMax)
        BY <1>5, <3>2
      <4>2. Rising(klLines', f + l) /\ klSeq' \in Int
        BY <1>6, <2>5, <4>1
      <4>3. \A i \in 1..Len(klLines') : klLines'[i] \in Int
        BY <1>7, ElementOfSeq, MaxSeqIsNat
      <4>4. f + l <= klSeq'
        BY <2>4, <4>1
      <4> QED  BY <2>4, <4>2, <4>3, <4>4 DEF Rising
    <3> QED  BY <3>1, <3>2
  <2>7. PageInOrder'
    <3>1. DOMAIN klLines' = 1..Len(klLines')
      BY <1>7
    <3> QED  BY <2>6, <3>1 DEF PageInOrder, Rising
  <2>8. NoSilentGap'
    <3> SUFFICES ASSUME ~ cut PROVE delivered' = 1..klSeq'
      BY <1>1 DEF NoSilentGap
    <3>1. f = klSeq /\ f + l = p.seq /\ delivered = 1..klSeq
      BY <2>1, <2>3 DEF KlogInv, ShownInv, NoSilentGap
    <3>2. CASE p.lines = << >>
      BY <1>5, <3>1, <3>2
    <3>3. CASE p.lines # << >>
      <4>1. \A i \in 1..l : p.lines[i] = f + i
        <5>1. Run(p.lines, l, f + l)
          BY <2>1, <2>3
        <5> HIDE DEF p
        <5> QED  BY <2>4, <5>1 DEF Run
      <4>2. ToSet(p.lines) = (f + 1)..(f + l)
        <5>1. DOMAIN p.lines = 1..l
          BY <1>4, <2>3
        <5>2. ToSet(p.lines) \subseteq (f + 1)..(f + l)
          BY <4>1, <5>1, <2>4 DEF ToSet
        <5>3. ASSUME NEW x \in (f + 1)..(f + l) PROVE x \in ToSet(p.lines)
          <6>1. x - f \in 1..l /\ f + (x - f) = x
            BY <2>4
          <6>2. p.lines[x - f] = x
            BY <4>1, <6>1
          <6> QED  BY <5>1, <6>1, <6>2 DEF ToSet
        <5> QED  BY <5>2, <5>3
      <4>3. delivered' = (1..f) \cup ((f + 1)..(f + l)) /\ klSeq' = f + l
        BY <1>5, <3>1, <3>3, <4>2
      <4> QED  BY <2>4, <4>3
    <3> QED  BY <3>2, <3>3
  <2> QED  BY <2>7, <2>8 DEF ShownInv
<1> QED  BY <1>9, <1>10, <1>12, <1>13 DEF KlogInv, RingInv

LEMMA NextKlog ==
    ASSUME KlogInv, Next \/ UNCHANGED vars
    PROVE  KlogInv'
<1>1. RingInv
  BY DEF KlogInv, TypeOK, RingInv
<1>2. RingInv' /\ seq' >= seq /\ seq' \in Nat
  BY <1>1, RingSteps
<1>3. CASE Arrive \/ Clear \/ PageStart \/ PageStop \/ UNCHANGED vars
  <2>1. /\ UNCHANGED <<klSeq, klLines, poll, delivered, cut, overlapped>>
        /\ klOn' = klOn \/ PageStart \/ PageStop
    BY <1>3 DEF Arrive, Clear, PageStart, PageStop, vars
  <2>2. PageStart \/ PageStop => klOn' \in BOOLEAN
    BY Zenon DEF PageStart, PageStop
  <2>3. klOn' \in BOOLEAN
    BY <2>1, <2>2, Zenon DEF KlogInv, TypeOK
  <2> QED  BY <1>2, <2>1, <2>3, QuietSteps
<1> QED
  BY <1>2, <1>3, PageClearStep, ReloadStep, AskStep, AnswerStep, TakeStep DEF Next

-----------------------------------------------------------------------------
\* The incident.

LEMMA NextArmed ==
    ASSUME IInv, IncNext \/ UNCHANGED incidentVars
    PROVE  ArmedInv'
<1>1. RingInv /\ seq \in Nat /\ Len(lines) \in Nat /\ Len(lines) <= Ring
  BY DEF IInv, KlogInv, TypeOK, RingInv, RingTypeOK
<1>2. CASE /\ Next
           /\ cleared' = (armedAt # NULL /\ (cleared \/ lines' = << >>))
           /\ UNCHANGED <<handed, armedAt, incident>>
  <2>1. /\ seq' >= seq /\ seq' \in Nat
        /\ \/ lines' = << >>
           \/ seq' - Len(lines') <= seq - Len(lines) /\ Len(lines') >= Len(lines)
           \/ Len(lines') = Ring
    BY <1>1, <1>2, RingSteps
  <2>2. Len(lines') \in Nat /\ Len(lines') <= Ring
    BY <1>1, <1>2, RingSteps DEF RingInv, RingTypeOK
  <2>3. armedAt' = armedAt /\ (armedAt # NULL => armedAt \in Nat /\ armedAt <= seq)
    BY <1>2 DEF IInv, ArmedInv
  <2>4. armedAt # NULL /\ ~ cleared' => ~ cleared /\ lines' # << >>
    BY <1>2
  <2>5. armedAt # NULL /\ ~ cleared' => seq' - armedAt <= Len(lines') \/ Len(lines') = Ring
    <3> SUFFICES ASSUME armedAt # NULL, ~ cleared'
                 PROVE  seq' - armedAt <= Len(lines') \/ Len(lines') = Ring
      OBVIOUS
    <3>1. seq - armedAt <= Len(lines) \/ Len(lines) = Ring
      BY <2>4 DEF IInv, ArmedInv
    <3> QED  BY <1>1, <2>1, <2>2, <2>3, <2>4, <3>1, RingIsPos
  <2>6. armedAt' \in Nat \cup {NULL} /\ (armedAt' # NULL => armedAt' <= seq')
    BY <1>1, <2>1, <2>3
  <2> QED  BY <2>3, <2>5, <2>6 DEF ArmedInv
<1>3. CASE HandBridge \/ UNCHANGED incidentVars
  BY <1>3 DEF HandBridge, IInv, ArmedInv, incidentVars, incVars, vars, store
<1>4. CASE Arm
  <2>1. armedAt' = seq /\ UNCHANGED <<seq, lines>>
    BY <1>4 DEF Arm, vars, store
  <2> QED  BY <1>1, <2>1 DEF ArmedInv
<1>5. CASE WriteIncident
  BY <1>5 DEF WriteIncident, ArmedInv
<1> QED  BY <1>2, <1>3, <1>4, <1>5 DEF IncNext

LEMMA NextInv ==
    ASSUME IInv, IncNext \/ UNCHANGED incidentVars
    PROVE  IInv'
<1>1. Next \/ UNCHANGED vars
  BY DEF IncNext, HandBridge, Arm, WriteIncident, incidentVars
<1> QED  BY <1>1, NextKlog, NextArmed DEF IInv

\* Of a ring that was not cleared since the trigger and that since() hands out whole,
\* an incident keeps what came since, up to its size.
LEMMA WriteStep ==
    ASSUME IInv, WriteIncident, handed, ~ cleared, ~ (Len(lines) > IncidentLimit)
    PROVE  \A l \in (armedAt + 1)..seq : l \in ToSet(incident') \/ l <= seq - IncidentKept
<1>1. /\ RingInv /\ seq \in Nat /\ Run(lines, Len(lines), seq) /\ armedAt \in Nat
      /\ lines \in Seq(Int)
  <2>1. RingInv
    BY DEF IInv, KlogInv, TypeOK, RingInv
  <2> QED  BY <2>1, RingIsRun DEF IInv, ArmedInv, WriteIncident, RingInv, RingTypeOK, Run
<1>2. PICK n \in Nat : n = Len(lines)
  BY <1>1
<1>3. incident' = LastOf(lines, IncidentKept)
  <2>1. FirstOf(lines, IncidentLimit) = lines
    <3>1. (IF Len(lines) < IncidentLimit THEN Len(lines) ELSE IncidentLimit) = Len(lines)
      BY <1>1, <1>2, IncidentBoundsArePos
    <3>2. SubSeq(lines, 1, Len(lines)) = lines
      BY <1>1
    <3> QED  BY <3>1, <3>2 DEF FirstOf
  <2> QED  BY <2>1 DEF WriteIncident, IncidentLines
<1>4. PICK k \in Nat : /\ k = IF n > IncidentKept THEN IncidentKept ELSE n
                       /\ Run(incident', k, seq)
  <2>1. Run(lines, n, seq) /\ IncidentKept \in Nat
    BY <1>1, <1>2, IncidentBoundsArePos
  <2>2. Run(incident', IF n > IncidentKept THEN IncidentKept ELSE n, seq)
    BY <1>1, <1>3, <2>1, RunIsCut
  <2>3. (IF n > IncidentKept THEN IncidentKept ELSE n) \in Nat
    BY IncidentBoundsArePos
  <2> QED  BY <2>2, <2>3, Zenon
<1>5. seq - armedAt <= n \/ n = Ring
  BY <1>2 DEF IInv, ArmedInv, WriteIncident
<1>6. ASSUME NEW l \in (armedAt + 1)..seq, ~ (l <= seq - IncidentKept)
      PROVE  l \in ToSet(incident')
  <2>1. l - (seq - k) \in 1..k
    BY <1>1, <1>4, <1>5, <1>6, IncidentBoundsArePos, RingIsPos, RingHoldsKept
  <2>2. incident'[l - (seq - k)] = l
    BY <1>1, <1>4, <2>1 DEF Run
  <2>3. DOMAIN incident' = 1..k
    BY <1>4 DEF Run
  <2> QED  BY <2>1, <2>2, <2>3 DEF ToSet
<1> QED  BY <1>6

-----------------------------------------------------------------------------
THEOREM InvCorrect == PageSpec => []IInv
<1>1. PageInit => IInv
  BY InitInv DEF PageInit
<1>2. IInv /\ [UNCHANGED panel /\ PageNext]_<<panel, incidentVars, fanVars>> => IInv'
  <2> SUFFICES ASSUME IInv,
                      [UNCHANGED panel /\ PageNext]_<<panel, incidentVars, fanVars>>
               PROVE  IInv'
    OBVIOUS
  <2>1. IncNext \/ UNCHANGED incidentVars
    BY DEF PageNext
  <2> QED  BY <2>1, NextInv
<1> QED  BY <1>1, <1>2, PTL DEF PageSpec

\* Unless two requests of the page overlap, it shows the lines in the order of their
\* arrival, each of them once.
THEOREM PageInOrderCorrect == PageSpec => []PageInOrder
<1>1. IInv => PageInOrder
  BY DEF IInv, KlogInv, ShownInv
<1> QED  BY InvCorrect, <1>1, PTL

\* Unless an answer to it was cut, too, it has got every line up to its cursor.
THEOREM NoSilentGapCorrect == PageSpec => []NoSilentGap
<1>1. IInv => NoSilentGap
  BY DEF IInv, KlogInv, ShownInv
<1> QED  BY InvCorrect, <1>1, PTL

\* An incident carries what came between its trigger and its end, as much as it keeps,
\* unless the ring was cleared or holds more than the incident asks for.
THEOREM IncidentSurroundedCorrect == PageSpec => IncidentSurrounded
<1>1. IInv /\ [UNCHANGED panel /\ PageNext]_<<panel, incidentVars, fanVars>> =>
        [armedAt # NULL /\ armedAt' = NULL /\ handed /\ ~ cleared =>
          \/ \A l \in (armedAt + 1)..seq : l \in ToSet(incident') \/ l <= seq - IncidentKept
          \/ Len(lines) > IncidentLimit]_incidentVars
  <2> SUFFICES ASSUME IInv, IncNext, armedAt # NULL, armedAt' = NULL, handed, ~ cleared,
                      ~ (Len(lines) > IncidentLimit)
               PROVE  \A l \in (armedAt + 1)..seq :
                         l \in ToSet(incident') \/ l <= seq - IncidentKept
    BY DEF PageNext
  <2>1. WriteIncident
    BY NullIsNoLine DEF IncNext, HandBridge, Arm, IInv, KlogInv, TypeOK, RingTypeOK
  <2> QED  BY <2>1, WriteStep
<1> QED  BY InvCorrect, <1>1, PTL DEF PageSpec, IncidentSurrounded

-----------------------------------------------------------------------------
\* The thermal drawer.

\* The plan of a job that is under way: it ends with a show, and a restore stands at
\* its head or behind a show, as nothing else does.
InTurns(s) ==
    /\ s # << >> => s[Len(s)].do = "show"
    /\ \A i \in 2..Len(s) : s[i].do = "restore" <=> s[i - 1].do = "show"

PlanInv ==
    \A j \in Jobs :
        LET p == job[j].plan IN
        /\ job[j].kind = "none" => job[j].answer = NONE
        /\ job[j].kind # "none" => p # << >> /\ p[1].do # "show" /\ InTurns(p)
        /\ \A i \in DOMAIN p : p[i].do = "restore" => fanBaseTable[p[i].zone] # NONE
        /\ job[j].kind = "restore" => \A i \in DOMAIN p : p[i].do # "set"

\* A request is what its job's plan is at, and a restore sends the factory's table.
ChainInv ==
    /\ \A i \in DOMAIN chain :
          LET r == chain[i] IN
          /\ job[r.job].kind # "none" /\ job[r.job].answer = NONE
          /\ r.do = job[r.job].plan[1].do /\ r.zone = job[r.job].plan[1].zone
          /\ r.do = "set" => r.table \in Setpoints
          /\ r.do = "restore" => r.table = FanFactory[r.zone]
    /\ \A i, k \in DOMAIN chain : chain[i].job = chain[k].job => i = k

BaseInv == \A z \in Zones : fanBaseTable[z] \in {NONE, FanFactory[z]}

\* A restore that is under way has restored its zones or is still to do so.
ToDo(j, z) ==
    \E i \in DOMAIN job[j].plan :
        job[j].plan[i] = Do("restore", z) /\ (i = 1 => job[j].answer = NONE)

RestoreInv ==
    own = FanFactory =>
        \A j \in Jobs : job[j].kind = "restore" =>
            \A z \in Zones \ job[j].excused : dev[z] = FanFactory[z] \/ ToDo(j, z)

FanInv == FanTypeOK /\ BaseInv /\ PlanInv /\ ChainInv /\ RestoreInv

-----------------------------------------------------------------------------
\* The thermal drawer: its plans.

LEMMA LeastOf ==
    ASSUME NEW T \in SUBSET Nat, T # {}
    PROVE  \E m \in T : \A k \in T : m <= k
<1> DEFINE G == OpToRel(<, Nat)
<1>1. PICK m \in T : \A k \in T : <<k, m>> \notin G
  <2>1. IsWellFoundedOn(G, Nat)
    BY NatLessThanWellFounded
  <2> HIDE DEF G
  <2> QED  BY <2>1, WFMin, Zenon
<1>2. \A k \in T : ~ (k < m)
  BY <1>1 DEF OpToRel
<1> QED  BY <1>2

\* InOrder lays the items of its zones out one after the other; that there is such a
\* function is an induction on the zones.
Step(what, S, s, n) == IF n - 1 \in S THEN <<Do(what, n - 1)>> \o s ELSE << >>

LaysOut(f, what, S, s, m) ==
    DOMAIN f = 0..m /\ f[0] = << >> /\ \A n \in 1..m : f[n] = f[n - 1] \o Step(what, S, s, n)

LEMMA LaysExist ==
    ASSUME NEW what, NEW S, NEW s
    PROVE  \A m \in 0..(LastZone + 1) : \E f : LaysOut(f, what, S, s, m)
<1> DEFINE T == {m \in 0..(LastZone + 1) : ~ \E f : LaysOut(f, what, S, s, m)}
<1> SUFFICES ASSUME T # {} PROVE FALSE
  OBVIOUS
<1>1. T \in SUBSET Nat
  BY LastZoneIsNat
<1>2. PICK m \in T : \A k \in T : m <= k
  <2> HIDE DEF T
  <2> QED  BY <1>1, LeastOf
<1>3. m # 0
  <2>1. LaysOut([n \in 0..0 |-> << >>], what, S, s, 0)
    BY DEF LaysOut
  <2> QED  BY <2>1
<1>4. m \in 1..(LastZone + 1) /\ m - 1 \in 0..(LastZone + 1) /\ m - 1 \notin T
  BY <1>2, <1>3, LastZoneIsNat
<1>5. PICK f : LaysOut(f, what, S, s, m - 1)
  BY <1>4
<1> DEFINE g == [n \in 0..m |-> IF n = m THEN f[m - 1] \o Step(what, S, s, m) ELSE f[n]]
<1>6. LaysOut(g, what, S, s, m)
  <2>1. DOMAIN g = 0..m /\ g[0] = << >>
    BY <1>4, <1>5 DEF LaysOut
  <2>2. ASSUME NEW n \in 1..m PROVE g[n] = g[n - 1] \o Step(what, S, s, n)
    <3>1. /\ m \in Nat /\ n \in 0..m /\ n - 1 \in 0..m /\ n - 1 # m
          /\ n # m => n \in 1..(m - 1)
      BY <1>4, LastZoneIsNat
    <3>2. g[n - 1] = f[n - 1]
      BY <3>1
    <3>3. CASE n = m
      <4>1. g[n] = f[m - 1] \o Step(what, S, s, m)
        BY <3>1, <3>3
      <4> QED  BY <4>1, <3>2, <3>3
    <3>4. CASE n # m
      <4>1. g[n] = f[n]
        BY <3>1, <3>4
      <4>2. f[n] = f[n - 1] \o Step(what, S, s, n)
        BY <3>1, <3>4, <1>5 DEF LaysOut
      <4> QED  BY <4>1, <4>2, <3>2
    <3> QED  BY <3>3, <3>4
  <2> HIDE DEF g
  <2> QED  BY <2>1, <2>2 DEF LaysOut
<1> QED  BY <1>6, <1>2

LEMMA InOrderIs ==
    ASSUME NEW what, NEW S, NEW s
    PROVE  \E f : InOrder(what, S, s) = f[LastZone + 1] /\ LaysOut(f, what, S, s, LastZone + 1)
<1> DEFINE M == LastZone + 1
           F(f) == f = [n \in 0..(LastZone + 1) |->
                          IF n = 0 THEN << >>
                          ELSE f[n - 1] \o (IF n - 1 \in S THEN <<Do(what, n - 1)>> \o s
                                                      ELSE << >>)]
           f == CHOOSE h : F(h)
<1>1. PICK g : LaysOut(g, what, S, s, M)
  BY LaysExist, LastZoneIsNat
<1>2. \E h : F(h)
  <2> DEFINE h == [n \in 0..M |-> g[n]]
  <2>1. ASSUME NEW n \in 0..M
        PROVE  h[n] = IF n = 0 THEN << >>
                      ELSE h[n - 1] \o (IF n - 1 \in S THEN <<Do(what, n - 1)>> \o s ELSE << >>)
    <3>1. CASE n = 0
      BY <3>1, <1>1 DEF LaysOut
    <3>2. CASE n # 0
      <4>1. n \in 1..M /\ n - 1 \in 0..M
        BY <3>2, LastZoneIsNat
      <4> QED  BY <4>1, <3>2, <1>1 DEF LaysOut, Step
    <3> QED  BY <3>1, <3>2
  <2>2. DOMAIN h = 0..M
    OBVIOUS
  <2>3. h = [n \in 0..M |-> h[n]]
    OBVIOUS
  <2> HIDE DEF h
  <2>4. h = [n \in 0..M |->
                IF n = 0 THEN << >>
                ELSE h[n - 1] \o (IF n - 1 \in S THEN <<Do(what, n - 1)>> \o s ELSE << >>)]
    BY <2>1, <2>3
  <2> QED  BY <2>4
<1>3. F(f)
  BY <1>2, Zenon
<1>4. InOrder(what, S, s) = f[LastZone + 1]
  BY Zenon DEF InOrder
<1> HIDE DEF f
<1>5. LaysOut(f, what, S, s, M)
  <2>1. DOMAIN f = 0..M
    BY <1>3
  <2>2. \A n \in 0..M : f[n] = IF n = 0 THEN << >>
              ELSE f[n - 1] \o (IF n - 1 \in S THEN <<Do(what, n - 1)>> \o s ELSE << >>)
    BY <1>3
  <2>3. f[0] = << >>
    <3>1. 0 \in 0..M
      BY LastZoneIsNat
    <3> QED  BY <2>2, <3>1
  <2>4. ASSUME NEW n \in 1..M PROVE f[n] = f[n - 1] \o Step(what, S, s, n)
    <3>1. n \in 0..M /\ n # 0
      BY LastZoneIsNat
    <3> QED  BY <2>2, <3>1 DEF Step
  <2> QED  BY <2>1, <2>3, <2>4 DEF LaysOut
<1> QED  BY <1>4, <1>5

LEMMA ConcatIs ==
    ASSUME NEW S, NEW s \in Seq(S), NEW t \in Seq(S)
    PROVE  /\ s \o t \in Seq(S) /\ Len(s \o t) = Len(s) + Len(t)
           /\ \A i \in 1..Len(s) : (s \o t)[i] = s[i]
           /\ \A i \in 1..Len(t) : (s \o t)[Len(s) + i] = t[i]
  OBVIOUS

\* The element of a concatenation is one of either.
LEMMA ConcatFrom ==
    ASSUME NEW S, NEW s \in Seq(S), NEW t \in Seq(S), NEW i \in DOMAIN (s \o t)
    PROVE  \/ i \in DOMAIN s /\ (s \o t)[i] = s[i]
           \/ i - Len(s) \in DOMAIN t /\ (s \o t)[i] = t[i - Len(s)]
<1>1. /\ Len(s) \in Nat /\ Len(t) \in Nat /\ DOMAIN s = 1..Len(s) /\ DOMAIN t = 1..Len(t)
      /\ s \o t \in Seq(S) /\ Len(s \o t) = Len(s) + Len(t)
      /\ \A k \in 1..Len(s) : (s \o t)[k] = s[k]
      /\ \A k \in 1..Len(t) : (s \o t)[Len(s) + k] = t[k]
  BY ConcatIs
<1>2. i \in 1..(Len(s) + Len(t))
  BY <1>1
<1>3. CASE i <= Len(s)
  BY <1>1, <1>2, <1>3
<1>4. CASE i > Len(s)
  <2>1. i - Len(s) \in 1..Len(t) /\ Len(s) + (i - Len(s)) = i
    BY <1>1, <1>2, <1>4
  <2> QED  BY <2>1, <1>1
<1> QED  BY <1>1, <1>2, <1>3, <1>4

LEMMA JoinInTurns ==
    ASSUME NEW s \in Seq(Items), NEW t \in Seq(Items), t # << >>, InTurns(t),
           \A i \in 2..Len(s) : s[i].do = "restore" <=> s[i - 1].do = "show",
           s # << >> => (t[1].do = "restore" <=> s[Len(s)].do = "show")
    PROVE  InTurns(s \o t)
<1> DEFINE a == Len(s)
           b == Len(t)
           u == s \o t
<1>1. /\ a \in Nat /\ b \in Nat /\ b >= 1 /\ Len(u) = a + b /\ (a >= 1 => s # << >>)
      /\ \A k \in 1..a : u[k] = s[k]
      /\ \A k \in 1..b : u[a + k] = t[k]
  BY ConcatIs
<1>2. u[Len(u)].do = "show"
  <2>1. t[b].do = "show" /\ b \in 1..b
    BY <1>1 DEF InTurns
  <2> HIDE DEF u, a, b
  <2> QED  BY <1>1, <2>1
<1>3. \A i \in 2..b : t[i].do = "restore" <=> t[i - 1].do = "show"
  BY DEF InTurns
<1>4. \A i \in 2..a : s[i].do = "restore" <=> s[i - 1].do = "show"
  OBVIOUS
<1>5. a >= 1 => (t[1].do = "restore" <=> s[a].do = "show")
  BY <1>1
<1> HIDE DEF u, a, b
<1>6. ASSUME NEW i \in 2..(a + b) PROVE u[i].do = "restore" <=> u[i - 1].do = "show"
  <2>1. i \in Int /\ i >= 2 /\ i <= a + b
    BY <1>1
  <2>2. CASE i <= a
    <3>1. i \in 2..a /\ i \in 1..a /\ i - 1 \in 1..a
      BY <2>1, <2>2, <1>1
    <3> QED  BY <3>1, <1>1, <1>4
  <2>3. CASE i = a + 1
    <3>1. a >= 1 /\ a \in 1..a /\ i - 1 = a /\ 1 \in 1..b
      BY <2>1, <2>3, <1>1
    <3>2. u[i] = t[1] /\ u[i - 1] = s[a]
      BY <3>1, <2>3, <1>1
    <3> QED  BY <3>1, <3>2, <1>5
  <2>4. CASE i > a + 1
    <3>1. PICK k \in Int : k = i - a
      BY <2>1, <1>1
    <3>2. k \in 2..b /\ k \in 1..b /\ k - 1 \in 1..b /\ i = a + k /\ i - 1 = a + (k - 1)
      BY <3>1, <2>1, <2>4, <1>1
    <3>3. u[i] = t[k] /\ u[i - 1] = t[k - 1]
      BY <3>2, <1>1
    <3> QED  BY <3>2, <3>3, <1>3
  <2> QED  BY <2>1, <2>2, <2>3, <2>4, <1>1
<1>7. InTurns(u)
  BY <1>1, <1>2, <1>6 DEF InTurns
<1> QED  BY <1>7 DEF u

LEMMA ItemOf ==
    ASSUME NEW what \in Dos, NEW z \in Zones
    PROVE  /\ Do(what, z) \in Items /\ Do(what, z).do = what /\ Do(what, z).zone = z
           /\ <<Do(what, z)>> \in Seq(Items) /\ Len(<<Do(what, z)>>) = 1
           /\ <<Do(what, z)>>[1] = Do(what, z)
<1>1. Do(what, z) \in Items /\ Do(what, z).do = what /\ Do(what, z).zone = z
  BY DEF Do, Items
<1>2. ASSUME NEW d \in Items  PROVE <<d>> \in Seq(Items) /\ Len(<<d>>) = 1 /\ <<d>>[1] = d
  OBVIOUS
<1> QED  BY <1>1, <1>2

LEMMA ReadIs ==
    /\ Read \in Seq(Items) /\ Read # << >> /\ Len(Read) = LastZone + 2
    /\ \A i \in 1..Len(Read) : Read[i].do = IF i = Len(Read) THEN "show" ELSE "read"
    /\ Read[1].do = "read" /\ InTurns(Read)
<1> DEFINE n == LastZone + 2
<1>1. n \in Nat /\ n >= 2
  BY LastZoneIsNat
<1>2. ASSUME NEW i \in 1..n
      PROVE  /\ (IF i = n THEN Do("show", 0) ELSE Do("read", i - 1)) \in Items
             /\ (IF i = n THEN Do("show", 0) ELSE Do("read", i - 1)).do
                    = IF i = n THEN "show" ELSE "read"
  <2>1. CASE i = n
    <3>1. 0 \in Zones /\ "show" \in Dos
      BY LastZoneIsNat DEF Zones, Dos
    <3> QED  BY <2>1, <3>1, ItemOf
  <2>2. CASE i # n
    <3>1. i - 1 \in Zones /\ "read" \in Dos
      BY LastZoneIsNat, <2>2 DEF Zones, Dos
    <3> QED  BY <2>2, <3>1, ItemOf
  <2> QED  BY <2>1, <2>2
<1>3. Read = [i \in 1..n |-> IF i = n THEN Do("show", 0) ELSE Do("read", i - 1)]
  BY DEF Read
<1> HIDE DEF n
<1>4. Read \in Seq(Items) /\ Len(Read) = n
  BY <1>1, <1>2, <1>3
<1>5. \A i \in 1..n : Read[i].do = IF i = n THEN "show" ELSE "read"
  BY <1>2, <1>3
<1>6. Read # << >> /\ Read[1].do = "read"
  BY <1>1, <1>4, <1>5
<1>7. InTurns(Read)
  <2>1. Read[n].do = "show"
    BY <1>1, <1>5
  <2>2. ASSUME NEW i \in 2..n PROVE Read[i].do # "restore" /\ Read[i - 1].do # "show"
    <3>1. i \in 1..n /\ i - 1 \in 1..n /\ i - 1 # n
      BY <1>1
    <3> QED  BY <3>1, <1>5
  <2> QED  BY <2>1, <2>2, <1>4 DEF InTurns
<1> QED  BY <1>4, <1>5, <1>6, <1>7 DEF n

\* What a restore of the zones S below n has in its plan.
Restores(p, S, n) ==
    /\ p \in Seq(Items) /\ InTurns(p) /\ (p # << >> => p[1].do = "restore")
    /\ \A i \in DOMAIN p : p[i].do # "set" /\ (p[i].do = "restore" => p[i].zone \in S)
    /\ \A z \in S : z < n => \E i \in DOMAIN p : p[i] = Do("restore", z)

LEMMA TurnIs ==
    ASSUME NEW z \in Zones
    PROVE  LET t == <<Do("restore", z)>> \o Read IN
           /\ t \in Seq(Items) /\ t # << >> /\ InTurns(t) /\ t[1] = Do("restore", z)
           /\ \A i \in DOMAIN t : t[i].do # "set" /\ (t[i].do = "restore" => t[i].zone = z)
<1> DEFINE a == <<Do("restore", z)>>
           t == a \o Read
<1>1. /\ a \in Seq(Items) /\ Len(a) = 1 /\ a[1] = Do("restore", z)
      /\ Do("restore", z).do = "restore" /\ Do("restore", z).zone = z
  BY ItemOf DEF Dos
<1>2. /\ Read \in Seq(Items) /\ Read # << >> /\ InTurns(Read) /\ Read[1].do = "read"
      /\ \A i \in DOMAIN Read : Read[i].do \in {"read", "show"}
  BY ReadIs
<1> HIDE DEF a
<1>3. t \in Seq(Items) /\ Len(t) = 1 + Len(Read) /\ t[1] = a[1]
  <2>1. /\ t \in Seq(Items) /\ Len(t) = Len(a) + Len(Read)
        /\ \A i \in 1..Len(a) : t[i] = a[i]
    <3>1. a \in Seq(Items) /\ Read \in Seq(Items)
      BY <1>1, <1>2
    <3> QED  BY <3>1, ConcatIs
  <2> QED  BY <2>1, <1>1
<1>4. InTurns(t)
  <2>1. \A i \in 2..Len(a) : a[i].do = "restore" <=> a[i - 1].do = "show"
    BY <1>1
  <2>2. Read[1].do = "restore" <=> a[Len(a)].do = "show"
    BY <1>1, <1>2
  <2> QED  BY <1>1, <1>2, <2>1, <2>2, JoinInTurns
<1>5. ASSUME NEW i \in DOMAIN t
      PROVE  t[i].do # "set" /\ (t[i].do = "restore" => t[i].zone = z)
  <2>1. CASE i \in DOMAIN a /\ t[i] = a[i]
    <3>1. i = 1
      BY <2>1, <1>1
    <3> QED  BY <3>1, <2>1, <1>1
  <2>2. CASE i - Len(a) \in DOMAIN Read /\ t[i] = Read[i - Len(a)]
    BY <2>2, <1>2
  <2> QED  BY <2>1, <2>2, <1>1, <1>2, ConcatFrom
<1>6. t # << >>
  BY <1>2, <1>3
<1> HIDE DEF t
<1>7. t \in Seq(Items) /\ t # << >> /\ InTurns(t) /\ t[1] = Do("restore", z)
  BY <1>1, <1>3, <1>4, <1>6
<1> QED  BY <1>5, <1>7 DEF t, a

LEMMA RestoresGrow ==
    ASSUME NEW S \in SUBSET Zones, NEW n \in 1..(LastZone + 1), NEW s, Restores(s, S, n - 1)
    PROVE  Restores(s \o Step("restore", S, Read, n), S, n)
<1>0. n \in Int /\ n >= 1 /\ \A z \in S : z \in Nat
  BY LastZoneIsNat DEF Zones
<1>1. CASE n - 1 \notin S
  <2>1. Step("restore", S, Read, n) = << >>
    BY <1>1 DEF Step
  <2>2. s \o << >> = s
    BY DEF Restores
  <2>3. \A z \in S : z < n => z < n - 1
    BY <1>0, <1>1
  <2>4. \A z \in S : z < n => \E i \in DOMAIN s : s[i] = Do("restore", z)
    BY <2>3 DEF Restores
  <2>5. Restores(s, S, n)
    BY <2>4 DEF Restores
  <2> QED  BY <2>1, <2>2, <2>5
<1>2. CASE n - 1 \in S
  <2> DEFINE t == <<Do("restore", n - 1)>> \o Read
             u == s \o t
  <2>1. n - 1 \in Zones /\ Step("restore", S, Read, n) = t
    BY <1>2 DEF Step
  <2>2. /\ t \in Seq(Items) /\ t # << >> /\ InTurns(t) /\ t[1] = Do("restore", n - 1)
        /\ \A i \in DOMAIN t : t[i].do # "set" /\ (t[i].do = "restore" => t[i].zone = n - 1)
        /\ t[1].do = "restore"
    <3>1. Do("restore", n - 1).do = "restore"
      BY <2>1, ItemOf DEF Dos
    <3> HIDE DEF t
    <3>2. /\ t \in Seq(Items) /\ t # << >> /\ InTurns(t) /\ t[1] = Do("restore", n - 1)
          /\ \A i \in DOMAIN t : t[i].do # "set" /\ (t[i].do = "restore" => t[i].zone = n - 1)
      BY <2>1, TurnIs DEF t
    <3> QED  BY <3>1, <3>2
  <2> HIDE DEF t
  <2>3. /\ s \in Seq(Items) /\ InTurns(s) /\ (s # << >> => s[1].do = "restore")
        /\ \A i \in DOMAIN s : s[i].do # "set" /\ (s[i].do = "restore" => s[i].zone \in S)
        /\ \A z \in S : z < n - 1 => \E i \in DOMAIN s : s[i] = Do("restore", z)
    BY DEF Restores
  <2>4. /\ u \in Seq(Items) /\ Len(u) = Len(s) + Len(t)
        /\ \A i \in 1..Len(s) : u[i] = s[i]
        /\ \A i \in 1..Len(t) : u[Len(s) + i] = t[i]
    BY <2>2, <2>3, ConcatIs
  <2>5. InTurns(u)
    <3>1. \A i \in 2..Len(s) : s[i].do = "restore" <=> s[i - 1].do = "show"
      BY <2>3 DEF InTurns
    <3>2. s # << >> => (t[1].do = "restore" <=> s[Len(s)].do = "show")
      BY <2>2, <2>3 DEF InTurns
    <3> QED  BY <2>2, <2>3, <3>1, <3>2, JoinInTurns
  <2>6. \A i \in DOMAIN u : u[i].do # "set" /\ (u[i].do = "restore" => u[i].zone \in S)
    <3> SUFFICES ASSUME NEW i \in DOMAIN u
                 PROVE  u[i].do # "set" /\ (u[i].do = "restore" => u[i].zone \in S)
      OBVIOUS
    <3>1. CASE i \in DOMAIN s /\ u[i] = s[i]
      BY <3>1, <2>3
    <3>2. CASE i - Len(s) \in DOMAIN t /\ u[i] = t[i - Len(s)]
      BY <3>2, <2>2, <1>2
    <3> QED  BY <3>1, <3>2, <2>2, <2>3, ConcatFrom
  <2> HIDE DEF u
  <2>7. u[1].do = "restore"
    <3>1. CASE s = << >>
      <4>1. Len(s) = 0 /\ 1 \in 1..Len(t)
        BY <3>1, <2>2
      <4> QED  BY <4>1, <2>2, <2>4
    <3>2. CASE s # << >>
      <4>1. 1 \in 1..Len(s)
        BY <3>2, <2>3
      <4> QED  BY <4>1, <3>2, <2>3, <2>4
    <3> QED  BY <3>1, <3>2
  <2>8. \A z \in S : z < n => \E i \in DOMAIN u : u[i] = Do("restore", z)
    <3> SUFFICES ASSUME NEW z \in S, z < n
                 PROVE  \E i \in DOMAIN u : u[i] = Do("restore", z)
      OBVIOUS
    <3>0. /\ Len(s) \in Nat /\ Len(t) \in Nat /\ Len(t) >= 1 /\ DOMAIN u = 1..(Len(s) + Len(t))
          /\ DOMAIN s = 1..Len(s)
      BY <2>2, <2>3, <2>4
    <3>1. CASE z = n - 1
      <4>1. Len(s) + 1 \in DOMAIN u /\ 1 \in 1..Len(t)
        BY <3>0
      <4> QED  BY <4>1, <3>1, <2>2, <2>4
    <3>2. CASE z # n - 1
      <4>1. z < n - 1
        BY <1>0, <3>2
      <4>2. PICK i \in DOMAIN s : s[i] = Do("restore", z)
        BY <4>1, <2>3
      <4>3. i \in DOMAIN u /\ u[i] = s[i]
        BY <3>0, <2>4
      <4> QED  BY <4>2, <4>3
    <3> QED  BY <3>1, <3>2
  <2>9. Restores(u, S, n)
    BY <2>4, <2>5, <2>6, <2>7, <2>8 DEF Restores
  <2> QED  BY <2>1, <2>9 DEF u
<1> QED  BY <1>1, <1>2

LEMMA RestorePlan ==
    ASSUME NEW S \in SUBSET Zones
    PROVE  Restores(InOrder("restore", S, Read), S, LastZone + 1)
<1>1. PICK f : /\ InOrder("restore", S, Read) = f[LastZone + 1]
               /\ LaysOut(f, "restore", S, Read, LastZone + 1)
  BY InOrderIs
<1> DEFINE T == {n \in 0..(LastZone + 1) : ~ Restores(f[n], S, n)}
<1>2. T = {}
  <2> SUFFICES ASSUME T # {} PROVE FALSE
    OBVIOUS
  <2>1. T \in SUBSET Nat
    BY LastZoneIsNat
  <2>2. PICK m \in T : \A k \in T : m <= k
    <3> HIDE DEF T
    <3> QED  BY <2>1, LeastOf
  <2>3. m # 0
    <3>1. << >> \in Seq(Items) /\ Len(<< >>) = 0 /\ DOMAIN << >> = {}
      OBVIOUS
    <3>2. \A z \in S : ~ (z < 0)
      BY DEF Zones
    <3>3. Restores(<< >>, S, 0)
      BY <3>1, <3>2 DEF Restores, InTurns
    <3>4. f[0] = << >>
      BY <1>1 DEF LaysOut
    <3> QED  BY <3>3, <3>4
  <2>4. m \in 1..(LastZone + 1) /\ m - 1 \in 0..(LastZone + 1) /\ m - 1 \notin T
    BY <2>2, <2>3, LastZoneIsNat
  <2>5. Restores(f[m - 1], S, m - 1)
    BY <2>4
  <2>6. f[m] = f[m - 1] \o Step("restore", S, Read, m)
    BY <2>4, <1>1 DEF LaysOut
  <2>7. Restores(f[m], S, m)
    BY <2>4, <2>5, <2>6, RestoresGrow
  <2> QED  BY <2>2, <2>7
<1> QED  BY <1>1, <1>2, LastZoneIsNat

Sets(p) == p \in Seq(Items) /\ \A i \in DOMAIN p : p[i].do = "set"

LEMMA SetPlan ==
    ASSUME NEW S \in SUBSET Zones
    PROVE  Sets(InOrder("set", S, << >>))
<1>1. PICK f : /\ InOrder("set", S, << >>) = f[LastZone + 1]
               /\ LaysOut(f, "set", S, << >>, LastZone + 1)
  BY InOrderIs
<1> DEFINE T == {n \in 0..(LastZone + 1) : ~ Sets(f[n])}
<1>2. T = {}
  <2> SUFFICES ASSUME T # {} PROVE FALSE
    OBVIOUS
  <2>1. T \in SUBSET Nat
    BY LastZoneIsNat
  <2>2. PICK m \in T : \A k \in T : m <= k
    <3> HIDE DEF T
    <3> QED  BY <2>1, LeastOf
  <2>3. m # 0
    <3>1. f[0] = << >>
      BY <1>1 DEF LaysOut
    <3>2. Sets(<< >>)
      BY DEF Sets
    <3> QED  BY <3>1, <3>2
  <2>4. m \in 1..(LastZone + 1) /\ m - 1 \in 0..(LastZone + 1) /\ m - 1 \notin T
    BY <2>2, <2>3, LastZoneIsNat
  <2>5. Sets(f[m - 1])
    BY <2>4
  <2>6. f[m] = f[m - 1] \o Step("set", S, << >>, m)
    BY <2>4, <1>1 DEF LaysOut
  <2>7. Sets(Step("set", S, << >>, m))
    <3>1. CASE m - 1 \in S
      <4> DEFINE d == <<Do("set", m - 1)>>
      <4>1. /\ d \in Seq(Items) /\ Len(d) = 1 /\ d[1].do = "set"
        BY <3>1, ItemOf DEF Dos
      <4> HIDE DEF d
      <4>2. d \o << >> = d
        BY <4>1
      <4>3. Sets(d)
        BY <4>1 DEF Sets
      <4> QED  BY <3>1, <4>2, <4>3 DEF Step, d
    <3>2. CASE m - 1 \notin S
      BY <3>2 DEF Step, Sets
    <3> QED  BY <3>1, <3>2
  <2>8. Sets(f[m])
    <3> DEFINE a == f[m - 1]
               b == Step("set", S, << >>, m)
    <3>1. Sets(a) /\ Sets(b)
      BY <2>5, <2>7
    <3> HIDE DEF a, b
    <3>2. a \o b \in Seq(Items) /\ \A i \in DOMAIN (a \o b) : (a \o b)[i].do = "set"
      BY <3>1, ConcatIs, ConcatFrom DEF Sets
    <3> QED  BY <3>2, <2>6 DEF Sets, a, b
  <2> QED  BY <2>2, <2>8
<1> QED  BY <1>1, <1>2, LastZoneIsNat

\* The plans that jobs start with.
Plan(p) == p \in Seq(Items) /\ p # << >> /\ p[1].do # "show" /\ InTurns(p)

LEMMA SetsThenRead ==
    ASSUME NEW s, Sets(s)
    PROVE  /\ Plan(s \o Read)
           /\ \A i \in DOMAIN (s \o Read) : (s \o Read)[i].do # "restore"
<1> DEFINE u == s \o Read
<1>1. /\ s \in Seq(Items) /\ Len(s) \in Nat /\ DOMAIN s = 1..Len(s)
      /\ \A i \in 1..Len(s) : s[i].do = "set"
  BY DEF Sets
<1>2. /\ u \in Seq(Items) /\ Len(u) = Len(s) + Len(Read)
      /\ \A i \in 1..Len(s) : u[i] = s[i]
      /\ \A i \in 1..Len(Read) : u[Len(s) + i] = Read[i]
  BY <1>1, ReadIs, ConcatIs
<1>3. InTurns(u)
  <2>1. \A i \in 2..Len(s) : s[i].do = "restore" <=> s[i - 1].do = "show"
    <3> SUFFICES ASSUME NEW i \in 2..Len(s)
                 PROVE  s[i].do = "restore" <=> s[i - 1].do = "show"
      OBVIOUS
    <3>1. i \in 1..Len(s) /\ i - 1 \in 1..Len(s)
      BY <1>1
    <3> QED  BY <3>1, <1>1
  <2>2. s # << >> => (Read[1].do = "restore" <=> s[Len(s)].do = "show")
    <3>1. s # << >> => Len(s) \in 1..Len(s)
      BY <1>1
    <3> QED  BY <3>1, <1>1, ReadIs
  <2> QED  BY <1>1, <2>1, <2>2, ReadIs, JoinInTurns
<1>4. u # << >> /\ u[1].do # "show"
  <2>1. CASE s = << >>
    <3>1. Len(s) = 0 /\ 1 \in 1..Len(Read)
      BY <2>1, ReadIs
    <3> QED  BY <3>1, <1>2, ReadIs
  <2>2. CASE s # << >>
    <3>1. 1 \in 1..Len(s)
      BY <2>2, <1>1
    <3> QED  BY <3>1, <1>1, <1>2, ReadIs
  <2> QED  BY <2>1, <2>2
<1>5. ASSUME NEW i \in DOMAIN u  PROVE u[i].do # "restore"
  <2>1. CASE i \in DOMAIN s /\ u[i] = s[i]
    BY <2>1, <1>1
  <2>2. CASE i - Len(s) \in DOMAIN Read /\ u[i] = Read[i - Len(s)]
    BY <2>2, ReadIs
  <2> QED  BY <2>1, <2>2, <1>1, ReadIs, ConcatFrom
<1> QED  BY <1>2, <1>3, <1>4, <1>5 DEF Plan

-----------------------------------------------------------------------------
\* What is left of a plan.

Suffix(q, p, m) ==
    /\ m \in 0..Len(p) /\ q \in Seq(Items) /\ Len(q) = Len(p) - m
    /\ \A i \in 1..Len(q) : q[i] = p[i + m]

LEMMA SubSeqIs ==
    ASSUME NEW p \in Seq(Items), NEW m \in 0..Len(p)
    PROVE  Suffix(SubSeq(p, m + 1, Len(p)), p, m)
<1> DEFINE q == SubSeq(p, m + 1, Len(p))
<1>1. m \in Nat /\ Len(p) \in Nat /\ m <= Len(p)
  OBVIOUS
<1>2. q = [i \in 1..(Len(p) - m) |-> p[i + m]]
  <2>1. Len(p) - (m + 1) + 1 = Len(p) - m /\ \A i \in 1..(Len(p) - m) : m + 1 + i - 1 = i + m
    BY <1>1
  <2> QED  BY <2>1, <1>1
<1>3. \A i \in 1..(Len(p) - m) : p[i + m] \in Items
  <2>1. \A i \in 1..(Len(p) - m) : i + m \in 1..Len(p)
    BY <1>1
  <2> QED  BY <2>1
<1>4. q \in Seq(Items) /\ Len(q) = Len(p) - m
  BY <1>1, <1>2, <1>3
<1> QED  BY <1>1, <1>2, <1>4 DEF Suffix

LEMMA TailIs ==
    ASSUME NEW p \in Seq(Items), p # << >>
    PROVE  Suffix(Tail(p), p, 1) /\ Head(p) = p[1]
  BY DEF Suffix

LEMMA SuffixOfSuffix ==
    ASSUME NEW p, NEW q, NEW r, NEW m, NEW n, Len(p) \in Nat, Suffix(q, p, m), Suffix(r, q, n)
    PROVE  Suffix(r, p, m + n)
<1>1. /\ m \in Int /\ n \in Int /\ 0 <= m /\ 0 <= n /\ m <= Len(p) /\ n <= Len(q)
      /\ Len(q) = Len(p) - m /\ Len(r) = Len(q) - n
  BY DEF Suffix
<1>2. m + n \in 0..Len(p) /\ Len(r) = Len(p) - (m + n)
  BY <1>1
<1>3. ASSUME NEW i \in 1..Len(r) PROVE r[i] = p[i + (m + n)]
  <2>1. i + n \in 1..Len(q) /\ (i + n) + m = i + (m + n)
    BY <1>1
  <2> QED  BY <2>1 DEF Suffix
<1> QED  BY <1>2, <1>3 DEF Suffix

LEMMA SuffixInTurns ==
    ASSUME NEW p \in Seq(Items), NEW q, NEW m, Suffix(q, p, m), InTurns(p)
    PROVE  /\ InTurns(q) /\ \A i \in DOMAIN q : \E k \in DOMAIN p : q[i] = p[k]
           /\ q # << >> => m + 1 \in DOMAIN p /\ q[1] = p[m + 1]
<1>1. /\ m \in Int /\ 0 <= m /\ m <= Len(p) /\ Len(p) \in Nat /\ Len(q) = Len(p) - m
      /\ DOMAIN q = 1..Len(q) /\ DOMAIN p = 1..Len(p)
      /\ \A i \in 1..Len(q) : q[i] = p[i + m]
      /\ q # << >> <=> Len(q) >= 1
  BY DEF Suffix
<1>2. \A i \in 1..Len(q) : i + m \in 1..Len(p)
  BY <1>1
<1>3. \A i \in DOMAIN q : \E k \in DOMAIN p : q[i] = p[k]
  BY <1>1, <1>2
<1>4. q # << >> => m + 1 \in DOMAIN p /\ q[1] = p[m + 1]
  <2> SUFFICES ASSUME Len(q) >= 1  PROVE m + 1 \in DOMAIN p /\ q[1] = p[m + 1]
    BY <1>1
  <2>1. 1 \in 1..Len(q) /\ 1 + m = m + 1
    BY <1>1
  <2> QED  BY <2>1, <1>1, <1>2
<1>5. InTurns(q)
  <2>1. q # << >> => q[Len(q)].do = "show"
    <3> SUFFICES ASSUME q # << >>  PROVE q[Len(q)].do = "show"
      OBVIOUS
    <3>1. Len(q) \in 1..Len(q) /\ Len(q) + m = Len(p) /\ p # << >>
      BY <1>1
    <3> QED  BY <3>1, <1>1 DEF InTurns
  <2>2. ASSUME NEW i \in 2..Len(q) PROVE q[i].do = "restore" <=> q[i - 1].do = "show"
    <3>1. /\ i \in 1..Len(q) /\ i - 1 \in 1..Len(q) /\ i + m \in 2..Len(p)
          /\ (i - 1) + m = (i + m) - 1
      BY <1>1
    <3>2. q[i] = p[i + m] /\ q[i - 1] = p[(i + m) - 1]
      BY <3>1, <1>1
    <3> QED  BY <3>1, <3>2 DEF InTurns
  <2> QED  BY <2>1, <2>2 DEF InTurns
<1> QED  BY <1>3, <1>4, <1>5

LEMMA BehindShowIs ==
    ASSUME NEW p, Plan(p)
    PROVE  \E m \in 2..Len(p) :
              /\ p[m].do = "show" /\ (\A k \in 1..(m - 1) : p[k].do # "show")
              /\ Suffix(BehindShow(p), p, m)
<1> DEFINE shows == {i \in DOMAIN p : p[i].do = "show"}
           m == CHOOSE i \in shows : \A k \in shows : i <= k
<1>1. p \in Seq(Items) /\ Len(p) \in Nat /\ Len(p) >= 1 /\ DOMAIN p = 1..Len(p)
  BY DEF Plan
<1>2. shows \in SUBSET Nat /\ shows # {}
  <2>1. Len(p) \in shows
    BY <1>1 DEF Plan, InTurns
  <2> QED  BY <2>1, <1>1
<1>3. \E i \in shows : \A k \in shows : i <= k
  <2> HIDE DEF shows
  <2> QED  BY <1>2, LeastOf
<1>4. m \in shows /\ \A k \in shows : m <= k
  BY <1>3
<1>5. BehindShow(p) = SubSeq(p, m + 1, Len(p))
  BY DEF BehindShow
<1> HIDE DEF m
<1>6. m \in 1..Len(p) /\ m # 1 /\ p[m].do = "show"
  BY <1>1, <1>4 DEF Plan
<1>7. m \in 2..Len(p) /\ m \in 0..Len(p)
  BY <1>1, <1>6
<1>8. ASSUME NEW k \in 1..(m - 1) PROVE p[k].do # "show"
  <2>1. k \in DOMAIN p /\ ~ (m <= k)
    BY <1>1, <1>7
  <2> QED  BY <2>1, <1>4
<1>9. Suffix(BehindShow(p), p, m)
  BY <1>1, <1>5, <1>7, SubSeqIs
<1> QED  BY <1>6, <1>7, <1>8, <1>9

NextPlan(j) ==
    IF Rest(j) # << >> /\ Head(Rest(j)).do = "show" THEN Tail(Rest(j)) ELSE Rest(j)

\* It is a plan, or done, and a restore only loses what it has had answered.
LEMMA NextPlanIs ==
    ASSUME FanTypeOK, PlanInv, NEW j \in Jobs, job[j].answer # NONE
    PROVE  LET p == job[j].plan
               q == NextPlan(j)
           IN  /\ q \in Seq(Items) /\ (q # << >> => Plan(q))
               /\ \A i \in DOMAIN q : \E k \in DOMAIN p : q[i] = p[k]
               /\ job[j].kind = "restore" =>
                     \A k \in DOMAIN p : k # 1 /\ p[k].do = "restore" =>
                        \E i \in DOMAIN q : q[i] = p[k]
<1> DEFINE p == job[j].plan
           q == NextPlan(j)
           r == Rest(j)
           n == Len(p)
<1>1. /\ Plan(p) /\ n \in Nat /\ n >= 1 /\ DOMAIN p = 1..n /\ p \in Seq(Items) /\ p # << >>
      /\ \A i \in 2..n : p[i].do = "restore" <=> p[i - 1].do = "show"
  <2>0. job[j] \in JobStates
    BY DEF FanTypeOK
  <2>1. job[j].kind # "none" /\ p \in Seq(Items)
    BY <2>0 DEF PlanInv, JobStates
  <2>2. Plan(p)
    BY <2>1 DEF PlanInv, Plan
  <2> QED  BY <2>1, <2>2 DEF Plan, InTurns
<1>2. CASE job[j].answer = "failed" /\ p[1].do = "set"
  <2>1. Head(p) = p[1]
    BY <1>1
  <2>2. r = << >>
    BY <1>2, <2>1 DEF Rest
  <2>3. q = << >> /\ << >> \in Seq(Items) /\ DOMAIN << >> = {}
    BY <2>2 DEF NextPlan
  <2>4. job[j].kind # "restore"
    BY <1>1, <1>2 DEF PlanInv
  <2> HIDE DEF q
  <2> QED  BY <2>3, <2>4 DEF q
\* It goes on behind the place m.
<1>3. ASSUME NEW m, Suffix(q, p, m), m >= 1, m + 1 \in 1..n => p[m + 1].do # "show",
             \A k \in 2..m : p[k].do # "restore"
      PROVE  /\ q \in Seq(Items) /\ (q # << >> => Plan(q))
             /\ \A i \in DOMAIN q : \E k \in DOMAIN p : q[i] = p[k]
             /\ \A k \in DOMAIN p : k # 1 /\ p[k].do = "restore" =>
                   \E i \in DOMAIN q : q[i] = p[k]
  <2>1. /\ InTurns(q) /\ \A i \in DOMAIN q : \E k \in DOMAIN p : q[i] = p[k]
        /\ q # << >> => m + 1 \in DOMAIN p /\ q[1] = p[m + 1]
    <3>1. p \in Seq(Items) /\ InTurns(p) /\ Suffix(q, p, m)
      BY <1>1, <1>3 DEF Plan
    <3> HIDE DEF p, q
    <3> QED  BY <3>1, SuffixInTurns
  <2>2. /\ q \in Seq(Items) /\ Len(q) = n - m /\ m \in Int /\ m <= n /\ DOMAIN q = 1..Len(q)
        /\ \A i \in 1..Len(q) : q[i] = p[i + m]
    BY <1>3, <1>1 DEF Suffix
  <2> HIDE DEF q, p, n
  <2>3. ASSUME NEW k \in DOMAIN p, k # 1, p[k].do = "restore"
        PROVE  \E i \in DOMAIN q : q[i] = p[k]
    <3>1. k \in 1..n /\ k > m
      BY <1>1, <1>3, <2>2, <2>3
    <3>2. k - m \in DOMAIN q /\ (k - m) + m = k
      BY <1>1, <2>2, <3>1
    <3> QED  BY <3>2, <2>2
  <2> QED  BY <1>1, <1>3, <2>1, <2>2, <2>3 DEF Plan
\* The answer was used: behind the head, and behind a show that follows it.
<1>4. CASE job[j].answer # "failed"
  <2>1. r = Tail(p) /\ Suffix(r, p, 1) /\ r \in Seq(Items)
    BY <1>1, <1>4, TailIs DEF Rest, Suffix
  <2>2. r # << >> => 2 \in 1..n /\ r[1] = p[2] /\ Head(r) = r[1]
    <3>1. r # << >> => 1 + 1 \in DOMAIN p /\ r[1] = p[1 + 1]
      BY <1>1, <2>1, SuffixInTurns DEF Plan
    <3>2. r # << >> => Head(r) = r[1]
      BY <2>1, TailIs
    <3> QED  BY <3>1, <3>2, <1>1
  <2>3. CASE r # << >> /\ Head(r).do = "show"
    <3>1. q = Tail(r)
      BY <2>3 DEF NextPlan
    <3>2. Suffix(q, p, 2)
      <4>1. Suffix(q, r, 1)
        BY <2>1, <2>3, <3>1, TailIs
      <4>2. Suffix(q, p, 1 + 1)
        BY <1>1, <2>1, <4>1, SuffixOfSuffix
      <4> QED  BY <4>2
    <3>3. p[2].do = "show"
      BY <2>2, <2>3
    <3>4. 2 + 1 \in 1..n => p[2 + 1].do # "show"
      <4> SUFFICES ASSUME 3 \in 1..n  PROVE p[3].do # "show"
        OBVIOUS
      <4>1. 3 \in 2..n /\ 3 - 1 = 2
        BY <1>1
      <4>2. p[3].do = "restore"
        BY <4>1, <3>3, <1>1
      <4> QED  BY <4>2
    <3>5. \A k \in 2..2 : p[k].do # "restore"
      BY <3>3
    <3>6. 2 >= 1
      OBVIOUS
    <3> HIDE DEF q, p, n, r
    <3>7. /\ q \in Seq(Items) /\ (q # << >> => Plan(q))
          /\ \A i \in DOMAIN q : \E k \in DOMAIN p : q[i] = p[k]
          /\ \A k \in DOMAIN p : k # 1 /\ p[k].do = "restore" =>
                   \E i \in DOMAIN q : q[i] = p[k]
      BY <3>2, <3>4, <3>5, <3>6, <1>3
    <3> QED  BY <3>7 DEF q, p
  <2>4. CASE ~ (r # << >> /\ Head(r).do = "show")
    <3>1. q = r
      BY <2>4 DEF NextPlan
    <3>2. Suffix(q, p, 1)
      BY <2>1, <3>1
    <3>3. 1 + 1 \in 1..n => p[1 + 1].do # "show"
      <4> SUFFICES ASSUME 2 \in 1..n  PROVE p[2].do # "show"
        OBVIOUS
      <4>1. Len(r) = n - 1
        BY <2>1 DEF Suffix
      <4>2. r # << >>
        <5>1. Len(r) # 0
          BY <4>1, <1>1
        <5> HIDE DEF r
        <5>2. r = << >> => Len(r) = 0
          OBVIOUS
        <5> QED  BY <5>1, <5>2
      <4> QED  BY <4>2, <2>2, <2>4
    <3>4. \A k \in 2..1 : p[k].do # "restore"
      OBVIOUS
    <3>5. 1 >= 1
      OBVIOUS
    <3> HIDE DEF q, p, n, r
    <3>6. /\ q \in Seq(Items) /\ (q # << >> => Plan(q))
          /\ \A i \in DOMAIN q : \E k \in DOMAIN p : q[i] = p[k]
          /\ \A k \in DOMAIN p : k # 1 /\ p[k].do = "restore" =>
                   \E i \in DOMAIN q : q[i] = p[k]
      BY <3>2, <3>3, <3>4, <3>5, <1>3
    <3> QED  BY <3>6 DEF q, p
  <2> QED  BY <2>3, <2>4
\* guard() took what was thrown: behind the next show.
<1>5. CASE job[j].answer = "failed" /\ p[1].do # "set"
  <2>1. Head(p) = p[1]
    BY <1>1
  <2>2. r = BehindShow(p)
    BY <1>5, <2>1 DEF Rest
  <2>3. PICK m \in 2..n : /\ p[m].do = "show" /\ (\A k \in 1..(m - 1) : p[k].do # "show")
                          /\ Suffix(r, p, m)
    BY <1>1, <2>2, BehindShowIs
  <2>4. m + 1 \in 1..n => p[m + 1].do = "restore"
    <3> SUFFICES ASSUME m + 1 \in 1..n  PROVE p[m + 1].do = "restore"
      OBVIOUS
    <3>1. m + 1 \in 2..n /\ (m + 1) - 1 = m
      BY <1>1, <2>3
    <3> QED  BY <3>1, <2>3, <1>1
  <2>5. ~ (r # << >> /\ Head(r).do = "show")
    <3> SUFFICES ASSUME r # << >>  PROVE Head(r).do # "show"
      OBVIOUS
    <3>1. m + 1 \in DOMAIN p /\ r[1] = p[m + 1] /\ r \in Seq(Items)
      BY <1>1, <2>3, SuffixInTurns DEF Plan, Suffix
    <3>2. Head(r) = r[1]
      BY <3>1, TailIs
    <3> QED  BY <3>1, <3>2, <2>4, <1>1
  <2>6. q = r
    BY <2>5 DEF NextPlan
  <2>7. \A k \in 2..m : p[k].do # "restore"
    <3> SUFFICES ASSUME NEW k \in 2..m  PROVE p[k].do # "restore"
      OBVIOUS
    <3>1. k \in 2..n /\ k - 1 \in 1..(m - 1)
      BY <1>1, <2>3
    <3> QED  BY <3>1, <2>3, <1>1
  <2>8. m >= 1 /\ (m + 1 \in 1..n => p[m + 1].do # "show") /\ Suffix(q, p, m)
    BY <2>3, <2>4, <2>6, <1>1
  <2> HIDE DEF q, p, n, r
  <2>9. /\ q \in Seq(Items) /\ (q # << >> => Plan(q))
        /\ \A i \in DOMAIN q : \E k \in DOMAIN p : q[i] = p[k]
        /\ \A k \in DOMAIN p : k # 1 /\ p[k].do = "restore" =>
                 \E i \in DOMAIN q : q[i] = p[k]
    BY <2>7, <2>8, <1>3
  <2> QED  BY <2>9 DEF q, p
<1> QED  BY <1>2, <1>4, <1>5

-----------------------------------------------------------------------------
\* What the page's jobs do.

LEMMA FanInitInv == FanInit => FanInv
<1> SUFFICES ASSUME FanInit PROVE FanInv
  OBVIOUS
<1>1. Nothing \in [Zones -> Tables] /\ \A z \in Zones : Nothing[z] = NONE
  BY DEF Nothing, Tables
<1>2. /\ NoJob \in JobStates /\ NoJob.kind = "none" /\ NoJob.plan = << >>
      /\ NoJob.answer = NONE
  BY <1>1 DEF NoJob, JobStates
<1>3. job = [j \in Jobs |-> NoJob] /\ chain = << >>
  BY DEF FanInit
<1>4. FanTypeOK
  BY <1>1, <1>2 DEF FanInit, FanTypeOK
<1>5. BaseInv /\ ChainInv
  BY <1>1, <1>3 DEF FanInit, BaseInv, ChainInv
<1>6. PlanInv
  BY <1>2, <1>3 DEF PlanInv
<1>7. RestoreInv
  BY <1>2, <1>3 DEF RestoreInv
<1> QED  BY <1>4, <1>5, <1>6, <1>7 DEF FanInv

LEMMA RequestIs ==
    ASSUME FanTypeOK, BaseInv, NEW j \in Jobs, NEW d \in Items, NEW deg,
           d.do = "set" => deg \in Setpoints, d.do = "restore" => fanBaseTable[d.zone] # NONE
    PROVE  LET r == Request(j, d, deg) IN
           /\ r \in Requests /\ r.job = j /\ r.do = d.do /\ r.zone = d.zone
           /\ d.do = "set" => r.table \in Setpoints
           /\ d.do = "restore" => r.table = FanFactory[d.zone]
<1> DEFINE r == Request(j, d, deg)
<1>1. r.job = j /\ r.do = d.do /\ r.zone = d.zone /\ r.table = Carries(d, deg)
  BY DEF Request
<1>2. d.do \in Dos /\ d.zone \in Zones
  BY DEF Items
<1>3. d.do = "set" => Carries(d, deg) \in Setpoints
  BY DEF Carries
<1>4. d.do = "restore" => Carries(d, deg) = fanBaseTable[d.zone]
  BY DEF Carries
<1>5. d.do \notin {"set", "restore"} => Carries(d, deg) = NONE
  BY DEF Carries
<1>6. Carries(d, deg) \in Tables
  BY <1>2, <1>3, <1>4, <1>5 DEF FanTypeOK, Tables
<1>7. r \in Requests
  BY <1>2, <1>6 DEF Request, Requests
<1>8. d.do = "restore" => Carries(d, deg) = FanFactory[d.zone]
  BY <1>2, <1>4 DEF BaseInv
<1> QED  BY <1>1, <1>3, <1>7, <1>8

\* A job that begins, goes on or ends.
LEMMA JobStep ==
    ASSUME FanInv, NEW j \in Jobs, NEW rec \in JobStates, job' = [job EXCEPT ![j] = rec],
           \A i \in DOMAIN chain : chain[i].job # j,
           UNCHANGED <<own, dev>>, fanZones' \in [Zones -> Tables],
           fanBaseTable' \in [Zones -> Tables], BaseInv',
           \A z \in Zones : fanBaseTable[z] # NONE => fanBaseTable'[z] # NONE,
           rec.kind = "none" => rec.answer = NONE,
           rec.kind # "none" => Plan(rec.plan),
           \A i \in DOMAIN rec.plan : rec.plan[i].do = "restore"
                                        => fanBaseTable[rec.plan[i].zone] # NONE,
           rec.kind = "restore" => \A i \in DOMAIN rec.plan : rec.plan[i].do # "set",
           rec.kind = "restore" /\ own = FanFactory =>
              \A z \in Zones \ rec.excused :
                 \/ dev[z] = FanFactory[z]
                 \/ \E i \in DOMAIN rec.plan :
                       rec.plan[i] = Do("restore", z) /\ (i = 1 => rec.answer = NONE),
           \/ chain' = chain
           \/ /\ rec.kind # "none" /\ rec.answer = NONE
              /\ \E deg : /\ rec.plan[1].do = "set" => deg \in Setpoints
                          /\ chain' = Append(chain, Request(j, rec.plan[1], deg))
    PROVE  FanInv'
<1> USE DEF FanInv
<1>0. /\ job'[j] = rec /\ \A k \in Jobs : k # j => job'[k] = job[k]
      /\ job' \in [Jobs -> JobStates]
  BY DEF FanTypeOK
<1>00. ASSUME NEW s \in JobStates  PROVE \A i \in DOMAIN s.plan : s.plan[i].zone \in Zones
  <2>1. s.plan \in Seq(Items)
    BY DEF JobStates
  <2>2. \A i \in DOMAIN s.plan : s.plan[i] \in Items
    BY <2>1
  <2> QED  BY <2>2 DEF Items
<1>000. \A k \in Jobs : job[k] \in JobStates
  BY DEF FanTypeOK
<1>1. PlanInv'
  <2> SUFFICES ASSUME NEW k \in Jobs
               PROVE  LET p == job'[k].plan IN
                      /\ job'[k].kind = "none" => job'[k].answer = NONE
                      /\ job'[k].kind # "none" => p # << >> /\ p[1].do # "show" /\ InTurns(p)
                      /\ \A i \in DOMAIN p : p[i].do = "restore" => fanBaseTable'[p[i].zone] # NONE
                      /\ job'[k].kind = "restore" => \A i \in DOMAIN p : p[i].do # "set"
    BY DEF PlanInv
  <2>1. CASE k = j
    <3>1. \A i \in DOMAIN rec.plan : rec.plan[i].zone \in Zones
      BY <1>00
    <3> QED  BY <2>1, <3>1, <1>0 DEF Plan
  <2>2. CASE k # j
    <3>1. \A i \in DOMAIN job[k].plan : job[k].plan[i].zone \in Zones
      BY <1>00, <1>000
    <3> QED  BY <2>2, <3>1, <1>0 DEF PlanInv
  <2> QED  BY <2>1, <2>2
<1>2. RestoreInv'
  <2> SUFFICES ASSUME own = FanFactory, NEW k \in Jobs, job'[k].kind = "restore",
                      NEW z \in Zones \ job'[k].excused
               PROVE  dev[z] = FanFactory[z] \/ ToDo(k, z)'
    BY DEF RestoreInv
  <2>1. CASE k = j
    BY <2>1, <1>0 DEF ToDo
  <2>2. CASE k # j
    BY <2>2, <1>0 DEF ToDo, RestoreInv
  <2> QED  BY <2>1, <2>2
\* The requests that wait are of other jobs.
<1>3. \A i \in DOMAIN chain :
         LET r == chain[i] IN
         /\ job'[r.job].kind # "none" /\ job'[r.job].answer = NONE
         /\ r.do = job'[r.job].plan[1].do /\ r.zone = job'[r.job].plan[1].zone
         /\ r.do = "set" => r.table \in Setpoints
         /\ r.do = "restore" => r.table = FanFactory[r.zone]
  <2> SUFFICES ASSUME NEW i \in DOMAIN chain
               PROVE  LET r == chain[i] IN
                      /\ job'[r.job].kind # "none" /\ job'[r.job].answer = NONE
                      /\ r.do = job'[r.job].plan[1].do /\ r.zone = job'[r.job].plan[1].zone
                      /\ r.do = "set" => r.table \in Setpoints
                      /\ r.do = "restore" => r.table = FanFactory[r.zone]
    OBVIOUS
  <2>1. chain[i].job \in Jobs /\ chain[i].job # j
    <3>1. chain \in Seq(Requests)
      BY DEF FanTypeOK
    <3>2. chain[i] \in Requests
      BY <3>1
    <3> QED  BY <3>2 DEF Requests
  <2>2. job'[chain[i].job] = job[chain[i].job]
    BY <2>1, <1>0
  <2> QED  BY <2>2 DEF ChainInv
<1>4. \A i, k \in DOMAIN chain : chain[i].job = chain[k].job => i = k
  BY DEF ChainInv
<1>5. CASE chain' = chain
  <2>1. ChainInv'
    BY <1>3, <1>4, <1>5 DEF ChainInv
  <2>2. FanTypeOK'
    BY <1>0, <1>5 DEF FanTypeOK
  <2> QED  BY <2>1, <2>2, <1>1, <1>2
<1>6. ASSUME NEW deg, rec.kind # "none", rec.answer = NONE,
             rec.plan[1].do = "set" => deg \in Setpoints,
             chain' = Append(chain, Request(j, rec.plan[1], deg))
      PROVE  FanInv'
  <2> DEFINE n == Len(chain)
             r == Request(j, rec.plan[1], deg)
  <2>1. rec.plan[1] \in Items /\ 1 \in DOMAIN rec.plan
    BY <1>6 DEF Plan
  <2>2. /\ r \in Requests /\ r.job = j /\ r.do = rec.plan[1].do /\ r.zone = rec.plan[1].zone
        /\ rec.plan[1].do = "set" => r.table \in Setpoints
        /\ rec.plan[1].do = "restore" => r.table = FanFactory[r.zone]
    BY <1>6, <2>1, RequestIs
  <2> HIDE DEF r
  <2>3. /\ chain \in Seq(Requests) /\ n \in Nat /\ DOMAIN chain = 1..n
        /\ chain' \in Seq(Requests) /\ DOMAIN chain' = 1..(n + 1) /\ chain'[n + 1] = r
        /\ \A i \in 1..n : chain'[i] = chain[i]
    <3>1. chain \in Seq(Requests) /\ chain' = Append(chain, r)
      BY <1>6 DEF FanTypeOK, r
    <3> QED  BY <2>2, <3>1
  <2>4. FanTypeOK'
    BY <1>0, <2>3 DEF FanTypeOK
  <2>5. \A i \in DOMAIN chain' : (i \in DOMAIN chain /\ chain'[i] = chain[i]) \/ i = n + 1
    BY <2>3
  <2>6. \A i \in DOMAIN chain' :
           LET q == chain'[i] IN
           /\ job'[q.job].kind # "none" /\ job'[q.job].answer = NONE
           /\ q.do = job'[q.job].plan[1].do /\ q.zone = job'[q.job].plan[1].zone
           /\ q.do = "set" => q.table \in Setpoints
           /\ q.do = "restore" => q.table = FanFactory[q.zone]
    <3> SUFFICES ASSUME NEW i \in DOMAIN chain'
                 PROVE  LET q == chain'[i] IN
                        /\ job'[q.job].kind # "none" /\ job'[q.job].answer = NONE
                        /\ q.do = job'[q.job].plan[1].do /\ q.zone = job'[q.job].plan[1].zone
                        /\ q.do = "set" => q.table \in Setpoints
                        /\ q.do = "restore" => q.table = FanFactory[q.zone]
      OBVIOUS
    <3>1. CASE i \in DOMAIN chain /\ chain'[i] = chain[i]
      BY <3>1, <1>3
    <3>2. CASE i = n + 1
      BY <3>2, <2>2, <2>3, <1>0, <1>6
    <3> QED  BY <3>1, <3>2, <2>5
  <2>7. \A i, k \in DOMAIN chain' : chain'[i].job = chain'[k].job => i = k
    BY <2>2, <2>3, <2>5, <1>4
  <2>8. ChainInv'
    BY <2>6, <2>7 DEF ChainInv
  <2> QED  BY <2>4, <2>8, <1>1, <1>2
<1> QED  BY <1>5, <1>6

LEMMA BeginInv ==
    ASSUME FanInv, NEW j \in Jobs, NEW kind \in {"other", "restore"}, NEW p, Plan(p), NEW deg,
           NEW ex \in SUBSET Zones, p[1].do = "set" => deg \in Setpoints,
           \A i \in DOMAIN p : p[i].do = "restore" => fanBaseTable[p[i].zone] # NONE,
           kind = "restore" => \A i \in DOMAIN p : p[i].do # "set",
           kind = "restore" =>
              \A z \in Zones \ ex : \E i \in DOMAIN p : p[i] = Do("restore", z),
           Begin(j, kind, p, deg, ex)
    PROVE  FanInv'
<1> DEFINE rec == [NoJob EXCEPT !.kind = kind, !.plan = p, !.excused = ex]
<1>1. /\ rec.kind = kind /\ rec.plan = p /\ rec.answer = NONE /\ rec.excused = ex
      /\ rec.out = Nothing /\ rec \in JobStates
  <2>1. p \in Seq(Items) /\ Nothing \in [Zones -> Tables]
    BY DEF Plan, Nothing, Tables
  <2> QED  BY <2>1 DEF NoJob, JobStates
<1>2. job' = [job EXCEPT ![j] = rec] /\ job[j].kind = "none"
  BY DEF Begin
<1>3. UNCHANGED <<own, dev, fanZones, fanBaseTable>>
  BY DEF Begin
<1>4. chain' = Append(chain, Request(j, p[1], deg))
  BY DEF Begin, Asks, Plan
<1>5. \A i \in DOMAIN chain : chain[i].job # j
  BY <1>2 DEF FanInv, ChainInv
<1>6. /\ fanZones' \in [Zones -> Tables] /\ fanBaseTable' \in [Zones -> Tables] /\ BaseInv'
  BY <1>3 DEF FanInv, FanTypeOK, BaseInv
<1> HIDE DEF rec
<1> QED  BY <1>1, <1>2, <1>3, <1>4, <1>5, <1>6, JobStep

LEMMA ReadInv ==
    ASSUME FanInv, NEW j \in Jobs, ReadFan(j)
    PROVE  FanInv'
<1>1. Plan(Read) /\ Read[1].do # "set" /\ \A i \in DOMAIN Read : Read[i].do # "restore"
  BY ReadIs DEF Plan
<1>2. {} \in SUBSET Zones /\ "other" \in {"other", "restore"} /\ "other" # "restore"
  OBVIOUS
<1> QED  BY <1>1, <1>2, BeginInv DEF ReadFan

LEMMA SetInv ==
    ASSUME FanInv, NEW j \in Jobs, NEW s, Sets(s), NEW deg \in Setpoints,
           Begin(j, "other", s \o Read, deg, {})
    PROVE  FanInv'
<1>1. Plan(s \o Read) /\ \A i \in DOMAIN (s \o Read) : (s \o Read)[i].do # "restore"
  BY SetsThenRead
<1>2. {} \in SUBSET Zones /\ "other" \in {"other", "restore"} /\ "other" # "restore"
  OBVIOUS
<1> QED  BY <1>1, <1>2, BeginInv

LEMMA ApplyInv ==
    ASSUME FanInv, NEW j \in Jobs, NEW z \in Zones, NEW deg \in Setpoints, ApplyZone(j, z, deg)
    PROVE  FanInv'
<1>1. Sets(<<Do("set", z)>>)
  <2> DEFINE d == <<Do("set", z)>>
  <2>1. d \in Seq(Items) /\ Len(d) = 1 /\ d[1].do = "set"
    BY ItemOf DEF Dos
  <2> HIDE DEF d
  <2>2. Sets(d)
    BY <2>1 DEF Sets
  <2> QED  BY <2>2 DEF d
<1> QED  BY <1>1, SetInv DEF ApplyZone

LEMMA BelowInv ==
    ASSUME FanInv, NEW j \in Jobs, NEW S \in SUBSET Zones, NEW deg \in Setpoints,
           BelowNow(j, S, deg)
    PROVE  FanInv'
BY SetPlan, SetInv DEF BelowNow

LEMMA RestoreBegins ==
    ASSUME FanInv, NEW j \in Jobs, NEW S, RestoreZones(j, S)
    PROVE  FanInv'
<1> DEFINE K == S \cap Known(fanBaseTable)
           p == InOrder("restore", K, Read)
<1>1. K \in SUBSET Zones /\ K # {} /\ Begin(j, "restore", p, 0, Zones \ K)
  BY DEF RestoreZones, Known
<1>2. Restores(p, K, LastZone + 1)
  BY <1>1, RestorePlan
<1> HIDE DEF p
<1>3. \A z \in K : \E i \in DOMAIN p : p[i] = Do("restore", z)
  <2>1. \A z \in K : z < LastZone + 1
    BY <1>1, LastZoneIsNat DEF Zones
  <2> QED  BY <1>2, <2>1 DEF Restores
<1>4. p # << >>
  <2>1. PICK z \in K : TRUE
    BY <1>1
  <2>2. DOMAIN p # {}
    BY <2>1, <1>3
  <2> QED  BY <2>2
<1>5. Plan(p) /\ p[1].do = "restore"
  BY <1>2, <1>4 DEF Restores, Plan
<1>6. \A i \in DOMAIN p : p[i].do # "set" /\ (p[i].do = "restore"
                                                => fanBaseTable[p[i].zone] # NONE)
  BY <1>2 DEF Restores, Known
<1>7. Zones \ (Zones \ K) = K /\ Zones \ K \in SUBSET Zones /\ "restore" \in {"other", "restore"}
  BY <1>1
<1> HIDE DEF K
<1> QED  BY <1>1, <1>3, <1>5, <1>6, <1>7, BeginInv

-----------------------------------------------------------------------------
\* The page goes on.

LEMMA ShowKeepsBase ==
    ASSUME FanTypeOK, BaseInv, NEW out \in [Zones -> Tables], Show(out)
    PROVE  /\ fanZones' \in [Zones -> Tables] /\ fanBaseTable' \in [Zones -> Tables] /\ BaseInv'
           /\ \A z \in Zones : fanBaseTable[z] # NONE => fanBaseTable'[z] # NONE
<1>1. fanZones' = out
  BY DEF Show
<1>2. CASE fanBaseTable = Nothing /\ Known(out) # {}
  <2>1. fanBaseTable' = BaseOf(out)
    BY <1>2 DEF Show
  <2>2. \A z \in Zones : fanBaseTable[z] = NONE
    BY <1>2 DEF Nothing
  <2>3. \A z \in Zones : BaseOf(out)[z] \in {NONE, FanFactory[z]}
    BY DEF BaseOf
  <2>4. BaseOf(out) \in [Zones -> Tables]
    BY TablesAreSet DEF BaseOf, Tables
  <2> QED  BY <1>1, <2>1, <2>2, <2>3, <2>4 DEF BaseInv
<1>3. CASE ~ (fanBaseTable = Nothing /\ Known(out) # {})
  <2>1. fanBaseTable' = fanBaseTable
    BY <1>3 DEF Show
  <2> QED  BY <1>1, <2>1 DEF BaseInv, FanTypeOK
<1> QED  BY <1>2, <1>3

\* How a job that is resumed is left.
LEMMA ResumeIs ==
    ASSUME FanTypeOK, BaseInv, NEW j \in Jobs, NEW deg, ResumeJob(j, deg)
    PROVE  /\ job[j].answer # NONE /\ GoesOn(j, NextPlan(j), deg) /\ UNCHANGED <<own, dev>>
           /\ fanZones' \in [Zones -> Tables] /\ fanBaseTable' \in [Zones -> Tables] /\ BaseInv'
           /\ \A z \in Zones : fanBaseTable[z] # NONE => fanBaseTable'[z] # NONE
<1>1. job[j].answer # NONE /\ UNCHANGED <<own, dev>>
  BY DEF ResumeJob
<1>2. CASE Rest(j) # << >> /\ Head(Rest(j)).do = "show"
  <2>1. Show(job[j].out) /\ GoesOn(j, Tail(Rest(j)), deg)
    BY <1>2 DEF ResumeJob
  <2>2. NextPlan(j) = Tail(Rest(j))
    BY <1>2 DEF NextPlan
  <2>3. job[j].out \in [Zones -> Tables]
    BY DEF FanTypeOK, JobStates
  <2> QED  BY <1>1, <2>1, <2>2, <2>3, ShowKeepsBase
<1>3. CASE ~ (Rest(j) # << >> /\ Head(Rest(j)).do = "show")
  <2>1. UNCHANGED <<fanZones, fanBaseTable>> /\ GoesOn(j, Rest(j), deg)
    BY <1>3 DEF ResumeJob
  <2>2. NextPlan(j) = Rest(j)
    BY <1>3 DEF NextPlan
  <2> QED  BY <1>1, <2>1, <2>2 DEF BaseInv, FanTypeOK
<1> QED  BY <1>2, <1>3

LEMMA ResumeInv ==
    ASSUME FanInv, NEW j \in Jobs, NEW deg \in Setpoints, ResumeJob(j, deg)
    PROVE  FanInv'
<1> DEFINE q == NextPlan(j)
           p == job[j].plan
<1>1. /\ job[j].answer # NONE /\ GoesOn(j, q, deg) /\ UNCHANGED <<own, dev>>
      /\ fanZones' \in [Zones -> Tables] /\ fanBaseTable' \in [Zones -> Tables] /\ BaseInv'
      /\ \A z \in Zones : fanBaseTable[z] # NONE => fanBaseTable'[z] # NONE
  BY ResumeIs DEF FanInv
<1>2. /\ q \in Seq(Items) /\ (q # << >> => Plan(q))
      /\ \A i \in DOMAIN q : \E k \in DOMAIN p : q[i] = p[k]
      /\ job[j].kind = "restore" =>
            \A k \in DOMAIN p : k # 1 /\ p[k].do = "restore" =>
               \E i \in DOMAIN q : q[i] = p[k]
  BY <1>1, NextPlanIs DEF FanInv
<1> HIDE DEF q
<1>3. \A i \in DOMAIN chain : chain[i].job # j
  BY <1>1 DEF FanInv, ChainInv
<1>4. Nothing \in [Zones -> Tables]
  BY DEF Nothing, Tables
<1>5. CASE q = << >> \/ (Head(q).do = "set" /\ fanZones[Head(q).zone] = NONE)
  <2>1. job' = [job EXCEPT ![j] = NoJob] /\ chain' = chain
    BY <1>1, <1>5 DEF GoesOn
  <2>2. /\ NoJob \in JobStates /\ NoJob.kind = "none" /\ NoJob.plan = << >>
        /\ NoJob.answer = NONE
    BY <1>4 DEF NoJob, JobStates
  <2>3. DOMAIN << >> = {}
    OBVIOUS
  <2> QED  BY <1>1, <1>3, <2>1, <2>2, <2>3, JobStep
<1>6. CASE ~ (q = << >> \/ (Head(q).do = "set" /\ fanZones[Head(q).zone] = NONE))
  <2> DEFINE out == IF Head(q).do = "read" /\ Head(q).zone > 0 THEN job[j].out ELSE Nothing
             rec == [job[j] EXCEPT !.plan = q, !.answer = NONE, !.out = out]
  <2>1. job[j] \in JobStates
    BY DEF FanInv, FanTypeOK
  <2>2. out \in [Zones -> Tables]
    BY <1>4, <2>1 DEF JobStates
  <2>3. /\ job' = [job EXCEPT ![j].plan = q, ![j].answer = NONE,
                              ![j].out = IF Head(q).do = "read" /\ Head(q).zone > 0
                                         THEN @ ELSE Nothing]
        /\ Asks(j, q, deg)
    BY <1>1, <1>6 DEF GoesOn
  <2>4. job' = [job EXCEPT ![j] = rec]
    BY <2>3 DEF FanInv, FanTypeOK
  <2> HIDE DEF out
  <2>5. /\ rec.kind = job[j].kind /\ rec.plan = q /\ rec.answer = NONE
        /\ rec.excused = job[j].excused /\ rec \in JobStates
    BY <1>2, <2>1, <2>2 DEF JobStates
  <2> HIDE DEF rec
  <2>6. Plan(q) /\ chain' = Append(chain, Request(j, q[1], deg))
    BY <1>2, <1>6, <2>3 DEF Asks, Plan
  <2>7. /\ job[j].kind # "none"
        /\ \A i \in DOMAIN p : p[i].do = "restore" => fanBaseTable[p[i].zone] # NONE
        /\ job[j].kind = "restore" => \A i \in DOMAIN p : p[i].do # "set"
    BY <1>1 DEF FanInv, PlanInv
  <2>8. /\ \A i \in DOMAIN q : q[i].do = "restore" => fanBaseTable[q[i].zone] # NONE
        /\ job[j].kind = "restore" => \A i \in DOMAIN q : q[i].do # "set"
    BY <1>2, <2>7
  <2>9. ASSUME job[j].kind = "restore", own = FanFactory, NEW z \in Zones \ job[j].excused,
               dev[z] # FanFactory[z]
        PROVE  \E i \in DOMAIN q : q[i] = Do("restore", z)
    <3>1. PICK k \in DOMAIN p : p[k] = Do("restore", z) /\ (k = 1 => job[j].answer = NONE)
      BY <2>9 DEF FanInv, RestoreInv, ToDo
    <3>2. p[k].do = "restore"
      BY <3>1, ItemOf DEF Dos
    <3> QED  BY <3>1, <3>2, <2>9, <1>1, <1>2
  <2> HIDE DEF p
  <2> QED  BY <1>1, <1>3, <2>4, <2>5, <2>6, <2>7, <2>8, <2>9, JobStep
<1> QED  BY <1>5, <1>6

-----------------------------------------------------------------------------
\* The console.

LEMMA TailOf ==
    ASSUME NEW S, NEW s \in Seq(S), s # << >>
    PROVE  /\ Tail(s) \in Seq(S) /\ Len(Tail(s)) = Len(s) - 1 /\ 1 \in DOMAIN s
           /\ DOMAIN Tail(s) = 1..(Len(s) - 1)
           /\ \A i \in DOMAIN Tail(s) : Tail(s)[i] = s[i + 1] /\ i + 1 \in DOMAIN s /\ i \in Nat
  OBVIOUS

\* Jobs are answered or excused, and nothing else changes about them.
LEMMA ServedStep ==
    ASSUME FanInv, UNCHANGED <<own, fanZones, fanBaseTable>>, dev' \in [Zones -> Setpoints],
           job' \in [Jobs -> JobStates],
           \A j \in Jobs : /\ job'[j].kind = job[j].kind /\ job'[j].plan = job[j].plan
                           /\ \/ job'[j].answer = job[j].answer
                              \/ /\ chain # << >> /\ chain' = Tail(chain)
                                 /\ j = chain[1].job,
           chain' = chain \/ (chain # << >> /\ chain' = Tail(chain))
    PROVE  FanTypeOK' /\ BaseInv' /\ PlanInv' /\ ChainInv'
<1> USE DEF FanInv
<1>1. BaseInv'
  BY DEF BaseInv
<1>2. /\ chain \in Seq(Requests) /\ Len(chain) \in Nat /\ DOMAIN chain = 1..Len(chain)
      /\ \A i \in DOMAIN chain : chain[i].job \in Jobs
  <2>1. chain \in Seq(Requests)
    BY DEF FanTypeOK
  <2>2. \A i \in DOMAIN chain : chain[i] \in Requests
    BY <2>1
  <2> QED  BY <2>1, <2>2 DEF Requests
<1>3. FanTypeOK'
  <2>1. chain' \in Seq(Requests)
    BY <1>2
  <2> QED  BY <2>1 DEF FanTypeOK
<1>4. PlanInv'
  <2> SUFFICES ASSUME NEW j \in Jobs
               PROVE  LET p == job'[j].plan IN
                      /\ job'[j].kind = "none" => job'[j].answer = NONE
                      /\ job'[j].kind # "none" => p # << >> /\ p[1].do # "show" /\ InTurns(p)
                      /\ \A i \in DOMAIN p : p[i].do = "restore" => fanBaseTable'[p[i].zone] # NONE
                      /\ job'[j].kind = "restore" => \A i \in DOMAIN p : p[i].do # "set"
    BY DEF PlanInv
  <2>1. job'[j].kind = job[j].kind /\ job'[j].plan = job[j].plan
    OBVIOUS
  <2>2. job'[j].kind = "none" => job'[j].answer = NONE
    <3>1. chain # << >> => 1 \in DOMAIN chain
      BY <1>2
    <3>2. chain # << >> => job[chain[1].job].kind # "none"
      BY <3>1 DEF ChainInv
    <3>3. job[j].kind = "none" => job[j].answer = NONE
      BY DEF PlanInv
    <3> QED  BY <2>1, <3>2, <3>3
  <2> QED  BY <2>1, <2>2 DEF PlanInv
<1>5. ChainInv'
  <2>1. CASE chain' = chain
    <3>1. \A j \in Jobs : chain # << >> /\ chain' = Tail(chain) => FALSE
      <4>1. chain # << >> => Len(Tail(chain)) # Len(chain)
        <5> SUFFICES ASSUME chain # << >>  PROVE Len(Tail(chain)) # Len(chain)
          OBVIOUS
        <5>1. Len(Tail(chain)) = Len(chain) - 1 /\ Len(chain) \in Nat
          BY <1>2, TailOf
        <5>2. ASSUME NEW a \in Nat  PROVE a - 1 # a
          OBVIOUS
        <5> QED  BY <5>1, <5>2
      <4> QED  BY <4>1, <2>1
    <3>2. \A j \in Jobs : /\ job'[j].kind = job[j].kind /\ job'[j].plan = job[j].plan
                          /\ job'[j].answer = job[j].answer
      BY <3>1
    <3>3. ASSUME NEW i \in DOMAIN chain
          PROVE  LET r == chain[i] IN
                 /\ job'[r.job].kind # "none" /\ job'[r.job].answer = NONE
                 /\ r.do = job'[r.job].plan[1].do /\ r.zone = job'[r.job].plan[1].zone
                 /\ r.do = "set" => r.table \in Setpoints
                 /\ r.do = "restore" => r.table = FanFactory[r.zone]
      BY <3>2, <1>2 DEF ChainInv
    <3>4. \A i, k \in DOMAIN chain : chain[i].job = chain[k].job => i = k
      BY DEF ChainInv
    <3> QED  BY <2>1, <3>3, <3>4 DEF ChainInv
  <2>2. CASE chain # << >> /\ chain' = Tail(chain)
    <3>1. /\ DOMAIN chain' = 1..(Len(chain) - 1) /\ 1 \in DOMAIN chain
          /\ \A i \in DOMAIN chain' :
                chain'[i] = chain[i + 1] /\ i + 1 \in DOMAIN chain /\ i \in Nat
      BY <1>2, <2>2, TailOf
    <3>2. \A i \in DOMAIN chain' : chain'[i].job # chain[1].job
      <4> SUFFICES ASSUME NEW i \in DOMAIN chain', chain'[i].job = chain[1].job  PROVE FALSE
        OBVIOUS
      <4>1. i + 1 = 1
        BY <3>1 DEF ChainInv
      <4> QED  BY <4>1, <3>1
    <3>3. ASSUME NEW i \in DOMAIN chain'
          PROVE  LET r == chain'[i] IN
                 /\ job'[r.job].kind # "none" /\ job'[r.job].answer = NONE
                 /\ r.do = job'[r.job].plan[1].do /\ r.zone = job'[r.job].plan[1].zone
                 /\ r.do = "set" => r.table \in Setpoints
                 /\ r.do = "restore" => r.table = FanFactory[r.zone]
      <4> DEFINE r == chain[i + 1]
      <4>1. chain'[i] = r /\ i + 1 \in DOMAIN chain /\ r.job \in Jobs /\ r.job # chain[1].job
        BY <3>1, <3>2, <1>2
      <4>2. /\ job[r.job].kind # "none" /\ job[r.job].answer = NONE
            /\ r.do = job[r.job].plan[1].do /\ r.zone = job[r.job].plan[1].zone
            /\ r.do = "set" => r.table \in Setpoints
            /\ r.do = "restore" => r.table = FanFactory[r.zone]
        BY <4>1 DEF ChainInv
      <4> HIDE DEF r
      <4>3. /\ job'[r.job].kind = job[r.job].kind /\ job'[r.job].plan = job[r.job].plan
            /\ job'[r.job].answer = job[r.job].answer
        BY <4>1
      <4> QED  BY <4>1, <4>2, <4>3
    <3>4. ASSUME NEW i \in DOMAIN chain', NEW k \in DOMAIN chain', chain'[i].job = chain'[k].job
          PROVE  i = k
      <4>1. i + 1 = k + 1
        BY <3>1, <3>4 DEF ChainInv
      <4> QED  BY <4>1, <3>1
    <3> QED  BY <3>3, <3>4 DEF ChainInv
  <2> QED  BY <2>1, <2>2
<1> QED  BY <1>1, <1>3, <1>4, <1>5

\* The request at the head, and the job it is of.
LEMMA HeadIs ==
    ASSUME FanInv, chain # << >>
    PROVE  LET r == Head(chain) IN
           /\ r = chain[1] /\ r.job \in Jobs /\ r.zone \in Zones
           /\ r.do = job[r.job].plan[1].do /\ r.zone = job[r.job].plan[1].zone
           /\ r.do # "show" /\ (job[r.job].kind = "restore" => r.do \in {"read", "restore"})
           /\ r.do = "restore" => r.table = FanFactory[r.zone]
           /\ r.do # "read" => r.table \in Setpoints
<1> USE DEF FanInv
<1> DEFINE r == chain[1]
           p == job[r.job].plan
<1>1. Head(chain) = r /\ 1 \in DOMAIN chain /\ r \in Requests
  <2>1. chain \in Seq(Requests)
    BY DEF FanTypeOK
  <2> QED  BY <2>1
<1>2. r.job \in Jobs /\ r.zone \in Zones /\ r.do \in Dos
  BY <1>1 DEF Requests
<1>3. /\ job[r.job].kind # "none" /\ r.do = p[1].do /\ r.zone = p[1].zone
      /\ r.do = "set" => r.table \in Setpoints
      /\ r.do = "restore" => r.table = FanFactory[r.zone]
  BY <1>1 DEF ChainInv
<1>4. /\ p # << >> /\ p[1].do # "show"
      /\ job[r.job].kind = "restore" => \A i \in DOMAIN p : p[i].do # "set"
  BY <1>2, <1>3 DEF PlanInv
<1>5. 1 \in DOMAIN p
  <2>1. p \in Seq(Items)
    <3>1. job[r.job] \in JobStates
      BY <1>2 DEF FanTypeOK
    <3> QED  BY <3>1 DEF JobStates
  <2> HIDE DEF p
  <2> QED  BY <1>4, <2>1
<1>6. FanFactory[r.zone] \in Setpoints
  BY <1>2, TablesAreSet
<1> HIDE DEF r, p
<1>7. /\ Head(chain) = r /\ r.job \in Jobs /\ r.zone \in Zones
      /\ r.do = p[1].do /\ r.zone = p[1].zone
      /\ r.do # "show" /\ (job[r.job].kind = "restore" => r.do \in {"read", "restore"})
      /\ r.do = "restore" => r.table = FanFactory[r.zone]
      /\ r.do # "read" => r.table \in Setpoints
  BY <1>1, <1>2, <1>3, <1>4, <1>5, <1>6 DEF Dos
<1> QED  BY <1>7 DEF r, p

LEMMA ExcuseIs ==
    ASSUME FanTypeOK, NEW z \in Zones, NEW others
    PROVE  /\ Excuse(z, others) \in [Jobs -> JobStates]
           /\ \A j \in Jobs :
                 LET e == Excuse(z, others)[j] IN
                 /\ e.kind = job[j].kind /\ e.plan = job[j].plan /\ e.answer = job[j].answer
                 /\ e.out = job[j].out /\ job[j].excused \subseteq e.excused
                 /\ j \in others /\ job[j].kind = "restore" => z \in e.excused
<1>1. ASSUME NEW j \in Jobs
      PROVE  LET e == Excuse(z, others)[j] IN
             /\ e \in JobStates
             /\ e.kind = job[j].kind /\ e.plan = job[j].plan /\ e.answer = job[j].answer
             /\ e.out = job[j].out /\ job[j].excused \subseteq e.excused
             /\ j \in others /\ job[j].kind = "restore" => z \in e.excused
  <2> DEFINE e == Excuse(z, others)[j]
  <2>1. job[j] \in JobStates
    BY DEF FanTypeOK
  <2>2. CASE j \in others /\ job[j].kind = "restore"
    <3>1. e = [job[j] EXCEPT !.excused = @ \cup {z}]
      BY <2>2 DEF Excuse
    <3> HIDE DEF e
    <3>2. /\ e.kind = job[j].kind /\ e.plan = job[j].plan /\ e.answer = job[j].answer
          /\ e.out = job[j].out /\ e.excused = job[j].excused \cup {z}
      BY <2>1, <3>1 DEF JobStates
    <3>3. e \in JobStates
      BY <2>1, <3>1 DEF JobStates
    <3>4. /\ e \in JobStates
          /\ e.kind = job[j].kind /\ e.plan = job[j].plan /\ e.answer = job[j].answer
          /\ e.out = job[j].out /\ job[j].excused \subseteq e.excused
          /\ z \in e.excused
      BY <3>2, <3>3
    <3> QED  BY <3>4 DEF e
  <2>3. CASE ~ (j \in others /\ job[j].kind = "restore")
    <3>1. e = job[j]
      BY <2>3 DEF Excuse
    <3> QED  BY <2>1, <2>3, <3>1
  <2> QED  BY <2>2, <2>3
<1>2. Excuse(z, others) \in [Jobs -> JobStates]
  <2> DEFINE E == Excuse(z, others)
  <2>1. E = [j \in Jobs |-> E[j]]
    BY DEF Excuse
  <2>2. \A j \in Jobs : E[j] \in JobStates
    BY <1>1
  <2> HIDE DEF E
  <2>3. E \in [Jobs -> JobStates]
    BY <2>1, <2>2
  <2> QED  BY <2>3 DEF E
<1> QED  BY <1>1, <1>2

\* f with the answer a to j.
LEMMA Answered ==
    ASSUME NEW f \in [Jobs -> JobStates], NEW j \in Jobs,
           NEW a \in {"accepted", "refused", "failed"},
           job' = [f EXCEPT ![j].answer = a]
    PROVE  /\ job' \in [Jobs -> JobStates]
           /\ \A k \in Jobs : /\ job'[k].kind = f[k].kind /\ job'[k].plan = f[k].plan
                              /\ job'[k].excused = f[k].excused
                              /\ k # j => job'[k].answer = f[k].answer
<1>1. f[j] \in JobStates
  OBVIOUS
<1>2. job' = [f EXCEPT ![j] = [f[j] EXCEPT !.answer = a]]
  OBVIOUS
<1>3. [f[j] EXCEPT !.answer = a] \in JobStates
  BY <1>1 DEF JobStates
<1>4. job' \in [Jobs -> JobStates]
  BY <1>2, <1>3
<1>5. ASSUME NEW k \in Jobs
      PROVE  /\ job'[k].kind = f[k].kind /\ job'[k].plan = f[k].plan
             /\ job'[k].excused = f[k].excused
             /\ k # j => job'[k].answer = f[k].answer
  <2>1. CASE k = j
    <3>1. job'[k] = [f[j] EXCEPT !.answer = a]
      BY <1>2, <2>1
    <3> QED  BY <3>1, <2>1, <1>1 DEF JobStates
  <2>2. CASE k # j
    BY <1>2, <2>2
  <2> QED  BY <2>1, <2>2
<1> QED  BY <1>4, <1>5

\* What is left of a restore when r has been answered: z was restored, or is still to
\* do, or r was the restore of z.
LEMMA StillToDo ==
    ASSUME RestoreInv, own = FanFactory, NEW j \in Jobs, NEW z \in Zones, NEW r,
           job[j].kind = "restore", z \notin job[j].excused,
           job'[j].plan = job[j].plan, r.do = job[r.job].plan[1].do,
           r.zone = job[r.job].plan[1].zone, r.job # j => job'[j].answer = job[j].answer
    PROVE  \/ dev[z] = FanFactory[z] \/ ToDo(j, z)'
           \/ r.job = j /\ r.do = "restore" /\ r.zone = z
<1> SUFFICES ASSUME dev[z] # FanFactory[z]
             PROVE  ToDo(j, z)' \/ (r.job = j /\ r.do = "restore" /\ r.zone = z)
  OBVIOUS
<1>1. PICK i \in DOMAIN job[j].plan :
         job[j].plan[i] = Do("restore", z) /\ (i = 1 => job[j].answer = NONE)
  BY DEF RestoreInv, ToDo
<1>2. CASE i # 1 \/ r.job # j
  BY <1>1, <1>2 DEF ToDo
<1>3. CASE i = 1 /\ r.job = j
  <2>1. Do("restore", z).do = "restore" /\ Do("restore", z).zone = z
    BY ItemOf DEF Dos
  <2> QED  BY <1>1, <1>3, <2>1
<1> QED  BY <1>2, <1>3

\* A request of a restore is served: what it writes, where its job is excused, and what
\* it excuses others from.
LEMMA ServeStep ==
    ASSUME FanInv, UNCHANGED <<own, fanZones, fanBaseTable>>, NEW t \in Setpoints,
           chain # << >>, chain' = Tail(chain), job' \in [Jobs -> JobStates],
           dev' = dev \/ dev' = [dev EXCEPT ![Head(chain).zone] = t],
           \A j \in Jobs : /\ job'[j].kind = job[j].kind /\ job'[j].plan = job[j].plan
                           /\ job[j].excused \subseteq job'[j].excused
                           /\ j # Head(chain).job => job'[j].answer = job[j].answer,
           \A j \in Jobs : job[j].kind = "restore" =>
              \/ Head(chain).zone \in job'[j].excused
              \/ dev' = dev /\ (j # Head(chain).job \/ Head(chain).do = "read")
              \/ /\ dev' = [dev EXCEPT ![Head(chain).zone] = t]
                 /\ t = FanFactory[Head(chain).zone]
    PROVE  FanInv'
<1> DEFINE r == Head(chain)
           z == r.zone
<1>1. /\ r = chain[1] /\ r.job \in Jobs /\ z \in Zones
      /\ r.do = job[r.job].plan[1].do /\ z = job[r.job].plan[1].zone
  BY HeadIs
<1> HIDE DEF r
<1>2. dev \in [Zones -> Setpoints]
  BY DEF FanInv, FanTypeOK
<1>3. dev' \in [Zones -> Setpoints] /\ \A y \in Zones : y # z => dev'[y] = dev[y]
  <2>1. dev' = dev \/ dev' = [dev EXCEPT ![z] = t]
    BY DEF r
  <2> QED  BY <2>1, <1>1, <1>2
<1>4. \A j \in Jobs : j # r.job => job'[j].answer = job[j].answer
  BY DEF r
<1>5. FanTypeOK' /\ BaseInv' /\ PlanInv' /\ ChainInv'
  BY <1>1, <1>3, <1>4, ServedStep
<1>6. ASSUME own = FanFactory, NEW j \in Jobs, job[j].kind = "restore",
             NEW y \in Zones, y \notin job'[j].excused
      PROVE  dev'[y] = FanFactory[y] \/ ToDo(j, y)'
  <2>1. \/ dev[y] = FanFactory[y] \/ ToDo(j, y)'
        \/ r.job = j /\ r.do = "restore" /\ z = y
    <3>1. y \notin job[j].excused /\ RestoreInv
      BY <1>6 DEF FanInv
    <3>2. job'[j].plan = job[j].plan
      OBVIOUS
    <3> QED  BY <1>1, <1>4, <1>6, <3>1, <3>2, StillToDo
  <2>2. CASE y # z
    BY <1>3, <2>1, <2>2
  <2>3. CASE y = z
    <3>1. \/ dev' = dev /\ (j # r.job \/ r.do = "read")
          \/ dev' = [dev EXCEPT ![z] = t] /\ t = FanFactory[z]
      BY <1>6, <2>3 DEF r
    <3>2. CASE dev' = dev /\ (j # r.job \/ r.do = "read")
      BY <2>1, <3>2
    <3>3. CASE dev' = [dev EXCEPT ![z] = t] /\ t = FanFactory[z]
      BY <2>3, <3>3, <1>1, <1>2
    <3> QED  BY <3>1, <3>2, <3>3
  <2> QED  BY <2>2, <2>3
<1>7. RestoreInv'
  BY <1>6 DEF RestoreInv
<1> QED  BY <1>5, <1>7 DEF FanInv

LEMMA ServeReadInv ==
    ASSUME FanInv, ServeRead
    PROVE  FanInv'
<1> DEFINE r == Head(chain)
           out == [job[r.job].out EXCEPT ![r.zone] = dev[r.zone]]
           rec == [job[r.job] EXCEPT !.answer = "accepted", !.out = out]
<1>1. /\ chain # << >> /\ r.do = "read" /\ chain' = Tail(chain)
      /\ job' = [job EXCEPT ![r.job].answer = "accepted", ![r.job].out[r.zone] = dev[r.zone]]
      /\ UNCHANGED <<own, dev, fanZones, fanBaseTable>>
  BY DEF ServeRead
<1>2. r.job \in Jobs /\ r.zone \in Zones
  BY <1>1, HeadIs
<1>3. job \in [Jobs -> JobStates] /\ dev \in [Zones -> Setpoints]
  BY DEF FanInv, FanTypeOK
<1>4. job[r.job] \in JobStates /\ job[r.job].out \in [Zones -> Tables] /\ dev[r.zone] \in Tables
  <2> HIDE DEF r
  <2>1. job[r.job] \in JobStates
    BY <1>2, <1>3
  <2> QED  BY <1>2, <1>3, <2>1 DEF JobStates, Tables
<1>5. dev[r.zone] \in Setpoints
  BY <1>2, <1>3
<1> HIDE DEF r
<1>6. job' = [job EXCEPT ![r.job] = rec]
  BY <1>1, <1>2, <1>3, <1>4 DEF JobStates
<1>7. out \in [Zones -> Tables]
  BY <1>4
<1> HIDE DEF out
<1>8. /\ rec \in JobStates /\ rec.kind = job[r.job].kind /\ rec.plan = job[r.job].plan
      /\ rec.excused = job[r.job].excused
  BY <1>4, <1>7 DEF JobStates
<1> HIDE DEF rec
<1>9. /\ job' \in [Jobs -> JobStates]
      /\ \A j \in Jobs : /\ job'[j].kind = job[j].kind /\ job'[j].plan = job[j].plan
                         /\ job[j].excused \subseteq job'[j].excused
                         /\ j # r.job => job'[j].answer = job[j].answer
  BY <1>2, <1>3, <1>6, <1>8
<1>10. dev' = dev
  BY <1>1
<1> QED  BY <1>1, <1>5, <1>9, <1>10, ServeStep DEF r

LEMMA ServeWriteInv ==
    ASSUME FanInv, ServeWrite
    PROVE  FanInv'
<1> DEFINE r == Head(chain)
           E == Excuse(r.zone, Jobs \ {r.job})
<1>1. PICK a \in {"accepted", "failed"} : job' = [E EXCEPT ![r.job].answer = a]
  BY DEF ServeWrite
<1>2. /\ chain # << >> /\ r.do # "read" /\ chain' = Tail(chain)
      /\ dev' = [dev EXCEPT ![r.zone] = r.table]
      /\ UNCHANGED <<own, fanZones, fanBaseTable>>
  BY DEF ServeWrite
<1>3. /\ r.job \in Jobs /\ r.zone \in Zones /\ r.table \in Setpoints
      /\ job[r.job].kind = "restore" => r.table = FanFactory[r.zone]
  BY <1>2, HeadIs
<1> HIDE DEF r
<1>4. /\ E \in [Jobs -> JobStates]
      /\ \A j \in Jobs : /\ E[j].kind = job[j].kind /\ E[j].plan = job[j].plan
                         /\ E[j].answer = job[j].answer /\ job[j].excused \subseteq E[j].excused
                         /\ j # r.job /\ job[j].kind = "restore" => r.zone \in E[j].excused
  BY <1>3, ExcuseIs DEF FanInv
<1> HIDE DEF E
<1>5. /\ job' \in [Jobs -> JobStates]
      /\ \A j \in Jobs : /\ job'[j].kind = E[j].kind /\ job'[j].plan = E[j].plan
                         /\ job'[j].excused = E[j].excused
                         /\ j # r.job => job'[j].answer = E[j].answer
  BY <1>1, <1>3, <1>4, Answered
<1>6. \A j \in Jobs : /\ job'[j].kind = job[j].kind /\ job'[j].plan = job[j].plan
                      /\ job[j].excused \subseteq job'[j].excused
                      /\ j # r.job => job'[j].answer = job[j].answer
  BY <1>4, <1>5
<1>7. \A j \in Jobs : job[j].kind = "restore" =>
         r.zone \in job'[j].excused \/ r.table = FanFactory[r.zone]
  BY <1>3, <1>4, <1>5
<1> QED  BY <1>2, <1>3, <1>5, <1>6, <1>7, ServeStep DEF r

LEMMA ServeNothingInv ==
    ASSUME FanInv, ServeNothing
    PROVE  FanInv'
<1> DEFINE r == Head(chain)
           E == IF r.do = "read" THEN job ELSE Excuse(r.zone, {r.job})
<1>1. PICK a \in {"refused", "failed"} : job' = [E EXCEPT ![r.job].answer = a]
  BY DEF ServeNothing
<1>2. chain # << >> /\ chain' = Tail(chain) /\ UNCHANGED <<own, dev, fanZones, fanBaseTable>>
  BY DEF ServeNothing
<1>3. r.job \in Jobs /\ r.zone \in Zones
  BY <1>2, HeadIs
<1> HIDE DEF r
<1>4. /\ E \in [Jobs -> JobStates]
      /\ \A j \in Jobs : /\ E[j].kind = job[j].kind /\ E[j].plan = job[j].plan
                         /\ E[j].answer = job[j].answer /\ job[j].excused \subseteq E[j].excused
                         /\ r.do # "read" /\ j = r.job /\ job[j].kind = "restore"
                               => r.zone \in E[j].excused
  <2>1. FanTypeOK
    BY DEF FanInv
  <2>2. CASE r.do = "read"
    <3>1. E = job
      BY <2>2
    <3> QED  BY <2>1, <2>2, <3>1 DEF FanTypeOK
  <2>3. CASE r.do # "read"
    <3>1. E = Excuse(r.zone, {r.job})
      BY <2>3
    <3> HIDE DEF E
    <3> QED  BY <2>1, <3>1, <1>3, ExcuseIs
  <2> QED  BY <2>2, <2>3
<1> HIDE DEF E
<1>5. /\ job' \in [Jobs -> JobStates]
      /\ \A j \in Jobs : /\ job'[j].kind = E[j].kind /\ job'[j].plan = E[j].plan
                         /\ job'[j].excused = E[j].excused
                         /\ j # r.job => job'[j].answer = E[j].answer
  BY <1>1, <1>3, <1>4, Answered
<1>6. \A j \in Jobs : /\ job'[j].kind = job[j].kind /\ job'[j].plan = job[j].plan
                      /\ job[j].excused \subseteq job'[j].excused
                      /\ j # r.job => job'[j].answer = job[j].answer
  BY <1>4, <1>5
<1>7. \A j \in Jobs : job[j].kind = "restore" =>
         r.zone \in job'[j].excused \/ j # r.job \/ r.do = "read"
  BY <1>4, <1>5
<1>8. dev' = dev /\ FanFactory[r.zone] \in Setpoints
  BY <1>2, <1>3, TablesAreSet
<1> QED  BY <1>2, <1>5, <1>6, <1>7, <1>8, ServeStep DEF r

LEMMA OthersInv ==
    ASSUME FanInv, NEW z \in Zones, NEW t \in Setpoints, OthersWrite(z, t)
    PROVE  FanInv'
<1> DEFINE E == Excuse(z, Jobs)
<1>1. /\ dev' = [dev EXCEPT ![z] = t] /\ job' = E
      /\ UNCHANGED <<own, fanZones, fanBaseTable, chain>>
  BY DEF OthersWrite
<1>2. /\ E \in [Jobs -> JobStates]
      /\ \A j \in Jobs : /\ E[j].kind = job[j].kind /\ E[j].plan = job[j].plan
                         /\ E[j].answer = job[j].answer /\ job[j].excused \subseteq E[j].excused
                         /\ job[j].kind = "restore" => z \in E[j].excused
  BY ExcuseIs DEF FanInv
<1> HIDE DEF E
<1>3. dev \in [Zones -> Setpoints]
  BY DEF FanInv, FanTypeOK
<1>4. dev' \in [Zones -> Setpoints] /\ \A y \in Zones : y # z => dev'[y] = dev[y]
  BY <1>1, <1>3
<1>5. FanTypeOK' /\ BaseInv' /\ PlanInv' /\ ChainInv'
  BY <1>1, <1>2, <1>4, ServedStep
<1>6. ASSUME own = FanFactory, NEW j \in Jobs, job[j].kind = "restore",
             NEW y \in Zones, y \notin job'[j].excused
      PROVE  dev'[y] = FanFactory[y] \/ ToDo(j, y)'
  <2>1. y # z /\ y \notin job[j].excused
    BY <1>1, <1>2, <1>6
  <2>2. dev[y] = FanFactory[y] \/ ToDo(j, y)
    BY <1>6, <2>1 DEF FanInv, RestoreInv
  <2>3. ToDo(j, y) => ToDo(j, y)'
    BY <1>1, <1>2 DEF ToDo
  <2> QED  BY <2>1, <2>2, <2>3, <1>4
<1>7. RestoreInv'
  BY <1>1, <1>2, <1>6 DEF RestoreInv
<1> QED  BY <1>5, <1>7 DEF FanInv

LEMMA ReloadInv ==
    ASSUME FanInv, FanReload
    PROVE  FanInv'
<1>1. Nothing \in [Zones -> Tables] /\ \A z \in Zones : Nothing[z] = NONE
  BY DEF Nothing, Tables
<1>2. /\ NoJob \in JobStates /\ NoJob.kind = "none" /\ NoJob.plan = << >>
      /\ NoJob.answer = NONE
  BY <1>1 DEF NoJob, JobStates
<1>3. /\ job' = [j \in Jobs |-> NoJob] /\ chain' = << >> /\ UNCHANGED <<own, dev>>
      /\ fanZones' = Nothing /\ fanBaseTable' = Nothing
  BY DEF FanReload
<1>4. FanTypeOK'
  BY <1>1, <1>2, <1>3 DEF FanInv, FanTypeOK
<1>5. BaseInv' /\ ChainInv'
  BY <1>1, <1>3 DEF BaseInv, ChainInv
<1>6. PlanInv'
  BY <1>2, <1>3 DEF PlanInv
<1>7. RestoreInv'
  BY <1>2, <1>3 DEF RestoreInv
<1> QED  BY <1>4, <1>5, <1>6, <1>7 DEF FanInv

LEMMA FanNextInv ==
    ASSUME FanInv, FanNext
    PROVE  FanInv'
<1>1. \A j \in Clicks : j \in Jobs
  BY DEF Jobs
<1>2. \A S \in SUBSET Known(fanZones) : S \in SUBSET Zones
  BY DEF Known
<1> QED
  BY <1>1, <1>2, ServeReadInv, ServeWriteInv, ServeNothingInv, ReloadInv, OthersInv, ReadInv,
     ResumeInv, RestoreBegins, BelowInv, ApplyInv
  DEF FanNext

LEMMA FanStutter == FanInv /\ UNCHANGED fanVars => FanInv'
BY DEF FanInv, FanTypeOK, BaseInv, PlanInv, ChainInv, RestoreInv, ToDo, fanVars

\* Only a job that goes on ends, or a reload ends all.
LEMMA RestoreEnds ==
    ASSUME FanInv, FanNext
    PROVE  EndsRestored
<1> SUFFICES ASSUME NEW j \in Jobs, job[j].kind = "restore", job'[j].kind = "none",
                    fanBaseTable' # Nothing, own = FanFactory, NEW z \in Zones \ job[j].excused
             PROVE  dev[z] = own[z]
  BY DEF EndsRestored
<1>0. job \in [Jobs -> JobStates]
  BY DEF FanInv, FanTypeOK
<1>1. PICK i \in Jobs, deg \in Setpoints : ResumeJob(i, deg)
  <2>1. ASSUME NEW i \in Jobs, NEW kind, kind # "none", NEW p, NEW deg, NEW ex,
               Begin(i, kind, p, deg, ex)
        PROVE  FALSE
    <3> DEFINE rec == [NoJob EXCEPT !.kind = kind, !.plan = p, !.excused = ex]
    <3>1. job' = [job EXCEPT ![i] = rec] /\ job[i].kind = "none"
      BY <2>1 DEF Begin
    <3>2. rec.kind # "none"
      BY <2>1 DEF NoJob
    <3> HIDE DEF rec
    <3> QED  BY <1>0, <3>1, <3>2
  <2>2. ~ FanReload
    BY DEF FanReload
  <2>3. ASSUME \A k \in Jobs : job'[k].kind = job[k].kind  PROVE FALSE
    BY <2>3
  <2>4. ~ ServeRead
    <3> SUFFICES ASSUME ServeRead PROVE FALSE
      OBVIOUS
    <3> QED  BY <1>0, <2>3, HeadIs, SMTT(30) DEF ServeRead, JobStates
  <2>5. ~ ServeWrite
    <3> SUFFICES ASSUME ServeWrite PROVE FALSE
      OBVIOUS
    <3>1. \A k \in Jobs : job'[k].kind = job[k].kind
      <4> DEFINE r == Head(chain)
                 E == Excuse(r.zone, Jobs \ {r.job})
      <4>1. PICK a \in {"accepted", "failed"} : job' = [E EXCEPT ![r.job].answer = a]
        BY DEF ServeWrite
      <4>2. r.job \in Jobs /\ r.zone \in Zones
        BY HeadIs DEF ServeWrite
      <4> HIDE DEF r
      <4>3. E \in [Jobs -> JobStates] /\ \A k \in Jobs : E[k].kind = job[k].kind
        BY <4>2, ExcuseIs DEF FanInv
      <4> HIDE DEF E
      <4> QED  BY <4>1, <4>2, <4>3, Answered
    <3> QED  BY <3>1, <2>3
  <2>6. ~ ServeNothing
    <3> SUFFICES ASSUME ServeNothing PROVE FALSE
      OBVIOUS
    <3>1. \A k \in Jobs : job'[k].kind = job[k].kind
      <4> DEFINE r == Head(chain)
                 E == IF r.do = "read" THEN job ELSE Excuse(r.zone, {r.job})
      <4>1. PICK a \in {"refused", "failed"} : job' = [E EXCEPT ![r.job].answer = a]
        BY DEF ServeNothing
      <4>2. r.job \in Jobs /\ r.zone \in Zones
        BY HeadIs DEF ServeNothing
      <4> HIDE DEF r
      <4>3. E \in [Jobs -> JobStates] /\ \A k \in Jobs : E[k].kind = job[k].kind
        BY <1>0, <4>2, ExcuseIs DEF FanInv
      <4> HIDE DEF E
      <4> QED  BY <4>1, <4>2, <4>3, Answered
    <3> QED  BY <3>1, <2>3
  <2>7. ASSUME NEW y \in Zones, NEW t \in Setpoints, OthersWrite(y, t)  PROVE FALSE
    <3>1. \A k \in Jobs : job'[k].kind = job[k].kind
      BY <2>7, ExcuseIs DEF OthersWrite, FanInv
    <3> QED  BY <3>1, <2>3
  <2>8. ASSUME NEW i \in Jobs, ReadFan(i)  PROVE FALSE
    BY <2>8, <2>1 DEF ReadFan
  <2>9. ASSUME NEW i \in Jobs, NEW S, RestoreZones(i, S)  PROVE FALSE
    BY <2>9, <2>1 DEF RestoreZones
  <2>10. ASSUME NEW i \in Jobs, NEW S, NEW deg, BelowNow(i, S, deg)  PROVE FALSE
    BY <2>10, <2>1 DEF BelowNow
  <2>11. ASSUME NEW i \in Jobs, NEW y, NEW deg, ApplyZone(i, y, deg)  PROVE FALSE
    BY <2>11, <2>1 DEF ApplyZone
  <2>12. \A i \in Clicks : i \in Jobs
    BY DEF Jobs
  <2> QED
    BY <2>2, <2>4, <2>5, <2>6, <2>7, <2>8, <2>9, <2>10, <2>11, <2>12 DEF FanNext
<1> DEFINE q == NextPlan(i)
<1>2. job[i].answer # NONE /\ GoesOn(i, q, deg)
  BY <1>1, ResumeIs DEF FanInv
<1>3. /\ q \in Seq(Items)
      /\ \A k \in DOMAIN q : \E n \in DOMAIN job[i].plan : q[k] = job[i].plan[n]
      /\ job[i].kind = "restore" =>
            \A k \in DOMAIN job[i].plan : k # 1 /\ job[i].plan[k].do = "restore" =>
               \E n \in DOMAIN q : q[n] = job[i].plan[k]
  BY <1>2, NextPlanIs DEF FanInv
<1> HIDE DEF q
<1>4. i = j /\ (q = << >> \/ (Head(q).do = "set" /\ fanZones[Head(q).zone] = NONE))
  BY <1>0, <1>2 DEF GoesOn, JobStates
<1>5. q = << >>
  <2> SUFFICES ASSUME q # << >>  PROVE FALSE
    OBVIOUS
  <2>1. Head(q) = q[1] /\ 1 \in DOMAIN q
    BY <1>3
  <2>2. \A n \in DOMAIN job[j].plan : job[j].plan[n].do # "set"
    BY DEF FanInv, PlanInv
  <2> QED  BY <2>1, <2>2, <1>3, <1>4
<1>6. dev[z] = FanFactory[z] \/ ToDo(j, z)
  BY DEF FanInv, RestoreInv
<1>7. ~ ToDo(j, z)
  <2> SUFFICES ASSUME ToDo(j, z)  PROVE FALSE
    OBVIOUS
  <2>1. PICK k \in DOMAIN job[j].plan :
           job[j].plan[k] = Do("restore", z) /\ (k = 1 => job[j].answer = NONE)
    BY DEF ToDo
  <2>2. job[j].plan[k].do = "restore" /\ k # 1
    BY <2>1, <1>2, <1>4, ItemOf DEF Dos
  <2>3. DOMAIN q = {}
    BY <1>5
  <2> QED  BY <2>2, <2>3, <1>3, <1>4
<1> QED  BY <1>6, <1>7

-----------------------------------------------------------------------------
\* However the page's jobs interleave, its drawer keeps FanInv: every job goes by its
\* plan, one request of it waits at a time, and a baseline is the factory's table.
THEOREM FanInvCorrect == PageSpec => []FanInv
<1>1. PageInit => FanInv
  BY FanInitInv DEF PageInit
<1>2. FanInv /\ [UNCHANGED panel /\ PageNext]_<<panel, incidentVars, fanVars>> => FanInv'
  <2> SUFFICES ASSUME FanInv,
                      [UNCHANGED panel /\ PageNext]_<<panel, incidentVars, fanVars>>
               PROVE  FanInv'
    OBVIOUS
  <2>1. FanNext \/ UNCHANGED fanVars
    BY DEF PageNext
  <2> QED  BY <2>1, FanNextInv, FanStutter
<1> QED  BY <1>1, <1>2, PTL DEF PageSpec

\* When a restore ends, each zone it was to restore is as the console was shipped,
\* unless its request did not get through, it was refused, or another has written it.
THEOREM StockRestoredCorrect == PageSpec => StockRestored
<1>1. FanInv /\ [UNCHANGED panel /\ PageNext]_<<panel, incidentVars, fanVars>> =>
        [EndsRestored]_fanVars
  <2> SUFFICES ASSUME FanInv, FanNext  PROVE EndsRestored
    BY DEF PageNext
  <2> QED  BY RestoreEnds
<1> QED  BY FanInvCorrect, <1>1, PTL DEF PageSpec, StockRestored
=============================================================================
