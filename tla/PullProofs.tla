----------------------------- MODULE PullProofs -----------------------------
(***************************************************************************)
(* The kernel dump, for any windows, base, sizes of pieces and requests:   *)
(* no read outside the windows, no byte lost or repeated in a window, and  *)
(* an ELF whose segments are the windows.  A download of a file, for any   *)
(* requests and sizes: its bytes are in place, and it is whole or there is *)
(* a reason.                                                               *)
(***************************************************************************)
EXTENDS Pull, WellFoundedInduction, TLAPS

-----------------------------------------------------------------------------
\* The range check, as arithmetic on 64-bit numbers.

LEMMA WindowType ==
    ASSUME NEW w \in WindowNumbers
    PROVE  /\ Windows[w].start \in Nat /\ Windows[w].end \in Nat
           /\ Windows[w].start < Windows[w].end
           /\ Length(w) \in Nat /\ Length(w) = Windows[w].end - Windows[w].start
           /\ Windows[w].end <= Base /\ Base + Windows[w].end <= Top
<1> DEFINE Ranges == [start : Nat, end : Nat]
<1>1. Windows[w] \in Ranges
  <2>1. Windows \in Seq(Ranges)
    BY WindowsAreRanges
  <2> HIDE DEF Ranges
  <2> QED  BY <2>1 DEF WindowNumbers
<1>2. Windows[w].start < Windows[w].end
  BY WindowsAreRanges
<1>3. Windows[w].end <= Base /\ Base + Windows[w].end <= Top
  BY WindowsAreMapped
<1> QED  BY <1>1, <1>2, <1>3 DEF Length

LEMMA SizeType ==
    /\ Base \in Nat /\ Top \in Nat /\ MaxWant \in Nat \ {0}
    /\ Chunk \in Nat \ {0} /\ Chunk <= MaxWant /\ XferChunk \in Nat \ {0}
    /\ MaxWant <= Base /\ Base + MaxWant <= Top
<1>1. PICK w \in WindowNumbers : MaxWant <= Windows[w].end
  BY MaxWantFits
<1>2. Base \in Nat /\ Top \in Nat
  BY WindowsAreMapped
<1>3. MaxWant \in Nat \ {0}
  BY MaxWantFits
<1>4. Chunk \in Nat \ {0} /\ Chunk <= MaxWant /\ XferChunk \in Nat \ {0}
  BY <1>3, ChunksArePos
<1> QED  BY <1>1, <1>2, <1>3, <1>4, WindowType

\* What the check accepts lies inside a window: the sum it tests has not wrapped.
LEMMA AcceptedIsInside ==
    ASSUME NEW a \in 0..(Top - 1), NEW k \in Nat, Accepted(Offset(a), k)
    PROVE  /\ Offset(a) \in Nat
           /\ \E w \in WindowNumbers :
                 Offset(a) >= Windows[w].start /\ Offset(a) + k <= Windows[w].end
<1>1. k # 0 /\ k <= MaxWant
  BY DEF Accepted
<1>2. Offset(a) \in Nat /\ Offset(a) + k < Top
  BY <1>1, SizeType DEF Offset
<1>3. PICK w \in WindowNumbers :
         Offset(a) >= Windows[w].start /\ Wrap(Offset(a) + k) <= Windows[w].end
  BY DEF Accepted, Inside
<1>4. Wrap(Offset(a) + k) = Offset(a) + k
  BY <1>2, SizeType DEF Wrap
<1> QED  BY <1>2, <1>3, <1>4

LEMMA PieceType ==
    ASSUME TypeOK, done < want
    PROVE  Piece \in 1..(want - done)
BY SizeType DEF TypeOK, Piece, Min2

-----------------------------------------------------------------------------
\* Types.

\* The inductive invariant.
IInv == TypeOK /\ CopyInv /\ RangeInv /\ StreamInv

LEMMA SentType ==
    ASSUME TypeOK, NEW k \in Nat
    PROVE  Sent(k) \in Seq(Bytes) /\ Len(Sent(k)) = k
BY DEF Sent, Bytes, TypeOK

LEMMA DeliverType ==
    ASSUME TypeOK, NEW k \in Nat, Deliver(k)
    PROVE  wire' \in Seq(Bytes)
<1>1. wire \in Seq(Bytes)
  BY Zenon DEF TypeOK
<1>2. CASE serving = "pull" /\ clen # NULL
  BY <1>1, <1>2, SentType DEF Deliver
<1>3. CASE ~ (serving = "pull" /\ clen # NULL)
  BY <1>1, <1>3 DEF Deliver
<1> QED  BY <1>2, <1>3

LEMMA NoBytes == << >> \in Seq(Bytes)
OBVIOUS

LEMMA InitType == Init => TypeOK
<1> SUFFICES ASSUME Init PROVE TypeOK
  OBVIOUS
<1>1. 1 \in WindowNumbers
  BY MaxWantFits, WindowsAreRanges DEF WindowNumbers
<1>2. 0 \in 0..Length(1)
  BY <1>1, WindowType
<1>3. closed \in BOOLEAN /\ short \in BOOLEAN /\ refused \in BOOLEAN
  BY DEF Init
<1>4. wire \in Seq(Bytes) /\ file \in Seq(Bytes)
  BY DEF Init
<1> QED  BY <1>1, <1>2, <1>3, <1>4, SizeType DEF Init, TypeOK

LEMMA NextType == TypeOK /\ RangeInv /\ [Next]_vars => TypeOK'
<1> SUFFICES ASSUME TypeOK, RangeInv, [Next]_vars PROVE TypeOK'
  OBVIOUS
<1>1. CASE ServeOther
  <2>1. PICK a, k \in 0..(Top - 1) : Accepted(Offset(a), k) /\ Serve("other", a, k)
    BY <1>1 DEF ServeOther
  <2>2. Offset(a) \in Nat
    BY <2>1, AcceptedIsInside
  <2> QED  BY <1>1, <2>1, <2>2 DEF ServeOther, Serve, TypeOK, connection, client, image
<1>2. CASE ServePull
  <2>1. ask.address \in 0..(Top - 1) /\ ask.length \in 1..Chunk
    BY <1>2 DEF ServePull, TypeOK
  <2>2. Offset(ask.address) \in Nat
    BY <1>2, <2>1, SizeType, AcceptedIsInside DEF ServePull
  <2> QED  BY <1>2, <2>1, <2>2, SizeType DEF ServePull, Serve, TypeOK, client, image
<1>3. CASE RefusePull
  <2>1. wire' \in Seq(Bytes) /\ closed' \in BOOLEAN /\ refused' \in BOOLEAN
    BY <1>3 DEF RefusePull, Bytes
  <2> QED  BY <1>3, <2>1 DEF RefusePull, TypeOK, request, client, image
<1>4. CASE CopyPiece
  <2>1. Piece \in 1..(want - done)
    BY <1>4, PieceType DEF CopyPiece
  <2>2. wire' \in Seq(Bytes)
    BY <1>4, <2>1, DeliverType DEF CopyPiece, TypeOK
  <2>3. done' \in Nat /\ done' <= want
    BY <1>4, <2>1 DEF CopyPiece, TypeOK
  <2> QED  BY <1>4, <2>2, <2>3 DEF CopyPiece, TypeOK, client, image
<1>5. CASE CopyEnds
  <2>1. closed' \in BOOLEAN
    BY <1>5, Zenon DEF CopyEnds, Close, TypeOK
  <2> QED  BY <1>5, <2>1 DEF CopyEnds, Close, TypeOK, request, client, image
<1>6. CASE CopyFails
  <2>1. Piece \in 1..(want - done)
    BY <1>6, PieceType DEF CopyFails
  <2>2. PICK k \in 0..(Piece - 1) : Deliver(k)
    BY <1>6 DEF CopyFails
  <2>3. wire' \in Seq(Bytes)
    BY <2>1, <2>2, DeliverType DEF TypeOK
  <2>4. closed' \in BOOLEAN
    BY <1>6, Zenon DEF CopyFails, Close, TypeOK
  <2> QED  BY <1>6, <2>3, <2>4 DEF CopyFails, Close, TypeOK, request, client, image
<1>7. CASE Info
  BY <1>7 DEF Info, TypeOK, request, connection, image
<1>8. CASE AskRange
  <2>1. /\ win \in WindowNumbers /\ pulled \in Nat
        /\ pulled < Length(win) /\ Length(win) \in Nat
    BY <1>8, WindowType DEF AskRange, TypeOK
  <2>2. n' \in 1..Chunk
    BY <1>8, <2>1, SizeType DEF AskRange, Min2
  <2>3. Windows[win].start + pulled \in 0..(Top - 1)
    BY <2>1, WindowType, SizeType
  <2> QED  BY <1>8, <2>2, <2>3 DEF AskRange, TypeOK, request, image
<1>9. CASE ReadBytes
  <2> DEFINE k == Min2(Len(wire), n - got)
  <2>1. wire \in Seq(Bytes) /\ file \in Seq(Bytes)
    BY Zenon DEF TypeOK
  <2>2. k \in Nat /\ k <= n - got /\ k <= Len(wire)
    <3>1. Len(wire) \in Nat /\ n \in Nat /\ got \in Nat /\ got < n
      BY <1>9, <2>1 DEF ReadBytes, TypeOK
    <3> QED  BY <3>1 DEF Min2
  <2>3. file' \in Seq(Bytes) /\ Len(file') = Len(file) + k
    BY <1>9, <2>1, <2>2 DEF ReadBytes
  <2>4. wire' \in Seq(Bytes)
    BY <1>9, <2>1, <2>2 DEF ReadBytes
  <2>5. got' \in 0..n
    BY <1>9, <2>2 DEF ReadBytes, TypeOK
  <2>6. from \in 0..Len(file')
    BY <2>1, <2>2, <2>3 DEF TypeOK
  <2> QED  BY <1>9, <2>3, <2>4, <2>5, <2>6 DEF ReadBytes, TypeOK, request
<1>10. CASE RangeEnds
  <2>1. pulled' \in 0..Length(win)
    BY <1>10, WindowType DEF RangeEnds, RangeInv, TypeOK
  <2>2. wire' = << >> /\ closed' = FALSE /\ ask' = NULL /\ clen' = NULL
    BY <1>10 DEF RangeEnds, Hangs
  <2>3. wire' \in Seq(Bytes) /\ closed' \in BOOLEAN
    BY <2>2, NoBytes
  <2>4. cpc' \in {"next", "ask"}
    BY <1>10 DEF RangeEnds
  <2> QED  BY <1>10, <2>1, <2>2, <2>3, <2>4 DEF RangeEnds, TypeOK, request, image
<1>11. CASE WindowEnds
  BY <1>11 DEF WindowEnds, TypeOK, request, connection, image
<1>12. CASE NextWindow
  <2>1. short' \in BOOLEAN
    BY <1>12, Zenon DEF NextWindow, TypeOK
  <2>2. CASE win < Len(Windows) /\ win' = win + 1
    <3>1. win' \in WindowNumbers
      BY <2>2, WindowsAreRanges DEF WindowNumbers, TypeOK
    <3>2. 0 \in 0..Length(win')
      BY <3>1, WindowType
    <3>3. Len(file) \in Nat
      BY DEF TypeOK
    <3> QED  BY <1>12, <2>1, <2>2, <3>1, <3>2, <3>3, SizeType
             DEF NextWindow, TypeOK, request, connection
  <2>3. CASE UNCHANGED <<win, pulled, from, n, got>>
    BY <1>12, <2>1, <2>3 DEF NextWindow, TypeOK, request, connection
  <2> QED  BY <1>12, <2>2, <2>3 DEF NextWindow
<1>13. CASE Fails
  <2>1. wire' = << >> /\ closed' = FALSE /\ ask' = NULL /\ clen' = NULL
    BY <1>13 DEF Fails, Hangs
  <2>2. wire' \in Seq(Bytes) /\ closed' \in BOOLEAN
    BY <2>1, NoBytes
  <2> QED  BY <1>13, <2>1, <2>2 DEF Fails, TypeOK, request, image
<1>14. CASE WriteElf
  BY <1>14 DEF WriteElf, TypeOK, request, connection, image
<1>15. CASE UNCHANGED vars
  BY <1>15 DEF vars, TypeOK, request, connection, client, image
<1> QED  BY <1>1, <1>2, <1>3, <1>4, <1>5, <1>6, <1>7, <1>8, <1>9, <1>10, <1>11,
            <1>12, <1>13, <1>14, <1>15 DEF Next, Server, Client

-----------------------------------------------------------------------------
\* What is copied is inside a window.

LEMMA NextCopy == TypeOK /\ CopyInv /\ [Next]_vars => CopyInv'
<1> SUFFICES ASSUME TypeOK, CopyInv, [Next]_vars PROVE CopyInv'
  OBVIOUS
<1>1. CASE ServeOther
  <2>1. PICK a, k \in 0..(Top - 1) : Accepted(Offset(a), k) /\ Serve("other", a, k)
    BY <1>1 DEF ServeOther
  <2>2. \E w \in WindowNumbers :
           Offset(a) >= Windows[w].start /\ Offset(a) + k <= Windows[w].end
    BY <2>1, AcceptedIsInside
  <2> QED  BY <2>1, <2>2 DEF Serve, CopyInv
<1>2. CASE ServePull
  <2>1. ask.address \in 0..(Top - 1) /\ ask.length \in Nat
    BY <1>2 DEF ServePull, TypeOK
  <2>2. \E w \in WindowNumbers :
           /\ Offset(ask.address) >= Windows[w].start
           /\ Offset(ask.address) + ask.length <= Windows[w].end
    BY <1>2, <2>1, AcceptedIsInside DEF ServePull
  <2> QED  BY <1>2, <2>2 DEF ServePull, Serve, CopyInv
<1>3. CASE RefusePull \/ CopyEnds \/ CopyFails
  BY <1>3 DEF RefusePull, CopyEnds, CopyFails, Close, CopyInv, request
<1>4. CASE CopyPiece
  BY <1>4 DEF CopyPiece, CopyInv
<1>5. CASE UNCHANGED <<serving, request>>
  BY <1>5 DEF CopyInv, request
<1>6. Info \/ Client \/ Fails => UNCHANGED <<serving, request>>
  BY DEF Info, Client, Fails, AskRange, ReadBytes, RangeEnds, WindowEnds, NextWindow, WriteElf
<1>7. UNCHANGED vars => UNCHANGED <<serving, request>>
  BY DEF vars
<1> QED  BY <1>1, <1>2, <1>3, <1>4, <1>5, <1>6, <1>7 DEF Next, Server

-----------------------------------------------------------------------------
\* A request or an answer belongs to the range the client is at.

LEMMA DeliverLength ==
    ASSUME TypeOK, NEW k \in Nat, Deliver(k)
    PROVE  /\ serving = "pull" /\ clen # NULL => Len(wire') = Len(wire) + k
           /\ ~ (serving = "pull" /\ clen # NULL) => wire' = wire
<1>1. wire \in Seq(Bytes)
  BY Zenon DEF TypeOK
<1>2. CASE serving = "pull" /\ clen # NULL
  <2>1. wire' = wire \o Sent(k)
    BY <1>2 DEF Deliver
  <2>2. Sent(k) \in Seq(Bytes) /\ Len(Sent(k)) = k
    BY SentType
  <2>3. Len(wire \o Sent(k)) = Len(wire) + k
    BY <1>1, <2>2
  <2> QED  BY <1>2, <2>1, <2>3
<1>3. CASE ~ (serving = "pull" /\ clen # NULL)
  BY <1>3 DEF Deliver
<1> QED  BY <1>2, <1>3

LEMMA NextRange == TypeOK /\ RangeInv /\ [Next]_vars => RangeInv'
<1> SUFFICES ASSUME TypeOK, RangeInv, [Next]_vars PROVE RangeInv'
  OBVIOUS
<1>1. CASE ServeOther
  <2>1. serving' = "other"
    BY <1>1 DEF ServeOther, Serve
  <2> QED  BY <1>1, <2>1 DEF ServeOther, RangeInv, connection, client
<1>2. CASE ServePull
  <2>1. /\ cpc = "read" /\ clen = NULL /\ got = 0 /\ wire = << >>
        /\ ask.address = Windows[win].start + pulled /\ ask.length = n
        /\ n <= Length(win) - pulled
    BY <1>2 DEF ServePull, RangeInv
  <2>2. ask.length \in Nat \ {0} /\ ask.length # NULL
    BY <1>2, MarksAreNoBytes DEF ServePull, TypeOK
  <2>3. Offset(ask.address) = Windows[win].start + pulled
    <3>1. win \in WindowNumbers /\ pulled \in Nat
      BY WindowType DEF TypeOK
    <3>2. /\ Windows[win].start \in Nat /\ Length(win) = Windows[win].end - Windows[win].start
          /\ Windows[win].end \in Nat /\ Windows[win].end <= Base
      BY <3>1, WindowType
    <3>3. n \in Nat \ {0}
      BY <2>1, <2>2
    <3>4. ask.address < Base
      BY <2>1, <3>1, <3>2, <3>3, SizeType
    <3> QED  BY <2>1, <3>1, <3>2, <3>4, SizeType DEF Offset
  <2>4. Len(wire) = 0
    BY <2>1
  <2>5. /\ off' = Windows[win].start + pulled /\ want' = n /\ done' = 0
        /\ clen' = n /\ ask' = NULL
    BY <1>2, <2>1, <2>3 DEF ServePull, Serve
  <2> QED  BY <1>2, <2>1, <2>2, <2>4, <2>5 DEF ServePull, RangeInv, client
<1>3. CASE RefusePull
  <2>1. 1 # NULL
    BY MarksAreNoBytes
  <2> QED  BY <1>3, <2>1 DEF RefusePull, RangeInv, request, client
<1>4. CASE CopyPiece
  <2>1. Piece \in Nat
    BY <1>4, PieceType DEF CopyPiece, TypeOK
  <2>2. Deliver(Piece) /\ done' = done + Piece
    BY <1>4 DEF CopyPiece
  <2>3. Len(wire) \in Nat /\ done \in Nat /\ got \in Nat
    BY DEF TypeOK
  <2> QED  BY <1>4, <2>1, <2>2, <2>3, DeliverLength DEF CopyPiece, RangeInv, client
<1>5. CASE CopyEnds
  BY <1>5 DEF CopyEnds, Close, RangeInv, request, client
<1>6. CASE CopyFails
  <2>1. Piece \in Nat
    BY <1>6, PieceType DEF CopyFails, TypeOK
  <2>2. PICK k \in 0..(Piece - 1) : Deliver(k)
    BY <1>6 DEF CopyFails
  <2>3. clen = NULL => wire' = wire
    BY <2>1, <2>2, DeliverLength
  <2> QED  BY <1>6, <2>3 DEF CopyFails, Close, RangeInv, request, client
<1>7. CASE AskRange
  <2>1. ask = NULL /\ clen = NULL /\ wire = << >>
    BY <1>7 DEF AskRange, RangeInv
  <2>2. n' <= Length(win) - pulled
    <3>1. Length(win) - pulled \in Nat
      BY <1>7, WindowType DEF AskRange, TypeOK
    <3> QED  BY <1>7, <3>1, SizeType DEF AskRange, Min2
  <2>3. /\ ask'.address = Windows[win].start + pulled /\ ask'.length = n' /\ got' = 0
        /\ cpc' = "read" /\ clen' = NULL /\ wire' = << >>
        /\ UNCHANGED <<win, pulled>>
    BY <1>7, <2>1 DEF AskRange
  <2> QED  BY <2>2, <2>3 DEF RangeInv
<1>8. CASE ReadBytes
  <2>1. clen # NULL /\ ask = NULL
    BY <1>8 DEF ReadBytes, RangeInv
  <2> DEFINE k == Min2(Len(wire), n - got)
  <2>2. wire \in Seq(Bytes) /\ Len(wire) \in Nat /\ n \in Nat /\ got \in Nat /\ got < n
    BY <1>8 DEF TypeOK, ReadBytes
  <2>3. k \in Nat /\ k <= Len(wire)
    BY <2>2 DEF Min2
  <2>4. Len(wire') = Len(wire) - k /\ got' = got + k
    <3>1. wire' = SubSeq(wire, k + 1, Len(wire)) /\ got' = got + k
      BY <1>8 DEF ReadBytes
    <3> HIDE DEF k
    <3>2. Len(SubSeq(wire, k + 1, Len(wire))) = Len(wire) - k
      BY <2>2, <2>3
    <3> QED  BY <3>1, <3>2
  <2>5. got' + Len(wire') = got + Len(wire)
    BY <2>2, <2>3, <2>4
  <2> QED  BY <1>8, <2>1, <2>5 DEF ReadBytes, RangeInv, request
<1>9. CASE RangeEnds \/ Fails
  <2>1. cpc' # "read" /\ ask' = NULL /\ clen' = NULL /\ wire' = << >>
    BY <1>9 DEF RangeEnds, Fails, Hangs
  <2> QED  BY <2>1 DEF RangeInv
<1>10. CASE Info \/ WindowEnds \/ NextWindow \/ WriteElf
  <2>1. cpc # "read" /\ cpc' # "read" /\ UNCHANGED connection
    BY <1>10 DEF Info, WindowEnds, NextWindow, WriteElf
  <2> QED  BY <2>1 DEF RangeInv, connection
<1>11. CASE UNCHANGED vars
  BY <1>11 DEF vars, RangeInv, request, connection, client
<1> QED  BY <1>1, <1>2, <1>3, <1>4, <1>5, <1>6, <1>7, <1>8, <1>9, <1>10, <1>11
         DEF Next, Server, Client

-----------------------------------------------------------------------------
\* The answer goes on in the window where the file and what is on its way end.

\* What is on its way, seen from the range a client is at.
GoesOn(w, p, g) == \A j \in 1..Len(w) : w[j] = Windows[win].start + p + g + j - 1

LEMMA PlaceType ==
    ASSUME TypeOK
    PROVE  /\ Windows[win].start \in Nat /\ pulled \in Nat /\ got \in Nat /\ n \in Nat
           /\ Len(wire) \in Nat /\ Len(file) \in Nat /\ from \in Nat /\ from <= Len(file)
           /\ off \in Nat /\ done \in Nat
BY WindowType DEF TypeOK

LEMMA DeliverStream ==
    ASSUME TypeOK, RangeInv, NEW k \in Nat, Deliver(k), GoesOn(wire, pulled, got)
    PROVE  GoesOn(wire', pulled, got)
<1>1. wire \in Seq(Bytes)
  BY Zenon DEF TypeOK
<1>2. CASE serving = "pull" /\ clen # NULL
  <2>1. wire' = wire \o Sent(k)
    BY <1>2 DEF Deliver
  <2>2. Sent(k) \in Seq(Bytes) /\ Len(Sent(k)) = k
    BY SentType
  <2>3. off = Windows[win].start + pulled /\ done = got + Len(wire)
    BY <1>2 DEF RangeInv
  <2>4. Len(wire \o Sent(k)) = Len(wire) + k
    BY <1>1, <2>2
  <2> SUFFICES ASSUME NEW j \in 1..(Len(wire) + k)
               PROVE  (wire \o Sent(k))[j] = Windows[win].start + pulled + got + j - 1
    BY <2>1, <2>4 DEF GoesOn
  <2>5. CASE j <= Len(wire)
    <3>1. j \in 1..Len(wire)
      BY <2>5, PlaceType
    <3>2. (wire \o Sent(k))[j] = wire[j]
      BY <1>1, <2>2, <3>1
    <3> QED  BY <3>1, <3>2 DEF GoesOn
  <2>6. CASE j > Len(wire)
    <3>1. j - Len(wire) \in 1..k
      BY <2>6, PlaceType
    <3>2. (wire \o Sent(k))[j] = Sent(k)[j - Len(wire)]
      BY <1>1, <2>2, <2>6
    <3>3. Sent(k)[j - Len(wire)] = off + done + (j - Len(wire)) - 1
      BY <3>1 DEF Sent
    <3> QED  BY <2>3, <3>2, <3>3, PlaceType, SMTT(30)
  <2>7. Len(wire) \in Nat
    BY PlaceType
  <2>8. j <= Len(wire) \/ j > Len(wire)
    BY <2>7
  <2> QED  BY <2>5, <2>6, <2>8
<1>3. CASE ~ (serving = "pull" /\ clen # NULL)
  BY <1>3 DEF Deliver
<1> QED  BY <1>2, <1>3

\* Two sums, on their own.
LEMMA SumGroups ==
    ASSUME NEW a \in Int, NEW b \in Int, NEW c \in Int, NEW d \in Int
    PROVE  a + b + c + d - 1 = a + (b + c + d) - 1
OBVIOUS

LEMMA SumCancels ==
    ASSUME NEW a \in Int, NEW b \in Int, NEW c \in Int, NEW d \in Int, NEW e \in Int,
           a + e = (a + b + c) + d
    PROVE  e = b + c + d
OBVIOUS

LEMMA NextStream == TypeOK /\ RangeInv /\ StreamInv /\ [Next]_vars => StreamInv'
<1> SUFFICES ASSUME TypeOK, RangeInv, StreamInv, [Next]_vars, ~ refused' PROVE StreamInv'
  BY DEF StreamInv
<1>0. ~ refused
  BY DEF Next, vars, ServeOther, ServePull, RefusePull, Server, CopyPiece, CopyEnds, CopyFails,
         Info, Client, AskRange, ReadBytes, RangeEnds, WindowEnds, NextWindow, WriteElf, Fails
<1>1. /\ GoesOn(wire, pulled, got)
      /\ cpc \in {"info", "ask"} => Len(file) = from + pulled
      /\ cpc = "read" => Len(file) = from + pulled + got
      /\ \A j \in 1..(Len(file) - from) : file[from + j] = Windows[win].start + j - 1
  BY <1>0 DEF StreamInv, PulledIsPrefix, GoesOn
<1>2. CASE UNCHANGED <<wire, client, image>>
  BY <1>1, <1>2 DEF StreamInv, PulledIsPrefix, GoesOn, client, image
<1>3. ServeOther \/ ServePull \/ CopyEnds \/ UNCHANGED vars => UNCHANGED <<wire, client, image>>
  BY DEF ServeOther, ServePull, CopyEnds, vars, connection
<1>4. CASE RefusePull
  BY <1>4 DEF RefusePull
<1>5. CASE CopyPiece \/ CopyFails
  <2>1. \E k \in Nat : Deliver(k)
    <3>1. Piece \in 1..(want - done)
      BY <1>5, PieceType DEF CopyPiece, CopyFails
    <3> QED  BY <1>5, <3>1 DEF CopyPiece, CopyFails, TypeOK
  <2>2. GoesOn(wire', pulled, got)
    BY <1>1, <2>1, DeliverStream
  <2>3. UNCHANGED <<client, image>>
    BY <1>5 DEF CopyPiece, CopyFails
  <2> QED  BY <1>1, <2>2, <2>3 DEF StreamInv, PulledIsPrefix, GoesOn, client, image
<1>6. CASE Info \/ WindowEnds \/ WriteElf
  <2>1. /\ UNCHANGED <<wire, win, pulled, n, got, image>>
        /\ cpc' = "ask" => cpc = "info"
        /\ cpc' \notin {"info", "read"}
    BY <1>6 DEF Info, WindowEnds, WriteElf, connection
  <2> QED  BY <1>1, <2>1 DEF StreamInv, PulledIsPrefix, GoesOn, image
<1>7. CASE AskRange
  <2>1. /\ wire' = << >> /\ got' = 0 /\ cpc = "ask" /\ cpc' = "read"
        /\ UNCHANGED <<win, pulled, file, from, short>>
    BY <1>7 DEF AskRange, RangeInv, image
  <2>2. Len(wire') = 0
    BY <2>1
  <2> QED  BY <1>1, <2>1, <2>2, PlaceType DEF StreamInv, PulledIsPrefix
<1>8. CASE ReadBytes
  <2> DEFINE k == Min2(Len(wire), n - got)
  <2>1. /\ cpc = "read" /\ cpc' = "read" /\ UNCHANGED <<win, pulled, from>>
        /\ got < n /\ got' = got + k
        /\ file' = file \o SubSeq(wire, 1, k) /\ wire' = SubSeq(wire, k + 1, Len(wire))
    BY <1>8 DEF ReadBytes
  <2>10. /\ Windows[win].start \in Nat /\ pulled \in Nat /\ got \in Nat
        /\ Len(file) \in Nat /\ from \in Nat /\ Len(wire) \in Nat
    BY PlaceType
  <2>11. got' = got + k /\ UNCHANGED <<win, pulled, from>>
    BY <2>1
  <2>12. Len(file) = from + pulled + got
    BY <1>1, <2>1
  <2>2. wire \in Seq(Bytes) /\ file \in Seq(Bytes)
    BY Zenon DEF TypeOK
  <2>3. k \in Nat /\ k <= Len(wire)
    BY <2>1, PlaceType DEF Min2
  <2> HIDE DEF k
  <2>4. /\ SubSeq(wire, 1, k) \in Seq(Bytes) /\ Len(SubSeq(wire, 1, k)) = k
        /\ \A j \in 1..k : SubSeq(wire, 1, k)[j] = wire[j]
    BY <2>2, <2>3
  <2>5. /\ Len(wire') = Len(wire) - k
        /\ \A j \in 1..(Len(wire) - k) : wire'[j] = wire[k + j]
    BY <2>1, <2>2, <2>3
  <2>6. Len(file') = Len(file) + k
    BY <2>1, <2>2, <2>4
  <2>7. \A j \in 1..Len(wire') : wire'[j] = Windows[win].start + pulled + got' + j - 1
    <3> SUFFICES ASSUME NEW j \in 1..(Len(wire) - k)
                 PROVE  wire'[j] = Windows[win].start + pulled + got' + j - 1
      BY <2>5
    <3>1. k + j \in 1..Len(wire)
      BY <2>3, PlaceType
    <3>2. wire[k + j] = Windows[win].start + pulled + got + (k + j) - 1
      BY <1>1, <3>1 DEF GoesOn
    <3>3. wire'[j] = Windows[win].start + pulled + got + (k + j) - 1
      BY <2>5, <3>2
    <3> QED  BY <2>11, <2>3, <2>10, <3>3, SMTT(30)
  <2>8. Len(file') = from + pulled + got'
    BY <2>12, <2>11, <2>3, <2>6, PlaceType
  <2>9. ASSUME NEW j \in 1..(Len(file') - from)
        PROVE  file'[from + j] = Windows[win].start + j - 1
    <3>1. CASE from + j <= Len(file)
      <4>1. j \in 1..(Len(file) - from) /\ from + j \in 1..Len(file)
        BY <3>1, PlaceType
      <4>2. file'[from + j] = file[from + j]
        BY <2>1, <2>2, <2>4, <4>1
      <4> QED  BY <1>1, <4>1, <4>2
    <3>2. CASE from + j > Len(file)
      <4> DEFINE i == from + j - Len(file)
      <4>1. i \in 1..k /\ from + j = Len(file) + i /\ i \in 1..Len(wire)
        BY <2>3, <2>6, <3>2, PlaceType, SMTT(30)
      <4> HIDE DEF i
      <4>2. file'[from + j] = SubSeq(wire, 1, k)[i]
        <5> DEFINE t == SubSeq(wire, 1, k)
        <5>1. t \in Seq(Bytes) /\ Len(t) = k /\ file' = file \o t
          BY <2>1, <2>4
        <5> HIDE DEF t
        <5>2. (file \o t)[Len(file) + i] = t[i]
          <6>1. i \in 1..Len(t)
            BY <4>1, <5>1
          <6> QED  BY <2>2, <5>1, <6>1
        <5> QED  BY <4>1, <5>1, <5>2 DEF t
      <4>3. SubSeq(wire, 1, k)[i] = Windows[win].start + pulled + got + i - 1
        BY <1>1, <2>4, <4>1 DEF GoesOn
      <4>4. j = pulled + got + i
        <5>1. i \in Nat /\ j \in Int
          BY <2>6, <2>10, <2>3, <4>1
        <5>2. from + j = (from + pulled + got) + i
          BY <2>12, <4>1
        <5> QED  BY <2>10, <5>1, <5>2, SumCancels
      <4>5. file'[from + j] = Windows[win].start + pulled + got + i - 1
        BY <4>2, <4>3
      <4>6. i \in Nat
        BY <4>1
      <4>7. Windows[win].start + pulled + got + i - 1
             = Windows[win].start + (pulled + got + i) - 1
        <5> DEFINE s == Windows[win].start
        <5>1. s \in Int /\ pulled \in Int /\ got \in Int /\ i \in Int
          BY <2>10, <4>6
        <5> HIDE DEF s
        <5>2. s + pulled + got + i - 1 = s + (pulled + got + i) - 1
          BY <5>1, SumGroups
        <5> QED  BY <5>2 DEF s
      <4> QED  BY <4>4, <4>5, <4>7
    <3> QED  BY <3>1, <3>2, <2>6, <2>3, PlaceType
  <2> QED  BY <2>1, <2>7, <2>8, <2>9 DEF StreamInv, PulledIsPrefix, GoesOn
<1>9. CASE RangeEnds
  <2>1. /\ cpc = "read" /\ cpc' \in {"next", "ask"} /\ wire' = << >> /\ pulled' = pulled + got
        /\ UNCHANGED <<win, file, from>>
    BY <1>9 DEF RangeEnds, Hangs, image
  <2>2. Len(wire') = 0
    BY <2>1
  <2> QED  BY <1>1, <2>1, <2>2, PlaceType DEF StreamInv, PulledIsPrefix
<1>10. CASE NextWindow
  <2>1. wire' = << >> /\ UNCHANGED file
    BY <1>10 DEF NextWindow, RangeInv, connection
  <2>2. Len(wire') = 0
    BY <2>1
  <2>3. CASE cpc' = "ask" /\ pulled' = 0 /\ from' = Len(file)
    BY <2>1, <2>2, <2>3, PlaceType DEF StreamInv, PulledIsPrefix
  <2>4. CASE cpc' = "elf" /\ UNCHANGED <<win, from>>
    BY <1>1, <2>1, <2>2, <2>4 DEF StreamInv, PulledIsPrefix
  <2> QED  BY <1>10, <2>3, <2>4 DEF NextWindow
<1>11. CASE Fails
  <2>1. cpc' = "failed" /\ wire' = << >> /\ UNCHANGED <<win, file, from>>
    BY <1>11 DEF Fails, Hangs, image
  <2>2. Len(wire') = 0
    BY <2>1
  <2> QED  BY <1>1, <2>1, <2>2 DEF StreamInv, PulledIsPrefix
<1> QED  BY <1>2, <1>3, <1>4, <1>5, <1>6, <1>7, <1>8, <1>9, <1>10, <1>11
         DEF Next, Server, Client

-----------------------------------------------------------------------------
LEMMA InitInv == Init => IInv
<1> SUFFICES ASSUME Init PROVE IInv
  OBVIOUS
<1>1. Len(wire) = 0 /\ Len(file) = 0
  BY DEF Init
<1>2. CopyInv /\ RangeInv
  BY DEF Init, CopyInv, RangeInv
<1>3. StreamInv
  BY <1>1 DEF Init, StreamInv, PulledIsPrefix
<1> QED  BY <1>2, <1>3, InitType DEF IInv

LEMMA NextInv == IInv /\ [Next]_vars => IInv'
BY NextType, NextCopy, NextRange, NextStream DEF IInv

\* What the next piece would read is inside the window its request is in, and
\* inside the address space: Base + off + done does not wrap.
LEMMA CopyIsMapped == TypeOK /\ CopyInv => ReadsMapped
<1> SUFFICES ASSUME TypeOK, CopyInv, serving # "idle", NEW j \in 0..(Piece - 1)
             PROVE  Mapped(Wrap(Base + off + done + j))
  BY DEF ReadsMapped
<1>1. PICK w \in WindowNumbers : off >= Windows[w].start /\ off + want <= Windows[w].end
  BY DEF CopyInv
<1>2. off \in Nat /\ want \in Nat /\ done \in Nat /\ done + j < want /\ j \in Nat
  BY SizeType DEF TypeOK, Piece, Min2
<1>3. Base + off + done + j < Top
  BY <1>1, <1>2, WindowType, SizeType
<1>4. Wrap(Base + off + done + j) = Base + off + done + j
  BY <1>2, <1>3, SizeType DEF Wrap
<1>5. /\ Base + off + done + j >= Base + Windows[w].start
      /\ Base + off + done + j < Base + Windows[w].end
  BY <1>1, <1>2, WindowType, SizeType
<1> QED  BY <1>4, <1>5 DEF Mapped

-----------------------------------------------------------------------------
\* Where a window begins in the file.  Before is defined by recursion: that there
\* is such a function is shown by the least number for which there would be none.

LEMMA LeastOf ==
    ASSUME NEW T \in SUBSET Nat, T # {}
    PROVE  \E m \in T : \A k \in T : m <= k
<1> DEFINE R == OpToRel(<, Nat)
<1>1. PICK m \in T : \A k \in T : <<k, m>> \notin R
  <2>1. IsWellFoundedOn(R, Nat)
    BY NatLessThanWellFounded
  <2> HIDE DEF R
  <2> QED  BY <2>1, WFMin, Zenon
<1>2. \A k \in T : ~ (k < m)
  BY <1>1 DEF OpToRel
<1> QED  BY <1>2

Adds(f, m) ==
    /\ f \in [0..m -> Nat] /\ f[0] = 0
    /\ \A w \in 1..m : f[w] = f[w - 1] + Length(w)

LEMMA WindowCount == Len(Windows) \in Nat /\ WindowNumbers = 1..Len(Windows)
BY WindowsAreRanges DEF WindowNumbers

LEMMA SumsExist == \A m \in 0..Len(Windows) : \E f : Adds(f, m)
<1> DEFINE T == {m \in 0..Len(Windows) : ~ \E f : Adds(f, m)}
<1> SUFFICES ASSUME T # {} PROVE FALSE
  OBVIOUS
<1>1. T \in SUBSET Nat
  BY WindowCount
<1>2. PICK m \in T : \A k \in T : m <= k
  <2> HIDE DEF T
  <2> QED  BY <1>1, LeastOf
<1>3. m # 0
  <2>1. Adds([w \in 0..0 |-> 0], 0)
    BY DEF Adds
  <2> QED  BY <2>1
<1>4. m \in 1..Len(Windows) /\ m - 1 \in 0..Len(Windows) /\ m - 1 \notin T
  BY <1>2, <1>3, WindowCount
<1>5. PICK f : Adds(f, m - 1)
  BY <1>4
<1> DEFINE g == [w \in 0..m |-> IF w = m THEN f[m - 1] + Length(m) ELSE f[w]]
<1>6. Adds(g, m)
  <2>1. f[m - 1] \in Nat /\ Length(m) \in Nat
    BY <1>4, <1>5, WindowCount, WindowType DEF Adds
  <2>2. g \in [0..m -> Nat] /\ g[0] = 0
    BY <1>4, <1>5, <2>1 DEF Adds
  <2>3. ASSUME NEW w \in 1..m PROVE g[w] = g[w - 1] + Length(w)
    <3>1. CASE w = m
      BY <1>4, <3>1
    <3>2. CASE w # m
      BY <1>4, <1>5, <3>2 DEF Adds
    <3> QED  BY <3>1, <3>2
  <2> HIDE DEF g
  <2> QED  BY <2>2, <2>3 DEF Adds
<1> QED  BY <1>2, <1>6, Zenon

LEMMA PositionAdds ==
    /\ Position(1) = 0
    /\ \A w \in WindowNumbers : w + 1 \in WindowNumbers => Position(w + 1) = Position(w) + Length(w)
<1> DEFINE m == Len(Windows)
<1>0. m \in Nat /\ WindowNumbers = 1..m
  BY WindowCount
<1>1. PICK f : Adds(f, m)
  BY <1>0, SumsExist
<1>2. f = [w \in 0..m |-> IF w = 0 THEN 0 ELSE f[w - 1] + Length(w)]
  BY <1>0, <1>1 DEF Adds
<1>3. Before = [w \in 0..m |-> IF w = 0 THEN 0 ELSE Before[w - 1] + Length(w)]
  BY <1>2, Zenon DEF Before
<1>4. \A w \in 0..m : Before[w] = IF w = 0 THEN 0 ELSE Before[w - 1] + Length(w)
  BY <1>3
<1> HIDE DEF m
<1>5. ASSUME NEW w \in 1..m PROVE w + 1 - 1 = w /\ Before[w] = Before[w - 1] + Length(w)
  BY <1>0, <1>4
<1>6. Before[0] = 0 /\ 1 - 1 = 0
  BY <1>0, <1>4
<1> QED  BY <1>0, <1>5, <1>6 DEF Position

-----------------------------------------------------------------------------
\* As long as no window ended early, each begins in the file where write_elf will
\* look for it, and those before it are there in full.

ElfInv ==
    ~ refused =>
        /\ cpc \in {"next", "elf", "done"} => Len(file) = from + pulled
        /\ cpc \in {"elf", "done"} => win = Len(Windows) /\ (~ short => pulled = Length(win))
        /\ ~ short =>
               /\ from = Position(win)
               /\ \A w \in 1..(win - 1) :
                      /\ Position(w) \in Nat /\ Position(w) + Length(w) <= from
                      /\ \A j \in 1..Length(w) : file[Position(w) + j] = Windows[w].start + j - 1

LEMMA NextElf == IInv /\ ElfInv /\ [Next]_vars => ElfInv'
<1> SUFFICES ASSUME IInv, ElfInv, [Next]_vars, ~ refused' PROVE ElfInv'
  BY DEF ElfInv
<1>0. ~ refused
  BY DEF Next, vars, ServeOther, ServePull, RefusePull, Server, CopyPiece, CopyEnds, CopyFails,
         Info, Client, AskRange, ReadBytes, RangeEnds, WindowEnds, NextWindow, WriteElf, Fails
<1>a. TypeOK
  BY DEF IInv
<1>1. CASE UNCHANGED <<client, image>>
  BY <1>0, <1>1 DEF ElfInv, client, image
<1>2. ServeOther \/ ServePull \/ Server \/ UNCHANGED vars => UNCHANGED <<client, image>>
  BY DEF ServeOther, ServePull, Server, CopyPiece, CopyEnds, CopyFails, vars
<1>3. CASE RefusePull
  BY <1>3 DEF RefusePull
<1>4. CASE Info \/ AskRange \/ Fails
  <2>1. cpc' \notin {"next", "elf", "done"} /\ UNCHANGED <<win, image>>
    BY <1>4 DEF Info, AskRange, Fails
  <2> QED  BY <1>0, <2>1 DEF ElfInv, image
<1>5. CASE WindowEnds
  <2>1. cpc = "ask" /\ cpc' = "next" /\ UNCHANGED <<win, pulled, image>>
    BY <1>5 DEF WindowEnds
  <2>2. Len(file) = from + pulled
    BY <1>0, <2>1 DEF IInv, StreamInv
  <2> QED  BY <1>0, <2>1, <2>2 DEF ElfInv, image
<1>6. CASE WriteElf
  <2>1. cpc = "elf" /\ cpc' = "done" /\ UNCHANGED <<win, pulled, image>>
    BY <1>6 DEF WriteElf
  <2> QED  BY <1>0, <2>1 DEF ElfInv, image
<1>7. CASE RangeEnds
  <2>1. /\ cpc = "read" /\ cpc' \in {"next", "ask"} /\ pulled' = pulled + got
        /\ UNCHANGED <<win, image>>
    BY <1>7 DEF RangeEnds
  <2>2. Len(file) = from + pulled + got
    BY <1>0, <2>1 DEF IInv, StreamInv
  <2>3. Len(file) = from + pulled'
    BY <1>a, <2>1, <2>2, PlaceType
  <2> QED  BY <1>0, <2>1, <2>3 DEF ElfInv, image
<1>8. CASE ReadBytes
  <2> DEFINE k == Min2(Len(wire), n - got)
             t == SubSeq(wire, 1, k)
  <2>1. /\ cpc' = "read" /\ got < n /\ UNCHANGED <<win, from, short>> /\ file' = file \o t
    BY <1>8 DEF ReadBytes
  <2>2. wire \in Seq(Bytes) /\ file \in Seq(Bytes)
    BY <1>a, Zenon DEF TypeOK
  <2>3. k \in Nat /\ k <= Len(wire)
    BY <1>a, <2>1, PlaceType DEF Min2
  <2> HIDE DEF k
  <2>4. t \in Seq(Bytes)
    BY <2>2, <2>3
  <2> HIDE DEF t
  <2>5. \A i \in 1..Len(file) : file'[i] = file[i]
    BY <2>1, <2>2, <2>4
  <2> SUFFICES ASSUME ~ short,
                      NEW w \in 1..(win - 1), NEW j \in 1..Length(w)
               PROVE  file'[Position(w) + j] = Windows[w].start + j - 1
    BY <1>0, <2>1 DEF ElfInv
  <2>6. /\ Position(w) \in Nat /\ Position(w) + Length(w) <= from
        /\ file[Position(w) + j] = Windows[w].start + j - 1
    BY <1>0 DEF ElfInv
  <2>7. Length(w) \in Nat /\ from \in Nat /\ Len(file) \in Nat /\ from <= Len(file)
    <3>1. win \in WindowNumbers
      BY <1>a DEF TypeOK
    <3>2. w \in WindowNumbers
      BY <3>1, WindowCount
    <3> QED  BY <1>a, <3>2, WindowType, PlaceType
  <2>8. Position(w) + j \in 1..Len(file)
    <3> DEFINE p == Position(w)
               l == Length(w)
    <3>1. p \in Nat /\ l \in Nat /\ j \in 1..l /\ p + l <= from
      BY <2>6, <2>7
    <3> HIDE DEF p, l
    <3>2. p + j \in 1..Len(file)
      BY <2>7, <3>1
    <3> QED  BY <3>2 DEF p
  <2> QED  BY <2>5, <2>6, <2>8
<1>9. CASE NextWindow
  <2>1. /\ cpc = "next" /\ UNCHANGED file /\ short' = (short \/ pulled < Length(win))
    BY <1>9 DEF NextWindow
  <2>2. Len(file) = from + pulled
    BY <1>0, <2>1 DEF ElfInv
  <2>3. win \in WindowNumbers /\ pulled \in 0..Length(win) /\ Length(win) \in Nat
    BY <1>a, WindowType DEF TypeOK
  <2>4. ASSUME ~ short'
        PROVE  ~ short /\ pulled = Length(win) /\ Len(file) = Position(win) + Length(win)
    <3>1. ~ short /\ ~ (pulled < Length(win))
      BY <2>1, <2>4
    <3>2. pulled = Length(win)
      BY <2>3, <3>1
    <3> QED  BY <1>0, <2>2, <3>1, <3>2 DEF ElfInv
  <2>5. CASE win = Len(Windows) /\ cpc' = "elf" /\ UNCHANGED <<win, pulled, from>>
    BY <1>0, <2>1, <2>2, <2>4, <2>5 DEF ElfInv
  <2>6. CASE win < Len(Windows) /\ win' = win + 1 /\ from' = Len(file) /\ cpc' = "ask"
    <3> SUFFICES ASSUME ~ short'
                 PROVE  /\ from' = Position(win')
                        /\ \A w \in 1..(win' - 1) :
                              /\ Position(w) \in Nat /\ Position(w) + Length(w) <= from'
                              /\ \A j \in 1..Length(w) :
                                    file'[Position(w) + j] = Windows[w].start + j - 1
      BY <2>6 DEF ElfInv
    <3>1. ~ short /\ pulled = Length(win) /\ from' = Position(win) + Length(win)
      BY <2>4, <2>6
    <3>2. from' = Position(win')
      BY <2>3, <2>6, <3>1, PositionAdds, WindowCount
    <3>3. /\ from = Position(win) /\ from \in Nat
          /\ Len(file) = from + pulled
      BY <1>0, <1>a, <2>2, <3>1, PlaceType DEF ElfInv
    <3>4. ASSUME NEW w \in 1..win
          PROVE  /\ Position(w) \in Nat /\ Position(w) + Length(w) <= from'
                 /\ \A j \in 1..Length(w) : file[Position(w) + j] = Windows[w].start + j - 1
      <4>1. CASE w = win
        <5>1. \A j \in 1..(Len(file) - from) : file[from + j] = Windows[win].start + j - 1
          BY <1>0 DEF IInv, StreamInv, PulledIsPrefix
        <5>2. Len(file) - from = Length(win)
          BY <2>3, <3>1, <3>3
        <5>3. Position(w) + Length(w) <= from'
          BY <2>3, <3>1, <3>3, <4>1
        <5> QED  BY <3>3, <4>1, <5>1, <5>2, <5>3
      <4>2. CASE w # win
        <5>1. w \in 1..(win - 1) /\ w \in WindowNumbers
          BY <2>3, <4>2, WindowCount
        <5>2. /\ Position(w) \in Nat /\ Position(w) + Length(w) <= from
              /\ \A j \in 1..Length(w) : file[Position(w) + j] = Windows[w].start + j - 1
          BY <1>0, <3>1, <5>1 DEF ElfInv
        <5>3. Length(w) \in Nat /\ from' = from + Length(win)
          BY <3>1, <3>3, <5>1, WindowType
        <5>4. Position(w) + Length(w) <= from'
          <6> DEFINE p == Position(w) + Length(w)
          <6>1. p \in Nat /\ p <= from
            BY <5>2, <5>3
          <6> HIDE DEF p
          <6>2. p <= from + Length(win)
            BY <2>3, <3>3, <6>1
          <6> QED  BY <5>3, <6>2 DEF p
        <5> QED  BY <5>2, <5>4
      <4> QED  BY <4>1, <4>2
    <3>5. win' - 1 = win
      BY <2>3, <2>6, WindowCount
    <3> QED  BY <2>1, <3>2, <3>4, <3>5
  <2> QED  BY <1>9, <2>5, <2>6 DEF NextWindow
<1> QED  BY <1>1, <1>2, <1>3, <1>4, <1>5, <1>6, <1>7, <1>8, <1>9 DEF Next, Client

LEMMA InitElf == Init => ElfInv
<1> SUFFICES ASSUME Init PROVE ElfInv
  OBVIOUS
<1>1. Len(file) = 0 /\ win = 1 /\ from = 0 /\ cpc = "info"
  BY DEF Init
<1>2. 1..(win - 1) = {}
  BY <1>1
<1> QED  BY <1>1, <1>2, PositionAdds DEF ElfInv

LEMMA ElfIsFaithful == IInv /\ ElfInv => ElfFaithful
<1> SUFFICES ASSUME IInv, ElfInv, cpc = "done", ~ refused, ~ short, NEW w \in WindowNumbers
             PROVE  Segment(w) = [j \in 1..Length(w) |-> Windows[w].start + j - 1]
  BY DEF ElfFaithful
<1>1. TypeOK
  BY DEF IInv
<1>2. file \in Seq(Bytes) /\ Len(file) \in Nat /\ from \in Nat
  BY <1>1, PlaceType, Zenon DEF TypeOK
<1>3. Length(w) \in Nat
  BY WindowType
<1>4. /\ win = Len(Windows) /\ pulled = Length(win) /\ from = Position(win)
      /\ Len(file) = from + Length(win)
  BY DEF ElfInv
<1>5. Length(win) \in Nat
  BY <1>1, WindowType DEF TypeOK
<1>6. /\ Position(w) \in Nat /\ Position(w) + Length(w) <= Len(file)
      /\ \A j \in 1..Length(w) : file[Position(w) + j] = Windows[w].start + j - 1
  <2>1. CASE w = win
    <3>1. \A j \in 1..(Len(file) - from) : file[from + j] = Windows[win].start + j - 1
      BY DEF IInv, StreamInv, PulledIsPrefix
    <3>2. Len(file) - from = Length(win)
      BY <1>2, <1>4, <1>5
    <3>3. from + Length(win) <= Len(file)
      BY <1>2, <1>4, <1>5
    <3> QED  BY <1>2, <1>4, <2>1, <3>1, <3>2, <3>3
  <2>2. CASE w # win
    <3>1. w \in 1..(win - 1)
      BY <1>4, <2>2, WindowCount
    <3>2. /\ Position(w) \in Nat /\ Position(w) + Length(w) <= from
          /\ \A j \in 1..Length(w) : file[Position(w) + j] = Windows[w].start + j - 1
      BY <3>1 DEF ElfInv
    <3>3. Position(w) + Length(w) <= Len(file)
      <4> DEFINE p == Position(w) + Length(w)
      <4>1. p \in Nat /\ p <= from
        BY <1>3, <3>2
      <4> HIDE DEF p
      <4>2. p <= from + Length(win)
        BY <1>2, <1>5, <4>1
      <4> QED  BY <1>4, <4>2 DEF p
    <3> QED  BY <3>2, <3>3
  <2> QED  BY <2>1, <2>2
<1> DEFINE p == Position(w)
           l == Length(w)
           s == SubSeq(file, p + 1, p + l)
<1>7. Segment(w) = s
  <2>1. SegmentEnd(w) = p + l
    BY <1>2, <1>3, <1>6 DEF SegmentEnd, Min2
  <2> QED  BY <2>1 DEF Segment
<1>8. p \in Nat /\ l \in Nat /\ p + l <= Len(file)
  BY <1>3, <1>6
<1>9. \A j \in 1..l : file[p + j] = Windows[w].start + j - 1
  BY <1>6
<1> HIDE DEF p, l
<1>10. s \in Seq(Bytes) /\ Len(s) = l /\ \A j \in 1..l : s[j] = file[p + j]
  BY <1>2, <1>8
<1>11. s = [j \in 1..l |-> s[j]]
  <2> HIDE DEF s
  <2> QED  BY <1>10
<1>12. [j \in 1..l |-> s[j]] = [j \in 1..l |-> Windows[w].start + j - 1]
  <2> HIDE DEF s
  <2> QED  BY <1>9, <1>10
<1> QED  BY <1>7, <1>11, <1>12 DEF l

-----------------------------------------------------------------------------
\* The inductive invariant: what is copied is inside a window, a request or an
\* answer belongs to the range the client is at, and the bytes on their way
\* continue the file.
THEOREM InvCorrect == Spec => []IInv
BY InitInv, NextInv, PTL DEF Spec

\* Every variable of handle_kdump, of pull_range and of the connection between
\* them keeps its type; no request is outside the address space or over Chunk.
THEOREM TypeCorrect == Spec => []TypeOK
<1>1. IInv => TypeOK
  BY DEF IInv
<1> QED  BY <1>1, InvCorrect, PTL

\* sys_kern_rw never touches an address outside the kernel's windows, whatever
\* ranges /kdump is asked for.
THEOREM ReadsMappedCorrect == Spec => []ReadsMapped
<1>1. IInv => ReadsMapped
  BY CopyIsMapped DEF IInv
<1> QED  BY <1>1, InvCorrect, PTL

\* pull_range loses and repeats no byte, wherever its answers are cut.
THEOREM PulledIsPrefixCorrect == Spec => []PulledIsPrefix
<1>1. IInv => PulledIsPrefix
  BY DEF IInv, StreamInv, PulledIsPrefix
<1> QED  BY <1>1, InvCorrect, PTL

\* When no window ended early, each segment of the ELF that pull.py writes is its
\* window: byte for byte, whatever windows there are.
THEOREM ElfFaithfulCorrect == Spec => []ElfFaithful
<1>1. Init => IInv /\ ElfInv
  BY InitInv, InitElf
<1>2. (IInv /\ ElfInv) /\ [Next]_vars => (IInv /\ ElfInv)'
  BY NextInv, NextElf
<1>3. IInv /\ ElfInv => ElfFaithful
  BY ElfIsFaithful
<1> QED  BY <1>1, <1>2, <1>3, PTL DEF Spec

-----------------------------------------------------------------------------
\* A file of the console.

FileType ==
    /\ size \in (0..MaxSize) \cup {NULL}
    /\ srv \in {"idle", "send"}
    /\ foff \in Nat /\ fwant \in 0..MaxSize /\ fdone \in Nat
    /\ req \in Requests \cup {NULL} /\ asked \in Requests \cup {F!Whole}
    /\ fwire \in Seq(Bytes) /\ out \in Seq(Bytes)
    /\ fclen \in Int \cup {NULL} /\ fclosed \in BOOLEAN
    /\ fpc \in {"stat", "ask", "read", "wrote", "failed"}
    /\ meant \in Nat /\ ended \in {"no", "file", "failure"} /\ frefused \in BOOLEAN

\* A request is the client's only one; before its answer nothing has come.
TurnInv ==
    /\ fpc \in {"stat", "ask"} => req = NULL /\ fclen = NULL
    /\ req # NULL => req = asked /\ fpc = "read" /\ fclen = NULL
    /\ fclen = NULL => /\ srv = "idle" /\ fwire = << >> /\ out = << >>
                       /\ ~ fclosed /\ ~ frefused
    /\ frefused => srv = "idle"
    /\ fpc = "wrote" => fclen # NULL

\* What was sent is the range from its start on, and stops short only with a reason.
AnswerInv ==
    fclen # NULL /\ ~ frefused =>
        /\ meant = fwant /\ fclen = F!AsInt(fwant)
        /\ fwant # 0 => foff = asked.offset
        /\ Len(out) + Len(fwire) <= fwant
        /\ srv = "send" => ~ fclosed /\ fdone = Len(out) + Len(fwire)
        /\ srv = "idle" /\ ended = "no" => Len(out) + Len(fwire) = fwant
        /\ \A j \in 1..Len(out) : out[j] = foff + j - 1
        /\ \A j \in 1..Len(fwire) : fwire[j] = foff + Len(out) + j - 1

FileInv == FileType /\ TurnInv /\ AnswerInv /\ WroteIsWhole

\* The length that is announced, for any width of an int.
LEMMA AsIntCuts ==
    ASSUME NEW x \in Nat
    PROVE  /\ F!AsInt(x) \in Int
           /\ x < Half => F!AsInt(x) = x
           /\ x >= Half /\ x < 2 * Half => F!AsInt(x) < 0
           /\ x >= 2 * Half => F!AsInt(x) < x
<1>1. Half \in Nat \ {0}
  BY SizesAreNat
<1> DEFINE h == 2 * Half
<1>2. h \in Nat \ {0} /\ h = 2 * Half
  BY <1>1
<1>3. F!AsInt(x) = ((x + Half) % h) - Half
  BY DEF F!AsInt
<1> HIDE DEF h
<1>4. (x + Half) % h \in 0..(h - 1)
  BY <1>1, <1>2
<1>5. x < Half => (x + Half) % h = x + Half
  BY <1>1, <1>2
<1>6. x >= Half /\ x < h => (x + Half) % h = x + Half - h
  BY <1>1, <1>2
<1> QED  BY <1>1, <1>2, <1>3, <1>4, <1>5, <1>6

LEMMA RequestType ==
    /\ \A r \in Requests : r.offset \in Nat /\ (r.length = NULL \/ r.length \in Nat)
    /\ asked \in Requests \cup {F!Whole} => asked.offset \in Nat
<1>1. \A r \in Requests : r.offset \in Nat /\ (r.length = NULL \/ r.length \in Nat)
  BY RequestsAreRanges
<1> QED  BY <1>1 DEF F!Whole

\* What is opened: a range inside the file, which starts where it was asked to if
\* there is anything of it.
LEMMA OpenedRange ==
    ASSUME FileType, F!Open
    PROVE  /\ foff' \in Nat /\ fwant' \in 0..MaxSize
           /\ fwant' # 0 => foff' = req.offset
<1>1. PICK o, w : /\ size \in 0..MaxSize /\ req \in Requests /\ foff' = o /\ fwant' = w
                  /\ o = F!Less(req.offset, size) /\ w = F!Want(req, o)
  BY DEF FileType, F!Open
<1>2. /\ req.offset \in Nat /\ MaxSize \in Nat /\ size \in Nat
      /\ req.length = NULL \/ req.length \in Nat
  BY <1>1, RequestType, SizesAreNat
<1>3. o \in 0..size /\ (o < size => o = req.offset)
  BY <1>1, <1>2 DEF F!Less
<1>4. w \in 0..(size - o)
  <2>1. size - o \in Nat
    BY <1>2, <1>3
  <2>2. w = IF req.length = NULL THEN size - o ELSE F!Less(req.length, size - o)
    BY <1>1 DEF F!Want
  <2>3. CASE req.length = NULL
    BY <2>1, <2>2, <2>3
  <2>4. CASE req.length # NULL
    BY <1>2, <2>1, <2>2, <2>4 DEF F!Less
  <2> QED  BY <2>3, <2>4
<1> QED  BY <1>1, <1>2, <1>3, <1>4

LEMMA FileBytes ==
    ASSUME FileType, NEW k \in Nat
    PROVE  /\ F!Bytes(k) \in Seq(Bytes) /\ Len(F!Bytes(k)) = k
           /\ \A j \in 1..k : F!Bytes(k)[j] = foff + fdone + j - 1
           /\ fwire \o F!Bytes(k) \in Seq(Bytes)
           /\ Len(fwire \o F!Bytes(k)) = Len(fwire) + k
           /\ \A j \in 1..Len(fwire) : (fwire \o F!Bytes(k))[j] = fwire[j]
           /\ \A j \in 1..k : (fwire \o F!Bytes(k))[Len(fwire) + j] = foff + fdone + j - 1
<1> DEFINE b == F!Bytes(k)
<1>1. foff \in Nat /\ fdone \in Nat /\ fwire \in Seq(Bytes)
  BY DEF FileType
<1>2. b = [j \in 1..k |-> foff + fdone + j - 1]
  BY DEF F!Bytes
<1> HIDE DEF b
<1>3. b \in Seq(Bytes) /\ Len(b) = k /\ \A j \in 1..k : b[j] = foff + fdone + j - 1
  BY <1>1, <1>2 DEF Bytes
<1>4. fwire \o b \in Seq(Bytes) /\ Len(fwire \o b) = Len(fwire) + k
  BY <1>1, <1>3
<1>5. \A j \in 1..Len(fwire) : (fwire \o b)[j] = fwire[j]
  BY <1>1, <1>3
<1>6. ASSUME NEW j \in 1..k PROVE (fwire \o b)[Len(fwire) + j] = foff + fdone + j - 1
  <2>1. (fwire \o b)[Len(fwire) + j] = b[j]
    BY <1>1, <1>3
  <2> QED  BY <1>3, <2>1
<1> QED  BY <1>3, <1>4, <1>5, <1>6 DEF b

\* What a piece can be: no more than is left to send.
LEMMA PieceOfFile ==
    ASSUME FileType, fdone <= fwant
    PROVE  /\ F!Less(XferChunk, fwant - fdone) \in 0..(fwant - fdone)
           /\ F!ToSend > 0 => F!ToSend \in 1..(fwant - fdone)
<1>1. /\ fwant \in Nat /\ fdone \in Nat /\ XferChunk \in Nat \ {0} /\ foff \in Nat
      /\ size = NULL \/ size \in Nat
  BY SizeType, SizesAreNat DEF FileType
<1>2. F!Less(XferChunk, fwant - fdone) \in 0..(fwant - fdone)
  BY <1>1 DEF F!Less
<1>3. F!Readable \in Int
  BY <1>1 DEF F!Readable
<1>4. F!ToSend = F!Less(F!Less(XferChunk, fwant - fdone), F!Readable)
  BY DEF F!ToSend
<1> QED  BY <1>1, <1>2, <1>3, <1>4 DEF F!Less

\* What a client reads of the wire.
LEMMA ReadTakes ==
    ASSUME FileType, TurnInv, F!Read
    PROVE  \E k \in 1..Len(fwire) :
               /\ out' = out \o SubSeq(fwire, 1, k) /\ fwire' = SubSeq(fwire, k + 1, Len(fwire))
               /\ out' \in Seq(Bytes) /\ fwire' \in Seq(Bytes)
               /\ Len(out') = Len(out) + k /\ Len(fwire') = Len(fwire) - k
               /\ \A j \in 1..Len(out) : out'[j] = out[j]
               /\ \A j \in 1..k : out'[Len(out) + j] = fwire[j]
               /\ \A j \in 1..(Len(fwire) - k) : fwire'[j] = fwire[k + j]
               /\ Len(out') <= F!Expected
<1> DEFINE k == F!Less(Len(fwire), F!Expected - Len(out))
           t == SubSeq(fwire, 1, k)
<1>1. /\ fwire # << >> /\ Len(out) < F!Expected
      /\ out' = out \o t /\ fwire' = SubSeq(fwire, k + 1, Len(fwire))
  BY DEF F!Read
<1>2. fwire \in Seq(Bytes) /\ out \in Seq(Bytes)
  BY DEF FileType
<1>3. Len(fwire) \in Nat \ {0} /\ Len(out) \in Nat
  BY <1>1, <1>2
<1>4. F!Expected \in Int
  <2>1. fclen \in Int \/ fclen = NULL
    BY DEF FileType
  <2>2. fclen \in Int
    BY <1>1, <2>1 DEF TurnInv
  <2> QED  BY <2>2, SizesAreNat DEF F!Expected
<1>5. k \in 1..Len(fwire) /\ Len(out) + k <= F!Expected
  BY <1>1, <1>3, <1>4 DEF F!Less
<1> HIDE DEF k
<1>6. t \in Seq(Bytes) /\ Len(t) = k /\ \A j \in 1..k : t[j] = fwire[j]
  BY <1>2, <1>5
<1>7. /\ fwire' \in Seq(Bytes) /\ Len(fwire') = Len(fwire) - k
      /\ \A j \in 1..(Len(fwire) - k) : fwire'[j] = fwire[k + j]
  BY <1>1, <1>2, <1>5
<1> HIDE DEF t
<1>8. out' \in Seq(Bytes) /\ Len(out') = Len(out) + k
  <2>1. t \in Seq(Bytes) /\ Len(t) = k
    BY <1>6
  <2>2. out \o t \in Seq(Bytes) /\ Len(out \o t) = Len(out) + k
    BY <1>2, <2>1
  <2> QED  BY <1>1, <2>2
<1>9. ASSUME NEW j \in 1..Len(out) PROVE out'[j] = out[j]
  <2>1. (out \o t)[j] = out[j]
    BY <1>2, <1>6
  <2> QED  BY <1>1, <2>1
<1>10. ASSUME NEW j \in 1..k PROVE out'[Len(out) + j] = fwire[j]
  <2>1. (out \o t)[Len(out) + j] = t[j]
    BY <1>2, <1>6
  <2> QED  BY <1>1, <1>6, <2>1
<1> QED  BY <1>1, <1>5, <1>7, <1>8, <1>9, <1>10 DEF t

LEMMA NextFileType == FileType /\ TurnInv /\ AnswerInv /\ F!DlNext => FileType'
<1> SUFFICES ASSUME FileType, TurnInv, AnswerInv, F!DlNext PROVE FileType'
  OBVIOUS
<1> USE DEF F!locals, F!answer, F!download, F!dlHistory
<1>1. CASE F!FileChanges
  <2>1. size' \in (0..MaxSize) \cup {NULL}
    <3>1. size \in 0..MaxSize
      BY <1>1 DEF F!FileChanges, FileType
    <3>2. MaxSize \in Nat
      BY SizesAreNat
    <3> QED  BY <1>1, <3>1, <3>2 DEF F!FileChanges
  <2> QED  BY <1>1, <2>1 DEF F!FileChanges, FileType
<1>2. CASE F!Open
  <2>1. foff' \in Nat /\ fwant' \in 0..MaxSize
    BY <1>2, OpenedRange
  <2>2. fwant' \in Nat
    BY <2>1, SizesAreNat
  <2>3. fclen' \in Int /\ fdone' = 0 /\ meant' = fwant' /\ req' = NULL /\ srv' = "send"
    BY <1>2, <2>2, AsIntCuts DEF F!Open
  <2> QED  BY <1>2, <2>1, <2>2, <2>3 DEF F!Open, FileType
<1>3. CASE F!Refuse
  <2>1. fwire' \in Seq(Bytes) /\ fclosed' \in BOOLEAN /\ frefused' \in BOOLEAN
    BY <1>3 DEF F!Refuse, Bytes
  <2> QED  BY <1>3, <2>1 DEF F!Refuse, FileType
<1>4. CASE F!SendPiece
  <2>1. fdone \in Nat /\ fwant \in Nat /\ fdone <= fwant
    BY <1>4, SizesAreNat DEF F!SendPiece, FileType
  <2>2. F!ToSend \in Nat
    BY <1>4, <2>1, PieceOfFile DEF F!SendPiece
  <2>3. fwire' \in Seq(Bytes) /\ fdone' \in Nat
    BY <1>4, <2>1, <2>2, FileBytes DEF F!SendPiece
  <2> QED  BY <1>4, <2>3 DEF F!SendPiece, FileType
<1>5. CASE F!SendEnds
  <2>1. ended' \in {"no", "file", "failure"} /\ fclosed' \in BOOLEAN
    BY <1>5 DEF F!SendEnds, FileType
  <2> QED  BY <1>5, <2>1 DEF F!SendEnds, FileType
<1>6. CASE F!SendFails
  <2>1. fdone \in Nat /\ fwant \in Nat /\ fdone <= fwant
    BY <1>6, SizesAreNat DEF F!SendFails, FileType
  <2>2. PICK k \in 0..F!Less(XferChunk, fwant - fdone) : fwire' = fwire \o F!Bytes(k)
    BY <1>6 DEF F!SendFails
  <2>3. k \in Nat
    BY <2>1, <2>2, PieceOfFile
  <2>4. fwire' \in Seq(Bytes) /\ fclosed' \in BOOLEAN
    BY <1>6, <2>2, <2>3, FileBytes DEF F!SendFails
  <2> QED  BY <1>6, <2>4 DEF F!SendFails, FileType
<1>7. CASE F!Stat
  <2>1. fpc' \in {"failed", "ask"}
    BY <1>7 DEF F!Stat
  <2> QED  BY <1>7, <2>1 DEF F!Stat, FileType
<1>8. CASE \E r \in Requests : F!Ask(r)
  BY <1>8 DEF F!Ask, FileType
<1>9. CASE F!Read
  <2>1. out' \in Seq(Bytes) /\ fwire' \in Seq(Bytes)
    BY <1>9, ReadTakes
  <2> QED  BY <1>9, <2>1 DEF F!Read, FileType
<1>10. CASE F!Wrote
  BY <1>10 DEF F!Wrote, FileType
<1>11. CASE F!Fails
  BY <1>11 DEF F!Fails, FileType
<1> QED  BY <1>1, <1>2, <1>3, <1>4, <1>5, <1>6, <1>7, <1>8, <1>9, <1>10, <1>11
         DEF F!DlNext, F!Sends, F!Asks, F!Reads

LEMMA NextTurn == FileType /\ TurnInv /\ F!DlNext => TurnInv'
<1> SUFFICES ASSUME FileType, TurnInv, F!DlNext PROVE TurnInv'
  OBVIOUS
<1> USE DEF F!locals, F!answer, F!download, F!dlHistory
<1>1. CASE F!FileChanges
  BY <1>1 DEF F!FileChanges, TurnInv
<1>2. CASE F!Open
  <2>1. fclen' # NULL
    <3>1. fwant' \in Nat
      BY <1>2, OpenedRange, SizesAreNat
    <3>2. fclen' \in Int
      BY <1>2, <3>1, AsIntCuts DEF F!Open
    <3> QED  BY <3>2, MarksAreNoBytes
  <2> QED  BY <1>2, <2>1 DEF F!Open, TurnInv
<1>3. CASE F!Refuse
  <2>1. fclen' # NULL
    BY <1>3, MarksAreNoBytes DEF F!Refuse
  <2> QED  BY <1>3, <2>1 DEF F!Refuse, TurnInv
<1>4. CASE F!SendPiece
  BY <1>4 DEF F!SendPiece, TurnInv
<1>5. CASE F!SendEnds
  BY <1>5 DEF F!SendEnds, TurnInv
<1>6. CASE F!SendFails
  BY <1>6 DEF F!SendFails, TurnInv
<1>7. CASE F!Stat
  BY <1>7 DEF F!Stat, TurnInv
<1>8. CASE \E r \in Requests : F!Ask(r)
  BY <1>8 DEF F!Ask, TurnInv
<1>9. CASE F!Read
  BY <1>9 DEF F!Read, TurnInv
<1>10. CASE F!Wrote
  BY <1>10 DEF F!Wrote, TurnInv
<1>11. CASE F!Fails
  BY <1>11 DEF F!Fails, TurnInv
<1> QED  BY <1>1, <1>2, <1>3, <1>4, <1>5, <1>6, <1>7, <1>8, <1>9, <1>10, <1>11
         DEF F!DlNext, F!Sends, F!Asks, F!Reads

\* More bytes of the range on the wire.
LEMMA WireGoesOn ==
    ASSUME FileType, AnswerInv, fclen # NULL, ~ frefused, srv = "send",
           NEW k \in 0..(fwant - fdone), fwire' = fwire \o F!Bytes(k)
    PROVE  /\ Len(fwire') = Len(fwire) + k
           /\ Len(out) + Len(fwire') <= fwant
           /\ \A j \in 1..Len(fwire') : fwire'[j] = foff + Len(out) + j - 1
<1>1. /\ fdone = Len(out) + Len(fwire)
      /\ \A j \in 1..Len(fwire) : fwire[j] = foff + Len(out) + j - 1
  BY DEF AnswerInv
<1>2. /\ Len(out) \in Nat /\ Len(fwire) \in Nat /\ foff \in Nat /\ fdone \in Nat
      /\ fwant \in Nat /\ k \in Nat /\ k <= fwant - fdone
  BY SizesAreNat DEF FileType
<1>3. /\ Len(fwire') = Len(fwire) + k
      /\ \A j \in 1..Len(fwire) : fwire'[j] = fwire[j]
      /\ \A j \in 1..k : fwire'[Len(fwire) + j] = foff + fdone + j - 1
  BY <1>2, FileBytes
<1>4. ASSUME NEW j \in 1..(Len(fwire) + k) PROVE fwire'[j] = foff + Len(out) + j - 1
  <2>1. CASE j <= Len(fwire)
    BY <1>1, <1>2, <1>3, <2>1
  <2>2. CASE j > Len(fwire)
    <3>1. PICK i \in 1..k : j = Len(fwire) + i
      <4>1. j - Len(fwire) \in 1..k /\ j = Len(fwire) + (j - Len(fwire))
        BY <1>2, <2>2
      <4> QED  BY <4>1
    <3>2. fwire'[j] = foff + fdone + i - 1
      BY <1>3, <3>1
    <3> HIDE <1>3
    <3> QED  BY <1>1, <1>2, <3>1, <3>2
  <2>3. j <= Len(fwire) \/ j > Len(fwire)
    BY <1>2
  <2> QED  BY <2>1, <2>2, <2>3
<1> QED  BY <1>1, <1>2, <1>3, <1>4

LEMMA NextAnswer == FileType /\ TurnInv /\ AnswerInv /\ F!DlNext => AnswerInv'
<1> SUFFICES ASSUME FileType, TurnInv, AnswerInv, F!DlNext, fclen' # NULL, ~ frefused'
             PROVE  AnswerInv'
  BY DEF AnswerInv
<1> USE DEF F!locals, F!answer, F!download, F!dlHistory
<1>1. CASE UNCHANGED <<srv, foff, fwant, fdone, fwire, fclen, fclosed, out, meant, ended, frefused>>
           /\ (fclen # NULL => asked' = asked)
  BY <1>1 DEF AnswerInv
<1>2. F!FileChanges \/ F!Stat \/ F!Wrote \/ F!Fails \/ (\E r \in Requests : F!Ask(r))
          => /\ UNCHANGED <<srv, foff, fwant, fdone, fwire, fclen, fclosed, out, meant,
                             ended, frefused>>
             /\ fclen # NULL => asked' = asked
  BY DEF F!FileChanges, F!Stat, F!Wrote, F!Fails, F!Ask, TurnInv
<1>3. CASE F!Open
  <2>1. /\ fwant' \in 0..MaxSize /\ (fwant' # 0 => foff' = req.offset)
        /\ foff' \in Nat
    BY <1>3, OpenedRange
  <2>2. /\ out' = << >> /\ fwire' = << >> /\ req = asked /\ ~ fclosed' /\ UNCHANGED asked
        /\ meant' = fwant' /\ fclen' = F!AsInt(fwant') /\ fdone' = 0 /\ srv' = "send"
    BY <1>3 DEF F!Open, TurnInv
  <2>3. Len(out') = 0 /\ Len(fwire') = 0
    BY <2>2
  <2>4. fwant' \in Nat
    BY <2>1, SizesAreNat
  <2> QED  BY <2>1, <2>2, <2>3, <2>4 DEF AnswerInv
<1>4. CASE F!Refuse
  BY <1>4 DEF F!Refuse
<1>5. CASE F!SendPiece
  <2>1. fclen # NULL /\ ~ frefused /\ srv = "send" /\ fdone < fwant /\ F!ToSend > 0
    BY <1>5 DEF F!SendPiece, TurnInv
  <2>2. fdone \in Nat /\ fwant \in Nat /\ Len(out) \in Nat /\ Len(fwire) \in Nat
    BY SizesAreNat DEF FileType
  <2>3. F!ToSend \in 0..(fwant - fdone) /\ F!ToSend \in Nat
    BY <2>1, <2>2, PieceOfFile
  <2>4. fwire' = fwire \o F!Bytes(F!ToSend) /\ fdone' = fdone + F!ToSend
    BY <1>5 DEF F!SendPiece
  <2>5. /\ Len(fwire') = Len(fwire) + F!ToSend
        /\ Len(out) + Len(fwire') <= fwant
        /\ \A j \in 1..Len(fwire') : fwire'[j] = foff + Len(out) + j - 1
    BY <2>1, <2>3, <2>4, WireGoesOn
  <2>6. fdone' = Len(out) + Len(fwire')
    BY <2>1, <2>2, <2>3, <2>4, <2>5 DEF AnswerInv
  <2>7. UNCHANGED <<srv, foff, fwant, fclen, fclosed, asked, out, meant, frefused>>
    BY <1>5 DEF F!SendPiece
  <2> QED  BY <2>1, <2>5, <2>6, <2>7 DEF AnswerInv
<1>6. CASE F!SendEnds
  <2>1. fclen # NULL /\ ~ frefused /\ srv = "send" /\ srv' = "idle"
    BY <1>6 DEF F!SendEnds, TurnInv
  <2>2. ended' = "no" => fdone = fwant
    <3>1. fdone = Len(out) + Len(fwire) /\ Len(out) + Len(fwire) <= fwant
      BY <2>1 DEF AnswerInv
    <3>2. fdone \in Nat /\ fwant \in Nat
      BY SizesAreNat DEF FileType
    <3>3. fdone < fwant => ended' = "file"
      BY <1>6 DEF F!SendEnds
    <3> QED  BY <3>1, <3>2, <3>3
  <2>3. UNCHANGED <<foff, fwant, fwire, fclen, asked, out, meant, frefused>>
    BY <1>6 DEF F!SendEnds
  <2> QED  BY <2>1, <2>2, <2>3 DEF AnswerInv
<1>7. CASE F!SendFails
  <2>1. /\ fclen # NULL /\ ~ frefused /\ srv = "send" /\ fdone < fwant
        /\ srv' = "idle" /\ ended' = "failure"
    BY <1>7 DEF F!SendFails, TurnInv
  <2>2. fdone \in Nat /\ fwant \in Nat
    BY SizesAreNat DEF FileType
  <2>3. PICK k \in 0..F!Less(XferChunk, fwant - fdone) : fwire' = fwire \o F!Bytes(k)
    BY <1>7 DEF F!SendFails
  <2>4. k \in 0..(fwant - fdone)
    BY <2>1, <2>2, <2>3, PieceOfFile
  <2>5. /\ Len(out) + Len(fwire') <= fwant
        /\ \A j \in 1..Len(fwire') : fwire'[j] = foff + Len(out) + j - 1
    BY <2>1, <2>3, <2>4, WireGoesOn
  <2>6. UNCHANGED <<foff, fwant, fclen, asked, out, meant, frefused>>
    BY <1>7 DEF F!SendFails
  <2> QED  BY <2>1, <2>5, <2>6 DEF AnswerInv
<1>8. CASE F!Read
  <2>1. UNCHANGED <<srv, foff, fwant, fdone, fclen, fclosed, asked, meant, ended, frefused>>
    BY <1>8 DEF F!Read
  <2>2. PICK k \in 1..Len(fwire) :
               /\ Len(out') = Len(out) + k /\ Len(fwire') = Len(fwire) - k
               /\ \A j \in 1..Len(out) : out'[j] = out[j]
               /\ \A j \in 1..k : out'[Len(out) + j] = fwire[j]
               /\ \A j \in 1..(Len(fwire) - k) : fwire'[j] = fwire[k + j]
    BY <1>8, ReadTakes
  <2>3. Len(out) \in Nat /\ Len(fwire) \in Nat /\ foff \in Nat /\ k \in Nat /\ k <= Len(fwire)
    BY <2>2 DEF FileType
  <2>4. /\ \A j \in 1..Len(out) : out[j] = foff + j - 1
        /\ \A j \in 1..Len(fwire) : fwire[j] = foff + Len(out) + j - 1
    BY <2>1 DEF AnswerInv
  <2>5. ASSUME NEW j \in 1..(Len(out) + k) PROVE out'[j] = foff + j - 1
    <3>1. CASE j <= Len(out)
      BY <2>2, <2>3, <2>4, <3>1
    <3>2. CASE j > Len(out)
      <4>1. PICK i \in 1..k : j = Len(out) + i
        <5>1. j - Len(out) \in 1..k /\ j = Len(out) + (j - Len(out))
          BY <2>3, <3>2
        <5> QED  BY <5>1
      <4>2. out'[j] = fwire[i] /\ i \in 1..Len(fwire)
        BY <2>2, <2>3, <4>1
      <4>3. out'[j] = foff + Len(out) + i - 1
        BY <2>4, <4>2
      <4> HIDE <2>2, <2>4
      <4> QED  BY <2>3, <4>1, <4>3
    <3> QED  BY <2>3, <3>1, <3>2
  <2>6. ASSUME NEW j \in 1..(Len(fwire) - k) PROVE fwire'[j] = foff + (Len(out) + k) + j - 1
    <3>1. k + j \in 1..Len(fwire)
      BY <2>3
    <3>2. fwire'[j] = foff + Len(out) + (k + j) - 1
      BY <2>2, <2>4, <3>1
    <3> HIDE <2>2, <2>4
    <3> QED  BY <2>3, <3>2
  <2>7. Len(out') + Len(fwire') = Len(out) + Len(fwire)
    BY <2>2, <2>3
  <2> QED  BY <2>1, <2>2, <2>5, <2>6, <2>7 DEF AnswerInv
<1> QED  BY <1>1, <1>2, <1>3, <1>4, <1>5, <1>6, <1>7, <1>8
         DEF F!DlNext, F!Sends, F!Asks, F!Reads

LEMMA NextWrote ==
    FileType /\ TurnInv /\ AnswerInv /\ WroteIsWhole /\ F!DlNext => WroteIsWhole'
<1> SUFFICES ASSUME FileType, TurnInv, AnswerInv, WroteIsWhole, F!DlNext,
                    fpc' = "wrote", ~ frefused', ended' = "no"
             PROVE  Len(out') = meant' \/ (meant' >= 2 * Half /\ Len(out') < meant')
  BY DEF WroteIsWhole, F!WroteIsWhole
<1> USE DEF F!locals, F!answer, F!download, F!dlHistory
<1>1. CASE F!Wrote
  <2>1. /\ fclen # NULL
        /\ Len(out) = F!Expected \/ (fwire = << >> /\ fclosed)
        /\ UNCHANGED <<out, meant, ended, frefused>>
    BY <1>1 DEF F!Wrote
  <2>2. /\ fclen # NULL /\ meant = fwant /\ fclen = F!AsInt(fwant)
        /\ Len(out) + Len(fwire) <= fwant
        /\ srv = "send" => ~ fclosed
        /\ srv = "idle" => Len(out) + Len(fwire) = fwant
    BY <1>1, <2>1 DEF AnswerInv, F!Wrote
  <2>3. /\ fwant \in Nat /\ fwant <= MaxSize /\ Len(out) \in Nat /\ Len(fwire) \in Nat
        /\ srv \in {"idle", "send"} /\ Half \in Nat \ {0}
    BY SizesAreNat DEF FileType
  <2>4. CASE Len(out) = F!Expected
    <3>1. CASE fclen < 0
      BY <2>1, <2>2, <2>3, <2>4, <3>1, SizesAreNat DEF F!Expected
    <3>2. CASE ~ (fclen < 0)
      <4>1. Len(out) = fclen
        BY <2>4, <3>2 DEF F!Expected
      <4> QED  BY <2>1, <2>2, <2>3, <3>2, <4>1, AsIntCuts
    <3> QED  BY <3>1, <3>2
  <2>5. CASE fwire = << >> /\ fclosed
    <3>1. Len(fwire) = 0 /\ srv = "idle"
      BY <2>2, <2>3, <2>5
    <3> QED  BY <2>1, <2>2, <2>3, <3>1
  <2> QED  BY <1>1, <2>4, <2>5 DEF F!Wrote
<1>2. CASE ~ F!Wrote
  <2>1. /\ fpc = "wrote" /\ req = NULL /\ ~ frefused /\ ended = "no"
        /\ UNCHANGED <<out, meant>>
    BY <1>2 DEF F!DlNext, F!Sends, F!Asks, F!Reads, F!FileChanges, F!Open, F!Refuse,
                F!SendPiece, F!SendEnds, F!SendFails, F!Stat, F!Ask, F!Read, F!Fails,
                TurnInv, FileType
  <2> QED  BY <2>1 DEF WroteIsWhole, F!WroteIsWhole
<1> QED  BY <1>1, <1>2

LEMMA InitFile == F!DlInit => FileInv
<1> SUFFICES ASSUME F!DlInit PROVE FileInv
  OBVIOUS
<1> USE DEF F!DlInit
<1>1. Len(out) = 0 /\ Len(fwire) = 0
  OBVIOUS
<1>2. FileType
  <2>1. 0 \in 0..MaxSize
    BY SizesAreNat
  <2>2. fwire \in Seq(Bytes) /\ out \in Seq(Bytes)
    OBVIOUS
  <2>3. fclosed \in BOOLEAN /\ frefused \in BOOLEAN
    OBVIOUS
  <2> QED  BY <2>1, <2>2, <2>3 DEF FileType
<1>3. TurnInv
  BY DEF TurnInv
<1>4. AnswerInv
  BY DEF AnswerInv
<1>5. WroteIsWhole
  BY DEF WroteIsWhole, F!WroteIsWhole
<1> QED  BY <1>2, <1>3, <1>4, <1>5 DEF FileInv

LEMMA NextFile == FileInv /\ [PullNext]_<<command, vars, fileVars>> => FileInv'
<1> SUFFICES ASSUME FileInv, [PullNext]_<<command, vars, fileVars>> PROVE FileInv'
  OBVIOUS
<1>1. CASE F!DlNext
  BY <1>1, NextFileType, NextTurn, NextAnswer, NextWrote DEF FileInv
<1>2. CASE UNCHANGED fileVars
  BY <1>2 DEF fileVars, FileInv, FileType, TurnInv, AnswerInv, WroteIsWhole, F!WroteIsWhole
<1>3. F!DlNext \/ UNCHANGED fileVars
  BY DEF PullNext
<1> QED  BY <1>1, <1>2, <1>3

-----------------------------------------------------------------------------
\* The inductive invariant of a download: the bytes written and those on their way
\* are the range from its start on, and stop short of it only with a reason.
THEOREM FileInvCorrect == PullSpec => []FileInv
<1>1. PullInit => FileInv
  BY InitFile DEF PullInit
<1> QED  BY <1>1, NextFile, PTL DEF PullSpec

\* Whatever happens to the file and to the connection, what pull.py writes is the
\* range it asked for, from its start on.
THEOREM InPlaceCorrect == PullSpec => []InPlace
<1>1. FileInv => InPlace
  <2> SUFFICES ASSUME FileInv, ~ frefused, NEW j \in 1..Len(out)
               PROVE  out[j] = asked.offset + j - 1
    BY DEF InPlace, F!InPlace
  <2>1. out \in Seq(Bytes) /\ Len(out) \in Nat /\ Len(fwire) \in Nat /\ fwant \in Nat
    BY SizesAreNat DEF FileInv, FileType
  <2>2. fclen # NULL
    <3>1. fclen = NULL => out = << >>
      BY DEF FileInv, TurnInv
    <3>2. out # << >>
      BY <2>1
    <3> QED  BY <3>1, <3>2
  <2>3. /\ out[j] = foff + j - 1 /\ Len(out) + Len(fwire) <= fwant
        /\ fwant # 0 => foff = asked.offset
    BY <2>2 DEF FileInv, AnswerInv
  <2> QED  BY <2>1, <2>3
<1> QED  BY <1>1, FileInvCorrect, PTL

\* A download that ends as "wrote" is the whole range, unless the answer was cut or
\* its length did not fit an int.
THEOREM WroteIsWholeCorrect == PullSpec => []WroteIsWhole
<1>1. FileInv => WroteIsWhole
  BY DEF FileInv
<1> QED  BY <1>1, FileInvCorrect, PTL
=============================================================================
