----------------------------- MODULE MCHttpServer -----------------------------
(***************************************************************************)
(* HttpServer for TLC: two clients, so that one waits behind the other,    *)
(* and requests in three parts, so that the buffer is extended while more  *)
(* is to come; an answer of two units may be sent whole, in part or not at *)
(* all.  And the conversions of Encodings on short texts and bytes of      *)
(* every kind that they tell apart.                                        *)
(***************************************************************************)
EXTENDS HttpServer

E == INSTANCE Encodings

UpTo(k, S) == UNION {[1..len -> S] : len \in 0..k}

\* What encodeURIComponent, URLSearchParams and urllib.parse.quote make of a
\* character that is not a letter, a digit or a slash.
HexDigit(v) == IF v < 10 THEN 48 + v ELSE 55 + v
QuoteOne(c) ==
    IF c \in (47..57) \cup (65..90) \cup (97..122) THEN <<c>>
    ELSE <<E!Percent, HexDigit(c \div 16), HexDigit(c % 16)>>
Quote(s) ==
    LET f[i \in 0..Len(s)] == IF i = 0 THEN << >> ELSE f[i - 1] \o QuoteOne(s[i])
    IN f[Len(s)]

\* '%', '+', ' ', '=', '/', '&', a digit, two letters that are hexadecimal digits,
\* one that is not, and a byte above 127.
Texts == UpTo(3, {37, 43, 32, 61, 47, 38, 50, 66, 102, 122, 255})
Byteses == UpTo(4, {0, 3, 62, 191, 251, 255})

\* A value that was quoted arrives as it was, and any value fits where it was.
ASSUME QuotedArrives == \A s \in Texts : E!UrlDecode(Quote(s)) = s
ASSUME DecodedFits == \A s \in Texts : Len(E!UrlDecode(s)) <= Len(s)

\* Bytes come back from base64 as they were, in text that is a multiple of four.
ASSUME BytesArrive ==
    \A b \in Byteses : E!Decode(E!Encode(b)) = b /\ Len(E!Encode(b)) % 4 = 0

\* /write stores the bytes it was given when they were quoted and its length is
\* theirs; one that is greater stores what follows them in the heap.
ASSUME WriteStores ==
    \A b \in Byteses : \A len \in 0..5 :
        LET w == E!Written(len, Quote(E!Encode(b)))
        IN /\ len <= Len(b) => w = SubSeq(b, 1, len)
           /\ len > Len(b) => w[len] = E!Heap

\* Base64 that was not quoted loses its '+', which arrives as a space.
ASSUME PlusIsLost ==
    \A b \in UpTo(3, {0, 3, 62, 191, 251, 255}) :
        E!Written(Len(b), E!Encode(b)) = b
            <=> \A i \in DOMAIN E!Encode(b) : E!Encode(b)[i] # E!Plus

\* The arrays of a dictionary that hold its entries hold the next one too; the first
\* entry of a key is found, and a value ends at a %00.
ASSUME ArraysHold ==
    \A k \in {0, 1, 511, 512, 513, 1023, 1024}, size \in {E!Block, 2 * E!Block} :
        k * E!Pointer <= size =>
            LET d == [size |-> size, entries |-> [i \in 1..k |-> [key |-> "a", value |-> << >>]]]
                e == E!ParamAdd(d, "b", <<50>>)
            IN Len(e.entries) * E!Pointer <= e.size
ASSUME FirstIsFound ==
    LET d == E!ParamAdd(E!ParamAdd(E!ParamAdd(E!ParamAlloc, "a", <<66, 37, 48, 48, 66>>),
                                   "b", <<50>>), "a", <<102>>)
    IN /\ E!ParamSearch(d, "a") = <<<<66>>>>
       /\ E!ParamSearch(d, "b") = <<<<50>>>>
       /\ E!ParamSearch(d, "c") = << >>
=============================================================================
