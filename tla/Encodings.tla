----------------------------- MODULE Encodings -----------------------------
(***************************************************************************)
(* How a request's values and a process's bytes are written as text:       *)
(* percent-decoding and the dictionary of parameters (paramdict.c), and    *)
(* base64 (encode.c, decode.c) as /write and /read use it.  A character is *)
(* its code; a C string is the sequence of its characters before the 0.    *)
(***************************************************************************)
EXTENDS Integers, Sequences

Byte == 0..255
Percent == 37
Plus == 43
Space == 32
Pad == 61    \* '='

-----------------------------------------------------------------------------
\* url_decode.

HexVal(c) ==
    CASE c \in 48..57 -> c - 48
      [] c \in 97..102 -> c - 87
      [] c \in 65..70 -> c - 55
      [] OTHER -> -1

\* A '%' with two hexadecimal digits behind it.
Escaped(s, i) ==
    s[i] = Percent /\ i + 2 <= Len(s) /\ HexVal(s[i + 1]) >= 0 /\ HexVal(s[i + 2]) >= 0

\* What is before the first x in s.
Before(s, x) ==
    LET ends == {i \in DOMAIN s : s[i] = x}
    IN IF ends = {} THEN s ELSE SubSeq(s, 1, (CHOOSE i \in ends : \A j \in ends : i <= j) - 1)
CString(s) == Before(s, 0)

UrlDecode(s) ==
    LET from[i \in 1..(Len(s) + 1)] ==
            CASE i > Len(s) -> << >>
              [] i <= Len(s) /\ Escaped(s, i) ->
                     <<16 * HexVal(s[i + 1]) + HexVal(s[i + 2])>> \o from[i + 3]
              [] i <= Len(s) /\ s[i] = Plus -> <<Space>> \o from[i + 1]
              [] OTHER -> <<s[i]>> \o from[i + 1]
    IN from[1]

-----------------------------------------------------------------------------
\* The dictionary: entries in the order of the URL, values decoded as they are
\* added.  The arrays have a size in bytes, which grows by Block.

Block == 4096
Pointer == 8

ParamAlloc == [size |-> Block, entries |-> << >>]

ParamAdd(d, key, value) ==
    [size |-> IF Len(d.entries) * Pointer >= d.size THEN d.size + Block ELSE d.size,
     entries |-> Append(d.entries, [key |-> key, value |-> CString(UrlDecode(value))])]

\* The first entry of that key, or << >> for NULL.
ParamSearch(d, key) ==
    LET found == {i \in DOMAIN d.entries : d.entries[i].key = key}
    IN IF found = {} THEN << >>
       ELSE <<d.entries[CHOOSE i \in found : \A j \in found : i <= j].value>>

-----------------------------------------------------------------------------
\* Base64.  The table: A-Z, a-z, 0-9, + and /.

Table(v) ==
    CASE v \in 0..25 -> 65 + v
      [] v \in 26..51 -> 71 + v
      [] v \in 52..61 -> v - 4
      [] v = 62 -> Plus
      [] OTHER -> 47

\* A character that is not in the table stays what it is.
Index(c) ==
    IF \E v \in 0..63 : Table(v) = c THEN CHOOSE v \in 0..63 : Table(v) = c ELSE c

Ceiling(a, b) == (a + b - 1) \div b
At(s, i) == IF i \in DOMAIN s THEN s[i] ELSE 0

\* Three bytes are four values of six bits.
Sextets(a, b, c) ==
    <<a \div 4, 16 * (a % 4) + b \div 16, 4 * (b % 16) + c \div 64, c % 64>>

\* b64_encode: a last group that is not whole has its missing bytes taken as 0 and
\* the characters that stand for them replaced by '='.
Encode(s) ==
    LET group[g \in 0..Len(s)] == Sextets(At(s, 3 * g + 1), At(s, 3 * g + 2), At(s, 3 * g + 3))
        known == Ceiling(4 * Len(s), 3)
    IN [i \in 1..(4 * Ceiling(Len(s), 3)) |->
            IF i <= known THEN Table(group[(i - 1) \div 4][((i - 1) % 4) + 1]) ELSE Pad]

\* Four values are three bytes, which are stored as unsigned char.
Octets(a, b, c, d) ==
    <<(4 * a + (b % 64) \div 16) % 256, (16 * (b % 16) + (c % 64) \div 4) % 256,
      (64 * (c % 4) + d) % 256>>

\* b64_decode: it stops at '=', and the bytes of a last group are one fewer than
\* its characters.
Decode(s) ==
    LET text == Before(s, Pad)
        v(i) == Index(At(text, i))
        group[g \in 0..Len(text)] == Octets(v(4 * g + 1), v(4 * g + 2), v(4 * g + 3), v(4 * g + 4))
    IN [i \in 1..((3 * Len(text)) \div 4) |-> group[(i - 1) \div 3][((i - 1) % 3) + 1]]

-----------------------------------------------------------------------------
\* handle_write: the length is a parameter of its own; what the data does not give
\* is whatever follows it in the heap.
Heap == -1
Written(length, value) ==
    LET raw == Decode(CString(UrlDecode(value)))
    IN [i \in 1..length |-> IF i <= Len(raw) THEN raw[i] ELSE Heap]
=============================================================================
