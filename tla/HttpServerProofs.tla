--------------------------- MODULE HttpServerProofs ---------------------------
(***************************************************************************)
(* The payload's HTTP server, for any number of clients and pieces: its    *)
(* types, that an answer is true, whatever a send takes of it, and that a  *)
(* request leaves nothing behind but the list of a /list that fails.       *)
(*                                                                         *)
(* A handler is a sequence of steps, and its book says what is held before *)
(* each of them, which step answers, which is the first to change          *)
(* something on the console and which, if any, streams.  Each handler is   *)
(* checked against its book, once; the invariant says that a request that  *)
(* is handled is where its book says.                                      *)
(***************************************************************************)
EXTENDS HttpServer, TLAPS

\* held: what is held before each step, and at the end; leaves: what a step that
\* fails with a 404 may leave held; stream: the step that streams, or 0.
BookOf(h, a, c, l) == [held |-> h, answer |-> a, change |-> c, leaves |-> l, stream |-> 0]
Streams(h, a, i) == [BookOf(h, a, i, {}) EXCEPT !.stream = i]

ListBook ==
    BookOf(<<{}, {}, {}, {"plist"}, {"plist"}, {"json", "plist"}, {"json", "plist"}, {}>>,
           6, 7, {"plist"})
InfoBook == BookOf(<<{}, {}, {}, {"json"}, {"json"}, {}>>, 4, 5, {})
MappingBook ==
    BookOf(<<{}, {}, {}, {"maps"}, {"maps"}, {"json", "maps"}, {"json", "maps"}, {}>>, 6, 7, {})
WriteBook == BookOf(<<{}, {}, {"raw"}, {"raw"}, {"raw"}, {}>>, 4, 3, {})
ReadBook ==
    BookOf(<<{}, {}, {"data"}, {"data"}, {"b64", "data"}, {"b64", "data"}, {}>>, 5, 6, {})
AllocOrFreeBook == BookOf(<<{}, {}, {}, {}>>, 3, 2, {})
SignalBook == BookOf(<<{}, {}, {}, {}>>, 3, 2, {})
SignalAnyBook == BookOf(<<{}, {}, {}, {}, {}>>, 4, 3, {})
ThrInfoBook == BookOf(<<{}, {}, {}, {}>>, 3, 3, {})
SysctlBook ==
    BookOf(<<{}, {}, {}, {"buf"}, {"buf"}, {"buf", "json"}, {"buf", "json"}, {}>>, 6, 7, {})
SensorsBook == BookOf(<<{}, {"json"}, {"json"}, {}>>, 2, 3, {})
KernBaseBook == BookOf(<<{}, {}, {}>>, 2, 2, {})
KReadBook ==
    BookOf(<<{}, {}, {"data"}, {"data"}, {"b64", "data"}, {"b64", "data"}, {}>>, 5, 6, {})
FanBook == BookOf(<<{}, {"fan"}, {}, {}>>, 3, 3, {})
FanOpBook == BookOf(<<{}, {"fan"}, {"fan"}, {"fan"}, {}, {}>>, 5, 3, {})
StorageBook ==
    BookOf(<<{}, {}, {"buf"}, {"buf"}, {"buf", "json"}, {"buf", "json"}, {}>>, 5, 6, {})
LsBook ==
    BookOf(<<{}, {}, {"dir"}, {"dbuf", "dir"}, {"dbuf", "dir", "json"}, {"dbuf", "json"},
             {"dbuf", "json"}, {}>>,
           6, 7, {})
FStatBook == BookOf(<<{}, {}, {}, {}>>, 3, 3, {})
DlBook ==
    Streams(<<{}, {}, {}, {"file"}, {"file"}, {"file"}, {"buf", "file"}, {"buf", "file"}, {}>>,
            5, 7)
KDumpInfoBook == BookOf(<<{}, {}, {}, {}>>, 3, 3, {})
KDumpBook == Streams(<<{}, {}, {}, {}, {}, {}, {"buf"}, {"buf"}, {}>>, 5, 7)
VerboseBook == BookOf(<<{}, {}, {}>>, 2, 1, {})

Book == [
    list |-> ListBook, info |-> InfoBook, mapping |-> MappingBook,
    write |-> WriteBook, read |-> ReadBook, alloc |-> AllocOrFreeBook,
    free |-> AllocOrFreeBook, pause |-> SignalBook, resume |-> SignalBook,
    signal |-> SignalAnyBook, thrinfo |-> ThrInfoBook, sysctl |-> SysctlBook,
    sensors |-> SensorsBook, kernbase |-> KernBaseBook, kread |-> KReadBook,
    fan |-> FanBook, fan_op |-> FanOpBook, storage |-> StorageBook, ls |-> LsBook,
    fstat |-> FStatBook, dl |-> DlBook, kdump |-> KDumpInfoBook,
    kdump_range |-> KDumpBook, verbose |-> VerboseBook]

\* The step i of s goes by the book b: one answer, at the end or before it; what fails
\* with an error does so before the answer, and with a 404 before anything has changed;
\* and what a step that fails does not drop was never held.
GoesAt(s, b, i) ==
    /\ b.held[i + 1] = (b.held[i] \cup s[i].keeps) \ s[i].frees
    /\ s[i].frees \cap {"buffer", "params"} = {}
    /\ s[i].does \in {"answer", "header"} <=> i = b.answer
    /\ s[i].does = "header" => i < b.stream
    /\ s[i].does = "answer" => b.stream = 0
    /\ s[i].does = "stream" <=> i = b.stream
    /\ s[i].does = "stream" => b.held[i + 1] = b.held[i]
    /\ s[i].does = "change" => b.change <= i
    /\ s[i].fails \in {"never", "404", "200", "cut"}
    /\ s[i].fails # "never" => i <= b.answer
    /\ s[i].fails = "404" => i <= b.change
    /\ s[i].fails # "never" =>
          \/ b.held[i] \subseteq s[i].drops
          \/ s[i].fails = "404" /\ b.held[i] \ s[i].drops = b.leaves

GoesBy(s, b) ==
    /\ Len(s) \in Nat /\ DOMAIN s = 1..Len(s) /\ b.answer \in 1..Len(s)
    /\ b.change \in Nat /\ b.stream \in 0..Len(s)
    /\ b.held[1] = {} /\ b.held[Len(s) + 1] = {}
    /\ \A i \in 1..Len(s) : GoesAt(s, b, i)

-----------------------------------------------------------------------------
\* What the steps are.

StepIs(s, fails, drops, keeps, frees, does) ==
    /\ s.fails = fails /\ s.drops = drops /\ s.keeps = keeps /\ s.frees = frees
    /\ s.does = does

LEMMA CheckIs == StepIs(Check, "404", {}, {}, {}, "nothing")
  BY DEF StepIs, CheckFreeing, Check, Always

LEMMA CheckFreeingIs ==
  ASSUME NEW F
  PROVE  StepIs(CheckFreeing(F), "404", F, {}, {}, "nothing")
  BY DEF StepIs, CheckFreeing, Always

LEMMA RefuseIs ==
  ASSUME NEW F
  PROVE  StepIs(Refuse(F), "200", F, {}, {}, "nothing")
  BY DEF StepIs, Refuse, Always

LEMMA OpenIs ==
  ASSUME NEW x
  PROVE  StepIs(Open(x), "200", {}, {x}, {}, "nothing")
  BY DEF StepIs, Open, Refuse, Always

LEMMA KeepIs ==
  ASSUME NEW x
  PROVE  StepIs(Keep(x), "never", {}, {x}, {}, "nothing")
  BY DEF StepIs, Keep, Always

LEMMA FreeIs ==
  ASSUME NEW F
  PROVE  StepIs(Free(F), "never", {}, {}, F, "nothing")
  BY DEF StepIs, Free, Always

LEMMA ChangeIs == StepIs(Change, "never", {}, {}, {}, "change")
  BY DEF StepIs, Change, Always

LEMMA TryChangeIs ==
  ASSUME NEW F
  PROVE  StepIs(TryChange(F), "404", F, {}, {}, "change")
  BY DEF StepIs, TryChange, CheckFreeing, Always

LEMMA AnswerIs == StepIs(Answer, "never", {}, {}, {}, "answer")
  BY DEF StepIs, Answer, Always

LEMMA HeaderIs ==
  ASSUME NEW F
  PROVE  StepIs(Header(F), "cut", F, {}, {}, "header")
  BY DEF StepIs, Header, Always

LEMMA StreamIs == StepIs(Stream, "never", {}, {}, {}, "stream")
  BY DEF StepIs, Stream, Always

-----------------------------------------------------------------------------
\* Each handler goes by its book.

LEMMA ListGoes == GoesBy(List, ListBook)
<1>1. /\ Len(List) = 7 /\ DOMAIN List = 1..7 /\ List[1] = Check /\ List[2] = Check
      /\ List[3] = Keep("plist") /\ List[4] = Check /\ List[5] = Keep("json")
      /\ List[6] = Answer /\ List[7] = Free({"plist", "json"})
  BY DEF List
<1>2. /\ ListBook.stream = 0
      /\ ListBook.answer = 6 /\ ListBook.change = 7 /\ ListBook.leaves = {"plist"}
      /\ ListBook.held[1] = {} /\ ListBook.held[2] = {} /\ ListBook.held[3] = {}
      /\ ListBook.held[4] = {"plist"} /\ ListBook.held[5] = {"plist"}
      /\ ListBook.held[6] = {"json", "plist"} /\ ListBook.held[7] = {"json", "plist"}
      /\ ListBook.held[8] = {}
  BY DEF ListBook, BookOf
<1>3. GoesAt(List, ListBook, 1)
  BY <1>1, <1>2, CheckIs DEF StepIs, GoesAt
<1>4. GoesAt(List, ListBook, 2)
  BY <1>1, <1>2, CheckIs DEF StepIs, GoesAt
<1>5. GoesAt(List, ListBook, 3)
  BY <1>1, <1>2, KeepIs DEF StepIs, GoesAt
<1>6. GoesAt(List, ListBook, 4)
  BY <1>1, <1>2, CheckIs DEF StepIs, GoesAt
<1>7. GoesAt(List, ListBook, 5)
  BY <1>1, <1>2, KeepIs DEF StepIs, GoesAt
<1>8. GoesAt(List, ListBook, 6)
  BY <1>1, <1>2, AnswerIs DEF StepIs, GoesAt
<1>9. GoesAt(List, ListBook, 7)
  BY <1>1, <1>2, FreeIs DEF StepIs, GoesAt
<1> QED
  BY <1>1, <1>2, <1>3, <1>4, <1>5, <1>6, <1>7, <1>8, <1>9 DEF GoesBy

LEMMA InfoGoes == GoesBy(Info, InfoBook)
<1>1. /\ Len(Info) = 5 /\ DOMAIN Info = 1..5 /\ Info[1] = Check /\ Info[2] = Check
      /\ Info[3] = Keep("json") /\ Info[4] = Answer /\ Info[5] = Free({"json"})
  BY DEF Info
<1>2. /\ InfoBook.stream = 0
      /\ InfoBook.answer = 4 /\ InfoBook.change = 5 /\ InfoBook.leaves = {}
      /\ InfoBook.held[1] = {} /\ InfoBook.held[2] = {} /\ InfoBook.held[3] = {}
      /\ InfoBook.held[4] = {"json"} /\ InfoBook.held[5] = {"json"} /\ InfoBook.held[6] = {}
  BY DEF InfoBook, BookOf
<1>3. GoesAt(Info, InfoBook, 1)
  BY <1>1, <1>2, CheckIs DEF StepIs, GoesAt
<1>4. GoesAt(Info, InfoBook, 2)
  BY <1>1, <1>2, CheckIs DEF StepIs, GoesAt
<1>5. GoesAt(Info, InfoBook, 3)
  BY <1>1, <1>2, KeepIs DEF StepIs, GoesAt
<1>6. GoesAt(Info, InfoBook, 4)
  BY <1>1, <1>2, AnswerIs DEF StepIs, GoesAt
<1>7. GoesAt(Info, InfoBook, 5)
  BY <1>1, <1>2, FreeIs DEF StepIs, GoesAt
<1> QED
  BY <1>1, <1>2, <1>3, <1>4, <1>5, <1>6, <1>7 DEF GoesBy

LEMMA MappingGoes == GoesBy(Mapping, MappingBook)
<1>1. /\ Len(Mapping) = 7 /\ DOMAIN Mapping = 1..7 /\ Mapping[1] = Check
      /\ Mapping[2] = Check /\ Mapping[3] = Keep("maps")
      /\ Mapping[4] = CheckFreeing({"maps"}) /\ Mapping[5] = Keep("json")
      /\ Mapping[6] = Answer /\ Mapping[7] = Free({"maps", "json"})
  BY DEF Mapping
<1>2. /\ MappingBook.stream = 0
      /\ MappingBook.answer = 6 /\ MappingBook.change = 7 /\ MappingBook.leaves = {}
      /\ MappingBook.held[1] = {} /\ MappingBook.held[2] = {} /\ MappingBook.held[3] = {}
      /\ MappingBook.held[4] = {"maps"} /\ MappingBook.held[5] = {"maps"}
      /\ MappingBook.held[6] = {"json", "maps"} /\ MappingBook.held[7] = {"json", "maps"}
      /\ MappingBook.held[8] = {}
  BY DEF MappingBook, BookOf
<1>3. GoesAt(Mapping, MappingBook, 1)
  BY <1>1, <1>2, CheckIs DEF StepIs, GoesAt
<1>4. GoesAt(Mapping, MappingBook, 2)
  BY <1>1, <1>2, CheckIs DEF StepIs, GoesAt
<1>5. GoesAt(Mapping, MappingBook, 3)
  BY <1>1, <1>2, KeepIs DEF StepIs, GoesAt
<1>6. GoesAt(Mapping, MappingBook, 4)
  BY <1>1, <1>2, CheckFreeingIs DEF StepIs, GoesAt
<1>7. GoesAt(Mapping, MappingBook, 5)
  BY <1>1, <1>2, KeepIs DEF StepIs, GoesAt
<1>8. GoesAt(Mapping, MappingBook, 6)
  BY <1>1, <1>2, AnswerIs DEF StepIs, GoesAt
<1>9. GoesAt(Mapping, MappingBook, 7)
  BY <1>1, <1>2, FreeIs DEF StepIs, GoesAt
<1> QED
  BY <1>1, <1>2, <1>3, <1>4, <1>5, <1>6, <1>7, <1>8, <1>9 DEF GoesBy

LEMMA WriteGoes == GoesBy(Write, WriteBook)
<1>1. /\ Len(Write) = 5 /\ DOMAIN Write = 1..5 /\ Write[1] = Check /\ Write[2] = Keep("raw")
      /\ Write[3] = TryChange({"raw"}) /\ Write[4] = Answer /\ Write[5] = Free({"raw"})
  BY DEF Write
<1>2. /\ WriteBook.stream = 0
      /\ WriteBook.answer = 4 /\ WriteBook.change = 3 /\ WriteBook.leaves = {}
      /\ WriteBook.held[1] = {} /\ WriteBook.held[2] = {} /\ WriteBook.held[3] = {"raw"}
      /\ WriteBook.held[4] = {"raw"} /\ WriteBook.held[5] = {"raw"}
      /\ WriteBook.held[6] = {}
  BY DEF WriteBook, BookOf
<1>3. GoesAt(Write, WriteBook, 1)
  BY <1>1, <1>2, CheckIs DEF StepIs, GoesAt
<1>4. GoesAt(Write, WriteBook, 2)
  BY <1>1, <1>2, KeepIs DEF StepIs, GoesAt
<1>5. GoesAt(Write, WriteBook, 3)
  BY <1>1, <1>2, TryChangeIs DEF StepIs, GoesAt
<1>6. GoesAt(Write, WriteBook, 4)
  BY <1>1, <1>2, AnswerIs DEF StepIs, GoesAt
<1>7. GoesAt(Write, WriteBook, 5)
  BY <1>1, <1>2, FreeIs DEF StepIs, GoesAt
<1> QED
  BY <1>1, <1>2, <1>3, <1>4, <1>5, <1>6, <1>7 DEF GoesBy

LEMMA ReadGoes == GoesBy(Read, ReadBook)
<1>1. /\ Len(Read) = 6 /\ DOMAIN Read = 1..6 /\ Read[1] = Check /\ Read[2] = Keep("data")
      /\ Read[3] = CheckFreeing({"data"}) /\ Read[4] = Keep("b64") /\ Read[5] = Answer
      /\ Read[6] = Free({"data", "b64"})
  BY DEF Read
<1>2. /\ ReadBook.stream = 0
      /\ ReadBook.answer = 5 /\ ReadBook.change = 6 /\ ReadBook.leaves = {}
      /\ ReadBook.held[1] = {} /\ ReadBook.held[2] = {} /\ ReadBook.held[3] = {"data"}
      /\ ReadBook.held[4] = {"data"} /\ ReadBook.held[5] = {"b64", "data"}
      /\ ReadBook.held[6] = {"b64", "data"} /\ ReadBook.held[7] = {}
  BY DEF ReadBook, BookOf
<1>3. GoesAt(Read, ReadBook, 1)
  BY <1>1, <1>2, CheckIs DEF StepIs, GoesAt
<1>4. GoesAt(Read, ReadBook, 2)
  BY <1>1, <1>2, KeepIs DEF StepIs, GoesAt
<1>5. GoesAt(Read, ReadBook, 3)
  BY <1>1, <1>2, CheckFreeingIs DEF StepIs, GoesAt
<1>6. GoesAt(Read, ReadBook, 4)
  BY <1>1, <1>2, KeepIs DEF StepIs, GoesAt
<1>7. GoesAt(Read, ReadBook, 5)
  BY <1>1, <1>2, AnswerIs DEF StepIs, GoesAt
<1>8. GoesAt(Read, ReadBook, 6)
  BY <1>1, <1>2, FreeIs DEF StepIs, GoesAt
<1> QED
  BY <1>1, <1>2, <1>3, <1>4, <1>5, <1>6, <1>7, <1>8 DEF GoesBy

LEMMA AllocOrFreeGoes == GoesBy(AllocOrFree, AllocOrFreeBook)
<1>1. /\ Len(AllocOrFree) = 3 /\ DOMAIN AllocOrFree = 1..3 /\ AllocOrFree[1] = Check
      /\ AllocOrFree[2] = TryChange({}) /\ AllocOrFree[3] = Answer
  BY DEF AllocOrFree
<1>2. /\ AllocOrFreeBook.stream = 0
      /\ AllocOrFreeBook.answer = 3 /\ AllocOrFreeBook.change = 2
      /\ AllocOrFreeBook.leaves = {} /\ AllocOrFreeBook.held[1] = {}
      /\ AllocOrFreeBook.held[2] = {} /\ AllocOrFreeBook.held[3] = {}
      /\ AllocOrFreeBook.held[4] = {}
  BY DEF AllocOrFreeBook, BookOf
<1>3. GoesAt(AllocOrFree, AllocOrFreeBook, 1)
  BY <1>1, <1>2, CheckIs DEF StepIs, GoesAt
<1>4. GoesAt(AllocOrFree, AllocOrFreeBook, 2)
  BY <1>1, <1>2, TryChangeIs DEF StepIs, GoesAt
<1>5. GoesAt(AllocOrFree, AllocOrFreeBook, 3)
  BY <1>1, <1>2, AnswerIs DEF StepIs, GoesAt
<1> QED
  BY <1>1, <1>2, <1>3, <1>4, <1>5 DEF GoesBy

LEMMA SignalGoes == GoesBy(Signal, SignalBook)
<1>1. /\ Len(Signal) = 3 /\ DOMAIN Signal = 1..3 /\ Signal[1] = Check /\ Signal[2] = Change
      /\ Signal[3] = Answer
  BY DEF Signal
<1>2. /\ SignalBook.stream = 0
      /\ SignalBook.answer = 3 /\ SignalBook.change = 2 /\ SignalBook.leaves = {}
      /\ SignalBook.held[1] = {} /\ SignalBook.held[2] = {} /\ SignalBook.held[3] = {}
      /\ SignalBook.held[4] = {}
  BY DEF SignalBook, BookOf
<1>3. GoesAt(Signal, SignalBook, 1)
  BY <1>1, <1>2, CheckIs DEF StepIs, GoesAt
<1>4. GoesAt(Signal, SignalBook, 2)
  BY <1>1, <1>2, ChangeIs DEF StepIs, GoesAt
<1>5. GoesAt(Signal, SignalBook, 3)
  BY <1>1, <1>2, AnswerIs DEF StepIs, GoesAt
<1> QED
  BY <1>1, <1>2, <1>3, <1>4, <1>5 DEF GoesBy

LEMMA SignalAnyGoes == GoesBy(SignalAny, SignalAnyBook)
<1>1. /\ Len(SignalAny) = 4 /\ DOMAIN SignalAny = 1..4 /\ SignalAny[1] = Check
      /\ SignalAny[2] = Check /\ SignalAny[3] = Change /\ SignalAny[4] = Answer
  BY DEF SignalAny
<1>2. /\ SignalAnyBook.stream = 0
      /\ SignalAnyBook.answer = 4 /\ SignalAnyBook.change = 3 /\ SignalAnyBook.leaves = {}
      /\ SignalAnyBook.held[1] = {} /\ SignalAnyBook.held[2] = {}
      /\ SignalAnyBook.held[3] = {} /\ SignalAnyBook.held[4] = {}
      /\ SignalAnyBook.held[5] = {}
  BY DEF SignalAnyBook, BookOf
<1>3. GoesAt(SignalAny, SignalAnyBook, 1)
  BY <1>1, <1>2, CheckIs DEF StepIs, GoesAt
<1>4. GoesAt(SignalAny, SignalAnyBook, 2)
  BY <1>1, <1>2, CheckIs DEF StepIs, GoesAt
<1>5. GoesAt(SignalAny, SignalAnyBook, 3)
  BY <1>1, <1>2, ChangeIs DEF StepIs, GoesAt
<1>6. GoesAt(SignalAny, SignalAnyBook, 4)
  BY <1>1, <1>2, AnswerIs DEF StepIs, GoesAt
<1> QED
  BY <1>1, <1>2, <1>3, <1>4, <1>5, <1>6 DEF GoesBy

LEMMA ThrInfoGoes == GoesBy(ThrInfo, ThrInfoBook)
<1>1. /\ Len(ThrInfo) = 3 /\ DOMAIN ThrInfo = 1..3 /\ ThrInfo[1] = Check
      /\ ThrInfo[2] = Check /\ ThrInfo[3] = Answer
  BY DEF ThrInfo
<1>2. /\ ThrInfoBook.stream = 0
      /\ ThrInfoBook.answer = 3 /\ ThrInfoBook.change = 3 /\ ThrInfoBook.leaves = {}
      /\ ThrInfoBook.held[1] = {} /\ ThrInfoBook.held[2] = {} /\ ThrInfoBook.held[3] = {}
      /\ ThrInfoBook.held[4] = {}
  BY DEF ThrInfoBook, BookOf
<1>3. GoesAt(ThrInfo, ThrInfoBook, 1)
  BY <1>1, <1>2, CheckIs DEF StepIs, GoesAt
<1>4. GoesAt(ThrInfo, ThrInfoBook, 2)
  BY <1>1, <1>2, CheckIs DEF StepIs, GoesAt
<1>5. GoesAt(ThrInfo, ThrInfoBook, 3)
  BY <1>1, <1>2, AnswerIs DEF StepIs, GoesAt
<1> QED
  BY <1>1, <1>2, <1>3, <1>4, <1>5 DEF GoesBy

LEMMA ConcatIs ==
  ASSUME NEW S, NEW s \in Seq(S), NEW t \in Seq(S)
  PROVE  /\ s \o t \in Seq(S) /\ Len(s \o t) = Len(s) + Len(t)
         /\ \A i \in 1..Len(s) : (s \o t)[i] = s[i]
         /\ \A i \in 1..Len(t) : (s \o t)[Len(s) + i] = t[i]
  OBVIOUS

\* The steps of sysctl_read stand between those of handle_sysctl.
LEMMA SysctlIs ==
  /\ Len(Sysctl) = 7 /\ DOMAIN Sysctl = 1..7 /\ Sysctl[1] = Check /\ Sysctl[2] = Check
  /\ Sysctl[3] = Keep("buf") /\ Sysctl[4] = CheckFreeing({"buf"}) /\ Sysctl[5] = Keep("json")
  /\ Sysctl[6] = Answer /\ Sysctl[7] = Free({"json", "buf"})
<1> DEFINE S == {Check, Keep("buf"), CheckFreeing({"buf"}), Keep("json"), Answer,
                 Free({"json", "buf"})}
           a == <<Check>>
           b == SysctlRead
           c == <<Keep("json"), Answer, Free({"json", "buf"})>>
<1>1. /\ a \in Seq(S) /\ Len(a) = 1 /\ a[1] = Check
  OBVIOUS
<1>2. /\ b \in Seq(S) /\ Len(b) = 3 /\ b[1] = Check /\ b[2] = Keep("buf")
      /\ b[3] = CheckFreeing({"buf"})
  BY DEF SysctlRead
<1>3. /\ c \in Seq(S) /\ Len(c) = 3 /\ c[1] = Keep("json") /\ c[2] = Answer
      /\ c[3] = Free({"json", "buf"})
  OBVIOUS
<1>4. Sysctl = (a \o b) \o c
  BY DEF Sysctl
<1> HIDE DEF S, a, b, c
<1>5. /\ a \o b \in Seq(S) /\ Len(a \o b) = 4
      /\ (a \o b)[1] = Check /\ (a \o b)[2] = Check /\ (a \o b)[3] = Keep("buf")
      /\ (a \o b)[4] = CheckFreeing({"buf"})
  <2>1. /\ a \o b \in Seq(S) /\ Len(a \o b) = 4
        /\ \A i \in 1..1 : (a \o b)[i] = a[i]
        /\ \A i \in 1..3 : (a \o b)[1 + i] = b[i]
    <3>1. a \in Seq(S) /\ b \in Seq(S)
      BY <1>1, <1>2
    <3>2. /\ a \o b \in Seq(S) /\ Len(a \o b) = Len(a) + Len(b)
          /\ \A i \in 1..Len(a) : (a \o b)[i] = a[i]
          /\ \A i \in 1..Len(b) : (a \o b)[Len(a) + i] = b[i]
      BY <3>1, ConcatIs
    <3> QED  BY <3>2, <1>1, <1>2
  <2>2. (a \o b)[1] = a[1] /\ (a \o b)[2] = b[1] /\ (a \o b)[3] = b[2] /\ (a \o b)[4] = b[3]
    BY <2>1
  <2> QED  BY <2>1, <2>2, <1>1, <1>2
<1>6. ASSUME NEW d \in Seq(S), Len(d) = 4
      PROVE  /\ d \o c \in Seq(S) /\ Len(d \o c) = 7
             /\ (d \o c)[1] = d[1] /\ (d \o c)[2] = d[2] /\ (d \o c)[3] = d[3]
             /\ (d \o c)[4] = d[4] /\ (d \o c)[5] = c[1] /\ (d \o c)[6] = c[2]
             /\ (d \o c)[7] = c[3]
  <2>1. c \in Seq(S)
    BY <1>3
  <2>2. /\ d \o c \in Seq(S) /\ Len(d \o c) = Len(d) + Len(c)
        /\ \A i \in 1..Len(d) : (d \o c)[i] = d[i]
        /\ \A i \in 1..Len(c) : (d \o c)[Len(d) + i] = c[i]
    BY <1>6, <2>1, ConcatIs, SMTT(30)
  <2> QED  BY <2>2, <1>3, <1>6
<1>7. /\ Len(Sysctl) = 7 /\ Sysctl \in Seq(S)
      /\ Sysctl[1] = (a \o b)[1] /\ Sysctl[2] = (a \o b)[2] /\ Sysctl[3] = (a \o b)[3]
      /\ Sysctl[4] = (a \o b)[4] /\ Sysctl[5] = c[1] /\ Sysctl[6] = c[2] /\ Sysctl[7] = c[3]
  BY <1>4, <1>5, <1>6
<1>8. DOMAIN Sysctl = 1..7
  BY <1>7
<1> QED  BY <1>3, <1>5, <1>7, <1>8

LEMMA SysctlGoes == GoesBy(Sysctl, SysctlBook)
<1>1. /\ Len(Sysctl) = 7 /\ DOMAIN Sysctl = 1..7 /\ Sysctl[1] = Check /\ Sysctl[2] = Check
      /\ Sysctl[3] = Keep("buf") /\ Sysctl[4] = CheckFreeing({"buf"})
      /\ Sysctl[5] = Keep("json") /\ Sysctl[6] = Answer /\ Sysctl[7] = Free({"json", "buf"})
  BY SysctlIs
<1>2. /\ SysctlBook.stream = 0
      /\ SysctlBook.answer = 6 /\ SysctlBook.change = 7 /\ SysctlBook.leaves = {}
      /\ SysctlBook.held[1] = {} /\ SysctlBook.held[2] = {} /\ SysctlBook.held[3] = {}
      /\ SysctlBook.held[4] = {"buf"} /\ SysctlBook.held[5] = {"buf"}
      /\ SysctlBook.held[6] = {"buf", "json"} /\ SysctlBook.held[7] = {"buf", "json"}
      /\ SysctlBook.held[8] = {}
  BY DEF SysctlBook, BookOf
<1>3. GoesAt(Sysctl, SysctlBook, 1)
  BY <1>1, <1>2, CheckIs DEF StepIs, GoesAt
<1>4. GoesAt(Sysctl, SysctlBook, 2)
  BY <1>1, <1>2, CheckIs DEF StepIs, GoesAt
<1>5. GoesAt(Sysctl, SysctlBook, 3)
  BY <1>1, <1>2, KeepIs DEF StepIs, GoesAt
<1>6. GoesAt(Sysctl, SysctlBook, 4)
  BY <1>1, <1>2, CheckFreeingIs DEF StepIs, GoesAt
<1>7. GoesAt(Sysctl, SysctlBook, 5)
  BY <1>1, <1>2, KeepIs DEF StepIs, GoesAt
<1>8. GoesAt(Sysctl, SysctlBook, 6)
  BY <1>1, <1>2, AnswerIs DEF StepIs, GoesAt
<1>9. GoesAt(Sysctl, SysctlBook, 7)
  BY <1>1, <1>2, FreeIs DEF StepIs, GoesAt
<1> QED
  BY <1>1, <1>2, <1>3, <1>4, <1>5, <1>6, <1>7, <1>8, <1>9 DEF GoesBy

LEMMA SensorsGoes == GoesBy(Sensors, SensorsBook)
<1>1. /\ Len(Sensors) = 3 /\ DOMAIN Sensors = 1..3 /\ Sensors[1] = Keep("json")
      /\ Sensors[2] = Answer /\ Sensors[3] = Free({"json"})
  BY DEF Sensors
<1>2. /\ SensorsBook.stream = 0
      /\ SensorsBook.answer = 2 /\ SensorsBook.change = 3 /\ SensorsBook.leaves = {}
      /\ SensorsBook.held[1] = {} /\ SensorsBook.held[2] = {"json"}
      /\ SensorsBook.held[3] = {"json"} /\ SensorsBook.held[4] = {}
  BY DEF SensorsBook, BookOf
<1>3. GoesAt(Sensors, SensorsBook, 1)
  BY <1>1, <1>2, KeepIs DEF StepIs, GoesAt
<1>4. GoesAt(Sensors, SensorsBook, 2)
  BY <1>1, <1>2, AnswerIs DEF StepIs, GoesAt
<1>5. GoesAt(Sensors, SensorsBook, 3)
  BY <1>1, <1>2, FreeIs DEF StepIs, GoesAt
<1> QED
  BY <1>1, <1>2, <1>3, <1>4, <1>5 DEF GoesBy

LEMMA KernBaseGoes == GoesBy(KernBase, KernBaseBook)
<1>1. /\ Len(KernBase) = 2 /\ DOMAIN KernBase = 1..2 /\ KernBase[1] = Check
      /\ KernBase[2] = Answer
  BY DEF KernBase
<1>2. /\ KernBaseBook.stream = 0
      /\ KernBaseBook.answer = 2 /\ KernBaseBook.change = 2 /\ KernBaseBook.leaves = {}
      /\ KernBaseBook.held[1] = {} /\ KernBaseBook.held[2] = {} /\ KernBaseBook.held[3] = {}
  BY DEF KernBaseBook, BookOf
<1>3. GoesAt(KernBase, KernBaseBook, 1)
  BY <1>1, <1>2, CheckIs DEF StepIs, GoesAt
<1>4. GoesAt(KernBase, KernBaseBook, 2)
  BY <1>1, <1>2, AnswerIs DEF StepIs, GoesAt
<1> QED
  BY <1>1, <1>2, <1>3, <1>4 DEF GoesBy

LEMMA KReadGoes == GoesBy(KRead, KReadBook)
<1>1. /\ Len(KRead) = 6 /\ DOMAIN KRead = 1..6 /\ KRead[1] = Check
      /\ KRead[2] = Keep("data") /\ KRead[3] = CheckFreeing({"data"})
      /\ KRead[4] = Keep("b64") /\ KRead[5] = Answer /\ KRead[6] = Free({"data", "b64"})
  BY DEF KRead
<1>2. /\ KReadBook.stream = 0
      /\ KReadBook.answer = 5 /\ KReadBook.change = 6 /\ KReadBook.leaves = {}
      /\ KReadBook.held[1] = {} /\ KReadBook.held[2] = {} /\ KReadBook.held[3] = {"data"}
      /\ KReadBook.held[4] = {"data"} /\ KReadBook.held[5] = {"b64", "data"}
      /\ KReadBook.held[6] = {"b64", "data"} /\ KReadBook.held[7] = {}
  BY DEF KReadBook, BookOf
<1>3. GoesAt(KRead, KReadBook, 1)
  BY <1>1, <1>2, CheckIs DEF StepIs, GoesAt
<1>4. GoesAt(KRead, KReadBook, 2)
  BY <1>1, <1>2, KeepIs DEF StepIs, GoesAt
<1>5. GoesAt(KRead, KReadBook, 3)
  BY <1>1, <1>2, CheckFreeingIs DEF StepIs, GoesAt
<1>6. GoesAt(KRead, KReadBook, 4)
  BY <1>1, <1>2, KeepIs DEF StepIs, GoesAt
<1>7. GoesAt(KRead, KReadBook, 5)
  BY <1>1, <1>2, AnswerIs DEF StepIs, GoesAt
<1>8. GoesAt(KRead, KReadBook, 6)
  BY <1>1, <1>2, FreeIs DEF StepIs, GoesAt
<1> QED
  BY <1>1, <1>2, <1>3, <1>4, <1>5, <1>6, <1>7, <1>8 DEF GoesBy

LEMMA FanGoes == GoesBy(Fan, FanBook)
<1>1. /\ Len(Fan) = 3 /\ DOMAIN Fan = 1..3 /\ Fan[1] = Open("fan") /\ Fan[2] = Free({"fan"})
      /\ Fan[3] = Answer
  BY DEF Fan
<1>2. /\ FanBook.stream = 0
      /\ FanBook.answer = 3 /\ FanBook.change = 3 /\ FanBook.leaves = {}
      /\ FanBook.held[1] = {} /\ FanBook.held[2] = {"fan"} /\ FanBook.held[3] = {}
      /\ FanBook.held[4] = {}
  BY DEF FanBook, BookOf
<1>3. GoesAt(Fan, FanBook, 1)
  BY <1>1, <1>2, OpenIs DEF StepIs, GoesAt
<1>4. GoesAt(Fan, FanBook, 2)
  BY <1>1, <1>2, FreeIs DEF StepIs, GoesAt
<1>5. GoesAt(Fan, FanBook, 3)
  BY <1>1, <1>2, AnswerIs DEF StepIs, GoesAt
<1> QED
  BY <1>1, <1>2, <1>3, <1>4, <1>5 DEF GoesBy

LEMMA FanOpGoes == GoesBy(FanOp, FanOpBook)
<1>1. /\ Len(FanOp) = 5 /\ DOMAIN FanOp = 1..5 /\ FanOp[1] = Open("fan")
      /\ FanOp[2] = CheckFreeing({"fan"}) /\ FanOp[3] = Change /\ FanOp[4] = Free({"fan"})
      /\ FanOp[5] = Answer
  BY DEF FanOp
<1>2. /\ FanOpBook.stream = 0
      /\ FanOpBook.answer = 5 /\ FanOpBook.change = 3 /\ FanOpBook.leaves = {}
      /\ FanOpBook.held[1] = {} /\ FanOpBook.held[2] = {"fan"}
      /\ FanOpBook.held[3] = {"fan"} /\ FanOpBook.held[4] = {"fan"}
      /\ FanOpBook.held[5] = {} /\ FanOpBook.held[6] = {}
  BY DEF FanOpBook, BookOf
<1>3. GoesAt(FanOp, FanOpBook, 1)
  BY <1>1, <1>2, OpenIs DEF StepIs, GoesAt
<1>4. GoesAt(FanOp, FanOpBook, 2)
  BY <1>1, <1>2, CheckFreeingIs DEF StepIs, GoesAt
<1>5. GoesAt(FanOp, FanOpBook, 3)
  BY <1>1, <1>2, ChangeIs DEF StepIs, GoesAt
<1>6. GoesAt(FanOp, FanOpBook, 4)
  BY <1>1, <1>2, FreeIs DEF StepIs, GoesAt
<1>7. GoesAt(FanOp, FanOpBook, 5)
  BY <1>1, <1>2, AnswerIs DEF StepIs, GoesAt
<1> QED
  BY <1>1, <1>2, <1>3, <1>4, <1>5, <1>6, <1>7 DEF GoesBy

LEMMA StorageGoes == GoesBy(Storage, StorageBook)
<1>1. /\ Len(Storage) = 6 /\ DOMAIN Storage = 1..6 /\ Storage[1] = Refuse({})
      /\ Storage[2] = Keep("buf") /\ Storage[3] = CheckFreeing({"buf"})
      /\ Storage[4] = Keep("json") /\ Storage[5] = Answer
      /\ Storage[6] = Free({"json", "buf"})
  BY DEF Storage
<1>2. /\ StorageBook.stream = 0
      /\ StorageBook.answer = 5 /\ StorageBook.change = 6 /\ StorageBook.leaves = {}
      /\ StorageBook.held[1] = {} /\ StorageBook.held[2] = {}
      /\ StorageBook.held[3] = {"buf"} /\ StorageBook.held[4] = {"buf"}
      /\ StorageBook.held[5] = {"buf", "json"} /\ StorageBook.held[6] = {"buf", "json"}
      /\ StorageBook.held[7] = {}
  BY DEF StorageBook, BookOf
<1>3. GoesAt(Storage, StorageBook, 1)
  BY <1>1, <1>2, RefuseIs DEF StepIs, GoesAt
<1>4. GoesAt(Storage, StorageBook, 2)
  BY <1>1, <1>2, KeepIs DEF StepIs, GoesAt
<1>5. GoesAt(Storage, StorageBook, 3)
  BY <1>1, <1>2, CheckFreeingIs DEF StepIs, GoesAt
<1>6. GoesAt(Storage, StorageBook, 4)
  BY <1>1, <1>2, KeepIs DEF StepIs, GoesAt
<1>7. GoesAt(Storage, StorageBook, 5)
  BY <1>1, <1>2, AnswerIs DEF StepIs, GoesAt
<1>8. GoesAt(Storage, StorageBook, 6)
  BY <1>1, <1>2, FreeIs DEF StepIs, GoesAt
<1> QED
  BY <1>1, <1>2, <1>3, <1>4, <1>5, <1>6, <1>7, <1>8 DEF GoesBy

LEMMA LsGoes == GoesBy(Ls, LsBook)
<1>1. /\ Len(Ls) = 7 /\ DOMAIN Ls = 1..7 /\ Ls[1] = Check /\ Ls[2] = Open("dir")
      /\ Ls[3] = Keep("dbuf") /\ Ls[4] = Keep("json") /\ Ls[5] = Free({"dir"})
      /\ Ls[6] = Answer /\ Ls[7] = Free({"json", "dbuf"})
  BY DEF Ls
<1>2. /\ LsBook.stream = 0
      /\ LsBook.answer = 6 /\ LsBook.change = 7 /\ LsBook.leaves = {} /\ LsBook.held[1] = {}
      /\ LsBook.held[2] = {} /\ LsBook.held[3] = {"dir"} /\ LsBook.held[4] = {"dbuf", "dir"}
      /\ LsBook.held[5] = {"dbuf", "dir", "json"} /\ LsBook.held[6] = {"dbuf", "json"}
      /\ LsBook.held[7] = {"dbuf", "json"} /\ LsBook.held[8] = {}
  BY DEF LsBook, BookOf
<1>3. GoesAt(Ls, LsBook, 1)
  BY <1>1, <1>2, CheckIs DEF StepIs, GoesAt
<1>4. GoesAt(Ls, LsBook, 2)
  BY <1>1, <1>2, OpenIs DEF StepIs, GoesAt
<1>5. GoesAt(Ls, LsBook, 3)
  BY <1>1, <1>2, KeepIs DEF StepIs, GoesAt
<1>6. GoesAt(Ls, LsBook, 4)
  BY <1>1, <1>2, KeepIs DEF StepIs, GoesAt
<1>7. GoesAt(Ls, LsBook, 5)
  BY <1>1, <1>2, FreeIs DEF StepIs, GoesAt
<1>8. GoesAt(Ls, LsBook, 6)
  BY <1>1, <1>2, AnswerIs DEF StepIs, GoesAt
<1>9. GoesAt(Ls, LsBook, 7)
  BY <1>1, <1>2, FreeIs DEF StepIs, GoesAt
<1> QED
  BY <1>1, <1>2, <1>3, <1>4, <1>5, <1>6, <1>7, <1>8, <1>9 DEF GoesBy

LEMMA FStatGoes == GoesBy(FStat, FStatBook)
<1>1. /\ Len(FStat) = 3 /\ DOMAIN FStat = 1..3 /\ FStat[1] = Check /\ FStat[2] = Refuse({})
      /\ FStat[3] = Answer
  BY DEF FStat
<1>2. /\ FStatBook.stream = 0
      /\ FStatBook.answer = 3 /\ FStatBook.change = 3 /\ FStatBook.leaves = {}
      /\ FStatBook.held[1] = {} /\ FStatBook.held[2] = {} /\ FStatBook.held[3] = {}
      /\ FStatBook.held[4] = {}
  BY DEF FStatBook, BookOf
<1>3. GoesAt(FStat, FStatBook, 1)
  BY <1>1, <1>2, CheckIs DEF StepIs, GoesAt
<1>4. GoesAt(FStat, FStatBook, 2)
  BY <1>1, <1>2, RefuseIs DEF StepIs, GoesAt
<1>5. GoesAt(FStat, FStatBook, 3)
  BY <1>1, <1>2, AnswerIs DEF StepIs, GoesAt
<1> QED
  BY <1>1, <1>2, <1>3, <1>4, <1>5 DEF GoesBy

LEMMA DlGoes == GoesBy(Dl, DlBook)
<1>1. /\ Len(Dl) = 8 /\ DOMAIN Dl = 1..8 /\ Dl[1] = Check /\ Dl[2] = Refuse({})
      /\ Dl[3] = Open("file") /\ Dl[4] = Refuse({"file"}) /\ Dl[5] = Header({"file"})
      /\ Dl[6] = Keep("buf") /\ Dl[7] = Stream /\ Dl[8] = Free({"buf", "file"})
  BY DEF Dl
<1>2. /\ DlBook.stream = 7
      /\ DlBook.answer = 5 /\ DlBook.change = 7 /\ DlBook.leaves = {} /\ DlBook.held[1] = {}
      /\ DlBook.held[2] = {} /\ DlBook.held[3] = {} /\ DlBook.held[4] = {"file"}
      /\ DlBook.held[5] = {"file"} /\ DlBook.held[6] = {"file"}
      /\ DlBook.held[7] = {"buf", "file"} /\ DlBook.held[8] = {"buf", "file"}
      /\ DlBook.held[9] = {}
  BY DEF DlBook, Streams, BookOf
<1>3. GoesAt(Dl, DlBook, 1)
  BY <1>1, <1>2, CheckIs DEF StepIs, GoesAt
<1>4. GoesAt(Dl, DlBook, 2)
  BY <1>1, <1>2, RefuseIs DEF StepIs, GoesAt
<1>5. GoesAt(Dl, DlBook, 3)
  BY <1>1, <1>2, OpenIs DEF StepIs, GoesAt
<1>6. GoesAt(Dl, DlBook, 4)
  BY <1>1, <1>2, RefuseIs DEF StepIs, GoesAt
<1>7. GoesAt(Dl, DlBook, 5)
  BY <1>1, <1>2, HeaderIs DEF StepIs, GoesAt
<1>8. GoesAt(Dl, DlBook, 6)
  BY <1>1, <1>2, KeepIs DEF StepIs, GoesAt
<1>9. GoesAt(Dl, DlBook, 7)
  BY <1>1, <1>2, StreamIs DEF StepIs, GoesAt
<1>10. GoesAt(Dl, DlBook, 8)
  BY <1>1, <1>2, FreeIs DEF StepIs, GoesAt
<1> QED
  BY <1>1, <1>2, <1>3, <1>4, <1>5, <1>6, <1>7, <1>8, <1>9, <1>10 DEF GoesBy

LEMMA KDumpInfoGoes == GoesBy(KDumpInfo, KDumpInfoBook)
<1>1. /\ Len(KDumpInfo) = 3 /\ DOMAIN KDumpInfo = 1..3 /\ KDumpInfo[1] = Refuse({})
      /\ KDumpInfo[2] = Refuse({}) /\ KDumpInfo[3] = Answer
  BY DEF KDumpInfo
<1>2. /\ KDumpInfoBook.stream = 0
      /\ KDumpInfoBook.answer = 3 /\ KDumpInfoBook.change = 3 /\ KDumpInfoBook.leaves = {}
      /\ KDumpInfoBook.held[1] = {} /\ KDumpInfoBook.held[2] = {}
      /\ KDumpInfoBook.held[3] = {} /\ KDumpInfoBook.held[4] = {}
  BY DEF KDumpInfoBook, BookOf
<1>3. GoesAt(KDumpInfo, KDumpInfoBook, 1)
  BY <1>1, <1>2, RefuseIs DEF StepIs, GoesAt
<1>4. GoesAt(KDumpInfo, KDumpInfoBook, 2)
  BY <1>1, <1>2, RefuseIs DEF StepIs, GoesAt
<1>5. GoesAt(KDumpInfo, KDumpInfoBook, 3)
  BY <1>1, <1>2, AnswerIs DEF StepIs, GoesAt
<1> QED
  BY <1>1, <1>2, <1>3, <1>4, <1>5 DEF GoesBy

LEMMA KDumpGoes == GoesBy(KDump, KDumpBook)
<1>1. /\ Len(KDump) = 8 /\ DOMAIN KDump = 1..8 /\ KDump[1] = Refuse({})
      /\ KDump[2] = Refuse({}) /\ KDump[3] = Refuse({}) /\ KDump[4] = Refuse({})
      /\ KDump[5] = Header({}) /\ KDump[6] = Keep("buf") /\ KDump[7] = Stream
      /\ KDump[8] = Free({"buf"})
  BY DEF KDump
<1>2. /\ KDumpBook.stream = 7
      /\ KDumpBook.answer = 5 /\ KDumpBook.change = 7 /\ KDumpBook.leaves = {}
      /\ KDumpBook.held[1] = {} /\ KDumpBook.held[2] = {} /\ KDumpBook.held[3] = {}
      /\ KDumpBook.held[4] = {} /\ KDumpBook.held[5] = {} /\ KDumpBook.held[6] = {}
      /\ KDumpBook.held[7] = {"buf"} /\ KDumpBook.held[8] = {"buf"}
      /\ KDumpBook.held[9] = {}
  BY DEF KDumpBook, Streams, BookOf
<1>3. GoesAt(KDump, KDumpBook, 1)
  BY <1>1, <1>2, RefuseIs DEF StepIs, GoesAt
<1>4. GoesAt(KDump, KDumpBook, 2)
  BY <1>1, <1>2, RefuseIs DEF StepIs, GoesAt
<1>5. GoesAt(KDump, KDumpBook, 3)
  BY <1>1, <1>2, RefuseIs DEF StepIs, GoesAt
<1>6. GoesAt(KDump, KDumpBook, 4)
  BY <1>1, <1>2, RefuseIs DEF StepIs, GoesAt
<1>7. GoesAt(KDump, KDumpBook, 5)
  BY <1>1, <1>2, HeaderIs DEF StepIs, GoesAt
<1>8. GoesAt(KDump, KDumpBook, 6)
  BY <1>1, <1>2, KeepIs DEF StepIs, GoesAt
<1>9. GoesAt(KDump, KDumpBook, 7)
  BY <1>1, <1>2, StreamIs DEF StepIs, GoesAt
<1>10. GoesAt(KDump, KDumpBook, 8)
  BY <1>1, <1>2, FreeIs DEF StepIs, GoesAt
<1> QED
  BY <1>1, <1>2, <1>3, <1>4, <1>5, <1>6, <1>7, <1>8, <1>9, <1>10 DEF GoesBy

LEMMA VerboseGoes == GoesBy(Verbose, VerboseBook)
<1>1. /\ Len(Verbose) = 2 /\ DOMAIN Verbose = 1..2 /\ Verbose[1] = Change
      /\ Verbose[2] = Answer
  BY DEF Verbose
<1>2. /\ VerboseBook.stream = 0
      /\ VerboseBook.answer = 2 /\ VerboseBook.change = 1 /\ VerboseBook.leaves = {}
      /\ VerboseBook.held[1] = {} /\ VerboseBook.held[2] = {} /\ VerboseBook.held[3] = {}
  BY DEF VerboseBook, BookOf
<1>3. GoesAt(Verbose, VerboseBook, 1)
  BY <1>1, <1>2, ChangeIs DEF StepIs, GoesAt
<1>4. GoesAt(Verbose, VerboseBook, 2)
  BY <1>1, <1>2, AnswerIs DEF StepIs, GoesAt
<1> QED
  BY <1>1, <1>2, <1>3, <1>4 DEF GoesBy

LEMMA EachGoes ==
  \A o \in Operations :
     /\ GoesBy(Steps[o], Book[o])
     /\ Book[o].leaves = IF o = "list" THEN {"plist"} ELSE {}
<1> SUFFICES ASSUME NEW o \in Operations
             PROVE  /\ GoesBy(Steps[o], Book[o])
                    /\ Book[o].leaves = IF o = "list" THEN {"plist"} ELSE {}
  OBVIOUS
<1>1. CASE o = "list"
  BY <1>1, ListGoes DEF Steps, Book, ListBook, BookOf
<1>2. CASE o = "info"
  BY <1>2, InfoGoes DEF Steps, Book, InfoBook, BookOf
<1>3. CASE o = "mapping"
  BY <1>3, MappingGoes DEF Steps, Book, MappingBook, BookOf
<1>4. CASE o = "write"
  BY <1>4, WriteGoes DEF Steps, Book, WriteBook, BookOf
<1>5. CASE o = "read"
  BY <1>5, ReadGoes DEF Steps, Book, ReadBook, BookOf
<1>6. CASE o = "alloc"
  BY <1>6, AllocOrFreeGoes DEF Steps, Book, AllocOrFreeBook, BookOf
<1>7. CASE o = "free"
  BY <1>7, AllocOrFreeGoes DEF Steps, Book, AllocOrFreeBook, BookOf
<1>8. CASE o = "pause"
  BY <1>8, SignalGoes DEF Steps, Book, SignalBook, BookOf
<1>9. CASE o = "resume"
  BY <1>9, SignalGoes DEF Steps, Book, SignalBook, BookOf
<1>10. CASE o = "signal"
  BY <1>10, SignalAnyGoes DEF Steps, Book, SignalAnyBook, BookOf
<1>11. CASE o = "thrinfo"
  BY <1>11, ThrInfoGoes DEF Steps, Book, ThrInfoBook, BookOf
<1>12. CASE o = "sysctl"
  BY <1>12, SysctlGoes DEF Steps, Book, SysctlBook, BookOf
<1>13. CASE o = "sensors"
  BY <1>13, SensorsGoes DEF Steps, Book, SensorsBook, BookOf
<1>14. CASE o = "kernbase"
  BY <1>14, KernBaseGoes DEF Steps, Book, KernBaseBook, BookOf
<1>15. CASE o = "kread"
  BY <1>15, KReadGoes DEF Steps, Book, KReadBook, BookOf
<1>16. CASE o = "fan"
  BY <1>16, FanGoes DEF Steps, Book, FanBook, BookOf
<1>17. CASE o = "fan_op"
  BY <1>17, FanOpGoes DEF Steps, Book, FanOpBook, BookOf
<1>18. CASE o = "storage"
  BY <1>18, StorageGoes DEF Steps, Book, StorageBook, BookOf
<1>19. CASE o = "ls"
  BY <1>19, LsGoes DEF Steps, Book, LsBook, BookOf
<1>20. CASE o = "fstat"
  BY <1>20, FStatGoes DEF Steps, Book, FStatBook, BookOf
<1>21. CASE o = "dl"
  BY <1>21, DlGoes DEF Steps, Book, DlBook, Streams, BookOf
<1>22. CASE o = "kdump"
  BY <1>22, KDumpInfoGoes DEF Steps, Book, KDumpInfoBook, BookOf
<1>23. CASE o = "kdump_range"
  BY <1>23, KDumpGoes DEF Steps, Book, KDumpBook, Streams, BookOf
<1>24. CASE o = "verbose"
  BY <1>24, VerboseGoes DEF Steps, Book, VerboseBook, BookOf
<1> QED
  BY <1>1, <1>2, <1>3, <1>4, <1>5, <1>6, <1>7, <1>8, <1>9, <1>10, <1>11, <1>12, <1>13, <1>14,
     <1>15, <1>16, <1>17, <1>18, <1>19, <1>20, <1>21, <1>22, <1>23, <1>24
  DEF Operations, Steps

-----------------------------------------------------------------------------
\* The inductive invariant.

Common == {"buffer", "params"}

\* Before a handler runs, nothing has been done for a request.
NothingYet ==
    op = NULL /\ at = 1 /\ answers = << >> /\ left = 0 /\ lost = "no" /\ changed = FALSE

BeforeInv ==
    /\ pc \notin {"handle", "finish"} => NothingYet
    /\ pc \in {"start", "accept", "down"} => held = {}
    /\ pc = "recv" => held = {"buffer"}
    /\ pc = "parse" => held = Common

\* While it runs, the request is where the handler's book says.
HandleInv ==
    pc = "handle" =>
        /\ held = Common \cup Book[op].held[at]
        /\ answers = IF at > Book[op].answer THEN <<"200">> ELSE << >>
        /\ changed => at > Book[op].change

\* Afterwards, only a /list that failed has left something.
FinishInv ==
    pc = "finish" =>
        \/ held \subseteq Common
        \/ op = "list" /\ answers = <<"404">> /\ held \ Common = {"plist"}

\* What has not been sent is still to be streamed, or lost; an answer is announced
\* before any of it is, and a send fails only when the client has left.
SentInv ==
    /\ answers = << >> => left = 0 /\ lost = "no"
    /\ left > 0 /\ lost = "no" => pc = "handle" /\ at <= Book[op].stream
    /\ lost = "gone" => cur \in Clients /\ link[cur] \notin {"none", "open"}

\* What send_response lost was not a transfer's, but for the error of one that failed.
LostInv ==
    lost = "send" =>
        /\ pc = "handle" => Book[op].stream = 0
        /\ pc = "finish" => ~ (op \in Transfers /\ AtItsEnd)

Inv ==
    TypeOK /\ InTurn /\ BeforeInv /\ HandleInv /\ FinishInv /\ SentInv /\ LostInv /\ AnswerIsTrue

-----------------------------------------------------------------------------
\* Types, and who is served.

LEMMA InitTyped == Init => TypeOK /\ InTurn
<1> SUFFICES ASSUME Init PROVE TypeOK /\ InTurn
  OBVIOUS
<1> USE DEF Init
<1>1. /\ link \in [Clients -> {"none", "open", "closed", "reset", "broken"}]
      /\ sent \in [Clients -> 0..Pieces] /\ got \in 0..Pieces /\ left \in 0..Units
  BY PiecesIsPos, UnitsIsPos
<1>2. queue \in Seq(Clients) /\ answers \in Seq({"200", "404", "405"})
  OBVIOUS
<1>3. TypeOK
  BY <1>1, <1>2 DEF TypeOK
<1>4. InTurn
  BY NullIsNothing DEF InTurn
<1> QED  BY <1>3, <1>4

\* Tail of a queue.
LEMMA TailOf ==
  ASSUME NEW S, NEW s \in Seq(S), s # << >>
  PROVE  /\ Head(s) = s[1] /\ Head(s) \in S /\ 1 \in DOMAIN s /\ DOMAIN s = 1..Len(s)
         /\ Tail(s) \in Seq(S) /\ Len(Tail(s)) = Len(s) - 1
         /\ DOMAIN Tail(s) = 1..(Len(s) - 1)
         /\ \A i \in DOMAIN Tail(s) : i + 1 \in DOMAIN s /\ Tail(s)[i] = s[i + 1]
  OBVIOUS

LEMMA AppendOf ==
  ASSUME NEW S, NEW s \in Seq(S), NEW x \in S
  PROVE  /\ Append(s, x) \in Seq(S) /\ Len(s) \in Nat /\ DOMAIN s = 1..Len(s)
         /\ DOMAIN Append(s, x) = 1..(Len(s) + 1)
         /\ \A i \in DOMAIN s : Append(s, x)[i] = s[i]
         /\ Append(s, x)[Len(s) + 1] = x
  OBVIOUS

LEMMA KeptIsResource ==
  ASSUME NEW o \in Operations, NEW i \in 1..Len(Steps[o])
  PROVE  Steps[o][i].keeps \subseteq Resources
<1>1. i \in DOMAIN Steps[o]
  BY EachGoes DEF GoesBy
<1> QED  BY <1>1 DEF Resources

LEMMA CommonIsResource == {"buffer", "params"} \subseteq Resources
  BY DEF Resources

LEMMA SearchTyped ==
  ASSUME TypeOK, pc = "recv", NEW complete \in BOOLEAN, Search(complete)
  PROVE  /\ pc' \in {"recv", "parse"} /\ grown' \in BOOLEAN /\ held' \subseteq Resources
  BY CommonIsResource DEF TypeOK, Search

LEMMA SentOnce ==
  ASSUME SendOnce
  PROVE  /\ left' \in 0..Units /\ lost' \in {"no", "send", "source", "gone"}
         /\ lost' # "gone" /\ (lost' = "no" => left' = 0)
<1>1. left' \in 0..Units /\ lost' = IF left' = 0 THEN "no" ELSE "send"
  BY DEF SendOnce
<1> QED  BY <1>1

LEMMA AnswersIs ==
  ASSUME TypeOK, Answers
  PROVE  /\ answers' = IF Now.does \in {"answer", "header"} THEN Append(answers, "200")
                       ELSE answers
         /\ left' \in 0..Units /\ lost' \in {"no", "send", "source", "gone"}
<1>1. CASE Now.does = "answer" /\ answers' = Append(answers, "200") /\ SendOnce
  BY <1>1, SentOnce
<1>2. CASE /\ Now.does = "header" /\ answers' = Append(answers, "200")
           /\ left' \in 0..Units /\ UNCHANGED lost
  BY <1>2 DEF TypeOK
<1>3. CASE Now.does \notin {"answer", "header"} /\ UNCHANGED answer
  BY <1>3 DEF TypeOK, answer
<1> QED  BY <1>1, <1>2, <1>3 DEF Answers

\* BeforeInv: a handler starts at its first step.
LEMMA NextTyped ==
  ASSUME TypeOK, BeforeInv, [Next]_vars
  PROVE  TypeOK'
<1> USE DEF clients, buffer, handler, answer
<1>1. CASE UNCHANGED vars
  BY <1>1 DEF vars, TypeOK
<1>2. CASE Listen
  BY <1>2 DEF Listen, TypeOK
<1>3. CASE Accept
  <2>1. cur' \in Clients /\ queue' \in Seq(Clients)
    BY <1>3, TailOf DEF Accept, TypeOK
  <2> QED
    BY <2>1, <1>3, NullIsNothing, CommonIsResource DEF Accept, TypeOK
<1>4. CASE RecvPiece
  <2>1. got' \in 0..Pieces
    <3>1. sent[cur] \in 0..Pieces /\ got \in 0..Pieces /\ Pieces \in Nat
      BY <1>4, PiecesIsPos DEF RecvPiece, TypeOK
    <3>2. got' \in (got + 1)..sent[cur]
      BY <1>4 DEF RecvPiece
    <3> QED  BY <3>1, <3>2
  <2>2. (got' = Pieces) \in BOOLEAN
    OBVIOUS
  <2>3. pc' \in {"recv", "parse"} /\ grown' \in BOOLEAN /\ held' \subseteq Resources
    BY <1>4, <2>2, SearchTyped DEF RecvPiece
  <2> QED
    BY <2>1, <2>3, <1>4 DEF RecvPiece, TypeOK
<1>5. CASE RecvError
  <2>1. pc' \in {"recv", "parse"} /\ grown' \in BOOLEAN /\ held' \subseteq Resources
    BY <1>5, SearchTyped DEF RecvError
  <2> QED
    BY <2>1, <1>5 DEF RecvError, TypeOK
<1>6. CASE RecvEnd
  BY <1>6, CommonIsResource DEF RecvEnd, TypeOK
<1>7. CASE NotGet
  BY <1>7, SentOnce DEF NotGet, TypeOK
<1>8. CASE UnknownOperation
  BY <1>8, SentOnce DEF UnknownOperation, TypeOK
<1>9. CASE Dispatch
  <2>1. op' \in Operations /\ at' = 1
    BY <1>9 DEF Dispatch, BeforeInv, NothingYet
  <2>2. Len(Steps[op']) \in Nat
    BY <2>1, EachGoes DEF GoesBy
  <2>3. 1 \in 1..(Len(Steps[op']) + 1)
    BY <2>2
  <2> QED
    BY <2>1, <2>3, <1>9 DEF Dispatch, TypeOK
<1>10. CASE StepDone
  <2> DEFINE L == Len(Steps[op])
  <2>1. op \in Operations /\ at \in 1..(L + 1) /\ at <= L /\ L \in Nat
    BY <1>10, EachGoes DEF StepDone, TypeOK, GoesBy
  <2>2. Now.keeps \subseteq Resources
    BY <2>1, KeptIsResource DEF Now
  <2>3. held' \subseteq Resources
    BY <2>2, <1>10 DEF StepDone, TypeOK
  <2>4. at' \in Nat /\ at' \in 1..(L + 1)
    <3> HIDE DEF L
    <3>1. at' = at + 1
      BY <1>10 DEF StepDone
    <3> QED  BY <2>1, <3>1
  <2>5. answers' \in Seq({"200", "404", "405"})
    <3>1. answers \in Seq({"200", "404", "405"})
      BY DEF TypeOK
    <3>2. Append(answers, "200") \in Seq({"200", "404", "405"})
      BY <3>1
    <3> QED  BY <3>1, <3>2, <1>10, AnswersIs DEF StepDone
  <2>6. changed' \in BOOLEAN
    BY <1>10 DEF StepDone, TypeOK
  <2>7. L' = L /\ op' = op
    BY <1>10 DEF StepDone
  <2>8. left' \in 0..Units /\ lost' \in {"no", "send", "source", "gone"}
    BY <1>10, AnswersIs DEF StepDone
  <2> QED
    BY <2>1, <2>3, <2>4, <2>5, <2>6, <2>7, <2>8, <1>10 DEF StepDone, TypeOK
<1>11. CASE StepFails
  <2>1. op \in Operations /\ at \in 1..Len(Steps[op])
    BY <1>11, EachGoes DEF StepFails, TypeOK, GoesBy
  <2>2. Now.fails \in {"404", "200", "cut"}
    BY <1>11, <2>1, EachGoes DEF StepFails, GoesBy, GoesAt, Now
  <2>3. Replies(Now.fails) \in Seq({"200", "404", "405"})
    <3>1. CASE Now.fails = "cut"
      BY <3>1 DEF Replies
    <3>2. CASE Now.fails \in {"404", "200"}
      <4>1. Replies(Now.fails) = <<Now.fails>>
        BY <3>2 DEF Replies
      <4>2. <<Now.fails>> \in Seq({"200", "404", "405"})
        BY <3>2
      <4> QED  BY <4>1, <4>2
    <3> QED  BY <2>2, <3>1, <3>2
  <2>4. answers' \in Seq({"200", "404", "405"})
    BY <1>11, <2>3 DEF StepFails, TypeOK
  <2>5. changed' \in BOOLEAN
    BY <1>11 DEF StepFails, TypeOK
  <2>6. left' \in 0..Units /\ lost' \in {"no", "send", "source", "gone"}
    BY <1>11, SentOnce DEF StepFails, TypeOK
  <2> QED
    BY <1>11, <2>4, <2>5, <2>6 DEF StepFails, TypeOK
<1>12. CASE HandlerReturns
  BY <1>12 DEF HandlerReturns, TypeOK
<1>13. CASE Finish
  <2>1. /\ link' \in [Clients -> {"none", "open", "closed", "reset", "broken"}]
        /\ sent' \in [Clients -> 0..Pieces] /\ got' \in 0..Pieces
    BY <1>13, PiecesIsPos DEF Finish, TypeOK
  <2>2. held' \subseteq Resources /\ kept' \subseteq Resources
    BY <1>13 DEF Finish, TypeOK
  <2>3. answers' \in Seq({"200", "404", "405"})
    BY <1>13 DEF Finish
  <2>4. left' \in 0..Units
    BY <1>13, UnitsIsPos DEF Finish
  <2> QED
    BY <1>13, <2>1, <2>2, <2>3, <2>4 DEF Finish, TypeOK
<1>14. ASSUME NEW c \in Clients, Connect(c)  PROVE TypeOK'
  <2>1. queue' \in Seq(Clients)
    BY <1>14, AppendOf DEF Connect, TypeOK
  <2> QED
    BY <2>1, <1>14 DEF Connect, TypeOK
<1>15. ASSUME NEW c \in Clients, Send(c)  PROVE TypeOK'
  BY <1>15, PiecesIsPos DEF Send, TypeOK
<1>16. ASSUME NEW c \in Clients, Leave(c)  PROVE TypeOK'
  BY <1>16 DEF Leave, TypeOK
<1>17. CASE StreamSome
  <2>1. left' \in 0..Units
    <3>1. left \in 0..Units /\ left' \in 0..(left - 1) /\ Units \in Nat
      BY <1>17, UnitsIsPos DEF StreamSome, TypeOK
    <3> QED  BY <3>1
  <2> QED  BY <2>1, <1>17 DEF StreamSome, TypeOK
<1>18. CASE StreamBreaks
  <2> DEFINE L == Len(Steps[op])
  <2>1. op \in Operations /\ at \in 1..(L + 1) /\ at <= L /\ L \in Nat /\ at' = at + 1
    BY <1>18, EachGoes DEF StreamBreaks, Streaming, TypeOK, GoesBy
  <2>2. L' = L /\ op' = op
    BY <1>18 DEF StreamBreaks
  <2>3. at' \in Nat /\ at' \in 1..(L + 1)
    <3> HIDE DEF L
    <3> QED  BY <2>1
  <2>4. lost' \in {"no", "send", "source", "gone"}
    BY <1>18 DEF StreamBreaks
  <2> QED
    BY <2>1, <2>2, <2>3, <2>4, <1>18 DEF StreamBreaks, TypeOK
<1> QED
  BY <1>1, <1>2, <1>3, <1>4, <1>5, <1>6, <1>7, <1>8, <1>9, <1>10, <1>11, <1>12, <1>13, <1>14,
     <1>15, <1>16, <1>17, <1>18 DEF Next, Server, Request, Handle

LEMMA NextInTurn ==
  ASSUME TypeOK, TypeOK', InTurn, [Next]_vars
  PROVE  InTurn'
<1> USE DEF clients, buffer, handler, answer
<1> DEFINE Known == \A c \in Clients :
                      (link[c] # "none") = (c = cur \/ \E i \in DOMAIN queue : queue[i] = c)
           Once == \A i, j \in DOMAIN queue : queue[i] = queue[j] => i = j
           Waits == \A i \in DOMAIN queue : queue[i] # cur
<1>0. InTurn => Known /\ Once /\ Waits
  BY DEF InTurn
<1>00. Known' /\ Once' /\ Waits' => InTurn'
  BY DEF InTurn
\* What neither connects nor closes nor accepts.
<1>1. ASSUME UNCHANGED <<queue, cur>>,
             \A c \in Clients : link'[c] = "none" <=> link[c] = "none"
      PROVE  InTurn'
  <2>1. Known'
    BY <1>0, <1>1
  <2>2. Once' /\ Waits'
    BY <1>0, <1>1
  <2> QED  BY <2>1, <2>2, <1>00
<1>2. CASE UNCHANGED <<queue, cur, link>>
  BY <1>1, <1>2
<1>3. CASE Accept
  <2>1. queue \in Seq(Clients) /\ queue # << >> /\ cur' = queue[1] /\ queue' = Tail(queue)
    BY <1>3, TailOf DEF Accept, TypeOK
  <2>2. /\ 1 \in DOMAIN queue /\ DOMAIN queue = 1..Len(queue)
        /\ DOMAIN queue' = 1..(Len(queue) - 1) /\ Len(queue) \in Nat
        /\ \A i \in DOMAIN queue' : i + 1 \in DOMAIN queue /\ queue'[i] = queue[i + 1]
    BY <2>1, TailOf
  <2>3. cur = NULL /\ cur' \in Clients /\ link' = link
    BY <1>3, <2>1, <2>2 DEF Accept, TypeOK
  <2>4. Known'
    <3> SUFFICES ASSUME NEW c \in Clients
                 PROVE  (\E i \in DOMAIN queue : queue[i] = c)
                           <=> (c = cur' \/ \E i \in DOMAIN queue' : queue'[i] = c)
      BY <1>0, <2>3, NullIsNothing
    <3>1. ASSUME NEW i \in DOMAIN queue, queue[i] = c
          PROVE  c = cur' \/ \E k \in DOMAIN queue' : queue'[k] = c
      <4>1. CASE i = 1
        BY <4>1, <3>1, <2>1
      <4>2. CASE i # 1
        <5>1. i - 1 \in DOMAIN queue' /\ (i - 1) + 1 = i
          BY <2>2, <4>2
        <5> QED  BY <5>1, <2>2, <3>1
      <4> QED  BY <4>1, <4>2
    <3>2. ASSUME NEW k \in DOMAIN queue', queue'[k] = c
          PROVE  \E i \in DOMAIN queue : queue[i] = c
      BY <3>2, <2>2
    <3> QED  BY <3>1, <3>2, <2>1, <2>2
  <2>5. Once'
    <3> SUFFICES ASSUME NEW i \in DOMAIN queue', NEW j \in DOMAIN queue',
                        queue'[i] = queue'[j]
                 PROVE  i = j
      OBVIOUS
    <3>1. i + 1 = j + 1
      BY <1>0, <2>2
    <3> QED  BY <3>1, <2>2
  <2>6. Waits'
    <3> SUFFICES ASSUME NEW i \in DOMAIN queue', queue'[i] = cur'  PROVE FALSE
      OBVIOUS
    <3>1. i + 1 = 1
      BY <1>0, <2>1, <2>2
    <3> QED  BY <3>1, <2>2
  <2> QED  BY <2>4, <2>5, <2>6, <1>00
<1>4. CASE RecvError
  <2>1. cur \in Clients /\ link[cur] = "reset" /\ DOMAIN link = Clients
    BY <1>4 DEF RecvError, TypeOK
  <2>2. link' = [link EXCEPT ![cur] = "broken"] /\ UNCHANGED <<queue, cur>>
    BY <1>4 DEF RecvError
  <2> QED  BY <2>1, <2>2, <1>1
<1>5. CASE Finish
  <2>1. /\ cur \in Clients /\ cur' = NULL /\ queue' = queue
        /\ link' = [link EXCEPT ![cur] = "none"]
    BY <1>5 DEF Finish, TypeOK
  <2>2. Known'
    <3> SUFFICES ASSUME NEW c \in Clients
                 PROVE  link'[c] # "none" <=> \E i \in DOMAIN queue : queue[i] = c
      BY <2>1, NullIsNothing
    <3>1. CASE c = cur
      BY <3>1, <2>1, <1>0 DEF TypeOK
    <3>2. CASE c # cur
      BY <3>2, <2>1, <1>0 DEF TypeOK
    <3> QED  BY <3>1, <3>2
  <2>3. Once'
    BY <2>1, <1>0
  <2>4. Waits'
    <3>1. \A i \in DOMAIN queue : queue[i] \in Clients
      BY DEF TypeOK
    <3> QED  BY <2>1, <3>1, NullIsNothing
  <2> QED  BY <2>2, <2>3, <2>4, <1>00
<1>6. ASSUME NEW c \in Clients, Connect(c)  PROVE InTurn'
  <2>1. /\ link[c] = "none" /\ link' = [link EXCEPT ![c] = "open"]
        /\ queue' = Append(queue, c) /\ cur' = cur /\ queue \in Seq(Clients)
    BY <1>6 DEF Connect, TypeOK
  <2>2. /\ Len(queue) \in Nat /\ DOMAIN queue = 1..Len(queue)
        /\ DOMAIN queue' = 1..(Len(queue) + 1)
        /\ \A i \in DOMAIN queue : queue'[i] = queue[i]
        /\ queue'[Len(queue) + 1] = c
    BY <2>1, AppendOf
  <2>3. c # cur /\ \A i \in DOMAIN queue : queue[i] # c
    BY <2>1, <1>0
  <2>4. Known'
    <3> SUFFICES ASSUME NEW d \in Clients
                 PROVE  link'[d] # "none" <=> (d = cur \/ \E i \in DOMAIN queue' : queue'[i] = d)
      BY <2>1
    <3>1. CASE d = c
      <4>1. link'[d] = "open"
        BY <3>1, <2>1 DEF TypeOK
      <4>2. Len(queue) + 1 \in DOMAIN queue'
        BY <2>2
      <4> QED  BY <4>1, <4>2, <3>1, <2>2
    <3>2. CASE d # c
      <4>1. link'[d] = link[d]
        BY <3>2, <2>1 DEF TypeOK
      <4>2. \A i \in DOMAIN queue' : i \in DOMAIN queue \/ i = Len(queue) + 1
        BY <2>2
      <4>3. \A i \in DOMAIN queue : i \in DOMAIN queue'
        BY <2>2
      <4>4. (\E i \in DOMAIN queue' : queue'[i] = d) <=> \E i \in DOMAIN queue : queue[i] = d
        BY <4>2, <4>3, <2>2, <3>2
      <4> QED  BY <4>1, <4>4, <1>0
    <3> QED  BY <3>1, <3>2
  <2>5. \A i \in DOMAIN queue' : i \in DOMAIN queue \/ i = Len(queue) + 1
    BY <2>2
  <2>6. Once'
    BY <2>2, <2>3, <2>5, <1>0
  <2>7. Waits'
    BY <2>1, <2>2, <2>3, <2>5, <1>0
  <2> QED  BY <2>4, <2>6, <2>7, <1>00
<1>7. ASSUME NEW c \in Clients, Leave(c)  PROVE InTurn'
  <2>1. link[c] = "open" /\ DOMAIN link = Clients /\ UNCHANGED <<queue, cur>>
    BY <1>7 DEF Leave, TypeOK
  <2>2. \E l \in {"closed", "reset"} : link' = [link EXCEPT ![c] = l]
    BY <1>7 DEF Leave
  <2> QED  BY <2>1, <2>2, <1>1
<1> HIDE DEF Known, Once, Waits
<1> QED
  BY <1>2, <1>3, <1>4, <1>5, <1>6, <1>7
  DEF Next, Server, Request, Handle, Listen, RecvPiece, RecvEnd, NotGet, UnknownOperation,
      Dispatch, StepDone, StreamSome, StreamBreaks, StepFails, HandlerReturns, Send, vars

-----------------------------------------------------------------------------
\* Where a request is in its handler's book.

LEMMA NextBefore ==
  ASSUME TypeOK, BeforeInv, [Next]_vars
  PROVE  BeforeInv'
<1> USE DEF clients, buffer, handler, answer
<1>1. CASE UNCHANGED vars
  BY <1>1 DEF vars, BeforeInv, NothingYet
<1>2. CASE Listen
  BY <1>2 DEF Listen, BeforeInv, NothingYet
<1>3. CASE Accept
  BY <1>3 DEF Accept, BeforeInv, NothingYet
<1>4. CASE RecvPiece
  BY <1>4 DEF RecvPiece, Search, BeforeInv, NothingYet, Common
<1>5. CASE RecvError
  BY <1>5 DEF RecvError, Search, BeforeInv, NothingYet, Common
<1>6. CASE RecvEnd \/ NotGet \/ UnknownOperation \/ StepFails \/ HandlerReturns
  <2>1. pc' = "finish"
    BY <1>6 DEF RecvEnd, NotGet, UnknownOperation, StepFails, HandlerReturns
  <2> QED  BY <2>1 DEF BeforeInv
<1>7. CASE Dispatch \/ StepDone \/ StreamSome \/ StreamBreaks
  <2>1. pc' = "handle"
    BY <1>7 DEF Dispatch, StepDone, StreamSome, StreamBreaks, Streaming
  <2> QED  BY <2>1 DEF BeforeInv
<1>8. CASE Finish
  BY <1>8 DEF Finish, BeforeInv, NothingYet
<1>9. ASSUME NEW c \in Clients, Connect(c) \/ Send(c) \/ Leave(c)  PROVE BeforeInv'
  BY <1>9 DEF Connect, Send, Leave, BeforeInv, NothingYet
<1> QED
  BY <1>1, <1>2, <1>3, <1>4, <1>5, <1>6, <1>7, <1>8, <1>9 DEF Next, Server, Request, Handle

LEMMA NextHandle ==
  ASSUME TypeOK, BeforeInv, HandleInv, [Next]_vars
  PROVE  HandleInv'
<1> USE DEF clients, buffer, handler, answer
<1>1. CASE UNCHANGED <<pc, op, at, held, answers, changed>>
  BY <1>1 DEF HandleInv
<1>2. CASE pc' # "handle"
  BY <1>2 DEF HandleInv
<1>3. CASE Dispatch
  <2>1. /\ op' \in Operations /\ at' = 1 /\ held' = Common /\ answers' = << >>
        /\ changed' = FALSE
    BY <1>3 DEF Dispatch, BeforeInv, NothingYet
  <2>2. Book[op'].held[1] = {} /\ ~ (1 > Book[op'].answer)
    BY <2>1, EachGoes DEF GoesBy
  <2>3. held' = Common \cup Book[op'].held[at']
    BY <2>1, <2>2
  <2>4. answers' = IF at' > Book[op'].answer THEN <<"200">> ELSE << >>
    BY <2>1, <2>2
  <2> QED  BY <2>1, <2>3, <2>4 DEF HandleInv
<1>4. CASE StepDone
  <2> DEFINE b == Book[op]
  <2>1. op \in Operations /\ at \in 1..Len(Steps[op]) /\ at' = at + 1 /\ op' = op
    BY <1>4, EachGoes DEF StepDone, TypeOK, GoesBy
  <2>2. /\ b.answer \in Nat /\ b.change \in Nat
        /\ b.held[at + 1] = (b.held[at] \cup Now.keeps) \ Now.frees
        /\ Now.frees \cap Common = {}
        /\ Now.does \in {"answer", "header"} <=> at = b.answer
        /\ Now.does = "change" => b.change <= at
    BY <2>1, EachGoes DEF GoesBy, GoesAt, Now, Common
  <2>3. /\ held = Common \cup b.held[at]
        /\ answers = IF at > b.answer THEN <<"200">> ELSE << >>
        /\ changed => at > b.change
    BY <1>4 DEF StepDone, HandleInv
  <2>4. held' = Common \cup b.held[at + 1]
    BY <1>4, <2>2, <2>3 DEF StepDone
  <2>5. answers' = IF at + 1 > b.answer THEN <<"200">> ELSE << >>
    <3>1. CASE at = b.answer
      <4>1. answers = << >> /\ at + 1 > b.answer
        BY <3>1, <2>1, <2>2, <2>3
      <4>2. answers' = Append(answers, "200")
        BY <3>1, <1>4, <2>2, AnswersIs DEF StepDone
      <4>3. answers' = <<"200">>
        BY <4>1, <4>2
      <4> QED  BY <4>1, <4>3
    <3>2. CASE at # b.answer
      <4>1. answers' = answers
        BY <3>2, <1>4, <2>2, AnswersIs DEF StepDone
      <4> QED  BY <3>2, <4>1, <2>1, <2>2, <2>3
    <3> QED  BY <3>1, <3>2
  <2>6. changed' => at + 1 > b.change
    <3>1. changed' => changed \/ Now.does = "change"
      BY <1>4, Zenon DEF StepDone
    <3>2. changed \/ Now.does = "change" => at + 1 > b.change
      BY <2>1, <2>2, <2>3
    <3> QED  BY <3>1, <3>2
  <2> QED  BY <2>1, <2>4, <2>5, <2>6 DEF HandleInv
<1>5. CASE StreamBreaks
  <2> DEFINE b == Book[op]
  <2>1. /\ op \in Operations /\ at \in 1..Len(Steps[op]) /\ at' = at + 1 /\ Now.does = "stream"
        /\ UNCHANGED <<op, held, answers, changed>> /\ pc = "handle"
    BY <1>5, EachGoes DEF StreamBreaks, Streaming, TypeOK, GoesBy
  <2>2. /\ b.answer \in Nat /\ b.change \in Nat /\ b.held[at + 1] = b.held[at]
        /\ at # b.answer
    BY <2>1, EachGoes DEF GoesBy, GoesAt, Now
  <2>3. /\ held = Common \cup b.held[at]
        /\ answers = IF at > b.answer THEN <<"200">> ELSE << >>
        /\ changed => at > b.change
    BY <2>1 DEF HandleInv
  <2>4. held' = Common \cup b.held[at + 1]
    BY <2>1, <2>2, <2>3
  <2>5. answers' = IF at + 1 > b.answer THEN <<"200">> ELSE << >>
    BY <2>1, <2>2, <2>3
  <2>6. changed' => at + 1 > b.change
    BY <2>1, <2>2, <2>3
  <2> QED  BY <2>1, <2>4, <2>5, <2>6 DEF HandleInv
<1> QED
  BY <1>1, <1>2, <1>3, <1>4, <1>5
  DEF Next, Server, Request, Handle, Listen, Accept, RecvPiece, RecvError, Search, RecvEnd, NotGet,
      UnknownOperation, StreamSome, StepFails, HandlerReturns, Finish, Connect, Send, Leave, vars

\* A step that fails has given no answer before; one that says 404 has changed nothing.
LEMMA FailsEarly ==
  ASSUME TypeOK, HandleInv, StepFails
  PROVE  /\ answers = << >> /\ Now.fails \in {"404", "200", "cut"}
         /\ Now.fails = "404" => changed = FALSE
         /\ \/ held \ Now.drops \subseteq Common
            \/ op = "list" /\ Now.fails = "404" /\ (held \ Now.drops) \ Common = {"plist"}
<1> DEFINE b == Book[op]
<1>1. op \in Operations /\ at \in 1..Len(Steps[op]) /\ Now.fails # "never"
  BY EachGoes DEF StepFails, TypeOK, GoesBy
<1>2. /\ b.answer \in Nat /\ b.change \in Nat /\ GoesAt(Steps[op], b, at)
      /\ b.leaves = IF op = "list" THEN {"plist"} ELSE {}
  BY <1>1, EachGoes DEF GoesBy
<1>3. /\ Now.fails \in {"404", "200", "cut"} /\ at <= b.answer
      /\ Now.fails = "404" => at <= b.change
      /\ \/ b.held[at] \subseteq Now.drops
         \/ Now.fails = "404" /\ b.held[at] \ Now.drops = b.leaves
  BY <1>1, <1>2 DEF GoesAt, Now
<1>4. /\ held = Common \cup b.held[at]
      /\ answers = IF at > b.answer THEN <<"200">> ELSE << >>
      /\ changed => at > b.change
  BY DEF StepFails, HandleInv
<1>5. answers = << >>
  BY <1>1, <1>2, <1>3, <1>4
<1>6. Now.fails = "404" => changed = FALSE
  <2>1. Now.fails = "404" => ~ changed
    BY <1>1, <1>2, <1>3, <1>4
  <2> QED  BY <2>1 DEF TypeOK
<1>7. \/ held \ Now.drops \subseteq Common
      \/ op = "list" /\ Now.fails = "404" /\ (held \ Now.drops) \ Common = {"plist"}
  <2>1. CASE b.held[at] \subseteq Now.drops
    BY <2>1, <1>4
  <2>2. CASE Now.fails = "404" /\ b.held[at] \ Now.drops = b.leaves
    <3>1. CASE op = "list"
      BY <3>1, <2>2, <1>2, <1>4 DEF Common
    <3>2. CASE op # "list"
      BY <3>2, <2>2, <1>2, <1>4
    <3> QED  BY <3>1, <3>2
  <2> QED  BY <2>1, <2>2, <1>3
<1> QED  BY <1>3, <1>5, <1>6, <1>7

\* A handler that returns has answered once and holds nothing.
LEMMA ReturnsClean ==
  ASSUME TypeOK, HandleInv, HandlerReturns
  PROVE  answers = <<"200">> /\ held = Common
<1> DEFINE b == Book[op]
           L == Len(Steps[op])
<1>1. op \in Operations /\ at \in 1..(L + 1) /\ L \in Nat
  BY EachGoes DEF HandlerReturns, TypeOK, GoesBy
<1>2. at > L
  BY DEF HandlerReturns
<1>3. b.answer \in 1..L /\ b.held[L + 1] = {}
  BY <1>1, EachGoes DEF GoesBy
<1>4. held = Common \cup b.held[at] /\ answers = IF at > b.answer THEN <<"200">> ELSE << >>
  BY DEF HandlerReturns, HandleInv
<1> HIDE DEF b, L
<1>5. at = L + 1 /\ at > b.answer
  BY <1>1, <1>2, <1>3
<1> QED  BY <1>3, <1>4, <1>5

LEMMA NextFinish ==
  ASSUME TypeOK, BeforeInv, HandleInv, FinishInv, [Next]_vars
  PROVE  FinishInv'
<1> USE DEF clients, buffer, handler, answer
<1>1. CASE UNCHANGED <<pc, op, held, answers>>
  BY <1>1 DEF FinishInv
<1>2. CASE pc' # "finish"
  BY <1>2 DEF FinishInv
<1>3. CASE RecvEnd \/ NotGet \/ UnknownOperation
  BY <1>3 DEF RecvEnd, NotGet, UnknownOperation, BeforeInv, FinishInv, Common
<1>4. CASE StepFails
  <2>1. /\ held' = held \ Now.drops /\ op' = op /\ answers' = answers \o Replies(Now.fails)
    BY <1>4 DEF StepFails
  <2>2. Now.fails = "404" => answers' = <<"404">>
    <3>1. Now.fails = "404" => Replies(Now.fails) = <<"404">>
      BY DEF Replies
    <3>2. answers = << >>
      BY <1>4, FailsEarly
    <3>3. << >> \o <<"404">> = <<"404">>
      OBVIOUS
    <3> QED  BY <2>1, <3>1, <3>2, <3>3
  <2> QED  BY <1>4, <2>1, <2>2, FailsEarly DEF FinishInv
<1>5. CASE HandlerReturns
  BY <1>5, ReturnsClean DEF HandlerReturns, FinishInv
<1> QED
  BY <1>1, <1>2, <1>3, <1>4, <1>5
  DEF Next, Server, Request, Handle, Listen, Accept, RecvPiece, RecvError, Search, Dispatch,
      StepDone, StreamSome, StreamBreaks, Streaming, Finish, Connect, Send, Leave, vars

\* What is left of an answer.
LEMMA NextSent ==
  ASSUME TypeOK, InTurn, BeforeInv, HandleInv, SentInv, [Next]_vars
  PROVE  SentInv'
<1> USE DEF clients, buffer, handler, answer
<1> DEFINE Nothing == left' = 0 /\ lost' = "no"
           Sent == answers' # << >> /\ (lost' = "no" => left' = 0) /\ lost' # "gone"
<1>1. ASSUME UNCHANGED <<pc, op, at, link, cur, answer>>  PROVE SentInv'
  BY <1>1 DEF SentInv
<1>2. ASSUME Nothing  PROVE SentInv'
  <2>1. ~ (left' > 0)
    BY <1>2
  <2> QED  BY <1>2, <2>1 DEF SentInv
<1>3. ASSUME Sent  PROVE SentInv'
  <2>1. lost' = "no" => ~ (left' > 0)
    BY <1>3
  <2> QED  BY <1>3, <2>1 DEF SentInv
<1>4. \A x \in {"200", "404", "405"} : Append(answers, x) # << >>
  <2> DEFINE A == {"200", "404", "405"}
  <2> SUFFICES ASSUME NEW x \in A  PROVE Append(answers, x) # << >>
    OBVIOUS
  <2>1. answers \in Seq(A)
    BY DEF TypeOK
  <2> HIDE DEF A
  <2>2. DOMAIN Append(answers, x) = 1..(Len(answers) + 1) /\ Len(answers) \in Nat
    BY <2>1, AppendOf
  <2>3. 1 \in DOMAIN Append(answers, x)
    BY <2>2
  <2>4. 1 \notin DOMAIN << >>
    OBVIOUS
  <2> QED  BY <2>3, <2>4
<1>5. CASE Listen \/ Accept \/ RecvPiece \/ RecvError \/ RecvEnd \/ Dispatch
  BY <1>5, <1>2 DEF Listen, Accept, RecvPiece, RecvError, RecvEnd, Dispatch, BeforeInv, NothingYet
<1>6. CASE NotGet \/ UnknownOperation
  BY <1>6, <1>3, <1>4, SentOnce DEF NotGet, UnknownOperation
<1>7. CASE StepDone
  <2> DEFINE b == Book[op]
  <2>1. op \in Operations /\ at \in 1..Len(Steps[op]) /\ at' = at + 1
        /\ UNCHANGED <<pc, op, link, cur>> /\ pc = "handle"
    BY <1>7, EachGoes DEF StepDone, TypeOK, GoesBy
  <2>2. /\ b.stream \in Nat /\ (Now.does = "header" => at < b.stream)
        /\ Now.does = "stream" <=> at = b.stream
    BY <2>1, EachGoes DEF GoesBy, GoesAt, Now
  <2>3. CASE Now.does = "answer" /\ answers' = Append(answers, "200") /\ SendOnce
    BY <2>3, <1>3, <1>4, SentOnce
  <2>4. CASE /\ Now.does = "header" /\ answers' = Append(answers, "200")
             /\ left' \in 0..Units /\ UNCHANGED lost
    <3>1. at' <= b.stream
      BY <2>1, <2>2, <2>4
    <3>2. answers' # << >>
      BY <2>4, <1>4
    <3> QED  BY <3>1, <3>2, <2>1, <2>4 DEF SentInv
  <2>5. CASE Now.does \notin {"answer", "header"} /\ UNCHANGED answer
    <3>1. left > 0 /\ lost = "no" => at' <= b.stream
      <4> SUFFICES ASSUME left > 0, lost = "no"  PROVE at' <= b.stream
        OBVIOUS
      <4>1. at <= b.stream
        BY DEF SentInv
      <4>2. Now.does # "stream"
        BY <1>7 DEF StepDone, TypeOK
      <4> QED  BY <4>1, <4>2, <2>1, <2>2
    <3> QED  BY <3>1, <2>1, <2>5 DEF SentInv
  <2> QED  BY <1>7, <2>3, <2>4, <2>5 DEF StepDone, Answers
<1>8. CASE StreamSome
  <2>1. /\ UNCHANGED <<pc, op, at, link, cur, answers, lost>> /\ left > 0
        /\ left' \in 0..(left - 1)
    BY <1>8 DEF StreamSome, Streaming
  <2> QED  BY <2>1 DEF SentInv
<1>9. CASE StreamBreaks
  <2>1. /\ UNCHANGED <<op, link, cur, answers, left>> /\ left > 0 /\ pc = "handle"
        /\ lost' = "source" \/ (link[cur] # "open" /\ lost' = "gone")
    BY <1>9 DEF StreamBreaks, Streaming
  <2>2. cur \in Clients /\ link[cur] # "none"
    BY <2>1 DEF TypeOK, InTurn
  <2>3. answers # << >>
    BY <2>1 DEF SentInv, TypeOK
  <2> QED  BY <2>1, <2>2, <2>3 DEF SentInv
<1>10. CASE StepFails
  <2>1. answers = << >> /\ Now.fails \in {"404", "200", "cut"}
    BY <1>10, FailsEarly
  <2>2. CASE Now.fails = "cut"
    BY <2>1, <2>2, <1>10, <1>2 DEF StepFails, SentInv
  <2>3. CASE Now.fails # "cut"
    <3>1. answers' = << >> \o <<Now.fails>>
      BY <2>1, <2>3, <1>10 DEF StepFails, Replies
    <3>2. << >> \o <<Now.fails>> # << >>
      BY <2>1
    <3> QED  BY <3>1, <3>2, <2>3, <1>3, <1>10, SentOnce DEF StepFails
  <2> QED  BY <2>2, <2>3
<1>11. CASE HandlerReturns
  <2>1. /\ op \in Operations /\ at \in Nat /\ at > Len(Steps[op]) /\ Len(Steps[op]) \in Nat
        /\ Book[op].stream \in 0..Len(Steps[op])
    BY <1>11, EachGoes DEF HandlerReturns, TypeOK, GoesBy
  <2>2. ~ (at <= Book[op].stream)
    BY <2>1
  <2>3. ~ (left > 0 /\ lost = "no")
    BY <2>2 DEF SentInv
  <2>4. UNCHANGED <<answers, left, lost, link, cur>>
    BY <1>11 DEF HandlerReturns
  <2> QED  BY <2>3, <2>4 DEF SentInv
<1>12. CASE Finish
  BY <1>12, <1>2 DEF Finish
\* Only the client that is served could change its own link, and it only leaves.
<1>13. ASSUME NEW c \in Clients, Connect(c) \/ Send(c) \/ Leave(c)  PROVE SentInv'
  <2>1. UNCHANGED <<pc, op, at, cur, answers, left, lost>>
    BY <1>13 DEF Connect, Send, Leave
  <2>2. ASSUME cur \in Clients, link[cur] \notin {"none", "open"}
        PROVE  link'[cur] \notin {"none", "open"}
    <3>1. CASE Connect(c)
      BY <2>2, <3>1 DEF Connect, TypeOK
    <3>2. CASE Send(c)
      BY <2>2, <3>2 DEF Send
    <3>3. CASE Leave(c)
      BY <2>2, <3>3 DEF Leave, TypeOK
    <3> QED  BY <1>13, <3>1, <3>2, <3>3
  <2> QED  BY <2>1, <2>2 DEF SentInv
<1> QED
  BY <1>1, <1>5, <1>6, <1>7, <1>8, <1>9, <1>10, <1>11, <1>12, <1>13
  DEF Next, Server, Request, Handle, vars

LEMMA NextLost ==
  ASSUME TypeOK, BeforeInv, LostInv, [Next]_vars
  PROVE  LostInv'
<1> USE DEF clients, buffer, handler, answer
<1>1. ASSUME UNCHANGED <<pc, op, at, lost>>  PROVE LostInv'
  BY <1>1 DEF LostInv, AtItsEnd
<1>2. ASSUME lost' # "send"  PROVE LostInv'
  BY <1>2 DEF LostInv
<1>3. CASE Listen \/ Accept \/ RecvPiece \/ RecvError \/ RecvEnd \/ Dispatch
  BY <1>3, <1>2 DEF Listen, Accept, RecvPiece, RecvError, RecvEnd, Dispatch, BeforeInv, NothingYet
<1>4. CASE NotGet \/ UnknownOperation
  <2>1. op' = NULL /\ pc' = "finish"
    BY <1>4 DEF NotGet, UnknownOperation, BeforeInv, NothingYet
  <2> QED  BY <2>1 DEF LostInv, AtItsEnd
<1>5. CASE StepDone
  <2>1. op \in Operations /\ at \in 1..Len(Steps[op]) /\ op' = op /\ pc' = "handle" /\ pc = "handle"
    BY <1>5, EachGoes DEF StepDone, TypeOK, GoesBy
  <2>2. Now.does = "answer" => Book[op].stream = 0
    BY <2>1, EachGoes DEF GoesBy, GoesAt, Now
  <2>3. Now.does # "answer" => lost' = lost
    BY <1>5 DEF StepDone, Answers
  <2> QED  BY <2>1, <2>2, <2>3 DEF LostInv
<1>6. CASE StreamSome
  BY <1>6, <1>1 DEF StreamSome
<1>7. CASE StreamBreaks
  BY <1>7, <1>2 DEF StreamBreaks
<1>8. CASE StepFails
  <2>1. op \in Operations /\ at \in 1..Len(Steps[op]) /\ pc' = "finish" /\ UNCHANGED <<op, at>>
    BY <1>8, EachGoes DEF StepFails, TypeOK, GoesBy
  <2>2. Len(Steps[op]) \in Nat
    BY <2>1, EachGoes DEF GoesBy
  <2>3. ~ (at > Len(Steps[op]))
    BY <2>1, <2>2
  <2> QED  BY <2>1, <2>3 DEF LostInv, AtItsEnd
<1>9. CASE HandlerReturns
  <2>1. UNCHANGED <<op, at, lost>> /\ pc = "handle" /\ pc' = "finish"
    BY <1>9 DEF HandlerReturns
  <2>2. Book["dl"].stream = 7 /\ Book["kdump_range"].stream = 7
    BY DEF Book, DlBook, KDumpBook, Streams, BookOf
  <2>3. op \in Transfers => Book[op].stream # 0
    BY <2>2 DEF Transfers
  <2> QED  BY <2>1, <2>3 DEF LostInv
<1>10. CASE Finish
  BY <1>10, <1>2 DEF Finish
<1>11. ASSUME NEW c \in Clients, Connect(c) \/ Send(c) \/ Leave(c)  PROVE LostInv'
  BY <1>11, <1>1 DEF Connect, Send, Leave
<1> QED
  BY <1>1, <1>3, <1>4, <1>5, <1>6, <1>7, <1>8, <1>9, <1>10, <1>11
  DEF Next, Server, Request, Handle, vars

LEMMA NextTrue ==
  ASSUME TypeOK, InTurn, BeforeInv, HandleInv, SentInv, SentInv', LostInv', AnswerIsTrue,
         [Next]_vars
  PROVE  AnswerIsTrue'
<1> USE DEF clients, buffer, handler, answer
<1>0. pc' = "finish" /\ link'[cur'] = "open" =>
        (left' > 0 => lost' = "source" \/ (lost' = "send" /\ ~ (op \in Transfers /\ AtItsEnd)'))
  <2> SUFFICES ASSUME pc' = "finish", link'[cur'] = "open", left' > 0
               PROVE  lost' = "source" \/ (lost' = "send" /\ ~ (op \in Transfers /\ AtItsEnd)')
    OBVIOUS
  <2>1. lost' # "no" /\ lost' # "gone"
    BY DEF SentInv
  <2>2. lost' \in {"no", "send", "source", "gone"}
    BY NextTyped DEF TypeOK
  <2>3. lost' = "send" => ~ (op \in Transfers /\ AtItsEnd)'
    BY DEF LostInv
  <2> QED  BY <2>1, <2>2, <2>3
<1>1. CASE UNCHANGED <<link, pc, cur, op, at, answer, changed>>
  BY <1>1 DEF AnswerIsTrue, AtItsEnd
<1>2. ASSUME Len(answers') <= 1, pc' # "finish"  PROVE AnswerIsTrue'
  BY <1>2 DEF AnswerIsTrue
<1>3. Len(<< >>) = 0 /\ Len(<<"200">>) = 1 /\ Len(<<"404">>) = 1 /\ Len(<<"405">>) = 1
  OBVIOUS
<1>4. CASE Listen \/ Dispatch
  BY <1>4, <1>2 DEF Listen, Dispatch, AnswerIsTrue, BeforeInv
<1>5. CASE Accept \/ RecvPiece \/ RecvError
  BY <1>5, <1>2 DEF Accept, RecvPiece, RecvError, Search, AnswerIsTrue
<1>6. CASE RecvEnd
  <2>1. answers' = << >> /\ link'[cur'] # "open"
    BY <1>6 DEF RecvEnd, AtEnd, BeforeInv, NothingYet
  <2> QED  BY <2>1, <1>3, <1>0 DEF AnswerIsTrue
<1>7. CASE NotGet \/ UnknownOperation
  <2>1. answers = << >> /\ changed' = FALSE
    BY <1>7 DEF NotGet, UnknownOperation, BeforeInv, NothingYet
  <2>2. answers' = <<"405">> \/ answers' = <<"404">>
    <3>1. Append(<< >>, "405") = <<"405">> /\ Append(<< >>, "404") = <<"404">>
      OBVIOUS
    <3> QED  BY <2>1, <3>1, <1>7 DEF NotGet, UnknownOperation
  <2>3. Len(answers') = 1
    BY <2>2, <1>3
  <2> QED  BY <2>1, <2>3, <1>0 DEF AnswerIsTrue
<1>8. CASE StepDone
  <2>1. pc' = "handle" /\ HandleInv'
    BY <1>8, NextHandle DEF StepDone
  <2>2. answers' = << >> \/ answers' = <<"200">>
    BY <2>1 DEF HandleInv
  <2>3. Len(<< >>) <= 1 /\ Len(<<"200">>) <= 1
    OBVIOUS
  <2>4. Len(answers') <= 1
    BY <2>2, <2>3, Zenon
  <2> QED  BY <2>1, <2>4, <1>2
<1>9. CASE StepFails
  <2>1. /\ answers = << >> /\ Now.fails \in {"404", "200", "cut"}
        /\ Now.fails = "404" => changed = FALSE
    BY <1>9, FailsEarly
  <2>2. Now.fails = "cut" => link'[cur'] # "open"
    BY <1>9 DEF StepFails
  <2>3. answers' = IF Now.fails = "cut" THEN << >> ELSE <<Now.fails>>
    <3>1. << >> \o << >> = << >> /\ << >> \o <<Now.fails>> = <<Now.fails>>
      OBVIOUS
    <3> QED  BY <3>1, <2>1, <1>9 DEF StepFails, Replies
  <2>4. changed' # changed => op' = "write"
    BY <1>9 DEF StepFails
  <2>5. Len(answers') <= 1 /\ (link'[cur'] = "open" => Len(answers') = 1)
    BY <2>1, <2>2, <2>3
  <2>6. answers' = <<"404">> /\ changed' => op' = "write"
    <3>1. <<"200">> # <<"404">> /\ << >> # <<"404">>
      OBVIOUS
    <3>2. answers' = <<"404">> => Now.fails = "404"
      BY <2>1, <2>3, <3>1
    <3> QED  BY <2>1, <2>4, <3>2
  <2> QED  BY <2>5, <2>6, <1>0 DEF AnswerIsTrue
<1>10. CASE HandlerReturns
  <2>1. answers' = <<"200">>
    BY <1>10, ReturnsClean DEF HandlerReturns
  <2>2. <<"200">> # <<"404">>
    OBVIOUS
  <2> QED  BY <2>1, <2>2, <1>3, <1>0 DEF AnswerIsTrue
<1>11. CASE Finish
  BY <1>11, <1>2, <1>3 DEF Finish
\* Only the client that is served could change its own link, and it only leaves.
<1>12. ASSUME NEW c \in Clients, Connect(c) \/ Send(c) \/ Leave(c)  PROVE AnswerIsTrue'
  <2>1. UNCHANGED <<pc, cur, op, at, answer, changed>>
    BY <1>12 DEF Connect, Send, Leave
  <2>2. pc = "finish" => (link'[cur] = "open" => link[cur] = "open")
    <3> SUFFICES ASSUME pc = "finish", link'[cur] = "open"  PROVE link[cur] = "open"
      OBVIOUS
    <3>1. cur \in Clients /\ link[cur] # "none"
      BY DEF TypeOK, InTurn
    <3>2. CASE Connect(c)
      BY <3>1, <3>2 DEF Connect, TypeOK
    <3>3. CASE Send(c)
      BY <3>3 DEF Send
    <3>4. CASE Leave(c)
      BY <3>1, <3>4 DEF Leave, TypeOK
    <3> QED  BY <1>12, <3>2, <3>3, <3>4
  <2> QED  BY <2>1, <2>2 DEF AnswerIsTrue, AtItsEnd
<1>13. CASE StreamSome \/ StreamBreaks
  <2>1. pc' = "handle" /\ answers' = answers
    BY <1>13 DEF StreamSome, StreamBreaks, Streaming
  <2> QED  BY <2>1, <1>2 DEF AnswerIsTrue
<1> QED
  BY <1>1, <1>4, <1>5, <1>6, <1>7, <1>8, <1>9, <1>10, <1>11, <1>12, <1>13
  DEF Next, Server, Request, Handle, vars

-----------------------------------------------------------------------------
\* The theorems.

LEMMA InitInv == Init => Inv
<1> SUFFICES ASSUME Init PROVE Inv
  OBVIOUS
<1>1. TypeOK /\ InTurn
  BY InitTyped
<1>2. BeforeInv /\ HandleInv /\ FinishInv /\ SentInv /\ LostInv
  BY DEF Init, BeforeInv, NothingYet, HandleInv, FinishInv, SentInv, LostInv
<1>3. AnswerIsTrue
  <2>1. Len(<< >>) = 0
    OBVIOUS
  <2> QED  BY <2>1 DEF Init, AnswerIsTrue
<1> QED  BY <1>1, <1>2, <1>3 DEF Inv

LEMMA NextInv ==
  ASSUME Inv, [Next]_vars
  PROVE  Inv'
<1> USE DEF Inv
<1>1. TypeOK'
  BY NextTyped
<1>2. InTurn'
  BY <1>1, NextInTurn
<1>3. BeforeInv' /\ HandleInv' /\ FinishInv'
  BY NextBefore, NextHandle, NextFinish
<1>4. SentInv' /\ LostInv'
  BY NextSent, NextLost
<1>5. AnswerIsTrue'
  BY <1>4, NextTrue
<1> QED  BY <1>1, <1>2, <1>3, <1>4, <1>5

\* The inductive invariant: where the server is, what is held, what was answered and
\* who waits, for any handler and any step of it that fails.
THEOREM InvCorrect == Spec => []Inv
<1>1. Inv /\ [Next]_vars => Inv'
  BY NextInv
<1> QED  BY InitInv, <1>1, PTL DEF Spec

\* The variables of server.c keep their types, and a handler never runs past its end.
THEOREM TypeCorrect == Spec => []TypeOK
<1>1. Inv => TypeOK
  BY DEF Inv
<1> QED  BY InvCorrect, <1>1, PTL

\* Every connection waits once or is the one that is served: accept gives each of them
\* once, and the one that is served is closed before the next.
THEOREM InTurnCorrect == Spec => []InTurn
<1>1. Inv => InTurn
  BY DEF Inv
<1> QED  BY InvCorrect, <1>1, PTL

\* handle_request and the handlers answer nobody twice and everybody who waits for it,
\* and say 404 only when nothing was done.  Of an answer nothing is missing but what the
\* one send of send_response did not take or the source of a transfer did not have:
\* send_all gets the rest through whatever its sends take.
THEOREM AnswerIsTrueCorrect == Spec => []AnswerIsTrue
<1>1. Inv => AnswerIsTrue
  BY DEF Inv
<1> QED  BY InvCorrect, <1>1, PTL

\* What handle_request and the handlers allocate or open is freed or closed however the
\* request ends, but for the list of processes when handle_list fails.
THEOREM NothingKeptCorrect == Spec => NothingKept
<1>1. ASSUME Inv, [Next]_vars, kept' # kept
      PROVE  op = "list" /\ answers = <<"404">> /\ kept' = kept \cup {"plist"}
  <2>1. Finish
    BY <1>1 DEF Next, Server, Request, Handle, Listen, Accept, RecvPiece, RecvError, RecvEnd,
       NotGet, UnknownOperation, Dispatch, StepDone, StreamSome, StreamBreaks, StepFails,
       HandlerReturns, Connect, Send, Leave, vars
  <2>2. kept' = kept \cup (held \ Common) /\ pc = "finish"
    BY <2>1 DEF Finish, Common
  <2>3. ~ (held \subseteq Common)
    BY <1>1, <2>2
  <2>4. op = "list" /\ answers = <<"404">> /\ held \ Common = {"plist"}
    BY <1>1, <2>2, <2>3 DEF Inv, FinishInv
  <2> QED  BY <2>2, <2>4
<1>2. Inv /\ [Next]_vars
        => [kept' # kept =>
              op = "list" /\ answers = <<"404">> /\ kept' = kept \cup {"plist"}]_vars
  BY <1>1
<1> QED  BY InvCorrect, <1>2, PTL DEF Spec, NothingKept

=============================================================================
