--------------------------- MODULE RecorderProofs ---------------------------
(***************************************************************************)
(* Recorder, for any bounds, any DEEP_EVERY and any POST_TRIGGER.          *)
(***************************************************************************)
EXTENDS Recorder, TLAPS

-----------------------------------------------------------------------------
\* The inductive invariant.

\* The bound on the samples leaves room for the one being taken.
RoomInv == pc \notin {"dead", "loop"} => seq < MaxSeq

\* An armed incident and the samples it still waits for make up its full length.
ArmedInv ==
    armed # NULL => /\ armed.seq <= seq
                    /\ pending > 0
                    /\ pending + seq = armed.seq + PostTrigger - 1

\* The window is empty only when it was emptied after the newest sample.  While an
\* incident is filled, the window begins before its trigger or where it was dropped.
WindowInv ==
    /\ first <= seq \/ dropped = seq
    /\ armed # NULL => first < armed.seq \/ first <= dropped + 1

IncidentInv == ArmedInv /\ WindowInv /\ IncidentComplete

\* No trigger is ahead of the samples, and each has its incident.
ChangesInv == (\A c \in changes : c.seq <= seq) /\ TriggersCovered

\* An uptime that was read in boot b: if the console still runs in it, it has been
\* up for at least as long.
ReadIn(b, u) == u # NULL => b # NULL /\ b <= boot /\ (b = boot => u <= uptime)

\* A second reading, of boot c, is not behind a first one of the same boot.
InOrder(b, u, c, v) == u # NULL => (c = b => u <= v)

\* The readings come one after the other: the sample before this one carries the
\* last deep one, until this one has brought the next.
ReadingsInv ==
    /\ ReadIn(lastBoot, lastDeep)
    /\ pc = "cp" =>
          /\ cur.uptime # NULL
          /\ ReadIn(cur.from, cur.uptime)
          /\ InOrder(lastBoot, lastDeep, cur.from, cur.uptime)
    /\ pc = "record" /\ cur.ok => cur.uptime = lastDeep /\ cur.from = lastBoot
    /\ prev # NULL /\ prev.ok =>
          IF pc = "record"
          THEN InOrder(prev.from, prev.uptime, lastBoot, lastDeep)
          ELSE prev.uptime = lastDeep /\ prev.from = lastBoot

ReadingInv ==
    ~ stale /\ ~ torn => ReadingsInv /\ (\A c \in Reboots : c.of # c.since)

IInv == TypeOK /\ RoomInv /\ IncidentInv /\ ChangesInv /\ ReadingInv
-----------------------------------------------------------------------------
LEMMA InitInv == Init => IInv
<1> SUFFICES ASSUME Init PROVE IInv
  OBVIOUS
<1>1. TypeOK
  <2>1. 0 \in 0..(DeepEvery - 1) /\ 0 \in 0..PostTrigger
    BY DeepEveryIsPos, PostTriggerIsPos
  <2>2. 0 \in 0..MaxUp /\ 0 \in 0..MaxBoot /\ 0 \in 0..MaxSeq /\ 0 \in 0..0
         /\ 1 \in 1..(0 + 1)
    BY BoundsAreNat
  <2>3. cur \in Samples
    BY DEF Init, Samples, NoSample
  <2> QED  BY <2>1, <2>2, <2>3 DEF Init, TypeOK
<1>2. RoomInv /\ IncidentInv /\ ChangesInv
  BY <1>1 DEF Init, TypeOK, RoomInv, IncidentInv, ArmedInv, WindowInv, IncidentComplete,
         ChangesInv, TriggersCovered
<1>3. ReadingInv
  BY DEF Init, ReadingInv, ReadingsInv, Reboots, ReadIn, InOrder, NoSample
<1> QED  BY <1>1, <1>2, <1>3 DEF IInv

\* What this sample arms, or leaves armed.
LEMMA ArmingType ==
    ASSUME TypeOK, seq < MaxSeq
    PROVE  /\ Found \subseteq Kinds
           /\ Arms => Arming \in [kind : Kinds, seq : 1..MaxSeq] /\ Arming.seq = seq + 1
           /\ ~ Arms => Arming = armed
           /\ Arming # NULL <=> armed # NULL \/ Found # {}
<1>1. Found \subseteq Kinds
  BY DEF Found, Diff
<1>2. ASSUME Arms
      PROVE  /\ Arming \in [kind : Kinds, seq : 1..MaxSeq] /\ Arming.seq = seq + 1
             /\ Arming # NULL
  <2>1. PICK k \in Found : k = CHOOSE x \in Found : TRUE
    BY <1>2 DEF Arms
  <2>2. Arming = [kind |-> k, seq |-> seq + 1]
    BY <1>2, <2>1 DEF Arming
  <2>3. k \in {"gone", "reboot"} /\ seq + 1 \in 1..MaxSeq /\ seq + 1 \in Int
    BY <1>1, BoundsAreNat DEF TypeOK, Kinds
  <2> QED  BY <2>2, <2>3, NullIsNoValue DEF Kinds
<1> QED  BY <1>1, <1>2 DEF Arms, Arming

\* Trimming leaves at least the newest sample; while an incident is filled, it leaves
\* that of its trigger and the one before, or what there is since it was dropped.
LEMMA TrimmedKeeps ==
    ASSUME TypeOK, RoomInv, IncidentInv, pc = "record", NEW f \in Trimmed
    PROVE  /\ f \in 1..(seq + 1)
           /\ Arming # NULL => f < Arming.seq \/ f <= dropped + 1
<1>1. seq < MaxSeq /\ seq \in Int /\ dropped \in Int /\ first \in Int /\ first >= 1
  BY DEF RoomInv, TypeOK
<1>2. f \in first..(seq + 1) /\ (f = first \/ f <= Since)
  BY DEF Trimmed
<1>3. ASSUME Arming # NULL  PROVE f < Arming.seq \/ f <= dropped + 1
  <2>1. Arming.seq \in Int
    BY <1>1, <1>3, ArmingType DEF TypeOK
  <2>2. CASE f <= Since
    BY <1>1, <1>2, <1>3, <2>1, <2>2 DEF Since
  <2>3. CASE f = first /\ Arms
    BY <1>1, <1>2, <2>3, ArmingType DEF IncidentInv, WindowInv
  <2>4. CASE f = first /\ ~ Arms
    BY <1>1, <1>3, <2>4, ArmingType DEF IncidentInv, WindowInv
  <2> QED  BY <1>2, <2>2, <2>3, <2>4
<1> QED  BY <1>1, <1>2, <1>3

\* What follows needs of most actions only that they leave the records alone.
LEMMA NextType ==
    ASSUME TypeOK, RoomInv, IncidentInv, [Next]_vars
    PROVE  TypeOK' /\ RoomInv'
<1> USE DEF console, control, last, reading, window, record, vars, Goto, RoomInv
<1>1. CASE Second
  BY <1>1, BoundsAreNat DEF Second, TypeOK
<1>2. CASE Crash
  BY <1>2 DEF Crash, TypeOK
<1>3. CASE Boot
  BY <1>3, BoundsAreNat DEF Boot, TypeOK
<1>4. ASSUME NEW d \in BOOLEAN, Start(d) PROVE TypeOK' /\ RoomInv'
  BY <1>4 DEF Start, TypeOK
<1>5. CASE Stop
  BY <1>5 DEF Stop, TypeOK
<1>6. CASE Clear
  BY <1>6 DEF Clear, TypeOK
<1>7. CASE SampleFails
  BY <1>7 DEF SampleFails, TypeOK, Samples, NoSample
<1>8. CASE LoopDies
  BY <1>8 DEF LoopDies, TypeOK
<1>9. CASE LoopEnds
  BY <1>9 DEF LoopEnds, TypeOK
<1>10. CASE Tick
  BY <1>10, DeepEveryIsPos DEF Tick, TypeOK, Samples, NoSample
<1>11. CASE AskList
  BY <1>11 DEF AskList, TypeOK
<1>12. CASE Prime
  BY <1>12 DEF Prime, TypeOK
<1>13. CASE ReadUptime
  BY <1>13 DEF ReadUptime, TypeOK, Samples
<1>14. CASE ReadCp
  BY <1>14 DEF ReadCp, TypeOK, Samples
<1>15. CASE CopyLast
  BY <1>15 DEF CopyLast, TypeOK, Samples
<1>16. CASE Record
  <2>1. seq < MaxSeq /\ seq + 1 \in 1..MaxSeq
    BY <1>16, BoundsAreNat DEF Record, TypeOK
  <2>2. \A c \in changes' : c.kind \in Kinds /\ c.seq \in 1..MaxSeq
    BY <1>16, <2>1, ArmingType DEF Record, TypeOK
  <2>3. /\ armed' \in [kind : Kinds, seq : 1..MaxSeq] \cup {NULL}
        /\ pending' \in 0..PostTrigger
        /\ \A i \in incidents' :
              /\ i.kind \in Kinds /\ {i.seq, i.last, i.first} \subseteq 1..MaxSeq
              /\ i.dropped \in 0..MaxSeq
    <3>1. Arming \in [kind : Kinds, seq : 1..MaxSeq] \cup {NULL}
      BY <2>1, ArmingType DEF TypeOK
    <3>2. Arming # NULL => Remaining \in 0..PostTrigger
      BY <2>1, ArmingType, PostTriggerIsPos DEF Remaining, TypeOK, IncidentInv, ArmedInv, Arms
    <3>3. first' \in 1..MaxSeq /\ dropped \in 0..MaxSeq
      BY <1>16, <2>1, TrimmedKeeps, BoundsAreNat DEF Record, TypeOK
    <3>4. ASSUME Arming # NULL
          PROVE  LET i == Finished(first')
                 IN /\ i.kind \in Kinds /\ {i.seq, i.last, i.first} \subseteq 1..MaxSeq
                    /\ i.dropped \in 0..MaxSeq
      BY <2>1, <3>1, <3>3, <3>4, NullIsNoValue DEF Finished
    <3>5. armed' \in {armed, Arming, NULL} /\ (armed' = armed \/ Arming # NULL \/ armed' = NULL)
      BY <1>16 DEF Record
    <3>6. pending' = pending \/ (pending' = Remaining /\ Arming # NULL)
      BY <1>16 DEF Record
    <3>7. \/ incidents' = incidents
          \/ incidents' = incidents \cup {Finished(first')} /\ Arming # NULL
      BY <1>16 DEF Record
    <3> QED  BY <3>1, <3>2, <3>4, <3>5, <3>6, <3>7 DEF TypeOK
  <2>4. /\ first' \in 1..(seq' + 1) /\ dropped' \in 0..seq'
        /\ seq' \in 0..MaxSeq /\ prev' \in Samples
    BY <1>16, <2>1, TrimmedKeeps DEF Record, TypeOK
  <2> QED  BY <1>16, <2>2, <2>3, <2>4 DEF Record, TypeOK
<1>17. CASE UNCHANGED vars
  BY <1>17 DEF TypeOK
<1> QED  BY <1>1, <1>2, <1>3, <1>4, <1>5, <1>6, <1>7, <1>8, <1>9,
                 <1>10, <1>11, <1>12, <1>13, <1>14, <1>15, <1>16, <1>17 DEF Next, Loop

\* Only a recorded sample touches the incidents; only clear() forgets changes.
LEMMA OthersKeep ==
    [Next]_vars => \/ Record
                   \/ /\ UNCHANGED <<seq, armed, pending, incidents>>
                      /\ changes' \in {changes, {}}
                      /\ UNCHANGED window \/ (dropped' = seq /\ first' \in {first, seq + 1})
BY DEF Next, Loop, Second, Crash, Boot, Start, Stop, Clear, SampleFails, LoopDies, LoopEnds,
       Tick, AskList, Prime, ReadUptime, ReadCp, CopyLast, record, window, vars

\* An incident that ends has waited for all its samples, and its window has them.
LEMMA NextIncident ==
    ASSUME TypeOK, RoomInv, IncidentInv, [Next]_vars
    PROVE  IncidentInv'
<1>1. CASE Record
  <2>1. seq < MaxSeq /\ seq' = seq + 1 /\ seq \in Int /\ pending \in Int
    BY <1>1 DEF Record, RoomInv, TypeOK
  <2>2. Arming # NULL => /\ Remaining \in Int
                         /\ Remaining + seq' = Arming.seq + PostTrigger - 1
    BY <2>1, ArmingType, PostTriggerIsPos
       DEF Remaining, IncidentInv, ArmedInv, TypeOK, Arms
  <2>3. Arming # NULL => Arming.seq \in Int /\ Arming.seq <= seq'
    BY <2>1, ArmingType DEF IncidentInv, ArmedInv, TypeOK
  <2>7. /\ first' \in 1..seq' /\ dropped' = dropped /\ dropped \in Int
        /\ Arming # NULL => first' < Arming.seq \/ first' <= dropped + 1
    BY <1>1, <2>1, TrimmedKeeps DEF Record, TypeOK
  <2>8. first' <= seq'
    BY <2>7
  <2>4. CASE Arming = NULL
    <3>1. UNCHANGED <<armed, pending, incidents>> /\ armed = NULL
      BY <1>1, <2>1, <2>4, ArmingType DEF Record
    <3> QED  BY <3>1, <2>8 DEF IncidentInv, ArmedInv, WindowInv, IncidentComplete
  <2>5. CASE Arming # NULL /\ Remaining > 0
    <3>1. armed' = Arming /\ pending' = Remaining /\ UNCHANGED incidents
      BY <1>1, <2>2, <2>5 DEF Record
    <3>2. ArmedInv'
      BY <2>2, <2>3, <2>5, <3>1 DEF ArmedInv
    <3>3. WindowInv'
      BY <2>7, <2>8, <3>1 DEF WindowInv
    <3> QED  BY <3>1, <3>2, <3>3 DEF IncidentInv, IncidentComplete
  <2>6. CASE Arming # NULL /\ ~ (Remaining > 0)
    <3>1. armed' = NULL /\ incidents' = incidents \cup {Finished(first')}
      BY <1>1, <2>1, <2>6, PostTriggerIsPos DEF Record, Remaining
    <3>2. Remaining >= 0
      BY <2>1, <2>6, PostTriggerIsPos, ArmingType DEF Remaining, IncidentInv, ArmedInv
    <3>3. Remaining = 0
      BY <2>1, <2>6, <3>2, PostTriggerIsPos DEF Remaining
    <3>4. seq + 1 = Arming.seq + PostTrigger - 1
      BY <2>1, <2>2, <2>3, <2>6, <3>3, PostTriggerIsPos
    <3>5. \A k \in (Arming.seq - 1)..(seq + 1) : k >= first' \/ k <= dropped
      BY <2>1, <2>3, <2>6, <2>7
    <3>6. LET i == Finished(first')
          IN /\ i.last = i.seq + PostTrigger - 1
             /\ \A k \in (i.seq - 1)..i.last : k >= i.first \/ k <= i.dropped
      BY <3>4, <3>5 DEF Finished
    <3> QED  BY <3>1, <3>6, <2>8 DEF IncidentInv, ArmedInv, WindowInv, IncidentComplete
  <2> QED  BY <2>4, <2>5, <2>6
<1>2. CASE /\ UNCHANGED <<seq, armed, pending, incidents>>
           /\ UNCHANGED window \/ (dropped' = seq /\ first' \in {first, seq + 1})
  <2>1. ArmedInv' /\ IncidentComplete'
    BY <1>2 DEF IncidentInv, ArmedInv, IncidentComplete
  <2>0. seq' = seq /\ armed' = armed
    BY <1>2
  <2>2. CASE UNCHANGED window
    <3>1. first' = first /\ dropped' = dropped
      BY <2>2 DEF window
    <3>2. WindowInv'
      BY <2>0, <3>1 DEF IncidentInv, WindowInv
    <3> QED  BY <2>1, <3>2 DEF IncidentInv
  <2>3. CASE dropped' = seq /\ first' \in {first, seq + 1}
    <3>1. first' <= dropped' + 1
      BY <2>3 DEF TypeOK
    <3>2. WindowInv'
      BY <3>1, <2>3, <2>0 DEF WindowInv
    <3> QED  BY <2>1, <3>2 DEF IncidentInv
  <2> QED  BY <1>2, <2>2, <2>3
<1> QED  BY <1>1, <1>2, OthersKeep

\* A trigger that arms is the first of its incident; one that does not finds an
\* incident armed, which reaches at least as far as the sample that brought it.
LEMMA NextChanges ==
    ASSUME TypeOK, RoomInv, IncidentInv, ChangesInv, [Next]_vars
    PROVE  ChangesInv'
<1>1. CASE Record
  <2>1. seq < MaxSeq /\ seq' = seq + 1 /\ seq \in Int
    BY <1>1 DEF Record, RoomInv, TypeOK
  <2>2. \A c \in changes' : c \in changes \/ (c.seq = seq + 1 /\ Found # {})
    BY <1>1 DEF Record
  <2>3. \A c \in changes' : c.seq \in Int /\ c.seq <= seq'
    BY <2>1, <2>2 DEF ChangesInv, TypeOK
  <2>4. Arming # NULL => Arming.seq \in Int /\ Arming.seq <= seq'
    BY <2>1, ArmingType DEF IncidentInv, ArmedInv, TypeOK
  <2>5. ASSUME NEW c \in changes', ~ \E i \in incidents : c.seq \in i.seq .. i.last
        PROVE  Arming # NULL /\ c.seq >= Arming.seq
    <3>1. CASE c \in changes
      <4>1. armed # NULL /\ c.seq >= armed.seq
        BY <2>5, <3>1 DEF ChangesInv, TriggersCovered
      <4> QED  BY <2>1, <4>1, ArmingType DEF Arms
    <3>2. CASE c.seq = seq + 1 /\ Found # {}
      BY <2>1, <2>4, <3>2, ArmingType
    <3> QED  BY <2>2, <2>5, <3>1, <3>2
  <2>6. incidents \subseteq incidents'
    BY <1>1 DEF Record
  <2>7. ASSUME Arming # NULL PROVE armed' = Arming \/ Finished(first') \in incidents'
    BY <1>1, <2>7 DEF Record
  <2>8. Finished(first').seq = Arming.seq /\ Finished(first').last = seq'
    BY <2>1 DEF Finished
  <2>9. TriggersCovered'
    <3> SUFFICES ASSUME NEW c \in changes', ~ \E i \in incidents' : c.seq \in i.seq .. i.last
                 PROVE  armed' # NULL /\ c.seq >= armed'.seq
      BY DEF TriggersCovered
    <3>1. Arming # NULL /\ c.seq >= Arming.seq
      BY <2>5, <2>6
    <3>2. c.seq \in Finished(first').seq .. Finished(first').last
      BY <2>1, <2>3, <2>4, <2>8, <3>1
    <3> QED  BY <2>7, <3>1, <3>2
  <2> QED  BY <2>3, <2>9 DEF ChangesInv
<1>2. CASE UNCHANGED <<seq, armed, pending, incidents>> /\ changes' \in {changes, {}}
  BY <1>2 DEF ChangesInv, TriggersCovered
<1> QED  BY <1>1, <1>2, OthersKeep

-----------------------------------------------------------------------------
\* The readings.

\* The console's time only goes on, and its boots only count up.
LEMMA ReadInStays ==
    ASSUME TypeOK, NEW b \in (0..MaxBoot) \cup {NULL}, NEW u \in (0..MaxUp) \cup {NULL},
           ReadIn(b, u), boot' \in Int, uptime' \in Int,
           boot' > boot \/ (boot' = boot /\ uptime' >= uptime)
    PROVE  ReadIn(b, u)'
BY BoundsAreNat DEF ReadIn, TypeOK

\* The console's own steps leave the readings behind it.
LEMMA ConsoleReadings ==
    ASSUME TypeOK, ReadingsInv, Second \/ Crash \/ Boot
    PROVE  ReadingsInv'
<1>1. boot' \in Int /\ uptime' \in Int /\ (boot' > boot \/ (boot' = boot /\ uptime' >= uptime))
  <2>1. boot \in Int /\ uptime \in Int
    BY DEF TypeOK
  <2>2. CASE Second
    BY <2>1, <2>2 DEF Second
  <2>3. CASE Crash
    BY <2>1, <2>3 DEF Crash
  <2>4. CASE Boot
    BY <2>1, <2>4, BoundsAreNat DEF Boot
  <2> QED  BY <2>2, <2>3, <2>4
<1>2. UNCHANGED <<pc, reading, record>>
  BY DEF Second, Crash, Boot
<1>3. ReadIn(lastBoot, lastDeep)'
  BY <1>1, <1>2, ReadInStays DEF ReadingsInv, TypeOK, reading, last, ReadIn
<1>4. pc = "cp" => ReadIn(cur.from, cur.uptime)'
  BY <1>1, <1>2, ReadInStays DEF ReadingsInv, TypeOK, Samples, reading, ReadIn
<1> QED  BY <1>2, <1>3, <1>4 DEF ReadingsInv, InOrder, reading, last, record

\* A sample of the loop, step by step.
LEMMA LoopReadings ==
    ASSUME TypeOK, ReadingsInv, ~ stale', ~ torn',
           Tick \/ AskList \/ Prime \/ ReadUptime \/ ReadCp \/ CopyLast \/ Record
    PROVE  ReadingsInv'
<1> USE DEF console, control, last, reading, window, record, Goto
<1>1. CASE Tick
  BY <1>1 DEF Tick, ReadingsInv, ReadIn, InOrder
<1>2. CASE AskList
  BY <1>2 DEF AskList, ReadingsInv, ReadIn, InOrder
<1>3. CASE Prime
  BY <1>3 DEF Prime, ReadingsInv, ReadIn, InOrder
<1>4. CASE ReadUptime
  <2>1. cur'.uptime = uptime /\ cur'.from = boot
    BY <1>4 DEF ReadUptime, TypeOK, Samples
  <2>2. boot \in Int /\ uptime \in Int /\ boot # NULL /\ uptime # NULL
    BY NullIsNoValue DEF TypeOK
  <2>3. /\ UNCHANGED <<boot, uptime, lastBoot, lastDeep, prev>>
        /\ pc = "uptime" /\ pc' = "cp"
    BY <1>4 DEF ReadUptime
  <2>4. InOrder(lastBoot, lastDeep, cur.from, cur.uptime)'
    BY <2>1, <2>2, <2>3 DEF InOrder, ReadingsInv, ReadIn
  <2>5. ReadIn(cur.from, cur.uptime)'
    BY <2>1, <2>2, <2>3 DEF ReadIn
  <2>6. ReadIn(lastBoot, lastDeep)'
    BY <2>3 DEF ReadIn, ReadingsInv
  <2> QED  BY <2>1, <2>2, <2>3, <2>4, <2>5, <2>6 DEF ReadingsInv
<1>5. CASE ReadCp
  <2>1. cur'.uptime = cur.uptime /\ cur'.from = cur.from
    BY <1>5 DEF ReadCp, TypeOK, Samples
  <2>2. lastDeep' = cur.uptime /\ lastBoot' = cur.from
    BY <1>5 DEF ReadCp
  <2>3. UNCHANGED <<boot, uptime, prev>> /\ pc = "cp" /\ pc' = "record"
    BY <1>5 DEF ReadCp
  <2> QED  BY <2>1, <2>2, <2>3 DEF ReadingsInv, ReadIn, InOrder
<1>6. CASE CopyLast
  <2>1. cur'.uptime = lastDeep /\ cur'.from = lastBoot
    BY <1>6 DEF CopyLast
  <2>2. UNCHANGED <<boot, uptime, lastBoot, lastDeep, prev>> /\ pc = "copy" /\ pc' = "record"
    BY <1>6 DEF CopyLast
  <2>3. lastDeep # NULL => lastDeep <= lastDeep
    BY DEF TypeOK
  <2> QED  BY <2>1, <2>2, <2>3 DEF ReadingsInv, ReadIn, InOrder
<1>7. CASE Record
  BY <1>7 DEF Record, ReadingsInv, ReadIn, InOrder
<1> QED  BY <1>1, <1>2, <1>3, <1>4, <1>5, <1>6, <1>7

LEMMA NextReading ==
    ASSUME TypeOK, ReadingInv, [Next]_vars
    PROVE  ReadingInv'
<1> SUFFICES ASSUME ~ stale', ~ torn'
             PROVE  ReadingsInv' /\ (\A c \in Reboots' : c.of # c.since)
  BY DEF ReadingInv
<1>1. ~ stale /\ ~ torn
  <2>1. CASE ReadUptime
    BY <2>1 DEF ReadUptime, last, TypeOK
  <2>2. CASE ReadCp
    BY <2>2 DEF ReadCp, TypeOK
  <2>3. CASE UNCHANGED <<stale, torn>>
    BY <2>3
  <2> QED
    BY <2>1, <2>2, <2>3 DEF Next, Loop, Second, Crash, Boot, Start, Stop, Clear,
       SampleFails, LoopDies, LoopEnds, Tick, AskList, Prime, CopyLast, Record, reading,
       last, vars
<1>2. ReadingsInv /\ (\A c \in Reboots : c.of # c.since)
  BY <1>1 DEF ReadingInv
<1>3. ReadingsInv'
  <2>1. CASE Second \/ Crash \/ Boot
    BY <1>2, <2>1, ConsoleReadings
  <2>2. CASE \E d \in BOOLEAN : Start(d)
    BY <1>2, <2>2 DEF Start, ReadingsInv, ReadIn, InOrder, console, reading, last
  <2>3. CASE Stop \/ Clear \/ LoopDies \/ LoopEnds \/ UNCHANGED vars
    BY <1>2, <2>3 DEF Stop, Clear, LoopDies, LoopEnds, ReadingsInv, ReadIn, InOrder, vars,
              console, reading, last, record, Goto
  <2>4. CASE SampleFails
    <3>1. ~ cur'.ok /\ pc' = "record" /\ pc \notin {"dead", "loop", "record"}
      BY <2>4 DEF SampleFails, NoSample, Goto
    <3>2. UNCHANGED <<boot, uptime, lastBoot, lastDeep, prev>>
      BY <2>4 DEF SampleFails, last, record
    <3>3. lastDeep # NULL => lastDeep <= lastDeep
      BY DEF TypeOK
    <3> QED  BY <1>2, <3>1, <3>2, <3>3 DEF ReadingsInv, ReadIn, InOrder
  <2>5. CASE Tick \/ AskList \/ Prime \/ ReadUptime \/ ReadCp \/ CopyLast \/ Record
    BY <1>2, <2>5, LoopReadings
  <2> QED  BY <2>1, <2>2, <2>3, <2>4, <2>5 DEF Next, Loop
<1>4. \A c \in Reboots' : c.of # c.since
  <2>1. CASE Record
    <3>1. ASSUME "reboot" \in Found PROVE cur.from # prev.from
      <4>1. prev # NULL /\ prev.ok /\ cur.ok /\ pc = "record"
        BY <2>1, <3>1 DEF Found, Diff, Record
      <4>2. prev.uptime # NULL /\ cur.uptime # NULL /\ cur.uptime < prev.uptime
        BY <3>1, <4>1 DEF Found, Diff, WentBackwards
      <4>3. cur.uptime \in Int /\ prev.uptime \in Int
        BY <4>1, <4>2 DEF TypeOK, Samples
      <4>4. cur.from = prev.from => prev.uptime <= cur.uptime
        BY <1>2, <4>1, <4>2 DEF ReadingsInv, InOrder
      <4> QED  BY <4>2, <4>3, <4>4
    <3>2. ASSUME NEW c \in Reboots' PROVE c \in Reboots \/ c.of # c.since
      <4>1. c \in changes' /\ c.kind = "reboot"
        BY <3>2 DEF Reboots
      <4>2. CASE c \in changes
        BY <4>1, <4>2 DEF Reboots
      <4>3. CASE c \notin changes
        <5>1. PICK k \in Found : c = [kind |-> k, seq |-> seq + 1,
                                      of |-> cur.from, since |-> prev.from]
          BY <2>1, <4>1, <4>3 DEF Record
        <5> QED  BY <3>1, <4>1, <5>1
      <4> QED  BY <4>2, <4>3
    <3> QED  BY <1>2, <3>2
  <2>2. CASE changes' \in {changes, {}}
    BY <1>2, <2>2 DEF Reboots
  <2> QED  BY <2>1, <2>2, OthersKeep
<1> QED  BY <1>3, <1>4

-----------------------------------------------------------------------------
THEOREM InvCorrect == Spec => []IInv
<1>1. IInv /\ [Next]_vars => IInv'
  BY NextType, NextIncident, NextChanges, NextReading DEF IInv, IncidentInv
<1> QED  BY InitInv, <1>1, PTL DEF Spec

\* However the console crashes and boots and whoever stops and starts the recorder, a
\* reboot it reports lies between readings of two boots, while no reading was torn or
\* taken at the addresses of an earlier boot.
THEOREM TrueRebootsCorrect == Spec => []TrueReboots
<1>1. IInv => TrueReboots
  BY DEF IInv, ReadingInv, TrueReboots
<1> QED  BY InvCorrect, <1>1, PTL

\* The window an incident is written with reaches POST_TRIGGER samples from its trigger
\* on and misses none of them, nor the one before the trigger, but what clear() dropped
\* or was recorded before the loop was last off.
THEOREM IncidentCompleteCorrect == Spec => []IncidentComplete
<1>1. IInv => IncidentComplete
  BY DEF IInv, IncidentInv
<1> QED  BY InvCorrect, <1>1, PTL

\* No outage or reboot that was reported is left without an incident.
THEOREM TriggersCoveredCorrect == Spec => []TriggersCovered
<1>1. IInv => TriggersCovered
  BY DEF IInv, ChangesInv
<1> QED  BY InvCorrect, <1>1, PTL
=============================================================================
