------------------------------ MODULE Recorder ------------------------------
(***************************************************************************)
(* The flight recorder (dashboard/recorder.py) and the console it samples. *)
(*                                                                         *)
(* One thread samples the console in a loop.  A sample asks for the        *)
(* process list; every DeepEvery-th, a deep one, also reads the console's  *)
(* uptime from kernel memory, at an address that is cached until a sample  *)
(* fails, and the others repeat the last deep reading.  Each sample is     *)
(* compared with the one before it: a console that stopped answering, or   *)
(* an uptime that went backwards, arms an incident, which is written       *)
(* PostTrigger samples later.  start, stop and clear come from the proxy's *)
(* request threads at any moment, a second start with another `deep' too.  *)
(*                                                                         *)
(* start() is one step: what its overlaps can do is in KlogBridge, whose   *)
(* start() it repeats.                                                     *)
(*                                                                         *)
(* The window, self.samples, holds the samples from `first' to the newest. *)
(* clear() empties it; recording a sample trims what is older than 900     *)
(* seconds.  The 20 samples of an incident are taken to need less than     *)
(* that while the loop runs, which is 45 seconds for each; a loop that was *)
(* off may have been off for longer.                                       *)
(*                                                                         *)
(* A console takes longer to boot than a running loop takes to meet its    *)
(* silence (at most 8 + 6 seconds against minutes): an outage that begins  *)
(* while the loop runs does not end before a sample has failed.            *)
(***************************************************************************)
EXTENDS Integers, FiniteSets

CONSTANTS
    DeepEvery,    \* DEEP_EVERY
    PostTrigger,  \* POST_TRIGGER
    MaxUp,        \* bound on the console's uptime
    MaxBoot,      \* bound on the times it boots
    MaxSeq,       \* bound on the samples taken
    NULL

ASSUME DeepEveryIsPos == DeepEvery \in Nat \ {0}
ASSUME PostTriggerIsPos == PostTrigger \in Nat \ {0}
ASSUME BoundsAreNat == MaxUp \in Nat /\ MaxBoot \in Nat /\ MaxSeq \in Nat
ASSUME NullIsNoValue == NULL \notin Int /\ NULL \notin [kind : {"gone", "reboot"}, seq : Int]

VARIABLES
    up, uptime, boot,   \* the console: does it answer, for how long, which boot
    unseen,      \* history: the loop runs and has not met this outage yet
    want,        \* self.want
    pc,          \* where the loop is; "dead" when there is no thread
    tick,        \* self.tick modulo DeepEvery
    deep,        \* self.deep
    deepNow,     \* deep_now, of the sample being taken
    kbase,       \* the boot self._kbase was read in, or NULL
    lastDeep,    \* self._last_deep: an uptime, or NULL before the first
    cur,         \* s, the sample being taken
    prev,        \* prev, the sample before it in this loop, or NULL
    seq,         \* self.seq
    first,       \* the oldest sample of the window; seq + 1 when it is empty
    dropped,     \* history: no sample up to this one need be in the window:
                 \* clear() emptied it, or the loop was off since
    armed,       \* self._armed: its kind and seq, or NULL
    pending,     \* self._pending
    incidents,   \* the incidents finished
    changes,     \* self.changes: the reboots and outages reported since clear()
    lastBoot,    \* history: the boot lastDeep was read in
    stale,       \* history: kernel memory was read at an address of another boot
    torn         \* history: start() changed deep between the two tests of a sample

console == <<up, uptime, boot, unseen>>
control == <<want, tick, deep, deepNow>>
last == <<lastDeep, lastBoot, torn>>
reading == <<kbase, cur, stale, last>>
window == <<first, dropped>>
record == <<prev, seq, window, armed, pending, incidents, changes>>
vars == <<console, control, pc, reading, record>>

NoSample == [ok |-> FALSE, uptime |-> NULL, from |-> NULL]
Samples == [ok : BOOLEAN, uptime : (0..MaxUp) \cup {NULL}, from : (0..MaxBoot) \cup {NULL}]
Kinds == {"gone", "reboot"}

TypeOK ==
    /\ up \in BOOLEAN /\ uptime \in 0..MaxUp /\ boot \in 0..MaxBoot
    /\ {unseen, want, deep, deepNow, stale, torn} \subseteq BOOLEAN
    /\ pc \in {"dead", "loop", "list", "prime", "uptime", "cp", "copy", "record"}
    /\ tick \in 0..(DeepEvery - 1)
    /\ kbase \in (0..MaxBoot) \cup {NULL} /\ lastBoot \in (0..MaxBoot) \cup {NULL}
    /\ lastDeep \in (0..MaxUp) \cup {NULL}
    /\ cur \in Samples /\ prev \in Samples \cup {NULL}
    /\ seq \in 0..MaxSeq /\ first \in 1..(seq + 1) /\ dropped \in 0..seq
    /\ armed \in [kind : Kinds, seq : 1..MaxSeq] \cup {NULL}
    /\ pending \in 0..PostTrigger
    /\ \A i \in incidents :
          /\ i.kind \in Kinds /\ {i.seq, i.last, i.first} \subseteq 1..MaxSeq
          /\ i.dropped \in 0..MaxSeq
    /\ \A c \in changes : c.kind \in Kinds /\ c.seq \in 1..MaxSeq

Init ==
    /\ up = TRUE /\ uptime = 0 /\ boot = 0 /\ unseen = FALSE
    /\ want = FALSE /\ pc = "dead" /\ tick = 0 /\ deep = TRUE /\ deepNow = FALSE
    /\ kbase = NULL /\ lastDeep = NULL /\ cur = NoSample
    /\ prev = NULL /\ seq = 0 /\ first = 1 /\ dropped = 0
    /\ armed = NULL /\ pending = 0 /\ incidents = {} /\ changes = {}
    /\ lastBoot = NULL /\ stale = FALSE /\ torn = FALSE

-----------------------------------------------------------------------------
\* The console.

Second ==
    /\ up /\ uptime < MaxUp
    /\ uptime' = uptime + 1
    /\ UNCHANGED <<up, boot, unseen, pc, control, reading, record>>

Crash ==
    /\ up
    /\ up' = FALSE /\ unseen' = (pc # "dead")
    /\ UNCHANGED <<uptime, boot, pc, control, reading, record>>

\* It has booted, and webrte.bin has been sent to it again.
Boot ==
    /\ ~ up /\ ~ unseen /\ boot < MaxBoot
    /\ up' = TRUE /\ boot' = boot + 1
    /\ uptime' \in 0..MaxUp
    /\ UNCHANGED <<unseen, pc, control, reading, record>>

-----------------------------------------------------------------------------
\* The request threads.

Start(d) ==
    /\ want' = TRUE /\ deep' = d
    /\ IF pc = "dead"
       THEN pc' = "loop" /\ prev' = NULL /\ dropped' = seq
       ELSE UNCHANGED <<pc, prev, dropped>>
    /\ UNCHANGED <<console, tick, deepNow, reading, seq, first,
                   armed, pending, incidents, changes>>

Stop ==
    /\ want
    /\ want' = FALSE
    /\ UNCHANGED <<console, pc, tick, deep, deepNow, reading, record>>

\* clear() empties the window and the changes; an armed incident stays armed.
Clear ==
    /\ first <= seq
    /\ first' = seq + 1 /\ dropped' = seq /\ changes' = {}
    /\ UNCHANGED <<console, pc, control, reading, prev, seq, armed, pending, incidents>>

-----------------------------------------------------------------------------
\* The loop: one sample.

Goto(l) == pc' = l

\* A request that is not answered, or not with JSON, fails the sample, and the
\* cached addresses are dropped.  It may also fail while the console is up.
SampleFails ==
    /\ pc \in {"list", "prime", "uptime", "cp"}
    /\ cur' = NoSample
    /\ kbase' = NULL /\ unseen' = FALSE
    /\ Goto("record")
    /\ UNCHANGED <<up, uptime, boot, control, stale, last, record>>

LoopEnds ==
    /\ pc = "loop" /\ ~ want
    /\ Goto("dead")
    /\ unseen' = FALSE
    /\ UNCHANGED <<up, uptime, boot, control, reading, record>>

\* An exception _sample does not catch, for an answer of another shape.
LoopDies ==
    /\ pc = "list" /\ up
    /\ Goto("dead")
    /\ want' = FALSE
    /\ UNCHANGED <<console, tick, deep, deepNow, reading, record>>

\* With DEEP_EVERY 1 no sample is deep.
Tick ==
    /\ pc = "loop" /\ want /\ seq < MaxSeq
    /\ tick' = (tick + 1) % DeepEvery
    /\ deepNow' = (deep /\ tick' = 1)
    /\ cur' = NoSample
    /\ Goto("list")
    /\ UNCHANGED <<console, want, deep, kbase, stale, last, record>>

\* /list and /sensors, then the first test of self.deep.
AskList ==
    /\ pc = "list" /\ up
    /\ \/ /\ deep /\ deepNow
          /\ Goto(IF kbase = NULL THEN "prime" ELSE "uptime")
       \/ /\ ~ (deep /\ deepNow)
          /\ Goto("copy")
    /\ UNCHANGED <<console, control, reading, record>>

\* _prime: the kernel base and the per-cpu pointers.
Prime ==
    /\ pc = "prime" /\ up
    /\ kbase' = boot
    /\ Goto("uptime")
    /\ UNCHANGED <<console, control, cur, stale, last, record>>

\* A read at an address of another boot brings anything, if it comes back.
ReadUptime ==
    /\ pc = "uptime" /\ up
    /\ stale' = (stale \/ kbase # boot)
    /\ \E u \in IF kbase = boot THEN {uptime} ELSE 0..MaxUp :
          cur' = [cur EXCEPT !.uptime = u, !.from = boot]
    /\ Goto("cp")
    /\ UNCHANGED <<console, control, kbase, last, record>>

\* The per-core times, at addresses primed together with the base, and the
\* second test of self.deep: is the reading kept for the samples to come?
ReadCp ==
    /\ pc = "cp" /\ up
    /\ stale' = (stale \/ kbase # boot)
    /\ cur' = [cur EXCEPT !.ok = TRUE]
    /\ IF deep /\ deepNow
       THEN lastDeep' = cur.uptime /\ lastBoot' = cur.from /\ UNCHANGED torn
       ELSE torn' = TRUE /\ UNCHANGED <<lastDeep, lastBoot>>
    /\ Goto("record")
    /\ UNCHANGED <<console, control, kbase, record>>

\* A sample that is not deep repeats the last deep reading.
CopyLast ==
    /\ pc = "copy"
    /\ cur' = [ok |-> TRUE, uptime |-> lastDeep, from |-> lastBoot]
    /\ Goto("record")
    /\ UNCHANGED <<console, control, kbase, stale, last, record>>

-----------------------------------------------------------------------------
\* The loop: recording the sample, under the lock.

\* Mutant of WentBackwards: an uptime that stood still counts.
StoodStill(a, b) ==
    a.uptime # NULL /\ b.uptime # NULL /\ b.uptime <= a.uptime

\* _diff, for the two kinds that arm an incident.
WentBackwards(a, b) ==
    a.uptime # NULL /\ b.uptime # NULL /\ b.uptime < a.uptime
Diff(a, b) ==
    {k \in Kinds : \/ k = "gone" /\ a.ok /\ ~ b.ok
                   \/ k = "reboot" /\ a.ok /\ b.ok /\ WentBackwards(a, b)}

Found == IF prev = NULL THEN {} ELSE Diff(prev, cur)

\* Mutant of Arms: a trigger replaces the incident that is being filled.
ArmsAgain == Found # {}

\* What is armed while this sample is recorded, and the samples it waits for.
Arms == armed = NULL /\ Found # {}
Arming == IF Arms THEN [kind |-> CHOOSE k \in Found : TRUE, seq |-> seq + 1] ELSE armed

\* Mutant of Remaining: no sample is counted.
RemainingAll == IF Arms THEN PostTrigger ELSE pending

Remaining == (IF Arms THEN PostTrigger ELSE pending) - 1

\* The oldest sample that is not older than 900 seconds for sure: the one before the
\* trigger that is being filled, or the first since the loop was off; else the newest.
Since ==
    IF Arming = NULL THEN seq + 1
    ELSE IF dropped >= Arming.seq - 1 THEN dropped + 1
    ELSE Arming.seq - 1

\* Mutant of Trimmed: by count, and to fewer samples than an incident needs.
TrimmedByCount == {f \in first..(seq + 1) : seq + 1 - f < PostTrigger}

\* Where the window may begin when it has been trimmed by age.
Trimmed == {f \in first..(seq + 1) : f = first \/ f <= Since}

\* _write_incident: the window as it is now, f its oldest sample.  Whether its file
\* could be written or not, the incident is over.
Finished(f) ==
    [kind |-> Arming.kind, seq |-> Arming.seq, last |-> seq + 1,
     first |-> f, dropped |-> dropped]

Record ==
    /\ pc = "record"
    /\ seq' = seq + 1 /\ prev' = cur
    /\ first' \in Trimmed
    /\ changes' = changes \cup {[kind |-> k, seq |-> seq + 1,
                                 of |-> cur.from, since |-> prev.from] : k \in Found}
    /\ \/ /\ Arming = NULL
          /\ UNCHANGED <<armed, pending, incidents>>
       \/ /\ Arming # NULL /\ Remaining > 0
          /\ armed' = Arming /\ pending' = Remaining
          /\ UNCHANGED incidents
       \/ /\ Arming # NULL /\ Remaining <= 0
          /\ armed' = NULL /\ pending' = Remaining
          /\ incidents' = incidents \cup {Finished(first')}
    /\ Goto("loop")
    /\ UNCHANGED <<console, control, reading, dropped>>

-----------------------------------------------------------------------------
Loop ==
    \/ LoopEnds \/ Tick \/ AskList \/ Prime \/ ReadUptime \/ ReadCp \/ CopyLast
    \/ Record

Next ==
    \/ Second \/ Crash \/ Boot
    \/ (\E d \in BOOLEAN : Start(d)) \/ Stop \/ Clear
    \/ SampleFails \/ LoopDies \/ Loop

Spec == Init /\ [][Next]_vars

\* The thread is scheduled and every request has a timeout.
Proceeds == Loop \/ (~ up /\ SampleFails)
FairSpec == Spec /\ WF_vars(Proceeds)

-----------------------------------------------------------------------------
Reboots == {c \in changes : c.kind = "reboot"}

\* While the reading is kept whole, a reboot is only ever reported between
\* readings of two boots, however many light samples repeated the first.
TrueReboots == (~ stale /\ ~ torn) => \A c \in Reboots : c.of # c.since

\* An incident ends with the PostTrigger-th sample from its trigger on, also when the
\* loop was stopped, died or was started again while it was filling, and its window
\* has all of them and the sample before the trigger, which was the last good one;
\* but for those that clear() dropped, or that are from before the loop was last off.
IncidentComplete ==
    \A i \in incidents :
        /\ i.last = i.seq + PostTrigger - 1
        /\ \A k \in (i.seq - 1)..i.last : k >= i.first \/ k <= i.dropped

\* Every outage and every reboot reported is inside an incident that was
\* finished or is being filled: a trigger that comes while another incident
\* is armed is not lost between the two.
TriggersCovered ==
    \A c \in changes :
        \/ \E i \in incidents : c.seq \in i.seq .. i.last
        \/ armed # NULL /\ c.seq >= armed.seq

\* The loop never reads kernel memory at an address of an earlier boot:
\* recorder.py:116, "change every boot, so re-read both".
FreshBase == ~ stale

\* An armed incident is finished while the loop is left running.  (The bound on
\* the samples must leave room for it.)
IncidentWritten ==
    (armed # NULL /\ seq + PostTrigger <= MaxSeq)
        ~> (armed = NULL \/ ~ want \/ pc = "dead")
=============================================================================
