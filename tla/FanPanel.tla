------------------------------ MODULE FanPanel ------------------------------
(***************************************************************************)
(* The thermal drawer of the page (dashboard/dashboard.html readZones,     *)
(* applyZone, belowNow, restoreZone) and the /fan of the payload           *)
(* (debugger/source/server.c handle_fan, with an op).                      *)
(*                                                                         *)
(* Each zone of the fan has a table, which is its setpoint here: the other *)
(* five fields are sent back as they were read.  The page's asynchronous   *)
(* functions are jobs, and the timer that reads the fan every five seconds *)
(* starts one whether or not another is under way.  Every request waits in *)
(* the page's chain, so that one is served at a time; a job computes its   *)
(* next request when it is resumed.  Temperatures only choose a setpoint.  *)
(***************************************************************************)
EXTENDS Naturals, Sequences

CONSTANTS
    LastZone,     \* ZONES is 0..LastZone
    Setpoints,
    FanFactory,   \* FAN_FACTORY
    Shipped,      \* the tables consoles may be shipped with
    Clicks, Reads,   \* jobs that may be under way at once: of clicks, and of the timer
    NONE

VARIABLES
    own,          \* the tables this console was shipped with
    dev,          \* the tables it has now
    fanZones,     \* of each zone the table that the page read last, or NONE
    fanBaseTable, \* what Stock restores each zone to, or NONE
    job,          \* the page's jobs
    chain         \* their requests that have not been served

fanVars == <<own, dev, fanZones, fanBaseTable, job, chain>>

Jobs == Clicks \cup Reads
Zones == 0..LastZone

ASSUME LastZoneIsNat == LastZone \in Nat
ASSUME TablesAreSet ==
    Setpoints \subseteq Nat /\ FanFactory \in [Zones -> Setpoints]
        /\ Shipped \subseteq [Zones -> Setpoints]
ASSUME NoneIsNoTable == NONE \notin Setpoints /\ NONE \notin STRING

Nothing == [z \in Zones |-> NONE]
Known(f) == {z \in Zones : f[z] # NONE}

\* A job: whether it is a restore, what is left of its plan, what its read has so far,
\* the answer to its last request; excused is history: the zones that a restore does
\* not reach, or that somebody else has written since it began.
NoJob == [kind |-> "none", plan |-> << >>, out |-> Nothing, answer |-> NONE, excused |-> {}]

Tables == Setpoints \cup {NONE}
Dos == {"read", "set", "restore", "show"}
Items == [do : Dos, zone : Zones]
JobStates == [kind : {"none", "other", "restore"}, plan : Seq(Items), out : [Zones -> Tables],
              answer : {NONE, "accepted", "refused", "failed"}, excused : SUBSET Zones]
Requests == [job : Jobs, do : Dos, zone : Zones, table : Tables]

FanTypeOK ==
    /\ own \in Shipped /\ dev \in [Zones -> Setpoints]
    /\ fanZones \in [Zones -> Tables] /\ fanBaseTable \in [Zones -> Tables]
    /\ job \in [Jobs -> JobStates] /\ chain \in Seq(Requests)

FanInit ==
    /\ own \in Shipped
    /\ dev \in [Zones -> Setpoints]
    /\ fanZones = Nothing /\ fanBaseTable = Nothing
    /\ job = [j \in Jobs |-> NoJob] /\ chain = << >>

-----------------------------------------------------------------------------
\* Requests: op 7 of a zone, or op 6 with a table.

\* Items of a plan.  A set and a restore are one request each, a read is one for
\* each zone, and then the page shows what it has.
Do(what, z) == [do |-> what, zone |-> z]
Read == [i \in 1..(LastZone + 2) |->
            IF i = LastZone + 2 THEN Do("show", 0) ELSE Do("read", i - 1)]

\* Those of S in order, as items of a plan, each followed by s.
InOrder(what, S, s) ==
    LET f[n \in 0..(LastZone + 1)] ==
            IF n = 0 THEN << >>
            ELSE f[n - 1] \o (IF n - 1 \in S THEN <<Do(what, n - 1)>> \o s ELSE << >>)
    IN f[LastZone + 1]

\* The table a request carries: restoreZone sends the baseline, writeSetpoint what
\* was read last with another setpoint.
Carries(item, deg) ==
    CASE item.do = "restore" -> fanBaseTable[item.zone]
      [] item.do = "set" -> deg
      [] OTHER -> NONE

Request(j, item, deg) ==
    [job |-> j, do |-> item.do, zone |-> item.zone, table |-> Carries(item, deg)]

\* j makes the first request of its plan.
Asks(j, plan, deg) == chain' = Append(chain, Request(j, Head(plan), deg))

\* A click or the timer starts a job.
Begin(j, kind, plan, deg, excused) ==
    /\ job[j].kind = "none"
    /\ job' = [job EXCEPT ![j] = [NoJob EXCEPT !.kind = kind, !.plan = plan, !.excused = excused]]
    /\ Asks(j, plan, deg)
    /\ UNCHANGED <<own, dev, fanZones, fanBaseTable>>

\* openTherm, its timer, or a click on Read.
ReadFan(j) == Begin(j, "other", Read, 0, {})

\* applyZone: from the baseline down.  It throws for a zone that has none.
ApplyZone(j, z, deg) ==
    /\ fanZones[z] # NONE /\ fanBaseTable[z] # NONE
    /\ deg <= fanBaseTable[z]
    /\ Begin(j, "other", <<Do("set", z)>> \o Read, deg, {})

\* belowNow: the zones S that were read and have a sensor, and one read behind them.
BelowNow(j, S, deg) == Begin(j, "other", InOrder("set", S, << >>) \o Read, deg, {})

\* Restore every zone, or Stock of one: a zone without a baseline is passed over.
RestoreZones(j, S) ==
    /\ S \cap Known(fanBaseTable) # {}
    /\ Begin(j, "restore", InOrder("restore", S \cap Known(fanBaseTable), Read), 0,
             Zones \ (S \cap Known(fanBaseTable)))

-----------------------------------------------------------------------------
\* The console answers the request at the head of the chain.

ServeRead ==
    /\ chain # << >> /\ Head(chain).do = "read"
    /\ chain' = Tail(chain)
    /\ LET r == Head(chain) IN
        job' = [job EXCEPT ![r.job].answer = "accepted", ![r.job].out[r.zone] = dev[r.zone]]
    /\ UNCHANGED <<own, dev, fanZones, fanBaseTable>>

Excuse(z, others) ==
    [j \in Jobs |-> IF j \in others /\ job[j].kind = "restore"
                     THEN [job[j] EXCEPT !.excused = @ \cup {z}]
                     ELSE job[j]]

\* The table is written; the answer may be lost on its way.
ServeWrite ==
    /\ chain # << >> /\ Head(chain).do # "read"
    /\ chain' = Tail(chain)
    /\ LET r == Head(chain) IN
        /\ dev' = [dev EXCEPT ![r.zone] = r.table]
        /\ \E a \in {"accepted", "failed"} :
              job' = [Excuse(r.zone, Jobs \ {r.job}) EXCEPT ![r.job].answer = a]
    /\ UNCHANGED <<own, fanZones, fanBaseTable>>

\* The SYSCON refuses, or the request does not get through.
ServeNothing ==
    /\ chain # << >>
    /\ chain' = Tail(chain)
    /\ LET r == Head(chain)
           before == IF r.do = "read" THEN job ELSE Excuse(r.zone, {r.job})
       IN \E a \in {"refused", "failed"} : job' = [before EXCEPT ![r.job].answer = a]
    /\ UNCHANGED <<own, dev, fanZones, fanBaseTable>>

\* Another client, or the raw operation of the drawer, writes any table.
OthersWrite(z, t) ==
    /\ dev' = [dev EXCEPT ![z] = t]
    /\ job' = Excuse(z, Jobs)
    /\ UNCHANGED <<own, fanZones, fanBaseTable, chain>>

-----------------------------------------------------------------------------
\* The page goes on with a job whose request was answered.

\* What is left of the plan s behind its next show.
BehindShow(s) ==
    LET shows == {i \in DOMAIN s : s[i].do = "show"}
    IN SubSeq(s, (CHOOSE i \in shows : \A k \in shows : i <= k) + 1, Len(s))

\* The rest of the plan after the answer a.  A read that fails is over, for guard()
\* takes what it throws; so is a restore that fails, with the read behind it, and
\* what comes next goes on.  A set that fails ends the job.  A refusal is ignored.
Rest(j) ==
    LET done == Head(job[j].plan) IN
    CASE job[j].answer # "failed" -> Tail(job[j].plan)
      [] job[j].answer = "failed" /\ done.do = "set" -> << >>
      [] OTHER -> BehindShow(job[j].plan)

\* Mutant of BaseOf: the baseline is what the panel happens to see first.
BaseOfSeen(out) == out

\* The baseline of a zone: the factory's where it is known, and it is for all of them.
BaseOf(out) == [z \in Zones |-> IF out[z] = NONE THEN NONE ELSE FanFactory[z]]

\* readZones: the zones that answered are the page's; the first that do, at the
\* first time that any does, have a baseline.
Show(out) ==
    /\ fanZones' = out
    /\ fanBaseTable' =
          IF fanBaseTable = Nothing /\ Known(out) # {} THEN BaseOf(out) ELSE fanBaseTable

\* The job makes its next request.  A set takes the table that is read by now, and
\* throws when its zone is not.
GoesOn(j, plan, deg) ==
    IF plan = << >> \/ (Head(plan).do = "set" /\ fanZones[Head(plan).zone] = NONE)
    THEN job' = [job EXCEPT ![j] = NoJob] /\ UNCHANGED chain
    ELSE /\ job' = [job EXCEPT ![j].plan = plan, ![j].answer = NONE,
                               ![j].out = IF Head(plan).do = "read" /\ Head(plan).zone > 0
                                            THEN @ ELSE Nothing]
         /\ Asks(j, plan, deg)

ResumeJob(j, deg) ==
    /\ job[j].answer # NONE
    /\ IF Rest(j) # << >> /\ Head(Rest(j)).do = "show"
       THEN Show(job[j].out) /\ GoesOn(j, Tail(Rest(j)), deg)
       ELSE UNCHANGED <<fanZones, fanBaseTable>> /\ GoesOn(j, Rest(j), deg)
    /\ UNCHANGED <<own, dev>>

\* The page is loaded anew.
FanReload ==
    /\ fanZones' = Nothing /\ fanBaseTable' = Nothing
    /\ job' = [j \in Jobs |-> NoJob] /\ chain' = << >>
    /\ UNCHANGED <<own, dev>>

-----------------------------------------------------------------------------
FanNext ==
    \/ ServeRead \/ ServeWrite \/ ServeNothing
    \/ FanReload
    \/ \E z \in Zones, t \in Setpoints : OthersWrite(z, t)
    \/ \E j \in Jobs : ReadFan(j) \/ \E deg \in Setpoints : ResumeJob(j, deg)
    \/ \E j \in Clicks :
        \/ RestoreZones(j, Zones)
        \/ \E z \in Zones : RestoreZones(j, {z})
        \/ \E deg \in Setpoints :
            \/ \E S \in SUBSET Known(fanZones) : BelowNow(j, S, deg)
            \/ \E z \in Zones : ApplyZone(j, z, deg)

-----------------------------------------------------------------------------
\* When a restore ends, unless by a reload, each zone that it had reached is as the
\* console was shipped -- or that is not with the tables the page knows.
EndsRestored ==
    \A j \in Jobs :
        job[j].kind = "restore" /\ job'[j].kind = "none" /\ fanBaseTable' # Nothing =>
            \A z \in Zones \ job[j].excused : dev[z] = own[z] \/ own # FanFactory
=============================================================================
