---------------------------- MODULE KlogIncident ----------------------------
(***************************************************************************)
(* The klog lines of an incident (dashboard/recorder.py _write_incident,   *)
(* dashboard/serve.py _rec).  The recorder is one more reader of the ring  *)
(* that KlogPage's page polls: it arms at a trigger, and some seconds      *)
(* later it takes lines from the bridge it was handed -- whenever a        *)
(* request for the recorder came after one for the klog, since the bridge  *)
(* is made by the first of those.  When it arms is Recorder.               *)
(***************************************************************************)
EXTENDS KlogPage

CONSTANTS
    IncidentLimit,   \* the 4000 that _write_incident asks since() for
    IncidentKept,    \* the 600 it keeps of them
    NULL

ASSUME IncidentBoundsArePos == IncidentLimit \in Nat \ {0} /\ IncidentKept \in Nat \ {0}
ASSUME RingHoldsKept == IncidentKept <= Ring     \* 600 of 20000
ASSUME NullIsNoLine == NULL \notin Nat

VARIABLES
    handed,      \* rec.klog is the bridge
    armedAt,     \* the ring's seq at the trigger of the armed incident, or NULL
    incident,    \* the klog of the incident written last, until the next one is armed
    cleared      \* history: the ring was cleared since the trigger

incVars == <<handed, armedAt, incident, cleared>>

IncInit == Init /\ handed = FALSE /\ armedAt = NULL /\ incident = << >> /\ cleared = FALSE

\* A request for the recorder's status, or any other, after the bridge was made.
HandBridge ==
    /\ ~ handed /\ seq > 0
    /\ handed' = TRUE
    /\ UNCHANGED <<vars, armedAt, incident, cleared>>

Arm ==
    /\ armedAt = NULL
    /\ armedAt' = seq /\ incident' = << >>
    /\ UNCHANGED <<vars, handed, cleared>>

\* What is first in s, up to k entries: since(0, limit=k).
FirstOf(s, k) == SubSeq(s, 1, IF Len(s) < k THEN Len(s) ELSE k)

\* Mutant of IncidentLines: the lines are cut at the wrong end.
IncidentLinesCut == IF handed THEN FirstOf(lines, IncidentKept) ELSE << >>

IncidentLines ==
    IF handed THEN LastOf(FirstOf(lines, IncidentLimit), IncidentKept) ELSE << >>

WriteIncident ==
    /\ armedAt # NULL
    /\ incident' = IncidentLines /\ armedAt' = NULL /\ cleared' = FALSE
    /\ UNCHANGED <<vars, handed>>

IncNext ==
    \/ /\ Next
       /\ cleared' = (armedAt # NULL /\ (cleared \/ lines' = << >>))
       /\ UNCHANGED <<handed, armedAt, incident>>
    \/ HandBridge \/ Arm \/ WriteIncident

incidentVars == <<vars, incVars>>
IncSpec == IncInit /\ [][IncNext]_incidentVars

\* An incident carries the lines between its trigger and its end, as many as it
\* keeps -- unless the ring was cleared in between or held more lines than since()
\* was asked for: then it may have none of them.
IncidentSurrounded ==
    [][armedAt # NULL /\ armedAt' = NULL /\ handed /\ ~ cleared =>
          \/ \A l \in (armedAt + 1)..seq : l \in ToSet(incident') \/ l <= seq - IncidentKept
          \/ Len(lines) > IncidentLimit]_incidentVars
=============================================================================
