-------------------------------- MODULE Page --------------------------------
(***************************************************************************)
(* The dashboard page: its klog tab, with an incident of the recorder      *)
(* (KlogIncident), and its thermal drawer (FanPanel).  They share no       *)
(* state, so each is taken with the other at rest.                         *)
(***************************************************************************)
EXTENDS KlogIncident, FanPanel

VARIABLE panel

PageInit ==
    /\ panel \in {"klog", "therm"} /\ IncInit /\ FanInit
    /\ panel = "klog" => own = FanFactory /\ dev = FanFactory   \* at rest

PageNext ==
    \/ panel = "klog" /\ IncNext /\ UNCHANGED fanVars
    \/ panel = "therm" /\ FanNext /\ UNCHANGED incidentVars

PageSpec == PageInit /\ [][UNCHANGED panel /\ PageNext]_<<panel, incidentVars, fanVars>>

\* dashboard.html, of the baseline: taken from "whatever the panel happens to see
\* first", Stock "would then restore the lowered value and leave the fan loud for
\* good".  Whatever had been written when the page was opened and however its jobs
\* interleave, when a restore ends each zone that had a baseline is as the console
\* was shipped, unless its request failed or was refused or somebody else has
\* written it -- or the console was not shipped with the tables the page knows.
StockRestored == [][EndsRestored]_fanVars
=============================================================================
