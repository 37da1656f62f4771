-------------------------------- MODULE Pull --------------------------------
(***************************************************************************)
(* pull.py: its main() runs one command, `kernel', which KernelPull models *)
(* with /kdump, or `file', which FilePull models with /dl.                 *)
(***************************************************************************)
EXTENDS KernelPull

CONSTANTS MaxSize, Half, Requests   \* of FilePull

ASSUME SizesAreNat == MaxSize \in Nat /\ Half \in Nat \ {0}
ASSUME RequestsAreRanges == Requests \subseteq [offset : Nat, length : Nat \cup {NULL}]

VARIABLES
    command,
    size, srv, foff, fwant, fdone, req, fwire, fclen, fclosed, fpc, asked, out,
    meant, ended, frefused

fileVars ==
    <<size, srv, foff, fwant, fdone, req, fwire, fclen, fclosed, fpc, asked, out,
      meant, ended, frefused>>

F == INSTANCE FilePull WITH
         off <- foff, want <- fwant, done <- fdone, wire <- fwire, clen <- fclen,
         closed <- fclosed, refused <- frefused, ABSENT <- NULL

PullInit ==
    /\ command \in {"kernel", "file"}
    /\ Init /\ F!DlInit
    /\ command = "kernel" => size = NULL   \* no file matters then

PullNext ==
    \/ command = "kernel" /\ Next /\ UNCHANGED <<command, fileVars>>
    \/ command = "file" /\ F!DlNext /\ UNCHANGED <<command, vars>>

Of(name, A) == command = name /\ A

\* The server's thread and the client are scheduled.  Connections are accepted in the
\* order they came, so others do not keep the client of KernelPull out for ever; every
\* request of a client has a timeout.
PullSpec ==
    /\ PullInit /\ [][PullNext]_<<command, vars, fileVars>>
    /\ WF_vars(Of("kernel", Server)) /\ WF_vars(Of("kernel", Client))
    /\ SF_vars(Of("kernel", ServePull \/ RefusePull))
    /\ WF_vars(Of("kernel", Info \/ (cpc = "info" /\ Fails)))
    /\ WF_fileVars(Of("file", F!Sends)) /\ WF_fileVars(Of("file", F!Open \/ F!Refuse))
    /\ WF_fileVars(Of("file", F!Asks)) /\ WF_fileVars(Of("file", F!Reads))

\* The properties of FilePull.
InPlace == F!InPlace
WroteIsWhole == F!WroteIsWhole

\* Whichever command is given comes to an end.
CommandDone ==
    <>(IF command = "kernel" THEN cpc \in {"done", "failed"} ELSE fpc \in {"wrote", "failed"})
=============================================================================
