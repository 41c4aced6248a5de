------------------------------ MODULE RunLedger ------------------------------
(***************************************************************************)
(* What the agent-run commands promise their user, with no processes, no   *)
(* locks and no files: a run comes into being once, its audit log only     *)
(* grows, by the record of the one command under way, and a run is only    *)
(* retired while no command is under way in it.  AgentRuns implements it.  *)
(***************************************************************************)
EXTENDS Naturals, Sequences

CONSTANTS Run, Cmd, Record

VARIABLES
    status,   \* [Run -> Status]
    log,      \* [Run -> Seq(Record)], the audit log of a kept run
    active    \* [Run -> Cmd \cup {0}], the command under way, 0 for none

ledgerVars == <<status, log, active>>

Status == {"unborn", "kept", "gone"}

\* The log of a run that is not kept is of no interest to anybody.
LedgerInit ==
    /\ status \in [Run -> {"unborn", "kept"}]
    /\ log = [r \in Run |-> <<>>]
    /\ active = [r \in Run |-> 0]

Open(r) ==
    /\ status[r] = "unborn"
    /\ status' = [status EXCEPT ![r] = "kept"]
    /\ log' = [log EXCEPT ![r] = <<>>]
    /\ UNCHANGED active

\* A preparation that did not succeed uses up its id.
Discard(r) ==
    /\ status[r] = "unborn"
    /\ status' = [status EXCEPT ![r] = "gone"]
    /\ UNCHANGED <<log, active>>

Begin(r, c) ==
    /\ status[r] = "kept"
    /\ active[r] = 0
    /\ \A s \in Run : active[s] # c
    /\ active' = [active EXCEPT ![r] = c]
    /\ UNCHANGED <<status, log>>

Finish(r, rec) ==
    /\ status[r] = "kept"
    /\ active[r] = rec.cmd
    /\ log' = [log EXCEPT ![r] = Append(@, rec)]
    /\ active' = [active EXCEPT ![r] = 0]
    /\ UNCHANGED status

\* Nobody waits for the command any more, and nothing is logged.
Abandon(r) ==
    /\ active[r] # 0
    /\ active' = [active EXCEPT ![r] = 0]
    /\ UNCHANGED <<status, log>>

Retire(gone) ==
    /\ \A r \in gone : active[r] = 0
    /\ status' = [r \in Run |-> IF r \in gone THEN "gone" ELSE status[r]]
    /\ UNCHANGED <<log, active>>

LedgerNext ==
    \/ \E r \in Run : Open(r) \/ Discard(r) \/ Abandon(r)
    \/ \E r \in Run, c \in Cmd : Begin(r, c)
    \/ \E r \in Run, rec \in Record : Finish(r, rec)
    \/ \E gone \in SUBSET Run : Retire(gone)

LedgerSpec == LedgerInit /\ [][LedgerNext]_ledgerVars
=============================================================================
