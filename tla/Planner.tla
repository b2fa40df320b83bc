------------------------------- MODULE Planner -------------------------------
(***************************************************************************)
(* A planner's store of proposals (Proposals) and the state document of    *)
(* the target it works on (TeamWorkflow, W), and what each promises.  They *)
(* share no state; names that both have are told apart by a prefix.        *)
(***************************************************************************)
EXTENDS Proposals

CONSTANTS
    Request, Loop, Bug, Threshold, Limit, Day, Open, Shut, Keep,     \* TeamWorkflow
    MaxTime, MaxHead, MaxTeamRuns, MaxTeamFaults

ASSUME TeamWorkflowAssumption ==
    /\ Bug \in BOOLEAN /\ Request \cap Loop = {}
    /\ Threshold \in Nat /\ Limit \in Nat /\ Keep \in Nat
    /\ MaxTime \in Nat \ {0} /\ MaxHead \in Nat /\ MaxTeamRuns \in Nat /\ MaxTeamFaults \in Nat

VARIABLES doc, now, scan, reports, wpc, wcall, stale, quiet, crossed, wruns, wfaults

wvars == <<doc, now, scan, reports, wpc, wcall, stale, quiet, crossed, wruns, wfaults>>

W == INSTANCE TeamWorkflow WITH
       MaxRuns <- MaxTeamRuns, MaxFaults <- MaxTeamFaults,
       pc <- wpc, call <- wcall, runs <- wruns, faults <- wfaults

\* The bug lane sleeps only after quiet scans in a row, and an update of the
\* state document drops nothing it has seen (TeamWorkflow).
LaneStateKept == W!LaneStateKept
==============================================================================
