------------------------------ MODULE MCPlanner ------------------------------
(***************************************************************************)
(* Planner for TLC: its parts share no state, and a behaviour picks the    *)
(* one that works, the other keeps its first state.  Bound: a decision of  *)
(* the API or a fault of a proposal, not both.                             *)
(***************************************************************************)
EXTENDS Planner, TLC

CONSTANTS t1, t2

VARIABLE part

allvars == <<part, vars, wvars>>

AllInit == Init /\ W!Init /\ part \in {"proposals", "team"}

AllNext ==
    \/ part = "proposals" /\ Next /\ decisions' + faults' <= 1 /\ UNCHANGED <<part, wvars>>
    \/ part = "team" /\ W!Next /\ UNCHANGED <<part, vars>>

\* The fairness of Proposals.
Fair(A) == part = "proposals" /\ A /\ UNCHANGED <<part, wvars>>
AllSpec ==
    /\ AllInit /\ [][AllNext]_allvars
    /\ \A t \in Thread : WF_allvars(Fair(Step(t)))
    /\ WF_allvars(Fair(\E t \in Thread : claim(t)))

\* A user's comment is answered (Proposals).
CommentIsAnswered == part = "proposals" => CommentAnswered
==============================================================================
