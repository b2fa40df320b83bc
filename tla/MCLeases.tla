------------------------------ MODULE MCLeases ------------------------------
(***************************************************************************)
(* The parts of Sweeps for TLC.  They share no state: a behaviour          *)
(* picks the one that works, the other keeps its first state.              *)
(*                                                                         *)
(* Leases: c1 and c2 are threads of one control plane and use its instance *)
(* id, c3 is alone in the other.  Sweeps: a target sweep and a recovery of *)
(* the task in one control plane, j1 and j2, and a sweep in the other.     *)
(***************************************************************************)
EXTENDS Sweeps, TLC

CONSTANTS i1, i2, c1, c2, c3, j1, j2, j3, k1, k2

MCShared == c1 :> i1 @@ c2 :> i1 @@ c3 :> i2
MCTwin == j1 :> i1 @@ j2 :> i1 @@ j3 :> i2
MCTwinKeys == j1 :> k1 @@ j2 :> k2 @@ j3 :> k1

VARIABLE part

allvars == <<part, vars, svars>>

AllInit == Init /\ S!Init /\ part \in {"lease", "sweep"}

AllNext ==
    \/ part = "lease" /\ Next /\ UNCHANGED <<part, svars>>
    \/ part = "sweep" /\ S!Next /\ UNCHANGED <<part, vars>>

\* The fairness of DeliverySweep.
Fair(A) == part = "sweep" /\ A /\ UNCHANGED <<part, vars>>
AllSpec ==
    /\ AllInit /\ [][AllNext]_allvars
    /\ WF_allvars(Fair(S!Tick))
    /\ SF_allvars(Fair(\E j \in Job : S!BeginSweep(j)))
    /\ \A j \in Job :
          /\ WF_allvars(Fair(S!Step(j)))
          /\ WF_allvars(Fair(S!Beat(j) \/ S!BeatFails(j)))

\* The task of a control plane that died is worked on again (DeliverySweep).
TaskTakenUp == part = "sweep" => S!TaskTakenUp
=============================================================================
