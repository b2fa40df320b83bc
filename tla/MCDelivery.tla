----------------------------- MODULE MCDelivery ------------------------------
(***************************************************************************)
(* Delivery for TLC.  Lane is what the planner writes by default for a     *)
(* bug, for a feature that declares a test case, and for a feature that    *)
(* still waits for its approval; ProofOrNot adds a task that needs no proof. *)
(***************************************************************************)
EXTENDS Delivery

CONSTANT w1

Bug ==
    [approved |-> TRUE, proof_required |-> TRUE, proof_complete |-> FALSE,
     bootstrap |-> TRUE, policy_close |-> TRUE]
Feature ==
    [approved |-> TRUE, proof_required |-> TRUE, proof_complete |-> FALSE,
     bootstrap |-> FALSE, policy_close |-> FALSE]
Unapproved ==
    [approved |-> FALSE, proof_required |-> FALSE, proof_complete |-> FALSE,
     bootstrap |-> FALSE, policy_close |-> FALSE]
Lane == {Bug, Feature, Unapproved}
Unproved ==
    [approved |-> TRUE, proof_required |-> FALSE, proof_complete |-> FALSE,
     bootstrap |-> FALSE, policy_close |-> FALSE]
ProofOrNot == Lane \cup {Unproved}
==============================================================================
