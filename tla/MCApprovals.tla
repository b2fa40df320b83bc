----------------------------- MODULE MCApprovals -----------------------------
(***************************************************************************)
(* Approvals for TLC: one kind of action of high risk.                     *)
(***************************************************************************)
EXTENDS Approvals

Categories == [k \in {"merge"} |-> "repo"]
==============================================================================
