----------------------------- MODULE MCBugProof -----------------------------
(***************************************************************************)
(* BugProof for TLC: a command that shows the bug and one that is not      *)
(* allowed, answers that name at most one of them, a plan without test     *)
(* files.                                                                  *)
(***************************************************************************)
EXTENDS BugProof

Commands == {"shows", "barred"}
Kinds == [c \in Commands |-> c]
Answers == {{}} \cup {{c} : c \in Commands}
PlannedItem == [parts |-> {"checks"}, tests |-> {}]
=============================================================================
