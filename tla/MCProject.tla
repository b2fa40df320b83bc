------------------------------ MODULE MCProject ------------------------------
(***************************************************************************)
(* Requirements and the parts of Project for TLC.  They share no state: a  *)
(* behaviour picks the one that works, the others keep their first state.  *)
(*                                                                         *)
(* A bug's commands: one that shows the bug and one that is not allowed;   *)
(* an answer names at most one; the plan names no test files.              *)
(*                                                                         *)
(* The legacy repository: two directories of requirements that both name   *)
(* the project DEMO, a plan of the project demo, a task of DEMO with logs, *)
(* and a workspace that has a file of DEMO already.                        *)
(*                                                                         *)
(* Approvals are asked for a merge, of high risk, and for the doctor, of   *)
(* low risk; a policy may deny the category of either.                     *)
(***************************************************************************)
EXTENDS Requirements, Project, TLC

CONSTANTS t1, t2, must, mustNot

MCOpposed == {<<must, mustNot>>, <<mustNot, must>>}

Symmetry == Permutations(Thread)

MCKind == [c \in Command |-> c]
MCAnswer == {{}} \cup {{c} : c \in Command}
MCItem == [parts |-> {"checks"}, tests |-> {}]
MCCategoryOf == [k \in RequestKind |-> IF k = "merge" THEN "repo" ELSE "doctor"]

Files == <<"requirements", "baseline", "requirements2", "plan", "ledger", "logs">>
Dirs == [f \in {Files[n] : n \in 1 .. 6} |->
            CASE f \in {"requirements", "baseline"} -> "one" [] f = "requirements2" -> "two"
              [] f = "plan" -> "demo" [] OTHER -> "task"]
AllDirs == {"one", "two", "demo", "task"}
Kinds == [d \in AllDirs |->
            IF d \in {"one", "two"} THEN "requirements" ELSE IF d = "demo" THEN "plain" ELSE "task"]
Heads == [d \in AllDirs |->
            CASE d = "one" -> "requirements" [] d = "two" -> "requirements2"
              [] d = "task" -> "ledger" [] OTHER -> "none"]
Named == [d \in AllDirs |-> IF d = "demo" THEN "demo" ELSE "DEMO"]
DirNames == [d \in AllDirs |-> IF d = "two" THEN "old" ELSE "demo"]
Alphabet == <<"DEMO", "demo", "old">>
Slugs == [p \in {"demo", "DEMO", "old"} |-> IF p = "old" THEN "old" ELSE "demo"]
Names == [f \in DOMAIN Dirs |-> IF f = "requirements2" THEN "requirements" ELSE f]
There == [c \in {<<<<"demo", 1>>, "requirements">>} |-> "earlier"]

VARIABLE part

allvars == <<part, vars, bvars, avars, mvars>>

AllInit ==
    /\ Init /\ B!Init /\ A!Init /\ M!Init
    /\ part \in {"requirements", "bug", "approvals", "migration"}
    /\ part # "bug" => ~tree.fixed /\ ~tree.tests
    /\ part # "approvals" => policy.deny = {} /\ policy.auto = {}

AllNext ==
    \/ part = "requirements" /\ Next /\ UNCHANGED <<part, bvars, avars, mvars>>
    \/ part = "bug" /\ B!Next /\ UNCHANGED <<part, vars, avars, mvars>>
    \/ part = "approvals" /\ A!Next /\ UNCHANGED <<part, vars, bvars, mvars>>
    \/ part = "migration" /\ M!Next /\ UNCHANGED <<part, vars, bvars, avars>>

AllSpec == AllInit /\ [][AllNext]_allvars

\* The migration alone.
MigrationSpec == AllInit /\ part = "migration" /\ [][AllNext]_allvars
==============================================================================
