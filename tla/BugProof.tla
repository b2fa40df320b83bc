------------------------------- MODULE BugProof -------------------------------
(***************************************************************************)
(* What the stages of a bug's delivery make of the answers of their agents *)
(* and of the commands the runtime runs itself: the proof before the fix   *)
(* and the evidence after it.                                              *)
(*                                                                         *)
(* Delivery has the stages, their order under crashes and overlaps, with   *)
(* any result; here a run is alone and a result follows from the answer,   *)
(* the contract and the commands.  The contract of a task is put together  *)
(* from its work item and its audit each time.  A bug task requires the    *)
(* proof and is closed when it fails (_default_proof_failure_policy).      *)
(***************************************************************************)
EXTENDS Integers

CONSTANTS
    Command,      \* commands that agents and plans name
    Kind,         \* Kind[c]: what running c tells, see Outcome
    Named,        \* the sets of commands that one answer may name
    Item,         \* the work item as planned
    MaxAttempts,  \* max_attempts
    MaxRuns, MaxPlans  \* bounds

\* reproduction_steps, test_case_files and verification_steps.
Part == {"steps", "files", "checks"}
WorkItem == [parts : SUBSET Part, tests : SUBSET Command]

Audit == [approved : BOOLEAN, parts : SUBSET Part,
          commands : SUBSET Command,   \* reproduction_commands
          after    : SUBSET Command]   \* verification_commands
NoAudit == [approved |-> FALSE, parts |-> {}, commands |-> {}, after |-> {}]

\* The worktree: the bug is fixed, there are uncommitted edits under the allowed
\* paths, the test files that the contract names are there.
Tree == [fixed : BOOLEAN, edited : BOOLEAN, tests : BOOLEAN]

\* "pending" stands for needs_clarification and split_required too.
Closure == {"ready", "pending", "duplicate", "rejected"}

VARIABLES
    item, audit,
    tree,
    evidence,  \* validation_evidence: the stages after the fix that have some
    attempts,  \* attempt_count
    status,    \* "open", "blocked" or "closed"
    reason,    \* why it was closed
    stage,
    docs,      \* documentation_policy.required
    proven,    \* a command that was run before the fix has failed
    runs, plans

vars == <<item, audit, tree, evidence, attempts, status, reason, stage, docs, proven, runs, plans>>
task == <<item, audit, docs>>
bounds == <<runs, plans>>

Reason == {"none", "released", "misclassified", "duplicate", "rejected", "not_reproducible",
           "not_verifiable", "incomplete"}

TypeOK ==
    /\ item \in WorkItem /\ audit \in Audit /\ tree \in Tree
    /\ evidence \subseteq {"coding", "qa"}
    /\ attempts \in 0 .. MaxAttempts
    /\ status \in {"open", "blocked", "closed"} /\ reason \in Reason
    /\ stage \in {"idle", "audit", "proof", "bootstrap", "contract", "repro", "coding", "review", "qa"}
    /\ docs \in BOOLEAN /\ proven \in BOOLEAN
    /\ runs \in 0 .. MaxRuns /\ plans \in 0 .. MaxPlans

Init ==
    /\ item = Item /\ audit = NoAudit
    /\ tree \in [fixed : BOOLEAN, edited : {FALSE}, tests : BOOLEAN]
    /\ evidence = {} /\ attempts = 0
    /\ status = "open" /\ reason = "none" /\ stage = "idle"
    /\ docs = FALSE /\ proven = FALSE
    /\ runs = 0 /\ plans = 0

------------------------------------------------------------------------------
(* Evidence.                                                               *)

\* Commands that are named by the task, or start like a test, are run; the rest
\* is not, and neither is what cannot be parsed.
safe_test_command(c) == c \in item.tests \/ Kind[c] # "barred"

Outcome(c) ==
    IF ~safe_test_command(c) \/ Kind[c] = "garbled" THEN "infra"
    ELSE IF Kind[c] = "breaks" \/ (Kind[c] = "shows" /\ ~tree.fixed) THEN "failed"
    ELSE "ok"

run_validation_evidence(commands) == {Outcome(c) : c \in commands}

\* Mutant: a command that was not run counts as a failure.
audit_reproduced_any(found) == found \cap {"failed", "infra"} # {}

audit_reproduced(found) == "failed" \in found

audit_confirmed_not_reproducible(found) == found = {"ok"}

\* What a result is judged by: the runtime's evidence, or the agent's if there is none.
Judged(ran, claimed) == IF ran # {} THEN ran ELSE claimed

------------------------------------------------------------------------------
(* The contract.                                                           *)

NoExtra == [parts |-> {}, commands |-> {}, after |-> {}]

bug_contract(extra) ==
    [parts    |-> item.parts \cup audit.parts \cup extra.parts,
     commands |-> item.tests \cup audit.commands \cup extra.commands,
     after    |-> item.tests \cup audit.after \cup extra.after]

bug_contract_complete(contract, testsThere) ==
    contract.parts = Part /\ testsThere /\ contract.commands # {}

Goto(next) == stage' = next /\ UNCHANGED <<status, reason>>
Close(why) == status' = "closed" /\ reason' = why /\ stage' = "idle"
Block == status' = "blocked" /\ stage' = "idle" /\ UNCHANGED reason

------------------------------------------------------------------------------
(* The audit.                                                              *)

Opinion == {"other type", "not worth doing", "worth doing"}
AuditAnswer ==
    {a \in [opinion : Opinion, closure : Closure, docs : BOOLEAN,
            parts : {{}, Part}, commands : Named, after : Named,
            claimed : {{}, {"ok"}, {"failed"}}] :  \* evidence of its own
        (a.commands # {} => a.claimed = {}) /\ a.after \in {{}, a.commands}}

\* Only an audit that takes the bug for another kind, a duplicate or not worth
\* doing, and commands that all pass, keep a bug out; a bare rejection does not.
normalize_audit_result(a, contract, found) ==
    IF a.opinion = "other type" THEN IF a.closure = "ready" THEN "misclassified" ELSE a.closure
    ELSE IF a.opinion = "not worth doing" THEN IF a.closure = "ready" THEN "rejected" ELSE a.closure
    ELSE IF a.closure = "duplicate" THEN "duplicate"
    ELSE IF contract.commands # {} /\ audit_confirmed_not_reproducible(found) THEN "rejected"
    ELSE "ready"

CloseReason(a, closure, found) ==
    IF a.opinion = "other type" THEN "misclassified"
    ELSE IF closure = "duplicate" THEN "duplicate"
    ELSE IF found # {} /\ ~audit_reproduced(found) THEN "not_reproducible"
    ELSE "rejected"

run_issue_audit_stage(a) ==
    LET contract == bug_contract(a)
        found == Judged(run_validation_evidence(a.commands), a.claimed)
        closure == normalize_audit_result(a, contract, found)
        approved == closure = "ready"
    IN
    /\ stage = "audit"
    /\ audit' = [approved |-> approved, parts |-> contract.parts,
                 commands |-> contract.commands, after |-> contract.after]
    /\ docs' = (docs \/ a.docs)
    /\ IF approved THEN Goto("proof") ELSE Close(CloseReason(a, closure, found))
    /\ UNCHANGED <<item, tree, evidence, attempts, proven, bounds>>

------------------------------------------------------------------------------
(* The proof.                                                              *)

\* bootstrap_if_missing: the plan named no test files.
proof_bootstrap_if_missing == "files" \notin Item.parts

EnterProof ==
    /\ stage = "proof"
    /\ IF ~bug_contract_complete(bug_contract(NoExtra), tree.tests) /\ proof_bootstrap_if_missing
         THEN Goto("bootstrap") ELSE Goto("contract")
    /\ UNCHANGED <<task, tree, evidence, attempts, proven, bounds>>

TestCaseAnswer == [parts : {{}, Part}, commands : Named, after : Named,
                   changed : BOOLEAN]  \* it names, or there are, changed test files

\* _merge_bug_contract_into_doc: what was bootstrapped becomes the task's own,
\* its commands the tests that QA runs.
merge_bug_contract_into_doc(contract) ==
    /\ item' = [parts |-> contract.parts, tests |-> contract.after \cup contract.commands]
    /\ audit' = [audit EXCEPT !.parts = contract.parts, !.commands = contract.commands,
                              !.after = contract.after]

\* A test file outside the test paths is only remarked on.
run_bug_testcase_stage(b) ==
    LET contract == bug_contract(b) IN
    /\ stage = "bootstrap"
    /\ \E there \in {tree.tests, TRUE}, edited \in {tree.edited, TRUE} :
          /\ tree' = [tree EXCEPT !.tests = there, !.edited = edited]
          /\ IF bug_contract_complete(contract, there) /\ b.changed
               THEN Goto("contract") /\ merge_bug_contract_into_doc(contract)
               ELSE Close("not_verifiable") /\ UNCHANGED <<item, audit>>
    /\ UNCHANGED <<evidence, attempts, docs, proven, bounds>>

CheckContract ==
    /\ stage = "contract"
    /\ IF bug_contract_complete(bug_contract(NoExtra), tree.tests) THEN Goto("repro") ELSE Close("incomplete")
    /\ UNCHANGED <<task, tree, evidence, attempts, proven, bounds>>

has_post_fix_candidate_changes == evidence # {} \/ (attempts > 0 /\ tree.edited)

\* Commands that were not run prove nothing either: the bug is closed.
run_bug_repro_stage(commands) ==
    LET contract == bug_contract([NoExtra EXCEPT !.commands = commands])
        reproduced == audit_reproduced(run_validation_evidence(contract.commands))
    IN
    /\ stage = "repro"
    /\ audit' = [audit EXCEPT !.commands = contract.commands]
    /\ proven' = (proven \/ \E c \in contract.commands : Outcome(c) = "failed")
    /\ \/ reproduced /\ Goto("coding")
       \/ ~reproduced /\ has_post_fix_candidate_changes
          /\ IF attempts < MaxAttempts THEN Goto("review") ELSE Block
       \/ ~reproduced /\ ~has_post_fix_candidate_changes /\ Close("not_reproducible")
    /\ UNCHANGED <<item, tree, evidence, attempts, docs, bounds>>

------------------------------------------------------------------------------
(* The fix.                                                                *)

\* The evidence of earlier attempts is dropped before, that of this one kept
\* whatever it says.
run_coding_stage(commands) ==
    /\ stage = "coding" /\ attempts < MaxAttempts
    /\ attempts' = attempts + 1
    /\ tree' \in {t \in Tree : t.fixed => t.edited}
    /\ evidence' = IF commands \cup item.tests = {} THEN {} ELSE {"coding"}
    /\ Goto("review")
    /\ UNCHANGED <<task, proven, bounds>>

AttemptsExhausted ==
    /\ stage = "coding" /\ attempts = MaxAttempts
    /\ Block
    /\ UNCHANGED <<task, tree, evidence, attempts, proven, bounds>>

\* An answer need not say code_approved or docs_approved: approved stands in.
Said == {"yes", "no", "unsaid"}
ReviewAnswer == [approved : BOOLEAN, code : Said, docs : Said]
Approves(said, approved) == said = "yes" \/ (said = "unsaid" /\ approved)
normalize_review_result(r) ==
    [code |-> Approves(r.code, r.approved), docs |-> ~docs \/ Approves(r.docs, r.approved)]

\* Rejected documentation is written again until its rounds are used up.
run_review_stage(r) ==
    LET result == normalize_review_result(r) IN
    /\ stage = "review"
    /\ \/ result.code /\ result.docs /\ Goto("qa")
       \/ result.code /\ ~result.docs /\ (Goto("review") \/ Block)
       \/ ~result.code /\ Goto("coding")
    /\ UNCHANGED <<task, tree, evidence, attempts, proven, bounds>>

\* Mutant: the agent's word is taken.
merge_qa_agent(approved, found) == approved

merge_qa_with_validation_evidence(approved, found) == approved /\ found \subseteq {"ok"}

\* What passes is committed and released.
run_qa_stage(approved, commands) ==
    LET found == run_validation_evidence(commands \cup item.tests) IN
    /\ stage = "qa"
    /\ evidence' = IF found = {} THEN evidence \ {"qa"} ELSE evidence \cup {"qa"}
    /\ IF merge_qa_with_validation_evidence(approved, found)
         THEN Close("released") /\ tree' = [tree EXCEPT !.edited = FALSE]
         ELSE Goto("coding") /\ UNCHANGED tree
    /\ UNCHANGED <<task, attempts, proven, bounds>>

------------------------------------------------------------------------------
(* Runs, failures and the planner.                                         *)

\* A forced run audits again whatever the first audit said.
execute_task_delivery(force) ==
    /\ stage = "idle" /\ runs < MaxRuns /\ runs' = runs + 1
    /\ force \/ status = "open"
    /\ status' = "open" /\ reason' = "none"
    /\ stage' = IF force \/ ~audit.approved THEN "audit" ELSE "proof"
    /\ UNCHANGED <<task, tree, evidence, attempts, proven, plans>>

\* An agent answers nothing usable (_coerce_model_output), a command cannot be
\* started or runs too long: the run ends.  Or the process does.
RunFails ==
    /\ stage # "idle" /\ stage' = "idle"
    /\ status' \in {status, "blocked"}
    /\ UNCHANGED <<task, tree, evidence, attempts, reason, proven, bounds>>

\* The planner writes the work item as planned and of the audit only what it
\* decided: what the stages added to the contract is gone.
ensure_task_record ==
    /\ plans < MaxPlans /\ plans' = plans + 1
    /\ item' = Item
    /\ audit' = [NoAudit EXCEPT !.approved = audit.approved]
    /\ status' = "open"
    /\ UNCHANGED <<tree, evidence, attempts, reason, stage, docs, proven, runs>>

Next ==
    \/ \E force \in BOOLEAN : execute_task_delivery(force)
    \/ \E a \in AuditAnswer : run_issue_audit_stage(a)
    \/ EnterProof \/ CheckContract
    \/ \E b \in TestCaseAnswer : run_bug_testcase_stage(b)
    \/ \E commands \in Named : run_bug_repro_stage(commands) \/ run_coding_stage(commands)
    \/ AttemptsExhausted
    \/ \E r \in ReviewAnswer : run_review_stage(r)
    \/ \E approved \in BOOLEAN, commands \in Named : run_qa_stage(approved, commands)
    \/ RunFails \/ ensure_task_record

Spec == Init /\ [][Next]_vars

------------------------------------------------------------------------------
(* Properties.                                                             *)

\* Nobody codes on a bug before a command that was really run has failed, however
\* runs are forced, fail, resume with an existing fix or lose their contract.
FixesProvenBugs == attempts > 0 => proven

\* What is released passes every command the task names, those that the proof
\* added to it included.
ReleasedPasses ==
    [][stage = "qa" /\ reason' = "released" => \A c \in item.tests : Outcome(c) = "ok"]_vars

\* A bug is closed as not reproducible only while no fix of it waits in the
\* worktree ("continuing with review and release gates").
FixNotClosed == [][reason' = "not_reproducible" /\ reason # reason' =>
                      ~(tree.fixed /\ has_post_fix_candidate_changes)]_vars
==============================================================================
