------------------------------ MODULE Delivery -------------------------------
(***************************************************************************)
(* The delivery of one team task: execute_task_delivery of                 *)
(* app/domains/team_workflow/task_runtime.py, which takes a task through   *)
(* audit, proof, coding, documentation, review, QA and release, and the    *)
(* planner that can put the same task back to "todo" under it.             *)
(*                                                                         *)
(* A step is what happens between two moments at which the process can be  *)
(* stopped with a different result: a ledger write and the agent run that  *)
(* follows it begin one step, the agent's answer ends it.  The worker's    *)
(* local variables die with the process, the ledger and the git worktree   *)
(* do not.                                                                 *)
(*                                                                         *)
(* Agents (audit, coding, review, QA, ...) answer anything they can.  Logs,*)
(* metrics, issue comments and agent panel states are left out, except     *)
(* that writing them can raise (Fails).  The lease is in TaskLease.        *)
(***************************************************************************)
EXTENDS Integers

CONSTANTS
    Worker,       \* threads of one control plane that may deliver the task
    MaxAttempts,  \* max_attempts
    Contract,     \* coding contracts the task may have
    Request,      \* ways in which a delivery is asked for
    MaxCrashes,   \* bound: process crashes
    MaxRewrites   \* bound: times the planner saves the task record

ContractType ==
    [approved       : BOOLEAN,  \* approval not required, or given
     proof_required : BOOLEAN,
     proof_complete : BOOLEAN,  \* of the record as the planner writes it
     bootstrap      : BOOLEAN,  \* bootstrap_if_missing
     policy_close   : BOOLEAN]  \* failure_policy is "close", not "block"

\* sweep: the periodic loop.  force and dry_run: the API's flags.
\* recovery: /v1/recovery/resume, which always forces.
RequestType == {"sweep", "force", "dry_run", "recovery"}

ASSUME AttemptsAssumption == MaxAttempts \in Nat \ {0}
ASSUME BoundAssumption == MaxCrashes \in Nat /\ MaxRewrites \in Nat
ASSUME InputAssumption == Contract \subseteq ContractType /\ Request \subseteq RequestType

VARIABLES
    contract,  \* the coding contract, fixed when the task is created
    ledger,    \* the task's record on disk
    tree,      \* the git worktree and branch of the task
    pc,        \* where each worker is
    run,       \* its local variables
    draft,     \* the record the planner has read
    pending,   \* how many more times it is going to save it
    coded,     \* number of coding agent runs so far
    rewrites,  \* number of times the planner has saved the record
    crashes

vars == <<contract, ledger, tree, pc, run, draft, pending, coded, rewrites, crashes>>

Status == {"todo", "doing", "test", "release", "merge_conflict",
           "needs_clarification", "blocked", "closed"}

Ledger ==
    [status        : Status,
     attempt       : Nat,      \* team_execution.attempt_count
     audit         : {"pending", "approved", "rejected"},
     docs_required : BOOLEAN,
     proof         : BOOLEAN,  \* the bug contract is complete
     evidence      : SUBSET {"coding", "qa"}]  \* recorded validation evidence

Tree ==
    [edits  : SUBSET {"code", "other"},  \* not committed: code, or tests and docs
     pushed : BOOLEAN]  \* the branch was pushed

Stage == {"idle", "worktree", "audit", "proof", "bootstrap", "contract", "repro",
          "setup", "loop", "coding", "coded", "inner", "docs", "review", "qa",
          "release", "conflict", "shipped", "closing"}

Run ==
    [kind       : RequestType,
     attempt    : Nat,
     docs_round : Nat,
     documented : BOOLEAN,  \* docs_required, as read at the top of the round
     fix_exists : BOOLEAN,  \* resume_with_existing_fix
     coding     : BOOLEAN,  \* needs_coding
     fresh      : BOOLEAN,  \* no edit since the running reviewer or tester started
     reviewed   : BOOLEAN,  \* the last review approved the code as it is now
     tested     : BOOLEAN]  \* the last QA run approved the code as it is now

NoRun == [kind |-> "sweep", attempt |-> 0, docs_round |-> 0,
          documented |-> FALSE, fix_exists |-> FALSE,
          coding |-> TRUE, fresh |-> FALSE, reviewed |-> FALSE, tested |-> FALSE]

NoDraft == [status |-> "todo", attempt |-> 0, audit |-> "pending",
            docs_required |-> FALSE, proof |-> FALSE, evidence |-> {}]

TypeOK ==
    /\ contract \in Contract
    /\ ledger \in Ledger /\ ledger.attempt <= MaxAttempts
    /\ tree \in Tree
    /\ pc \in [Worker -> Stage]
    /\ run \in [Worker -> Run]
    /\ \A w \in Worker : run[w].attempt <= MaxAttempts
    /\ draft \in Ledger /\ draft.attempt <= MaxAttempts /\ pending \in 0 .. 2
    /\ coded \in Nat /\ rewrites \in Nat /\ crashes \in Nat

Init ==
    /\ contract \in Contract
    /\ ledger = [status |-> "todo", attempt |-> 0, audit |-> "pending",
                 docs_required |-> FALSE, proof |-> contract.proof_complete,
                 evidence |-> {}]
    /\ tree = [edits |-> {}, pushed |-> FALSE]
    /\ pc = [w \in Worker |-> "idle"]
    /\ run = [w \in Worker |-> NoRun]
    /\ draft = NoDraft /\ pending = 0
    /\ coded = 0 /\ rewrites = 0 /\ crashes = 0

------------------------------------------------------------------------------
(* Vocabulary of the steps.                                                *)

Forced(w) == run[w].kind \in {"force", "recovery"}
DryRun(w) == run[w].kind = "dry_run"

At(w, stage) == pc[w] = stage
Goto(w, stage) == pc' = [pc EXCEPT ![w] = stage]

SetStatus(s) == ledger' = [ledger EXCEPT !.status = s]

\* Worker w changes its local variables.
SetRun(w, locals) == run' = [run EXCEPT ![w] = locals]

\* The run returns; what it held in local variables is gone.
Return(w) == Goto(w, "idle") /\ SetRun(w, NoRun)

Outside == UNCHANGED <<contract, draft, pending, rewrites, crashes>>
SameWork == UNCHANGED <<tree, coded>> /\ Outside

\* An agent may have written files: what any worker's reviewer or tester has
\* approved, or is looking at, is then no longer what is there.
Outdated == [v \in Worker |->
               [run[v] EXCEPT !.fresh = FALSE, !.reviewed = FALSE, !.tested = FALSE]]
MayEdit(files) == tree' \in {tree, [tree EXCEPT !.edits = @ \cup files]}

Idle == \A w \in Worker : At(w, "idle")

------------------------------------------------------------------------------
(* Starting a delivery.                                                    *)

\* Mutant: the status check at the top of execute_task_delivery is gone.
Startable_any(kind) == TRUE

\* Which tasks each request delivers: the sweep's status filter, recovery's
\* gates, and the two early returns of execute_task_delivery.
Startable(kind) ==
    CASE kind = "force" -> TRUE
      [] kind = "recovery" -> ledger.status \notin {"closed", "blocked"}
      [] OTHER -> ledger.status \notin {"closed", "blocked", "needs_clarification"}

Start(w, kind) ==
    /\ At(w, "idle")
    /\ Startable(kind)
    /\ SetRun(w, [NoRun EXCEPT !.kind = kind])
    /\ Goto(w, "worktree")
    /\ UNCHANGED ledger
    /\ SameWork

\* Worktree, approval gate, then the audit unless an earlier run passed it.
Prepare(w) ==
    /\ At(w, "worktree")
    /\ \/ /\ ~contract.approved /\ ~Forced(w)
          /\ SetStatus("needs_clarification")
          /\ Return(w)
       \/ /\ contract.approved \/ Forced(w)
          /\ Forced(w) \/ ledger.audit # "approved"
          /\ SetStatus("doing")
          /\ Goto(w, "audit")
          /\ UNCHANGED run
       \/ /\ contract.approved /\ ~Forced(w) /\ ledger.audit = "approved"
          /\ Goto(w, "proof")
          /\ UNCHANGED <<run, ledger>>
    /\ SameWork

\* The issue audit approves, or the task is closed or put on hold.
AuditReturns(w) ==
    /\ At(w, "audit")
    /\ \E docs \in {ledger.docs_required, TRUE}, proof \in {contract.proof_complete, TRUE} :
       \/ /\ ledger' = [ledger EXCEPT !.status = "doing", !.audit = "approved",
                          !.docs_required = docs, !.proof = proof]
          /\ Goto(w, "proof")
          /\ UNCHANGED run
       \/ /\ contract.policy_close
          /\ ledger' = [ledger EXCEPT !.status = "closed", !.audit = "rejected",
                          !.docs_required = docs, !.proof = proof]
          /\ Goto(w, "closing")
          /\ UNCHANGED run
       \/ /\ ~contract.policy_close
          /\ \E s \in {"needs_clarification", "blocked"} :
                ledger' = [ledger EXCEPT !.status = s, !.audit = "rejected",
                             !.docs_required = docs, !.proof = proof]
          /\ Return(w)
    /\ SameWork

\* _close_bug_task, after its ledger write: logs, then the issue is closed.
CloseReturns(w) ==
    /\ At(w, "closing")
    /\ Return(w)
    /\ UNCHANGED ledger
    /\ SameWork

------------------------------------------------------------------------------
(* The proof that there is something to fix.                               *)

EnterProof(w) ==
    /\ At(w, "proof")
    /\ \/ /\ ~contract.proof_required
          /\ Goto(w, "setup")
          /\ UNCHANGED ledger
       \/ /\ contract.proof_required /\ ~ledger.proof /\ contract.bootstrap
          /\ SetStatus("doing")
          /\ Goto(w, "bootstrap")
       \/ /\ contract.proof_required
          /\ ledger.proof \/ ~contract.bootstrap
          /\ Goto(w, "contract")
          /\ UNCHANGED ledger
    /\ UNCHANGED run
    /\ SameWork

\* The test-case agent writes tests: its contract may still be incomplete when
\* merged.
BootstrapReturns(w) ==
    /\ At(w, "bootstrap")
    /\ MayEdit({"other"})
    /\ \/ /\ SetStatus("closed")
          /\ Goto(w, "closing")
       \/ /\ \E complete \in BOOLEAN : ledger' = [ledger EXCEPT !.proof = complete]
          /\ Goto(w, "contract")
    /\ run' = IF tree' = tree THEN run ELSE Outdated
    /\ UNCHANGED coded
    /\ Outside

\* An incomplete contract closes the task, or the run reports "blocked"
\* without saying so in the ledger.
CheckContract(w) ==
    /\ At(w, "contract")
    /\ \/ /\ ledger.proof
          /\ SetStatus("doing")
          /\ Goto(w, "repro")
          /\ UNCHANGED run
       \/ /\ ~ledger.proof /\ contract.policy_close
          /\ SetStatus("closed")
          /\ Goto(w, "closing")
          /\ UNCHANGED run
       \/ /\ ~ledger.proof /\ ~contract.policy_close
          /\ Return(w)
          /\ UNCHANGED ledger
    /\ SameWork

\* _has_post_fix_candidate_changes: uncommitted edits count once an attempt
\* was made, and so does evidence of an earlier coding or QA stage.
HasPostFixChanges ==
    \/ ledger.evidence # {}
    \/ ledger.attempt > 0 /\ "code" \in tree.edits

ReproReturns(w) ==
    /\ At(w, "repro")
    /\ \/ /\ SetStatus("doing")
          /\ Goto(w, "setup")
          /\ UNCHANGED run
       \/ /\ HasPostFixChanges
          /\ SetStatus("doing")
          /\ SetRun(w, [run[w] EXCEPT !.fix_exists = TRUE])
          /\ Goto(w, "setup")
       \/ /\ ~HasPostFixChanges
          /\ SetStatus("closed")
          /\ Goto(w, "closing")
          /\ UNCHANGED run
    /\ SameWork

------------------------------------------------------------------------------
(* The attempt loop.                                                       *)

\* Mutant: a resumed run starts counting again.
StartAttempt_reset(w) == IF run[w].fix_exists THEN 1 ELSE 0

\* The attempts already used, as far as the ledger knows.
StartAttempt(w) ==
    IF run[w].fix_exists /\ ledger.attempt = 0 THEN 1 ELSE ledger.attempt

EnterCoding(w) ==
    /\ At(w, "setup")
    /\ SetStatus("doing")
    /\ SetRun(w, [run[w] EXCEPT !.attempt = StartAttempt(w),
                                !.coding = ~run[w].fix_exists,
                                !.fix_exists = FALSE])  \* not read again
    /\ Goto(w, "loop")
    /\ SameWork

\* The condition of the outer while.
AttemptsLeft(w) == run[w].attempt < MaxAttempts

\* One more attempt: counted and saved before the agent starts.
DispatchCoding(w) ==
    /\ At(w, "loop")
    /\ AttemptsLeft(w)
    /\ run[w].coding
    /\ SetRun(w, [run[w] EXCEPT !.attempt = @ + 1])
    /\ ledger' = [ledger EXCEPT !.status = "doing", !.attempt = run[w].attempt + 1,
                                !.evidence = {}]
    /\ coded' = coded + 1
    /\ Goto(w, "coding")
    /\ UNCHANGED tree
    /\ Outside

\* Back to the gates with the code as it is.
SkipCoding(w) ==
    /\ At(w, "loop")
    /\ AttemptsLeft(w)
    /\ ~run[w].coding
    /\ SetRun(w, [run[w] EXCEPT !.docs_round = 0])
    /\ Goto(w, "inner")
    /\ UNCHANGED ledger
    /\ SameWork

\* Mutant: the run ends without recording that the task is blocked.
AttemptsExhausted_silent(w) ==
    /\ At(w, "loop")
    /\ ~AttemptsLeft(w)
    /\ Return(w)
    /\ UNCHANGED ledger
    /\ SameWork

AttemptsExhausted(w) ==
    /\ At(w, "loop")
    /\ ~AttemptsLeft(w)
    /\ SetStatus("blocked")
    /\ Return(w)
    /\ SameWork

\* The coding agent writes code.
CodingEdits(w) ==
    /\ At(w, "coding")
    /\ tree' = [tree EXCEPT !.edits = @ \cup {"code"}]
    /\ run' = Outdated
    /\ Goto(w, "coded")
    /\ UNCHANGED <<ledger, coded>>
    /\ Outside

\* Its validation commands run even when it changed nothing.
CodingReturns(w) ==
    /\ At(w, "coding") \/ At(w, "coded")
    /\ \E evidence \in SUBSET {"coding"} :
          ledger' = [ledger EXCEPT !.evidence = evidence]
    /\ SetRun(w, [run[w] EXCEPT !.coding = FALSE, !.docs_round = 0])
    /\ Goto(w, "inner")
    /\ SameWork

------------------------------------------------------------------------------
(* The gates: documentation, review, QA.                                   *)

\* Mutant: the round counter is set again in every round.
EnterDocs_uncounted(w) ==
    /\ At(w, "inner") /\ ledger.docs_required
    /\ SetStatus("doing")
    /\ SetRun(w, [run[w] EXCEPT !.docs_round = 1])
    /\ Goto(w, "docs")
    /\ SameWork

\* One more documentation round.
EnterDocs(w) ==
    /\ At(w, "inner") /\ ledger.docs_required
    /\ SetStatus("doing")
    /\ SetRun(w, [run[w] EXCEPT !.docs_round = @ + 1])
    /\ Goto(w, "docs")
    /\ SameWork

\* The reviewer is given the diff as it is now.
StartReview(w, locals, documented) ==
    /\ run' = [locals EXCEPT ![w] = [@ EXCEPT !.fresh = TRUE, !.documented = documented]]
    /\ Goto(w, "review")

SkipDocs(w) ==
    /\ At(w, "inner") /\ ~ledger.docs_required
    /\ SetStatus("doing")
    /\ StartReview(w, run, FALSE)
    /\ SameWork

\* The documentation agent writes documents; a round that is not approved
\* ends the run.
DocsReturns(w) ==
    /\ At(w, "docs")
    /\ MayEdit({"other"})
    /\ LET locals == IF tree' = tree THEN run ELSE Outdated IN
       \/ /\ ledger' = [ledger EXCEPT !.status = "doing", !.docs_required = TRUE]
          /\ StartReview(w, locals, TRUE)
       \/ /\ ledger' = [ledger EXCEPT !.status = "blocked", !.docs_required = TRUE]
          /\ Goto(w, "idle")
          /\ run' = [locals EXCEPT ![w] = NoRun]
    /\ UNCHANGED coded
    /\ Outside

\* Code rejected: back to coding, if attempts are left.
RejectCode(w) ==
    /\ SetStatus("doing")
    /\ SetRun(w, [run[w] EXCEPT !.coding = TRUE, !.reviewed = FALSE])
    /\ Goto(w, "loop")

ReviewReturns(w) ==
    /\ At(w, "review")
    /\ \/ RejectCode(w)
       \/ /\ run[w].documented /\ run[w].docs_round < MaxAttempts
          /\ SetStatus("doing")
          /\ SetRun(w, [run[w] EXCEPT !.reviewed = FALSE])
          /\ Goto(w, "inner")
       \/ /\ run[w].documented /\ run[w].docs_round >= MaxAttempts
          /\ SetStatus("blocked")
          /\ Return(w)
       \/ /\ SetStatus("test")
          /\ SetRun(w, [run[w] EXCEPT !.reviewed = run[w].fresh, !.fresh = TRUE])
          /\ Goto(w, "qa")
    /\ SameWork

\* Mutant: the break after a failed QA run is gone.
QaReturns_no_break(w) ==
    /\ At(w, "qa")
    /\ \E tested \in {FALSE, run[w].fresh} :
          SetRun(w, [run[w] EXCEPT !.coding = ~tested, !.tested = tested])
    /\ SetStatus("release")
    /\ Goto(w, "release")
    /\ SameWork

\* The QA agent's verdict and the commands the runtime runs itself.
QaReturns(w) ==
    /\ At(w, "qa")
    /\ \E evidence \in {ledger.evidence \ {"qa"}, ledger.evidence \cup {"qa"}} :
       \/ /\ ledger' = [ledger EXCEPT !.status = "doing", !.evidence = evidence]
          /\ SetRun(w, [run[w] EXCEPT !.coding = TRUE, !.tested = FALSE])
          /\ Goto(w, "loop")
       \/ /\ ledger' = [ledger EXCEPT !.status = "release", !.evidence = evidence]
          /\ SetRun(w, [run[w] EXCEPT !.tested = run[w].fresh])
          /\ Goto(w, "release")
    /\ SameWork

------------------------------------------------------------------------------
(* The release.                                                            *)

\* Agents and the commands they run have left files outside the task's scope:
\* the run goes back to the gates, and neither the code nor the attempt count
\* changes.
ScopeViolation(w) ==
    /\ At(w, "release")
    /\ Goto(w, "loop")
    /\ UNCHANGED <<ledger, run>>
    /\ SameWork

\* A dry run closes the task as if it had been released.
ReleaseDry(w) ==
    /\ At(w, "release") /\ DryRun(w)
    /\ SetStatus("closed")
    /\ Goto(w, "closing")
    /\ UNCHANGED run
    /\ SameWork

\* _release_task: git add, which must stage something, commit and push.
ReleasePushes(w) ==
    /\ At(w, "release") /\ ~DryRun(w)
    /\ tree.edits # {}
    /\ tree' = [tree EXCEPT !.edits = {}, !.pushed = TRUE]
    /\ Goto(w, "shipped")
    /\ UNCHANGED <<ledger, run, coded>>
    /\ Outside

\* git add, commit or push reports a conflict; the commit may have been made.
ReleaseConflicts(w) ==
    /\ At(w, "release") /\ ~DryRun(w)
    /\ \E edits \in {{}, tree.edits} : tree' = [tree EXCEPT !.edits = edits]
    /\ SetStatus("merge_conflict")
    /\ Goto(w, "conflict")
    /\ UNCHANGED <<run, coded>>
    /\ Outside

\* One more attempt, or the end.
AfterConflict(w) ==
    /\ At(w, "conflict")
    /\ \/ /\ run[w].attempt >= MaxAttempts
          /\ SetStatus("blocked")
          /\ Return(w)
       \/ /\ run[w].attempt < MaxAttempts
          /\ SetStatus("doing")
          /\ SetRun(w, [run[w] EXCEPT !.coding = TRUE])
          /\ Goto(w, "loop")
    /\ SameWork

\* Nothing staged, or a git error that is not a conflict: DeliveryError, and
\* the handler blocks the task.
ReleaseFails(w) ==
    /\ At(w, "release") /\ ~DryRun(w)
    /\ \E edits \in {{}, tree.edits} : tree' = [tree EXCEPT !.edits = edits]
    /\ SetStatus("blocked")
    /\ Return(w)
    /\ UNCHANGED coded
    /\ Outside

\* After the push and the pull request, the arguments of
\* _close_issue_if_possible name issue_url, which is not defined: NameError,
\* and the handler of execute_task_delivery blocks the task.
AfterPush(w) ==
    /\ At(w, "shipped")
    /\ SetStatus("blocked")
    /\ Return(w)
    /\ SameWork

------------------------------------------------------------------------------
(* Failures, and the planner.                                              *)

\* Anything raises: an agent, git, a log file, the lost lease.  The handler
\* blocks the task whatever its status is by now.
Fails(w) ==
    /\ ~At(w, "idle")
    /\ SetStatus("blocked")
    /\ Return(w)
    /\ SameWork

\* The control plane stops.  Its planner stops with it.
Crash ==
    /\ crashes < MaxCrashes
    /\ ~Idle \/ pending > 0
    /\ pc' = [w \in Worker |-> "idle"]
    /\ run' = [w \in Worker |-> NoRun]
    /\ draft' = NoDraft /\ pending' = 0
    /\ crashes' = crashes + 1
    /\ UNCHANGED <<contract, ledger, tree, coded, rewrites>>

\* _ensure_task_record finds the task of a finding it has seen before and
\* keeps its record in memory while it asks git and GitHub.
PlannerReads ==
    /\ pending = 0
    /\ rewrites + 2 <= MaxRewrites
    /\ draft' = [ledger EXCEPT !.status = "todo", !.evidence = {},
                               !.proof = contract.proof_complete]
    /\ pending' = 2
    /\ UNCHANGED <<contract, ledger, tree, pc, run, coded, rewrites, crashes>>

\* It saves the record, synchronises the issue, which can fail, and saves the
\* record once more.
PlannerSaves ==
    /\ pending > 0
    /\ ledger' = draft
    /\ rewrites' = rewrites + 1
    /\ pending' \in {0, pending - 1}
    /\ draft' = IF pending' = 0 THEN NoDraft ELSE draft
    /\ UNCHANGED <<contract, tree, pc, run, coded, crashes>>

------------------------------------------------------------------------------
(* Specification.                                                          *)

Continue(w) ==
    \/ Prepare(w) \/ AuditReturns(w) \/ CloseReturns(w)
    \/ EnterProof(w) \/ BootstrapReturns(w) \/ CheckContract(w) \/ ReproReturns(w)
    \/ EnterCoding(w) \/ DispatchCoding(w) \/ SkipCoding(w) \/ AttemptsExhausted(w)
    \/ CodingEdits(w) \/ CodingReturns(w)
    \/ EnterDocs(w) \/ SkipDocs(w) \/ DocsReturns(w) \/ ReviewReturns(w) \/ QaReturns(w)
    \/ ScopeViolation(w) \/ ReleaseDry(w) \/ ReleasePushes(w)
    \/ ReleaseConflicts(w) \/ AfterConflict(w) \/ ReleaseFails(w) \/ AfterPush(w)

Next ==
    \/ \E w \in Worker, kind \in Request : Start(w, kind)
    \/ \E w \in Worker : Continue(w) \/ Fails(w)
    \/ Crash
    \/ PlannerReads
    \/ PlannerSaves

Spec == Init /\ [][Next]_vars

\* The periodic sweep keeps coming and a running worker goes on: git commands
\* have a timeout, agent runs are assumed to end.
FairSpec ==
    /\ Spec
    /\ \A w \in Worker : WF_vars(Continue(w))
    /\ \A w \in Worker : WF_vars("sweep" \in Request /\ Start(w, "sweep"))
    /\ WF_vars(PlannerSaves)

------------------------------------------------------------------------------
(* What a delivery promises.                                               *)

\* However often the process dies and the task is taken up again, the coding
\* agent runs at most MaxAttempts times, and at most that often again for
\* every time the planner saves a record it read before.
CodingRunsBounded == coded <= MaxAttempts * (1 + rewrites)

\* What is pushed is the very code the last review and the last QA run of the
\* pushing run approved, whatever was coded, rejected, interrupted and resumed
\* before ("Ship validated task changes").
PushedCodePassedGates ==
    [][\A w \in Worker :
          At(w, "release") /\ pc'[w] = "shipped" => run[w].reviewed /\ run[w].tested]_vars

\* A task nobody works on leaves a final status only by the planner's hand or
\* by a forced run; no sweep, crash or late write revives it.
Final == {"closed", "blocked", "needs_clarification"}
FinalStaysFinal ==
    [][ledger.status \in Final /\ ledger'.status \notin Final =>
          rewrites' # rewrites \/ \E w \in Worker : ~At(w, "idle") /\ Forced(w)]_vars

\* The scope check before a release passes from some moment on.
EventuallyInScope ==
    <>[][\A w \in Worker : At(w, "release") => pc'[w] # "loop"]_vars

\* Every run ends, whatever the agents answer, once agents
\* and their commands stop leaving files outside the task's scope.
EveryRunEnds ==
    EventuallyInScope => \A w \in Worker : ~At(w, "idle") ~> At(w, "idle")

\* The sweep is done with every task at some point: it stays in a final
\* status, unless its proof contract is incomplete and the policy is to block.
NeverProvable == contract.proof_required /\ ~ledger.proof /\ ~contract.policy_close
TaskSettles ==
    EventuallyInScope => <>[](NeverProvable \/ (Idle /\ ledger.status \in Final))

==============================================================================
