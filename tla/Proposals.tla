------------------------------ MODULE Proposals ------------------------------
(***************************************************************************)
(* One improvement proposal of a team workflow: planners collect it and    *)
(* turn it into tasks, discussions answer the comments on its issue, and   *)
(* the API decides it.                                                     *)
(*                                                                         *)
(* Calls run in threads of the control plane and hold no lock over the     *)
(* proposal.  Every update of its row loads the whole document, changes    *)
(* some fields and writes the whole document back: a step ends with the    *)
(* load, with the write, and with each call of GitHub or lookup of a task. *)
(* The proposal's texts are left out.  Its repository has a locator.       *)
(***************************************************************************)
EXTENDS Integers, Sequences

CONSTANTS
    Thread,
    Items,             \* number of work items of the finding
    Confirm,           \* the workflow or the finding requires confirmation
    RequiresApproval,  \* the workflow's materialize_requires_approval
    Asks,              \* what users' comments may ask for
    MaxComments,       \* bound: comments of users
    MaxRuns,           \* bound: runs of a planner
    MaxDecisions,      \* bound: decisions taken over the API
    MaxFaults          \* bound: failures of GitHub and stops of the process

ASSUME ProposalsAssumption ==
    /\ Confirm \in BOOLEAN /\ RequiresApproval \in BOOLEAN
    /\ Items \in Nat \ {0} /\ MaxComments \in Nat /\ MaxRuns \in Nat
    /\ MaxDecisions \in Nat /\ MaxFaults \in Nat

Decision == {"approve", "reject", "hold"}
Action == Decision \cup {"pending"}

ASSUME AsksAssumption == Asks \subseteq Action

Status == {"absent", "COLLECTING", "PENDING_CONFIRMATION", "APPROVED", "REJECTED", "HOLD",
           "MATERIALIZED"}
Decided == [approve |-> "APPROVED", reject |-> "REJECTED", hold |-> "HOLD"]

Proposal ==
    [status : Status,
     issue  : BOOLEAN,            \* discussion_issue_number is set
     cursor : 0 .. MaxComments]   \* discussion_last_comment_id

NoProposal == [status |-> "absent", issue |-> FALSE, cursor |-> 0]

\* Where a call is: it has loaded the row and will write it ("..._put"), or
\* will do what its label says.
Label ==
    {"idle", "upsert_put", "ensure", "ensure_put", "github", "link_put",
     "materialize", "find", "create", "mark", "mark_put",
     "comments", "apply", "apply_put", "reply", "seen", "seen_put", "decide_put"}

Call ==
    [doc    : Proposal,             \* the row as this call last loaded or wrote it
     then   : Label,                \* where _ensure_proposal_discussion_issue returns to
     action : Action,
     latest : 0 .. MaxComments,     \* latest_comment_id
     item   : 1 .. Items,           \* the next work item
     flag   : BOOLEAN]              \* the issue was reached; the task was found

NoCall == [doc |-> NoProposal, then |-> "idle", action |-> "pending", latest |-> 0, item |-> 1,
           flag |-> FALSE]

VARIABLES
    row,        \* the proposal in the store
    due,        \* cooldown_until has passed
    comments,   \* what each comment of a user on the issue asks for
    replies,    \* the comments named by the marker of a reply
    tasks,      \* how many tasks each work item has
    pc,
    call,
    overtaken,  \* another call has changed the row or added a task since this one started
    runs, decisions, faults

vars == <<row, due, comments, replies, tasks, pc, call, overtaken, runs, decisions, faults>>
world == <<due, comments, replies, tasks>>
counters == <<runs, decisions, faults>>

TypeOK ==
    /\ row \in Proposal
    /\ due \in BOOLEAN
    /\ comments \in Seq(Asks) /\ Len(comments) <= MaxComments
    /\ replies \subseteq 1 .. MaxComments
    /\ tasks \in [1 .. Items -> Nat]
    /\ pc \in [Thread -> Label]
    /\ call \in [Thread -> Call]
    /\ overtaken \in [Thread -> BOOLEAN]
    /\ runs \in 0 .. MaxRuns /\ decisions \in 0 .. MaxDecisions /\ faults \in 0 .. MaxFaults

Init ==
    /\ row = NoProposal
    /\ due = FALSE /\ comments = <<>> /\ replies = {}
    /\ tasks = [i \in 1 .. Items |-> 0]
    /\ pc = [t \in Thread |-> "idle"]
    /\ call = [t \in Thread |-> NoCall]
    /\ overtaken = [t \in Thread |-> FALSE]
    /\ runs = 0 /\ decisions = 0 /\ faults = 0

------------------------------------------------------------------------------
(* Loads and writes.                                                       *)

Goto(t, label) == pc' = [pc EXCEPT ![t] = label]

\* Thread t changes something that other calls may have read.
Overtake(t, changed) ==
    overtaken' = [u \in Thread |-> overtaken[u] \/ (changed /\ u # t /\ pc[u] # "idle")]

Begin(t, label, c) ==
    /\ pc[t] = "idle"
    /\ Goto(t, label)
    /\ call' = [call EXCEPT ![t] = c]
    /\ overtaken' = [overtaken EXCEPT ![t] = FALSE]
    /\ UNCHANGED <<row, world>>

Loaded == [NoCall EXCEPT !.doc = row]

Load(t, from, next) ==
    /\ pc[t] = from
    /\ Goto(t, next)
    /\ call' = [call EXCEPT ![t].doc = row]
    /\ UNCHANGED <<row, world, overtaken, counters>>

\* The labels of calls that will still read the document they wrote.
Reader == {"materialize", "comments", "reply"}

\* put_doc: the whole document.
Write(t, doc, next) ==
    /\ row' = doc
    /\ Overtake(t, doc # row)
    /\ Goto(t, next)
    /\ call' = [call EXCEPT ![t] =
                  IF next = "idle" THEN NoCall
                  ELSE [@ EXCEPT !.flag = FALSE, !.doc = IF next \in Reader THEN doc ELSE NoProposal]]
    /\ UNCHANGED <<world, counters>>

\* Everything a call does besides loads and writes.
Proceed(t, label, c) ==
    /\ Goto(t, label)
    /\ call' = [call EXCEPT ![t] = IF label = "idle" THEN NoCall ELSE c]
    /\ UNCHANGED row

------------------------------------------------------------------------------
(* The discussion issue.                                                   *)

ensure_load(t) == Load(t, "ensure", "ensure_put")
ensure_write(t) == pc[t] = "ensure_put" /\ Write(t, call[t].doc, "github")

\* The issue is found by its marker or created, and reopened; then, or after a
\* failure, the row is loaded again.
ensure_issue(t) ==
    /\ \/ UNCHANGED faults
       \/ faults < MaxFaults /\ faults' = faults + 1
    /\ pc[t] = "github"
    /\ Goto(t, "link_put")
    /\ call' = [call EXCEPT ![t].doc = row, ![t].flag = faults' = faults]
    /\ UNCHANGED <<row, world, overtaken, runs, decisions>>

link_write(t) ==
    /\ pc[t] = "link_put"
    /\ Write(t, [call[t].doc EXCEPT !.issue = @ \/ call[t].flag], call[t].then)

------------------------------------------------------------------------------
(* A planner: the skill team.materialize-findings on the finding.          *)

collect(t) ==
    /\ runs < MaxRuns /\ runs' = runs + 1
    /\ Begin(t, "upsert_put", [Loaded EXCEPT !.then = "materialize"])
    /\ UNCHANGED <<decisions, faults>>

\* Mutant: a proposal that is found again is up for confirmation again.
upsert_proposal_again(t) ==
    /\ pc[t] = "upsert_put"
    /\ Write(t, [call[t].doc EXCEPT !.status = "PENDING_CONFIRMATION"],
             IF Confirm THEN "ensure" ELSE "materialize")

\* An existing proposal keeps what the load saw of it.
upsert_proposal(t) ==
    /\ pc[t] = "upsert_put"
    /\ Write(t, [call[t].doc EXCEPT !.status =
                   IF @ # "absent" THEN @
                   ELSE IF Confirm THEN "PENDING_CONFIRMATION" ELSE "COLLECTING"],
             IF Confirm THEN "ensure" ELSE "materialize")

\* Mutant: a proposal on hold is not blocked.
should_materialize_held(status) ==
    IF RequiresApproval THEN status = "APPROVED" ELSE status \notin {"REJECTED", "MATERIALIZED"}

should_materialize(status) ==
    IF RequiresApproval THEN status = "APPROVED"
                        ELSE status \notin {"REJECTED", "HOLD", "MATERIALIZED"}

\* The decision is taken on the document as the issue's update returned it.
materialize(t) ==
    /\ pc[t] = "materialize"
    /\ IF due /\ should_materialize(call[t].doc.status)
         THEN Proceed(t, "find", NoCall)
         ELSE Proceed(t, "idle", NoCall)
    /\ UNCHANGED <<world, overtaken, counters>>

\* Mutant: no existing task is ever found.
find_existing_task_never(t) ==
    /\ pc[t] = "find"
    /\ Proceed(t, "create", [call[t] EXCEPT !.flag = FALSE])
    /\ UNCHANGED <<world, overtaken, counters>>

\* The work item's task is looked up by fingerprint and key; ...
find_existing_task(t) ==
    /\ pc[t] = "find"
    /\ Proceed(t, "create", [call[t] EXCEPT !.flag = tasks[call[t].item] > 0])
    /\ UNCHANGED <<world, overtaken, counters>>

\* ... one that was not found is created; a failure ends the run.
ensure_task_record(t) ==
    LET i == call[t].item IN
    /\ pc[t] = "create"
    /\ \/ /\ tasks' = [tasks EXCEPT ![i] = IF call[t].flag THEN @ ELSE @ + 1]
          /\ IF i < Items THEN Proceed(t, "find", [NoCall EXCEPT !.item = i + 1])
                          ELSE Proceed(t, "mark", NoCall)
          /\ UNCHANGED faults
       \/ /\ faults < MaxFaults /\ faults' = faults + 1
          /\ Proceed(t, "idle", NoCall)
          /\ UNCHANGED tasks
    /\ Overtake(t, tasks' # tasks)
    /\ UNCHANGED <<due, comments, replies, runs, decisions>>

mark_load(t) == Load(t, "mark", "mark_put")
mark_proposal_materialized(t) ==
    /\ pc[t] = "mark_put"
    /\ Write(t, [call[t].doc EXCEPT !.status = "MATERIALIZED"], "idle")

------------------------------------------------------------------------------
(* A discussion: the skills claim-discussion and apply-discussion.         *)

Discussed == Status \ {"absent", "REJECTED", "MATERIALIZED"}

claim(t) ==
    /\ row.status \in Discussed
    /\ Begin(t, "ensure", [Loaded EXCEPT !.then = "comments"])
    /\ UNCHANGED counters

\* proposal_action_from_comment_text on the new comments taken together: one
\* that approves wins over one that rejects, and that over one that holds.
action_of(asked) ==
    IF "approve" \in asked THEN {"approve"}
    ELSE IF "reject" \in asked THEN {"reject"}
    ELSE IF "hold" \in asked THEN {"hold"}
    ELSE Action  \* the agent's answer decides

read_comments(t) ==
    LET latest == Len(comments)
        new    == call[t].doc.cursor + 1 .. latest IN
    /\ pc[t] = "comments"
    /\ IF ~call[t].doc.issue \/ new = {}
         THEN Proceed(t, "idle", NoCall)
         ELSE \E a \in action_of({comments[i] : i \in new}) :
                 Proceed(t, "apply",
                         [NoCall EXCEPT !.action = a, !.latest = latest, !.then = "reply"])
    /\ UNCHANGED <<world, overtaken, counters>>

apply_load(t) == Load(t, "apply", "apply_put")

\* Whatever the status has become since the claim.
apply_write(t) ==
    LET a == call[t].action IN
    /\ pc[t] = "apply_put"
    /\ Write(t, [call[t].doc EXCEPT !.status =
                   IF a \in Decision THEN Decided[a] ELSE "PENDING_CONFIRMATION"], "ensure")

\* upsert_comment_with_marker: one reply for each latest comment.
reply(t) ==
    /\ pc[t] = "reply"
    /\ IF ~call[t].doc.issue
         THEN /\ Proceed(t, "idle", NoCall)
              /\ UNCHANGED <<replies, faults>>
         ELSE \/ /\ replies' = replies \cup {call[t].latest}
                 /\ Proceed(t, "seen", [NoCall EXCEPT !.latest = call[t].latest])
                 /\ UNCHANGED faults
              \/ /\ faults < MaxFaults /\ faults' = faults + 1
                 /\ Proceed(t, "idle", NoCall)
                 /\ UNCHANGED replies
    /\ UNCHANGED <<due, comments, tasks, overtaken, runs, decisions>>

seen_load(t) == Load(t, "seen", "seen_put")

\* Mutant: the cursor stays.
seen_write_not(t) == pc[t] = "seen_put" /\ Write(t, call[t].doc, "idle")

seen_write(t) ==
    /\ pc[t] = "seen_put"
    /\ Write(t, [call[t].doc EXCEPT !.cursor = call[t].latest], "idle")

------------------------------------------------------------------------------
(* The API, users, time and failures.                                      *)

decide_load(t) ==
    /\ decisions < MaxDecisions /\ decisions' = decisions + 1
    /\ row.status # "absent"
    /\ \E a \in Decision : Begin(t, "decide_put", [Loaded EXCEPT !.action = a])
    /\ UNCHANGED <<runs, faults>>

\* decide_proposal accepts every status.
decide_write(t) ==
    /\ pc[t] = "decide_put"
    /\ Write(t, [call[t].doc EXCEPT !.status = Decided[call[t].action]], "idle")

Comment ==
    /\ Len(comments) < MaxComments
    /\ row.issue
    /\ \E a \in Asks : comments' = Append(comments, a)
    /\ UNCHANGED <<row, due, replies, tasks, pc, call, overtaken, counters>>

CooldownEnds ==
    /\ ~due /\ row.status # "absent"
    /\ due' = TRUE
    /\ UNCHANGED <<row, comments, replies, tasks, pc, call, overtaken, counters>>

Crash ==
    /\ faults < MaxFaults /\ faults' = faults + 1
    /\ \E t \in Thread : pc[t] # "idle"
    /\ pc' = [t \in Thread |-> "idle"]
    /\ call' = [t \in Thread |-> NoCall]
    /\ overtaken' = [t \in Thread |-> FALSE]
    /\ UNCHANGED <<row, world, runs, decisions>>

Step(t) ==
    \/ ensure_load(t) \/ ensure_write(t) \/ ensure_issue(t) \/ link_write(t)
    \/ upsert_proposal(t) \/ materialize(t) \/ find_existing_task(t) \/ ensure_task_record(t)
    \/ mark_load(t) \/ mark_proposal_materialized(t)
    \/ read_comments(t) \/ apply_load(t) \/ apply_write(t) \/ reply(t)
    \/ seen_load(t) \/ seen_write(t) \/ decide_write(t)

Next ==
    \/ \E t \in Thread : Step(t) \/ collect(t) \/ claim(t) \/ decide_load(t)
    \/ Comment \/ CooldownEnds \/ Crash

\* A call that has started goes on, and the discussion loop claims again and
\* again.
Fairness ==
    /\ \A t \in Thread : WF_vars(Step(t))
    /\ WF_vars(\E t \in Thread : claim(t))

Spec == Init /\ [][Next]_vars
LiveSpec == Spec /\ Fairness

------------------------------------------------------------------------------
(* What the store promises.                                                *)

Permitted(status) ==
    status \in IF RequiresApproval THEN {"APPROVED"}
               ELSE {"COLLECTING", "PENDING_CONFIRMATION", "APPROVED"}

\* A task is created only after the cooldown and while the proposal's status
\* permits it, unless another call changed the proposal under the run that
\* creates it.
OnlyPermittedWork ==
    [][tasks' # tasks =>
          \/ due /\ Permitted(row.status)
          \/ \E t \in Thread : pc[t] = "create" /\ pc'[t] # "create" /\ overtaken[t]]_vars

\* "Marked REJECTED, it will not go into development": a rejection stands until
\* the API decides otherwise, against every call that no other call overtook.
RejectionStands ==
    [][row.status = "REJECTED" /\ row'.status # "REJECTED" =>
          \E t \in Thread :
             /\ pc'[t] # pc[t]
             /\ pc[t] = "decide_put" \/ overtaken[t]]_vars

\* A work item has one task, however often its proposal is collected and
\* wherever a run ends, unless two planners overlap.
NoDuplicateTask ==
    [][\A i \in 1 .. Items : tasks'[i] > 1 /\ tasks'[i] # tasks[i] =>
          \E t \in Thread : pc[t] = "create" /\ pc'[t] # "create" /\ overtaken[t]]_vars

\* A user's comment is answered, and the cursor passes it only with a reply that
\* names it or a later one, whatever fails or overlaps between the claim and the
\* reply, unless the proposal is closed.
CommentAnswered ==
    \A n \in 1 .. MaxComments :
       Len(comments) >= n ~>
          \/ row.cursor >= n /\ row.cursor \in replies
          \/ row.status \in {"REJECTED", "MATERIALIZED"}
==============================================================================
