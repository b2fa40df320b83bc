------------------------------- MODULE Issues -------------------------------
(***************************************************************************)
(* Task records, their GitHub issues and the milestone that counts them.   *)
(*                                                                         *)
(* A planner finds or creates the issue of a work item, saves the record   *)
(* and synchronises it; a delivery writes a new status and synchronises    *)
(* it.  To synchronise is to count the records of the milestone, to keep   *)
(* the issue that tracks its release, and to write its row.  After that    *)
(* sync_task_issue_from_doc calls create_issue_comment, a name its module  *)
(* does not have: the callers swallow the NameError, and the task's issue  *)
(* is left as it is.  An issue is found again by a marker in its text.     *)
(* Every GitHub call may fail.  A step ends with a GitHub call that counts *)
(* or with a read or write of records.  All tasks share one milestone;     *)
(* titles, texts and dates are left out.                                   *)
(***************************************************************************)
EXTENDS Naturals, FiniteSets, Sequences

CONSTANTS
    Thread,
    Task,
    MaxIssues,    \* bound: issues created
    MaxUpdates,   \* bound: runs of a planner or a delivery
    MaxFaults     \* bound: failed or repeated GitHub calls, stops of a thread

Release == "release"
Subject == Task \cup {Release}

Number == 0 .. MaxIssues    \* an issue, 0 for none

\* The stage label: ensure_issue and the update after it know an empty record only.
Issue == [about : Subject, open : BOOLEAN, stage : {"queued", "none"}]
NewIssue(about) == [about |-> about, open |-> TRUE,
                    stage |-> IF about = Release THEN "none" ELSE "queued"]

\* A status that neither blocks a milestone nor is done counts as "todo".
Record == [status : {"absent", "todo", "blocked", "closed"}, link : Number]
NoRecord == [status |-> "absent", link |-> 0]

Counts == [total : 0 .. Cardinality(Task), blocked : 0 .. Cardinality(Task),
           done : 0 .. Cardinality(Task)]
NoCounts == [total |-> 0, blocked |-> 0, done |-> 0]

MilestoneState == {"draft", "active", "blocked", "release-candidate"}
Row == [state : MilestoneState, counts : Counts]

Label == {"idle", "load", "search", "create", "patch", "save", "write", "comment", "count",
          "upsert", "again", "close"}

Call ==
    [task    : Subject,       \* Release when there is none
     status  : {"todo", "blocked", "closed"},   \* what a delivery writes
     record  : Record,
     about   : Subject,       \* what ensure_issue looks for
     found   : Number,
     then    : {"save", "upsert", "close"},     \* what follows ensure_issue
     counts  : Counts]

VARIABLES
    record,    \* the tasks' records
    issues,    \* the issues of the repository, by number
    row,       \* the milestone
    pc, call,
    alone,     \* threads whose counts nobody has crossed
    behind,    \* a change of a record has not reached the row, or may not have
    doubled,   \* subjects whose creation was crossed, repeated or not found by the search
    updates, faults

vars == <<record, issues, row, pc, call, alone, behind, doubled, updates, faults>>
history == <<alone, behind, doubled>>

TypeOK ==
    /\ record \in [Task -> Record]
    /\ issues \in Seq(Issue) /\ Len(issues) <= MaxIssues
    /\ row \in Row
    /\ pc \in [Thread -> Label] /\ call \in [Thread -> Call]
    /\ alone \subseteq Thread /\ behind \in BOOLEAN /\ doubled \subseteq Subject
    /\ updates \in 0 .. MaxUpdates /\ faults \in 0 .. MaxFaults

NoCall == [task |-> Release, status |-> "todo", record |-> NoRecord,
           about |-> Release, found |-> 0, then |-> "close", counts |-> NoCounts]

Init ==
    /\ record = [t \in Task |-> NoRecord]
    /\ issues = <<>>
    /\ row = [state |-> "draft", counts |-> NoCounts]
    /\ pc = [p \in Thread |-> "idle"] /\ call = [p \in Thread |-> NoCall]
    /\ alone = {} /\ behind = FALSE /\ doubled = {}
    /\ updates = 0 /\ faults = 0

Goto(p, label) == pc' = [pc EXCEPT ![p] = label]
Set(p, c) == call' = [call EXCEPT ![p] = c]

\* Threads that have changed a record and not written the row yet, and those of
\* them that have counted.
Counted(q) == pc[q] = "upsert" \/ (pc[q] \in {"search", "create", "patch"} /\ call[q].then = "upsert")
Syncing(q) == pc[q] \in {"comment", "count"} \/ Counted(q)

------------------------------------------------------------------------------
(* ensure_issue, update_issue.                                             *)

\* A change of a record is not counted when its writer stops before it counts, and
\* another's counts may be older than the change.
Unsynced(p) ==
    /\ behind' = (behind \/ Syncing(p))
    /\ alone' = IF Syncing(p) THEN {} ELSE alone \ {p}

\* Where a call goes on when ensure_issue has returned an issue, or an error.  A
\* planner and a milestone do without; a record without an issue is written again
\* after the error, while the NameError forgets an issue that was found.
Ensured(p, number) ==
    /\ Goto(p, IF call[p].then = "close" /\ number = 0 THEN "again" ELSE call[p].then)
    /\ Set(p, [call[p] EXCEPT !.found = number])

\* Mutant: those that are open.
Marked_open(about) == {n \in DOMAIN issues : issues[n].about = about /\ issues[n].open}

\* The issues of a subject that carry its marker.
Marked(about) == {n \in DOMAIN issues : issues[n].about = about}

search_issue_by_marker(p) ==
    /\ pc[p] = "search"
    /\ LET hits == Marked(call[p].about) IN
       \/ /\ hits # {}
          /\ \E n \in hits : Set(p, [call[p] EXCEPT !.found = n])
          /\ Goto(p, "patch")
          /\ UNCHANGED <<doubled, faults>>
       \/ /\ hits = {}
          /\ Set(p, [call[p] EXCEPT !.found = 0]) /\ Goto(p, "create")
          /\ doubled' = IF \E q \in Thread \ {p} : pc[q] = "create" /\ call[q].about = call[p].about
                        THEN doubled \cup {call[p].about}
                        ELSE doubled
          /\ UNCHANGED faults
       \/ \* The search does not know a new issue yet.
          /\ hits # {} /\ faults < MaxFaults /\ faults' = faults + 1
          /\ Set(p, [call[p] EXCEPT !.found = 0]) /\ Goto(p, "create")
          /\ doubled' = doubled \cup {call[p].about}
    /\ UNCHANGED <<record, issues, row, alone, behind, updates>>

\* _request sends a POST again when the answer was a gateway's error.
create_issue(p) ==
    /\ pc[p] = "create"
    /\ \E n \in 1 .. 2 :
        /\ n = 1 \/ faults < MaxFaults
        /\ Len(issues) + n <= MaxIssues
        /\ faults' = faults + n - 1
        /\ issues' = issues \o [i \in 1 .. n |-> NewIssue(call[p].about)]
        /\ doubled' = IF n = 2 THEN doubled \cup {call[p].about} ELSE doubled
        /\ Set(p, [call[p] EXCEPT !.found = Len(issues) + n])
    /\ Goto(p, "patch")
    /\ UNCHANGED <<record, row, alone, behind, updates>>

update_issue(p) ==
    /\ pc[p] = "patch"
    /\ issues' = [issues EXCEPT ![call[p].found] = NewIssue(call[p].about)]
    /\ Ensured(p, call[p].found)
    /\ UNCHANGED <<record, row, history, updates, faults>>

ensure_fails(p) ==
    /\ pc[p] \in {"search", "create", "patch"}
    /\ faults < MaxFaults /\ faults' = faults + 1
    /\ \/ Ensured(p, 0) /\ UNCHANGED <<alone, behind>>
       \/ \* An error that only sync's caller catches, such as a timeout.
          /\ call[p].then # "save"
          /\ Goto(p, "close") /\ UNCHANGED call /\ Unsynced(p)
    /\ UNCHANGED <<record, issues, row, doubled, updates>>

------------------------------------------------------------------------------
(* sync_task_issue_from_doc.                                               *)

milestone_task_summary ==
    LET counted == {t \in Task : record[t].status # "absent"} IN
    [total   |-> Cardinality(counted),
     blocked |-> Cardinality({t \in counted : record[t].status = "blocked"}),
     done    |-> Cardinality({t \in counted : record[t].status = "closed"})]

milestone_state_from_metrics(c) ==
    IF c.total = 0 THEN "draft"
    ELSE IF c.blocked > 0 /\ c.done < c.total THEN "blocked"
    ELSE IF c.done >= c.total THEN "release-candidate" ELSE "active"

sync_milestone_count(p) ==
    /\ pc[p] = "count"
    /\ Set(p, [call[p] EXCEPT !.counts = milestone_task_summary,
                              !.about = Release, !.then = "upsert", !.found = 0])
    /\ Goto(p, "search")
    /\ LET others == {q \in Thread \ {p} : Counted(q)} IN
       /\ alone' = IF others = {} THEN alone \cup {p} ELSE alone \ others
       /\ behind' = (behind \/ others # {})
    /\ UNCHANGED <<record, issues, row, doubled, updates, faults>>

\* The row is written, and the record's issue looked for if it has none.
upsert_runtime_milestone(p) ==
    /\ pc[p] = "upsert"
    /\ LET c == call[p] IN
       /\ row' = [state |-> milestone_state_from_metrics(c.counts), counts |-> c.counts]
       /\ Set(p, [c EXCEPT !.about = c.task, !.then = "close", !.found = c.record.link,
                           !.counts = NoCounts])
       /\ Goto(p, IF c.record.link = 0 THEN "search" ELSE "close")
    /\ behind' = (behind /\ p \notin alone) /\ alone' = alone \ {p}
    /\ UNCHANGED <<record, issues, doubled, updates, faults>>

------------------------------------------------------------------------------
(* The planner: _record_from_materialized_item.                            *)

materialize(p, t) ==
    /\ pc[p] = "idle" /\ updates < MaxUpdates /\ updates' = updates + 1
    /\ Set(p, [NoCall EXCEPT !.task = t, !.about = t, !.then = "save"])
    /\ Goto(p, "search")
    /\ UNCHANGED <<record, issues, row, history, faults>>

ensure_task_record(p) ==
    /\ pc[p] = "save"
    /\ LET new == [status |-> "todo", link |-> call[p].found] IN
       /\ record' = [record EXCEPT ![call[p].task] = new]
       /\ Set(p, [call[p] EXCEPT !.record = new])
    /\ Goto(p, "count")
    /\ UNCHANGED <<issues, row, history, updates, faults>>

------------------------------------------------------------------------------
(* The delivery: _update_task_state, _close_bug_task.                      *)

\* A delivery works on the record as it was when it began.
load_record(p, t, status) ==
    /\ pc[p] = "idle" /\ updates < MaxUpdates /\ updates' = updates + 1
    /\ record[t].status \notin {"absent", "closed"}
    /\ Set(p, [NoCall EXCEPT !.task = t, !.status = status, !.record = record[t]])
    /\ Goto(p, "write")
    /\ UNCHANGED <<record, issues, row, history, faults>>

update_task_state(p) ==
    /\ pc[p] = "write"
    /\ LET new == [call[p].record EXCEPT !.status = call[p].status] IN
       /\ record' = [record EXCEPT ![call[p].task] = new]
       /\ Set(p, [call[p] EXCEPT !.record = new])
       /\ Goto(p, IF new.link = 0 THEN "count" ELSE "comment")
    /\ UNCHANGED <<issues, row, history, updates, faults>>

\* _write_yaml once more, when no issue could be made for the record.
write_again(p) ==
    /\ pc[p] = "again"
    /\ record' = [record EXCEPT ![call[p].task] = call[p].record]
    /\ behind' = (behind \/ record' # record)
    /\ alone' = IF record' # record THEN {} ELSE alone
    /\ Goto(p, "close") /\ UNCHANGED call
    /\ UNCHANGED <<issues, row, doubled, updates, faults>>

\* The comment on the issue: when it fails, nothing is synchronised.
issue_comment(p) ==
    /\ pc[p] = "comment"
    /\ \/ Goto(p, "count") /\ UNCHANGED <<call, alone, behind, faults>>
       \/ /\ faults < MaxFaults /\ faults' = faults + 1
          /\ Set(p, [call[p] EXCEPT !.found = call[p].record.link])
          /\ Goto(p, "close") /\ Unsynced(p)
    /\ UNCHANGED <<record, issues, row, doubled, updates>>

\* The NameError ends a planner's call and any other; the issue of a bug that was
\* closed is closed after it, unless a GitHub call fails.
close_issue_if_possible(p) ==
    /\ pc[p] = "close"
    /\ LET n == call[p].record.link IN
       \/ /\ call[p].record.status = "closed" /\ n # 0
          /\ issues' = [issues EXCEPT ![n].open = FALSE]
          /\ UNCHANGED faults
       \/ /\ call[p].record.status # "closed" \/ n = 0
          /\ UNCHANGED <<issues, faults>>
       \/ /\ call[p].record.status = "closed" /\ n # 0
          /\ faults < MaxFaults /\ faults' = faults + 1
          /\ UNCHANGED issues
    /\ Goto(p, "idle") /\ Set(p, NoCall)
    /\ UNCHANGED <<record, row, history, updates>>

\* The process stops in the middle of a call.
Crash(p) ==
    /\ pc[p] # "idle" /\ faults < MaxFaults /\ faults' = faults + 1
    /\ Goto(p, "idle") /\ Set(p, NoCall) /\ Unsynced(p)
    /\ UNCHANGED <<record, issues, row, doubled, updates>>

Next ==
    \E p \in Thread :
        \/ search_issue_by_marker(p) \/ create_issue(p) \/ update_issue(p) \/ ensure_fails(p)
        \/ sync_milestone_count(p) \/ upsert_runtime_milestone(p)
        \/ \E t \in Task : materialize(p, t)
        \/ ensure_task_record(p)
        \/ \E t \in Task, s \in {"blocked", "closed"} : load_record(p, t, s)
        \/ update_task_state(p) \/ write_again(p) \/ issue_comment(p) \/ close_issue_if_possible(p)
        \/ Crash(p)

Spec == Init /\ [][Next]_vars

------------------------------------------------------------------------------
(* Properties.                                                             *)

\* A task has one issue, and the milestone one for its release, however often
\* planners and deliveries come again, fail and stop, unless two creations have
\* crossed, one was sent twice, or the search did not know the issue yet
\* (ensure_issue).
OneIssuePerSubject ==
    \A a \in Subject : a \notin doubled => Cardinality({n \in DOMAIN issues : issues[n].about = a}) <= 1

\* Once nobody synchronises any more the milestone counts its tasks as they are,
\* and is a release candidate only when all of them are done, unless syncs have
\* crossed or a change has not been synchronised (sync_milestone_from_doc; the
\* release issue demands it: "blocked 或 needs_clarification 状态必须清零").
MilestoneInStep ==
    (~behind /\ \A q \in Thread : ~Syncing(q)) =>
        /\ row.counts = milestone_task_summary
        /\ row.state = "release-candidate" => \A t \in Task : record[t].status \in {"absent", "closed"}

=============================================================================
