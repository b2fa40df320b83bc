------------------------------ MODULE Recovery ------------------------------
(***************************************************************************)
(* What the control plane tells of tasks and runs, and the recovery that   *)
(* restarts tasks after a stop.                                            *)
(*                                                                         *)
(* A recovery lists the ledgers once and then takes the open tasks one     *)
(* after the other: a task of a team is coded, which may take long, any    *)
(* other gets a row "run-<task>" and an agent that stands for an executor. *)
(* A client gives up after a minute and may ask again, so recoveries       *)
(* overlap.  Meanwhile workers and users change ledgers and rows.  A       *)
(* status page reads the rows first and the ledgers later, and compares.   *)
(*                                                                         *)
(* A row carries a project and a workstream: /v1/runs/start takes them     *)
(* from the request and not from the task ("here" when they are the same). *)
(***************************************************************************)
EXTENDS Integers, FiniteSets

CONSTANTS
    Task,
    TeamTask,     \* tasks whose orchestration names a team
    Resumer,      \* requests to resume
    MaxChanges,   \* bound: edits of ledgers
    MaxRuns,      \* bound: changes of rows by others
    MaxResumes,   \* bound: recoveries
    MaxFaults     \* bound: stops of the control plane

TaskState == {"absent", "intake", "doing", "blocked", "closed"}
RunState == {"absent", "RUNNING", "PAUSED", "DONE"}
Ledger == [state : TaskState, pm : BOOLEAN]

VARIABLES
    ledger,
    rows,        \* "run-<task>"
    coding,      \* "run-<task>::team:<team>:coding"
    guardians,   \* agents with the role Process-Guardian that are RUNNING, by task
    locks,       \* tasks being coded
    pc, at,
    seen,        \* of a recovery: the tasks it has still to take, as it listed them
    active,      \* the status page: runs it found active, as pairs of a task and "here"
    snapshot,    \* the last scan: tasks it showed open and without a gate, unless they changed
    changed,     \* tasks changed since a request listed them
    fresh,       \* tasks not changed since the last scan
    cured,       \* tasks whose row a recovery wrote, and nobody since
    owed,        \* of those, the ones there were when the status page read the rows
    raced,       \* tasks two recoveries saw without a guardian
    changes, starts, resumes, faults

vars == <<ledger, rows, coding, guardians, locks, pc, at, seen, active, snapshot,
          changed, fresh, cured, owed, raced, changes, starts, resumes, faults>>
page == <<active, owed>>
counters == <<changes, starts, resumes, faults>>
requests == <<at, seen>>

Status == "status"

TypeOK ==
    /\ ledger \in [Task -> Ledger]
    /\ rows \in [Task -> [state : RunState, here : BOOLEAN]]
    /\ coding \in [Task -> {"absent", "RUNNING", "DONE"}]
    /\ guardians \in [Task -> Nat] /\ locks \subseteq Task
    /\ pc \in [Resumer \cup {Status} -> {"idle", "next", "row", "look", "register", "coding", "rows"}]
    /\ at \in [Resumer -> Task]
    /\ seen \in [Resumer -> UNION {[S -> Ledger] : S \in SUBSET Task}]
    /\ active \subseteq Task \X BOOLEAN
    /\ snapshot \subseteq Task
    /\ changed \in [Resumer -> SUBSET Task]
    /\ fresh \subseteq Task /\ cured \subseteq Task /\ owed \subseteq Task /\ raced \subseteq Task
    /\ changes \in Nat /\ starts \in Nat /\ resumes \in Nat /\ faults \in Nat

NoLedger == [state |-> "absent", pm |-> FALSE]
Nothing == [t \in {} |-> NoLedger]
NoTask == CHOOSE t \in Task : TRUE

\* Tasks of a team were written by its planner; the other ones are created here.
Init ==
    /\ ledger = [t \in Task |->
                   IF t \in TeamTask THEN [state |-> "doing", pm |-> FALSE] ELSE NoLedger]
    /\ rows = [t \in Task |-> [state |-> "absent", here |-> TRUE]]
    /\ coding = [t \in Task |-> "absent"] /\ guardians = [t \in Task |-> 0] /\ locks = {}
    /\ pc = [p \in Resumer \cup {Status} |-> "idle"]
    /\ at = [r \in Resumer |-> NoTask] /\ seen = [r \in Resumer |-> Nothing]
    /\ active = {}
    /\ snapshot = {}
    /\ changed = [r \in Resumer |-> {}] /\ fresh = {}
    /\ cured = {} /\ owed = {} /\ raced = {}
    /\ changes = 0 /\ starts = 0 /\ resumes = 0 /\ faults = 0

Goto(p, label) == pc' = [pc EXCEPT ![p] = label]

------------------------------------------------------------------------------
(* Ledgers and rows change.                                                *)

Changed(t) ==
    /\ changed' = [r \in Resumer |-> IF pc[r] = "idle" THEN {} ELSE changed[r] \cup {t}]
    /\ fresh' = fresh \ {t} /\ snapshot' = snapshot \ {t}
    /\ UNCHANGED <<rows, coding, guardians, locks, pc, requests, page, cured, raced, starts,
                   resumes, faults>>

\* The pipeline writes the ledger of a new task.
v1_tasks_new(t) ==
    /\ ledger[t].state = "absent"
    /\ ledger' = [ledger EXCEPT ![t] = [state |-> "intake", pm |-> FALSE]]
    /\ Changed(t) /\ UNCHANGED changes

\* A worker, a user or a tool edits a ledger.
edit(t) ==
    /\ ledger[t].state # "absent"
    /\ changes < MaxChanges /\ changes' = changes + 1
    /\ \E doc \in [state : TaskState \ {"absent", "intake"}, pm : BOOLEAN] :
        /\ doc # ledger[t]
        /\ ledger' = [ledger EXCEPT ![t] = doc]
    /\ Changed(t)

set_run(t, state, here) == rows' = [rows EXCEPT ![t] = [state |-> state, here |-> here]]

\* A run is started for a task that there is, paused, or ends.
v1_run_start(t, here) ==
    /\ ledger[t].state # "absent"
    /\ set_run(t, "RUNNING", here)

other_run(t) ==
    /\ starts < MaxRuns /\ starts' = starts + 1
    /\ \/ \E here \in BOOLEAN : v1_run_start(t, here)
       \/ /\ rows[t].state = "RUNNING"
          /\ \E s \in {"PAUSED", "DONE"} : set_run(t, s, rows[t].here)
    /\ cured' = cured \ {t}
    /\ UNCHANGED <<ledger, coding, guardians, locks, pc, requests, page, snapshot, changed, fresh,
                   raced, changes, resumes, faults>>

------------------------------------------------------------------------------
(* The status page.  What it answers is read off when it answers.          *)

_TASK_STATE_IN_PROGRESS == {"doing"}
_RUN_STATE_ACTIVE == {"RUNNING", "PAUSED"}

\* Both kinds of row name the task in their id.
list_runs ==
    {<<t, rows[t].here>> : t \in {t \in Task : rows[t].state \in _RUN_STATE_ACTIVE}}
      \cup {<<t, TRUE>> : t \in {t \in Task : coding[t] \in _RUN_STATE_ACTIVE}}

_load_tasks_summary == {t \in Task : ledger[t].state # "absent"}

_task_run_sync_summary ==
    LET busy == {t \in _load_tasks_summary : ledger[t].state \in _TASK_STATE_IN_PROGRESS}
    IN [missing |-> {t \in busy : <<t, TRUE>> \notin active},
        orphan  |-> {t \in Task : \E here \in BOOLEAN :
                       <<t, here>> \in active /\ ~(here /\ t \in busy)}]

read_runs ==
    /\ pc[Status] = "idle"
    /\ active' = list_runs /\ owed' = cured
    /\ Goto(Status, "rows")
    /\ UNCHANGED <<ledger, rows, coding, guardians, locks, requests, snapshot, changed, fresh, cured,
                   raced, counters>>

v1_status ==
    /\ pc[Status] = "rows"
    /\ Goto(Status, "idle")
    /\ active' = {} /\ owed' = {}
    /\ UNCHANGED <<ledger, rows, coding, guardians, locks, requests, snapshot, changed, fresh, cured,
                   raced, counters>>

------------------------------------------------------------------------------
(* The scan, and the recovery.                                             *)

Open(doc) == doc.state \notin {"absent", "closed"}

gates_of_scan(doc) ==
    (IF doc.state = "blocked" THEN {"BLOCKED"} ELSE {})
      \cup (IF doc.pm THEN {"NEED_PM_DECISION"} ELSE {})

v1_recovery_scan ==
    /\ snapshot' = {t \in Task : Open(ledger[t]) /\ gates_of_scan(ledger[t]) = {}}
    /\ fresh # Task /\ fresh' = Task
    /\ UNCHANGED <<ledger, rows, coding, guardians, locks, pc, requests, page, changed, cured, raced,
                   counters>>

\* Mutant: the copy of the function forgets the decisions that are due.
gates_without_decisions(doc) == IF doc.state = "blocked" THEN {"BLOCKED"} ELSE {}

_gates_for_task(doc) ==
    IF doc.state = "closed" THEN {"CLOSED"}
    ELSE (IF doc.state = "blocked" THEN {"BLOCKED"} ELSE {})
           \cup (IF doc.pm THEN {"NEED_PM_DECISION"} ELSE {})

\* All open tasks, or the one that was asked for.
v1_recovery_resume(r) ==
    /\ pc[r] = "idle" /\ resumes < MaxResumes /\ resumes' = resumes + 1
    /\ LET open == {t \in _load_tasks_summary : Open(ledger[t])} IN
       \E target \in {open} \cup {{t} : t \in open} :
         seen' = [seen EXCEPT ![r] = [t \in target |-> ledger[t]]]
    /\ changed' = [changed EXCEPT ![r] = {}]
    /\ Goto(r, "next")
    /\ UNCHANGED <<ledger, rows, coding, guardians, locks, at, page, snapshot, fresh, cured, raced,
                   changes, starts, faults>>

\* A team's task whose lock is taken counts as resumed.
resume_next(r) ==
    /\ pc[r] = "next"
    /\ \E t \in DOMAIN seen[r] :
        /\ seen' = [seen EXCEPT ![r] = [u \in DOMAIN seen[r] \ {t} |-> seen[r][u]]]
        /\ at' = [at EXCEPT ![r] = t]
        /\ \/ /\ _gates_for_task(seen[r][t]) # {} \/ t \in TeamTask \cap locks
              /\ Goto(r, "next") /\ UNCHANGED <<locks, coding>>
           \/ /\ _gates_for_task(seen[r][t]) = {} /\ t \notin TeamTask
              /\ Goto(r, "row") /\ UNCHANGED <<locks, coding>>
           \/ /\ _gates_for_task(seen[r][t]) = {} /\ t \in TeamTask \ locks
              /\ locks' = locks \cup {t} /\ coding' = [coding EXCEPT ![t] = "RUNNING"]
              /\ Goto(r, "coding")
    /\ UNCHANGED <<ledger, rows, guardians, page, snapshot, changed, fresh, cured, raced, counters>>

_run_team_coding_iteration(r) ==
    /\ pc[r] = "coding"
    /\ coding' = [coding EXCEPT ![at[r]] = "DONE"]
    /\ locks' = locks \ {at[r]}
    /\ Goto(r, "next")
    /\ UNCHANGED <<ledger, rows, guardians, requests, page, snapshot, changed, fresh, cured, raced, counters>>

write_row(r) ==
    /\ pc[r] = "row"
    /\ set_run(at[r], "RUNNING", TRUE)
    /\ cured' = cured \cup {at[r]}
    /\ Goto(r, "look")
    /\ UNCHANGED <<ledger, coding, guardians, locks, requests, page, snapshot, changed, fresh, raced, counters>>

\* Only a task without a guardian gets one.
look(r) ==
    /\ pc[r] = "look"
    /\ Goto(r, IF guardians[at[r]] > 0 THEN "next" ELSE "register")
    /\ raced' = IF \E q \in Resumer \ {r} : pc[q] = "register" /\ at[q] = at[r]
                THEN raced \cup {at[r]} ELSE raced
    /\ UNCHANGED <<ledger, rows, coding, guardians, locks, requests, page, snapshot, changed, fresh,
                   cured, counters>>

register_agent(r) ==
    /\ pc[r] = "register"
    /\ guardians' = [guardians EXCEPT ![at[r]] = @ + 1]
    /\ Goto(r, "next")
    /\ UNCHANGED <<ledger, rows, coding, locks, requests, page, snapshot, changed, fresh, cured, raced, counters>>

resume_done(r) ==
    /\ pc[r] = "next" /\ DOMAIN seen[r] = {}
    /\ Goto(r, "idle")
    /\ at' = [at EXCEPT ![r] = NoTask] /\ changed' = [changed EXCEPT ![r] = {}]
    /\ UNCHANGED <<ledger, rows, coding, guardians, locks, seen, page, snapshot, fresh, cured, raced,
                   counters>>

\* Rows and agents survive a stop of the control plane.
crash ==
    /\ faults < MaxFaults /\ faults' = faults + 1
    /\ pc' = [p \in Resumer \cup {Status} |-> "idle"]
    /\ locks' = {} /\ active' = {} /\ owed' = {}
    /\ at' = [r \in Resumer |-> NoTask] /\ seen' = [r \in Resumer |-> Nothing]
    /\ changed' = [r \in Resumer |-> {}]
    /\ UNCHANGED <<ledger, rows, coding, guardians, snapshot, fresh, cured, raced,
                   changes, starts, resumes>>

Next ==
    \/ \E t \in Task : v1_tasks_new(t) \/ edit(t) \/ other_run(t)
    \/ read_runs \/ v1_status \/ v1_recovery_scan
    \/ \E r \in Resumer :
        \/ v1_recovery_resume(r) \/ resume_next(r) \/ _run_team_coding_iteration(r)
        \/ write_row(r) \/ look(r) \/ register_agent(r) \/ resume_done(r)
    \/ crash

Spec == Init /\ [][Next]_vars

------------------------------------------------------------------------------
(* A task that is resumed was open, not blocked and awaiting no decision,  *)
(* unless its ledger changed after the recovery listed it.  If it did not  *)
(* change since the last scan either, the scan showed it without a gate.   *)
GatesStand ==
    \A r \in Resumer : pc[r] \in {"row", "look", "register", "coding"} =>
      \/ at[r] \in changed[r]
      \/ /\ ledger[at[r]].state \notin {"absent", "blocked", "closed"} /\ ~ledger[at[r]].pm
         /\ at[r] \in fresh => at[r] \in snapshot

(* A task has one guardian, however often it is resumed, unless two        *)
(* recoveries saw it without one.                                          *)
OneGuardian == \A t \in Task : guardians[t] > 1 => t \in raced

(* A task in progress that was resumed is not reported to miss its run     *)
(* until somebody else changes that run.                                   *)
CuredIsNotMissing ==
    pc[Status] = "rows" => _task_run_sync_summary.missing \cap owed = {}

RecoveryHolds == GatesStand /\ OneGuardian /\ CuredIsNotMissing
=============================================================================
