------------------------------ MODULE TeamRuns ------------------------------
(***************************************************************************)
(* The runs of the control plane and the clean-up of what dead ones left.  *)
(*                                                                         *)
(* A thread runs a team, a pipeline or the coding of tasks: it marks a row *)
(* of the runs table RUNNING, works, and writes the outcome.  Team runs    *)
(* and coding hold an in-memory lock of their scope meanwhile, a project   *)
(* or a target of it; runs started by name over /v1/runs/start hold none.  *)
(* The coding of a project and of its targets has one row.  A loop, and    *)
(* every coding request before it starts, fails the rows of runs and       *)
(* agents that were not updated for a time-to-live: it lists them first    *)
(* and writes them one by one later.  Rows survive the process; locks do   *)
(* not.  The event log is a counter and the set of runs that the clean-up  *)
(* can recognise in it.                                                    *)
(***************************************************************************)
EXTENDS Integers, FiniteSets

CONSTANTS
    Thread,        \* threads that serve the API and the recovery
    Cleaner,       \* the thread of the clean-up loop
    Scope,         \* what a coding lock is taken for: a project, its targets
    CodingRun,     \* "run-<project>::team:<team>:coding", whatever the scope
    TaskRun,       \* "run-<task>", of runs started with a task
    FreshRun,      \* uuids
    Cap,           \* events that list_events returns: the oldest ones
    MaxJobs,       \* bound: jobs started
    MaxCommands,   \* bound: commands of users and recoveries
    MaxBeats,      \* bound: reports of progress by agents
    MaxCrashes     \* bound: stops of the process

Run == {CodingRun, TaskRun} \cup FreshRun
Proc == Thread \cup {Cleaner}

ASSUME TeamRunsAssumption ==
    /\ Cleaner \notin Thread
    /\ {"team", "none"} \cap Scope = {}
    /\ CodingRun # TaskRun /\ {CodingRun, TaskRun} \cap FreshRun = {}
    /\ Cap \in Nat /\ MaxJobs \in Nat /\ MaxCommands \in Nat /\ MaxBeats \in Nat
    /\ MaxCrashes \in Nat

\* PAUSED stands for STOPPED too: whoever reads a row tells neither apart from DONE.
State == {"absent", "RUNNING", "PAUSED", "DONE", "FAILED"}
Row == [state : State,
        old   : BOOLEAN,    \* last_update is older than the time-to-live
        named : BOOLEAN]    \* the objective names a team workflow

\* Of the agents of a coding job, the one with a role that the clean-up knows.  What it does
\* not know (coders, reviewers, QA) it leaves as it is, and nothing else reads it.
Agent == [state : {"absent", "RUNNING", "DONE", "FAILED"}, old : BOOLEAN]

Job == {"none", "team", "start", "coding"}
Flow == {"team", "pipeline"}
Label == {"idle", "started", "work", "ended", "runs", "agents", "lock"}

Key == {"team"} \cup Scope

Call == [job : Job, run : Run, flow : Flow, key : Key \cup {"none"}, number : 0 .. MaxJobs]

VARIABLES
    runs,      \* the runs table
    agents,    \* the agents table, by coding job
    known,     \* runs named by a RUN_* event of a team flow among the oldest Cap events
    last,      \* number of events, counted up to Cap
    locks,     \* keys held
    pc, call,
    todo,      \* what a clean-up listed and has not failed yet
    doubt,     \* runs whose row someone else wrote, or whose thread or process was cut off, since they began
    shared,    \* runs that have two threads, or that began, or were refused, while another worked on them
    jobs, commands, beats, crashes

vars == <<runs, agents, known, last, locks, pc, call, todo, doubt, shared, jobs, commands, beats, crashes>>
counters == <<jobs, commands, beats, crashes>>

NoCall == [job |-> "none", run |-> TaskRun, flow |-> "pipeline", key |-> "none", number |-> 0]
NoRow == [state |-> "absent", old |-> FALSE, named |-> FALSE]

AgentId == 1 .. MaxJobs

TypeOK ==
    /\ runs \in [Run -> Row]
    /\ agents \in [AgentId -> Agent]
    /\ known \subseteq Run
    /\ last \in 0 .. Cap
    /\ locks \subseteq Key
    /\ pc \in [Proc -> Label] /\ call \in [Thread -> Call]
    /\ todo \in [Proc -> [runs : SUBSET Run, agents : SUBSET AgentId]]
    /\ doubt \subseteq Run /\ shared \subseteq Run
    /\ jobs \in 0 .. MaxJobs /\ commands \in 0 .. MaxCommands
    /\ beats \in 0 .. MaxBeats /\ crashes \in 0 .. MaxCrashes

Nothing == [runs |-> {}, agents |-> {}]

Init ==
    /\ runs = [r \in Run |-> NoRow]
    /\ agents = [a \in AgentId |-> [state |-> "absent", old |-> FALSE]]
    /\ known = {} /\ last = 0 /\ locks = {}
    /\ pc = [p \in Proc |-> "idle"] /\ call = [t \in Thread |-> NoCall]
    /\ todo = [p \in Proc |-> Nothing]
    /\ doubt = {} /\ shared = {}
    /\ jobs = 0 /\ commands = 0 /\ beats = 0 /\ crashes = 0

------------------------------------------------------------------------------
(* The tables.                                                             *)

upsert_run(r, state, named) ==
    runs' = [runs EXCEPT ![r] = [state |-> state, old |-> FALSE, named |-> named]]

update_run_state(r, state) ==
    runs' = [runs EXCEPT ![r].state = state, ![r].old = FALSE]

update_assignment(ids, state) ==
    agents' = [a \in AgentId |->
                 IF a \in ids THEN [state |-> state, old |-> FALSE] ELSE agents[a]]

\* The events of one action count as one.
Count == last' = IF last < Cap THEN last + 1 ELSE last

add_event == Count /\ UNCHANGED known

\* RUN_STARTED, RUN_FINISHED or RUN_FAILED of run r.
add_run_event(r, flow) ==
    /\ Count
    /\ known' = IF flow = "team" /\ last < Cap THEN known \cup {r} ELSE known

Goto(p, label) == pc' = [pc EXCEPT ![p] = label]

\* A row or an agent is not updated for a time-to-live.  The age of other rows is not read.
age ==
    /\ \/ \E r \in Run :
            /\ runs[r].state = "RUNNING" /\ ~runs[r].old
            /\ runs' = [runs EXCEPT ![r].old = TRUE]
            /\ UNCHANGED agents
       \/ \E a \in AgentId :
            /\ agents[a].state = "RUNNING" /\ ~agents[a].old
            /\ agents' = [agents EXCEPT ![a].old = TRUE]
            /\ UNCHANGED runs
    /\ UNCHANGED <<known, last, locks, pc, call, todo, doubt, shared, counters>>

------------------------------------------------------------------------------
(* The clean-up, by the loop or by a coding request.                       *)

\* _is_team_run
is_team_run(r) == r \in known \/ r = CodingRun \/ runs[r].named

\* Mutant: runs are recognised by their events alone.
StaleRuns_logged == {r \in Run : runs[r].state = "RUNNING" /\ runs[r].old /\ r \in known}

StaleRuns == {r \in Run : runs[r].state = "RUNNING" /\ runs[r].old /\ is_team_run(r)}

StaleAgents == {a \in AgentId : agents[a].state = "RUNNING" /\ agents[a].old}

list_runs(p) ==
    /\ todo' = [todo EXCEPT ![p].runs = StaleRuns]
    /\ Goto(p, "runs")

\* The row is failed whatever it has become since it was listed.
fail_run(p) ==
    /\ pc[p] = "runs"
    /\ \E r \in todo[p].runs :
         /\ todo' = [todo EXCEPT ![p].runs = @ \ {r}]
         /\ update_run_state(r, "FAILED")
         /\ doubt' = doubt \cup {r}
         /\ add_event
    /\ UNCHANGED <<agents, locks, pc, call, shared, counters>>

list_agents(p) ==
    /\ pc[p] = "runs" /\ todo[p].runs = {}
    /\ todo' = [todo EXCEPT ![p].agents = StaleAgents]
    /\ Goto(p, "agents")
    /\ UNCHANGED <<runs, agents, known, last, locks, call, doubt, shared, counters>>

fail_agent(p) ==
    /\ pc[p] = "agents"
    /\ \E a \in todo[p].agents :
         /\ todo' = [todo EXCEPT ![p].agents = @ \ {a}]
         /\ update_assignment({a}, "FAILED")
         /\ add_event
    /\ UNCHANGED <<runs, locks, pc, call, doubt, shared, counters>>

cleaned(p) ==
    /\ pc[p] = "agents" /\ todo[p].agents = {}
    /\ Goto(p, IF p = Cleaner THEN "idle" ELSE "lock")
    /\ UNCHANGED <<runs, agents, known, last, locks, call, todo, doubt, shared, counters>>

\* The loop's next pass.  A pass that finds nothing is left out: it changes nothing.  One
\* that raises, which the loop catches and makes again, is left out as well.
clean ==
    /\ pc[Cleaner] = "idle"
    /\ StaleRuns # {} \/ StaleAgents # {}
    /\ list_runs(Cleaner)
    /\ UNCHANGED <<runs, agents, known, last, locks, call, doubt, shared, counters>>

------------------------------------------------------------------------------
(* run_once.  Taking a lock and the first write of the row are one step, the *)
(* last event and giving the lock back another: nothing is read in between.  *)

Take(t, c, label) ==
    /\ pc[t] = "idle" /\ jobs < MaxJobs
    /\ jobs' = jobs + 1
    /\ call' = [call EXCEPT ![t] = c]
    /\ Goto(t, label)
    /\ UNCHANGED <<commands, beats, crashes>>

NewCall(job, r, flow, k) == [job |-> job, run |-> r, flow |-> flow, key |-> k, number |-> jobs + 1]

Working(t) == pc[t] \in {"started", "work"}
WorksOn(t, r) == Working(t) /\ call[t].run = r

\* Another thread works on r and its lock does not keep t, with key k, out.
Beside(t, r, k) == \E u \in Thread \ {t} : WorksOn(u, r) /\ (call[u].key # k \/ k = "none")

\* Thread t, with key k, writes the first row of run r.
Begin(t, r, k, state, named) ==
    /\ upsert_run(r, state, named)
    /\ doubt' = doubt \ {r}
    /\ shared' = IF Beside(t, r, k) THEN shared \cup {r} ELSE shared \ {r}

\* A run begins.
upsert_begin(t, job, r, flow, k, named) ==
    /\ Take(t, NewCall(job, r, flow, k), "started")
    /\ Begin(t, r, k, "RUNNING", named)
    /\ UNCHANGED <<agents, known, last, todo>>

Absent == {r \in FreshRun : runs[r].state = "absent"}

\* /v1/teams/{id}/run: a busy team is skipped, which changes nothing.
v1_team_run(t) ==
    /\ Absent # {}
    /\ "team" \notin locks /\ locks' = locks \cup {"team"}
    /\ \E named \in BOOLEAN : upsert_begin(t, "team", CHOOSE r \in Absent : TRUE, "team", "team", named)

\* /v1/runs/start with a task: no lock, and the id of the task's run.
v1_run_start(t) ==
    /\ \E flow \in Flow, named \in BOOLEAN : upsert_begin(t, "start", TaskRun, flow, "none", named)
    /\ UNCHANGED locks

\* The engine cannot be imported, or the flow is not supported: the run fails at once.
refuse(t) ==
    /\ jobs < MaxJobs /\ pc[t] = "idle" /\ jobs' = jobs + 1
    /\ \E r \in {TaskRun} \cup Absent, flow \in Flow, named \in BOOLEAN :
         /\ r # TaskRun => flow = "team" /\ "team" \notin locks
         /\ Begin(t, r, "none", "FAILED", named)
         /\ add_run_event(r, flow) \/ UNCHANGED <<known, last>>
    /\ UNCHANGED <<agents, locks, pc, call, todo, commands, beats, crashes>>

\* RUN_STARTED, and the events of a pipeline.
started(t) ==
    /\ pc[t] = "started"
    /\ add_run_event(call[t].run, call[t].flow)
    /\ Goto(t, "work")
    /\ UNCHANGED <<runs, agents, locks, call, todo, doubt, shared, counters>>

\* The runtime returns or raises; the row is written, then the event.
finish(t) ==
    /\ pc[t] = "work" /\ call[t].job # "coding"
    /\ \E state \in {"DONE", "FAILED"} : update_run_state(call[t].run, state)
    /\ Goto(t, "ended")
    /\ UNCHANGED <<agents, known, last, locks, call, todo, doubt, shared, counters>>

Return(t) ==
    /\ call' = [call EXCEPT ![t] = NoCall]
    /\ Goto(t, "idle")

\* RUN_FINISHED or RUN_FAILED, and TEAM_CODING_SWEEP_FAILED, which may fail to be written;
\* then the caller's lock.
ended(t) ==
    /\ pc[t] = "ended"
    /\ \/ IF call[t].job = "coding" THEN add_event ELSE add_run_event(call[t].run, call[t].flow)
       \/ UNCHANGED <<known, last>>
    /\ locks' = locks \ {call[t].key}
    /\ Return(t)
    /\ UNCHANGED <<runs, agents, todo, doubt, shared, counters>>

------------------------------------------------------------------------------
(* The coding of tasks.                                                    *)

v1_team_coding_run(t) ==
    /\ \E k \in Scope : Take(t, NewCall("coding", CodingRun, "team", k), "runs")
    /\ todo' = [todo EXCEPT ![t].runs = StaleRuns]
    /\ UNCHANGED <<runs, agents, known, last, locks, doubt, shared>>

\* Mutant: the sweep takes the coding row whoever holds the lock.
coding_begin_unlocked(t) ==
    /\ pc[t] = "lock"
    /\ locks' = locks \cup {call[t].key}
    /\ Begin(t, CodingRun, call[t].key, "RUNNING", FALSE)
    /\ Goto(t, "work")
    /\ UNCHANGED <<agents, known, last, call, todo, counters>>

\* The lock, the row, and the agent.
coding_begin(t) ==
    /\ pc[t] = "lock" /\ call[t].key \notin locks
    /\ locks' = locks \cup {call[t].key}
    /\ Begin(t, CodingRun, call[t].key, "RUNNING", FALSE)
    /\ update_assignment({call[t].number}, "RUNNING")
    /\ Goto(t, "work")
    /\ UNCHANGED <<known, last, call, todo, counters>>

\* The row is written behind the lock and before the try: if that fails, nobody gives the
\* lock back while the process lives.
coding_row_fails(t) ==
    /\ pc[t] = "lock" /\ call[t].key \notin locks
    /\ locks' = locks \cup {call[t].key}
    /\ Return(t)
    /\ UNCHANGED <<runs, agents, known, last, todo, doubt, shared, counters>>

coding_busy(t) ==
    /\ pc[t] = "lock" /\ call[t].key \in locks
    /\ add_event
    /\ Return(t)
    /\ UNCHANGED <<runs, agents, locks, todo, doubt, shared, counters>>

\* The agent begins a stage of the delivery.
beat(t) ==
    /\ pc[t] = "work" /\ call[t].job = "coding" /\ beats < MaxBeats
    /\ beats' = beats + 1
    /\ update_assignment({call[t].number}, "RUNNING")
    /\ UNCHANGED <<runs, known, last, locks, pc, call, todo, doubt, shared, jobs, commands, crashes>>

\* The delivery returns or raises; its agent has been finished.
coding_finish(t) ==
    /\ pc[t] = "work" /\ call[t].job = "coding"
    /\ \E state \in {"DONE", "FAILED"} :
         /\ upsert_run(CodingRun, state, FALSE)
         /\ update_assignment({call[t].number}, state)
         /\ \/ Goto(t, "ended") /\ state = "FAILED" /\ UNCHANGED <<locks, call>>
            \/ Return(t) /\ locks' = locks \ {call[t].key}
    /\ UNCHANGED <<known, last, todo, doubt, shared, counters>>

\* What is outside of every try raises: an event or a pipeline of a run, the write of the
\* outcome.  The row is left as it is; the caller gives its lock back.
cut_off(t) ==
    /\ Working(t)
    /\ IF call[t].job = "coding" THEN \E state \in {"DONE", "FAILED"} : update_assignment({call[t].number}, state)
                                 ELSE UNCHANGED agents
    /\ doubt' = doubt \cup {call[t].run}
    /\ locks' = locks \ {call[t].key}
    /\ Return(t)
    /\ UNCHANGED <<runs, known, last, todo, shared, counters>>

------------------------------------------------------------------------------
(* Commands over the chat, recovery, and stops of the process.             *)

Command ==
    /\ commands < MaxCommands /\ commands' = commands + 1
    /\ add_event
    /\ UNCHANGED <<agents, locks, pc, call, todo, shared, jobs, beats, crashes>>

\* PAUSE, RESUME and STOP write the row; nothing reads it back to stop the run.
v1_chat ==
    /\ \E r \in Run, state \in {"PAUSED", "RUNNING"} :
         /\ IF runs[r].state = "absent" THEN r = TaskRun /\ upsert_run(r, state, FALSE)
                                        ELSE update_run_state(r, state)
         /\ doubt' = doubt \cup {r}
    /\ Command

\* A task that no team codes gets a RUNNING row, though nothing runs it.
v1_recovery_resume ==
    /\ upsert_run(TaskRun, "RUNNING", FALSE)
    /\ doubt' = doubt \cup {TaskRun}
    /\ Command

Crash ==
    /\ crashes < MaxCrashes /\ crashes' = crashes + 1
    /\ locks' = {}
    /\ pc' = [p \in Proc |-> "idle"] /\ call' = [t \in Thread |-> NoCall]
    /\ todo' = [p \in Proc |-> Nothing]
    /\ doubt' = doubt \cup {call[t].run : t \in {u \in Thread : Working(u)}}
    /\ shared' = {}
    /\ UNCHANGED <<runs, agents, known, last, jobs, commands, beats>>

Clean(p) == fail_run(p) \/ list_agents(p) \/ fail_agent(p) \/ cleaned(p)

Step(t) ==
    \/ started(t) \/ finish(t) \/ ended(t)
    \/ coding_begin(t) \/ coding_row_fails(t) \/ coding_busy(t) \/ coding_finish(t)
    \/ cut_off(t)

Next ==
    \/ \E t \in Thread : v1_team_run(t) \/ v1_run_start(t) \/ refuse(t) \/ v1_team_coding_run(t)
    \/ \E t \in Thread : Step(t) \/ beat(t)
    \/ \E p \in Proc : Clean(p)
    \/ clean \/ age
    \/ v1_chat \/ v1_recovery_resume \/ Crash

Spec == Init /\ [][Next]_vars

\* As long as a thread that has begun can go on, a clean-up has work or a row can age, one of
\* these happens.
GoesOn == (\E t \in Thread : Step(t)) \/ (\E p \in Proc : Clean(p)) \/ clean \/ age

Fairness == WF_vars(GoesOn)

LiveSpec == Spec /\ Fairness

------------------------------------------------------------------------------
(* Properties.                                                             *)

\* A row that says RUNNING has a thread that works on the run, and one that a thread works
\* on says RUNNING.  The first is not so once a clean-up, a user or a recovery has written the
\* row, or the thread was cut off: by a stop of the process, or by what raises outside of every
\* try (orchestrator.run_once, and the write of the outcome of a coding run).  The second is not
\* so either of a row that two runs share, of which the first to end writes the outcome of
\* both: coding under the locks of two scopes of a project, and runs of a task, which hold
\* no lock.
RowTellsTruth ==
    \A r \in Run \ doubt :
        /\ runs[r].state = "RUNNING" => \E t \in Thread : WorksOn(t, r)
        /\ r \notin shared /\ (\E t \in Thread : WorksOn(t, r)) => runs[r].state = "RUNNING"

\* What a dead process left does not stay RUNNING: once requests have stopped (the
\* bounds see to that), no run that the clean-up can recognise is left RUNNING, and
\* no agent with a role it knows.
ActivityEnds ==
    <>[](/\ \A r \in Run : runs[r].state = "RUNNING" => ~is_team_run(r)
         /\ \A a \in AgentId : agents[a].state # "RUNNING")

=============================================================================
