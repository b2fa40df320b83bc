# A verification project for OpenTeam

OpenTeam runs teams of language-model agents against git repositories. A control
plane plans improvements, writes tasks into ledgers, and delivers each task
through audit, proof, coding, documentation, review, QA and release. Several
control planes may share one database; one control plane runs many threads. This
directory holds TLA+ models of the parts of that program in which order,
concurrency and failure decide whether it is correct, the TLC runs that check
them on small instances, and TLAPS proofs about them.

Paths below are relative to `src/`; `app/` stands for
`scaffolds/runtime/orchestrator/app/`. Line numbers name the file by its last
part: `task_runtime.py:3127`.

Contents: 1 the system, 2 the modules, 3 the runs, 4 the proofs, 5 what the models
showed about the code, 6 what is not modelled, 7 what comes next.

## 1. The system

| Component | State | Operations | Hard part |
|---|---|---|---|
| Task leases (`app/runtime_db.py`) | table `task_leases` | claim, renew, get, release | clock read before the lock, answer read after the commit, dead holders |
| Task delivery (`app/domains/team_workflow/task_runtime.py`) | task record (YAML and table), git worktree and branch, local variables | `execute_task_delivery` | nested retry loops, crash and resume, one handler for all failures |
| Delivery sweep (`task_runtime.py`, `app/main.py`) | coding locks, thread pool, lease guard | sweep, recovery, heartbeat | two workers on a task, a lease lost while working |
| Planner (`app/domains/team_workflow/proposal_runtime.py`) | proposals, milestones, task records, state of a target | inspect, propose, discuss, decide, materialise | rewrites whole documents that others are writing |
| Control plane (`app/main.py`) | runs, agents, events, background loops | API handlers, clean-up, recovery, streams | rows that outlive their process, stale lists |
| File locks (`scripts/pipelines/locks.py`) | lock files | acquire, renew, release, recover | check-then-act on files |
| Delivery studio (`app/domains/delivery_studio/`) | delivery request documents | discuss, approve, lock, change request, review gate | load, check, save without a lock |
| OpenClaw reporter (`app/openclaw_reporter.py`) | event cursor | report, sweep | failed sends, races on the cursor |
| Orchestrator and workflow runner (`app/orchestrator.py`, `app/engines/crewai/`) | runs, workflow state of a target | `run_once`, `run_workflow`, policy | read-modify-write of one document |
| Stores (`app/improvement_store.py`, `app/runtime_state_store.py`) | mirrored files and tables | upsert, get, list, delete | two copies of one record |
| Requirements (`app/requirements_store.py`) | raw inputs, baseline, requirements, rendering | add, verify, rebuild | a model call between load and write |
| GitHub panel (`app/panel_github_sync.py`) | items of a GitHub project | sync | creation and key are two remote calls |
| GitHub issues (`app/github_issues_bus.py`) | issues, milestones | search, create, update, close | a search index that lags |
| Approvals (`scripts/pipelines/approvals.py`) | append-only log, policy file | request, prompt, decide | policy and decisions of different times |
| Bootstrap and auto-update (`scripts/bootstrap_and_run.py`, `scaffolds/runtime/scripts/auto_update.py`) | pid and state files | start, stop, update | a stop in the middle, two shells |
| Task pipelines (`scripts/pipelines/task_*.py`, `scripts/tasks/`) | ledger, logs, working tree | create, close, ship | ship takes no lock |
| Migration (`scripts/governance/migrate_repo_projects.py`) | legacy and new files | plan, move, rewrite | failures in the middle, reruns |
| Engines, specs, command line, configuration stores | none that decides anything | adapters, loaders, formatting | none that needs a model |

How they interact. A planner run inspects a checkout of the target, lets agents
propose, discusses proposals on GitHub issues, and writes a task record into the
ledger store once a proposal may be worked on. A sweep (a background loop, an API
call or a recovery) lists the records, claims the lease of each task in the shared
database and hands it to a pool thread, which runs `execute_task_delivery` under a
heartbeat that renews the lease. The delivery writes the record after every stage
and synchronises the issue and its milestone; at the end it pushes a branch. Runs
and agents have rows in the database, which loops clean up, streams follow and
recoveries act on. The panel, the reporter and the run logs mirror that state
outwards. The command-line pipelines work on repositories and ledgers of their own
behind file locks.

What must be true of each:

- a lease has one owner and does not outlive a dead one for long, and two workers
  on one task overlap for a bounded time at most;
- a delivery never pushes code that was not reviewed and tested, never codes on an
  unproven bug, does not run agents without bound, ends, and resumes after a crash
  without forgetting what was counted; final states stay final;
- work is started only on proposals that may be worked on, once each; a rejection
  stands; every comment is answered;
- what one call saved is not undone by another that loaded earlier, unless the two
  overlapped;
- rows, pid files, state files, issues, milestones and the panel tell the truth or
  come to tell it, whatever stops or fails in between;
- no event, requirement, blocker or file is lost on the way.

## 2. Modules

| Module | Models | Proofs |
|---|---|---|
| `ExclusiveLease` | what a lease table promises (abstract) | |
| `TaskLease` | the four operations of `task_leases` | `SweepsProofs` |
| `DeliverySweep` | who works on a task: locks, lease, guard, heartbeat, crashes | `SweepsProofs` (S) |
| `Delivery` | `execute_task_delivery` and the planner's rewrite | `DeliveryProofs` |
| `BugProof` | what the stages of a bug's delivery make of their evidence | `ProjectProofs` (B) |
| `Worktrees` | directories, branches and pushes of several tasks | `OperationsProofs` (W) |
| `TaskStore` | the two copies of a task and their listings | `OperationsProofs` (K) |
| `Recovery` | restart of open tasks, the comparison of tasks with runs | `OperationsProofs` (R) |
| `Proposals` | one proposal: collected, discussed, decided, turned into tasks | `PlannerProofs` |
| `TeamWorkflow` | runs of a finding workflow and a target's state document | `PlannerProofs` (W) |
| `Inspection` | what a planner run reads of the target's repository | `ServicesProofs` (N) |
| `Issues` | task records, their issues and the milestone that counts them | `ServicesProofs` (I) |
| `TeamRuns` | the rows of runs and agents, and their clean-up | `TeamRunsProofs` |
| `EventFeed` | event streams and run logs | `ServicesProofs` (E) |
| `PanelSync` | the items of a project's GitHub panel | `PanelSyncProofs` |
| `EventReporter` | the OpenClaw cursor and its sweeps | `ServicesProofs` (R) |
| `DeliveryStudio` | a delivery request | `ServicesProofs` |
| `Requirements` | the requirements of one scope | `ProjectProofs` |
| `Approvals` | the approvals log, the policy and the gate | `ProjectProofs` (A) |
| `RepoMigration` | the migration of legacy projects | `ProjectProofs` (M) |
| `FileLock` | a lock file | `OperationsProofs` |
| `Bootstrap` | the control plane's pid file | `OperationsProofs` (B) |
| `Startup` | the model proxy's pid and state files | `OperationsProofs` (P) |
| `AutoUpdate` | image updates and their watcher | `OperationsProofs` (U) |
| `TaskPipeline` | create, close and ship of the command line | `OperationsProofs` (T) |
| `Sweeps`, `Operations`, `Project`, `Services`, `Planner` | what the parts of one area promise, one instance each, for their run and their proofs | |
| `MC*` | instances for TLC | |

`TaskLease` instantiates `ExclusiveLease`. The parts of an area share no state: its
module instantiates them under the letters above, names the property of each, and is
extended both by the MC module that checks the area in one run and by the module
that proves about it, so that run and theorem speak of the same formulas. Conventions:

- An action has the name of the function it models, or of the point in it at which
  it begins. It runs up to the next moment at which another actor can see or change
  something the code depends on: a system call, a transaction, a remote call, an
  agent's answer. A crash or a failure can fall between any two steps.
- Agents, users, models, remote services and commands answer anything they can.
- A definition whose name ends in what a plausible bug would do
  (`StartAttempt_reset`, `QaReturns_no_break`) is a mutant: it is not part of the
  model, and putting it in the place of the definition it precedes must break the
  property named in `PROJECT.json`.
- Where the code leaves a race open, a history variable (`crossed`, `stale`,
  `overtaken`, `raced`, `disturbed`, `doubt`, `shared`) records that it happened, and the
  property says what holds until then. Which histories excuse a failure is part of
  what a property claims: it is as small as the code allows.

### Delivery of a task

`TaskLease`. `claim_task_lease` and `renew_task_lease` are three steps each,
because the code makes them so: `utc_now_iso()` and the expiry are computed before
`_write_lock` and `BEGIN IMMEDIATE` (`BeginCall`); the transaction decides and
writes; the row returned is read on another connection after the commit
(`get_task_lease`). `leases` is the table, `call` what each client has in flight,
`told` what it was told last. `CallTime` bounds how long a call can wait (SQLite's
busy timeout); the clock is one machine's clock, since the database is a local file.

`DeliverySweep`. One task, several sweeping jobs in several control planes; the
calls of the lease table are single steps, which `TaskLease` justifies. The lease
row keeps the seconds left and the seconds since it was taken, so time is
unbounded. The guard keeps the seconds since its last beat and its last success.
The overlap a job can have with the next holder depends on whether it is `Alone` in
its control plane: a second job of the same instance can be granted the lease again
and so keep it alive for one more `TTL`. `Fault` is a call that fails and cuts a sweep
short: the row of its run is not written and the lock stays (`RowNotWritten`), the
sweep ends without a claim (`SweepFails`) or behind one that nobody will release
(`ClaimLost`), the ledger cannot be loaded (`LoadFails`), the release of the lease
fails and is swallowed (`ReleaseFails`).

`Delivery`. `pc[w]` is the stage a worker is in; a step runs from one agent answer
to the start of the next agent, ledger writes included. `run[w]` holds the local
variables that matter, `ledger` the record on disk, `tree` the worktree. `fresh`,
`reviewed` and `tested` are history: whether the code has changed since the running
reviewer or tester started, and whether the last ones approved what is there now.
The handler for all exceptions is `Fails`, possible everywhere. `PlannerReads` and
`PlannerSaves` are `_ensure_task_record`: it reads a record once, talks to git and
GitHub, then saves it as "todo", twice if nothing fails in between.

`BugProof` opens the stages whose results `Delivery` leaves free: a run is alone
here, and the result of a stage follows from the agent's answer, the contract put
together from work item and audit, and what the named commands do in the worktree.
`proven` is history: a command that ran before the fix has failed.

`Worktrees`. `dir` is what each directory holds, `branch` and `remote` the changes on
each task's branch and on what is pushed of it. A name is an abstraction of the
code's cut to ASCII letters and digits: `RootOf` says which tasks come to the same
directory. `released` is history.

`TaskStore`. `file` and `store` are the two copies. Writing the file empties it
first; loading it writes the database. A listing globs, loads and filters one file
after the other. `disturbed` and `calm` are history.

`Recovery`. `seen` is what a recovery listed, `rows` and `guardians` what it writes; a
scan and a status page compare ledgers with rows. A task of a team is coded under a
lock of that task, any other gets a placeholder row and an agent.

### Planning

`Proposals`. One document; every update loads the whole of it, changes some fields
and writes the whole back. `pc[t]` is where a call stands between those steps, `call`
its local copy. A comment asks for an action; whether it was answered is a marker in
a reply, and whether it was seen is a field of the document. `overtaken` is history:
another call has changed the document since this one started.

`TeamWorkflow`. `doc` is the state document of a target with four keys that the code
updates separately, each time by loading and writing all of it. An update is merged
into the document it finds: a key it does not have keeps what is there, so a lane that
is absent and a lane whose streak is 0 are told apart (section 4 says what became of a
model that did not). `quiet` is history: how many scans in a row, of this commit and
of any, found no bug.

`Inspection`. Operators for the pure parts (which files are tracked, packed, chunked
and which commands run as a baseline) and the worktree that all runs of a target
share. A path is its directory, stem and extension, a text its length. A file is its
place in git's listing, so that what is listed is a set, and its order within a module
is by rank and then by place; `pack` takes the last file of a set and adds it to what
is packed of the others, which is the loop of the code read backwards.

`Issues`. Planners and deliveries are threads with one call each of
`search_issue_by_marker`, `create_issue`, `update_issue` and the count of a
milestone. GitHub's search index may lag; every call may fail. `behind` and
`doubled` are history.

### Control plane

`TeamRuns`. Threads run teams, pipelines and codings; each marks its row, works and
writes the outcome. Locks are in memory, rows are not. A coding lock is taken for a
`Scope`, a project or a target of it, while the coding of a project has one row
whatever its scope (`main.py:865`, `:1040`); a run started by name takes no lock. The
clean-up lists rows and fails them one by one (`todo`). Of the agents of a coding job
the one with a role that the clean-up knows is kept. The event log is a counter and the
set of runs that can be recognised in its oldest `Cap` events. What is outside of every
try may raise and leave the row as it is (`cut_off`), and a coding run whose row cannot
be written leaves its lock behind (`coding_row_fails`). `doubt` and `shared` are
history: somebody else has written the row, or its thread or process was cut off; and
two threads worked on the run at once.

`EventFeed`. A stream reads the row of its run, then a page of events behind its
cursor. The run, the clean-up and the chat write row and event in two steps
(`phase`, `due`). A poll takes the rows behind the cursor up to the page limit, drops
what is not about its run, and moves the cursor behind the last row it had room for;
`sent` counts how often each event was sent. Requests for logs write two files.

`PanelSync`. A synchronisation reads the wanted items, lists the items of the panel,
then takes them one by one: creation and key are two remote calls. A call fails, is
executed without an answer, or is repeated by the client.

`EventReporter`. A sweep reads the cursor, lists the events behind it, handles one
after the other and stores the cursor. `handled`, `sent`, `again` and `disturbed` are
history: the events sent more than once and those sent by a sweep that met another,
failed or stopped.

`DeliveryStudio`. A handler loads the request, checks its stage, writes its artifact
and saves the whole document; no lock is held. Saving is two steps (`Truncate`,
`WriteRequest`), because `write_text` empties the file first. Two calls that both
write leave one document, or one document with the rest of the other behind it.

### Command line and repository

`Requirements`. A call loads the document, asks a model for up to 90 seconds,
truncates the file, writes, renders. `kept` is history: names saved since something
last undid another call's save.

`Approvals`. `log` is the append-only file every command reads from its start,
`prompts` the requests whose prompt is open, `executed` the gates passed. A kind of
request has a category, and some kinds are of low risk (`LowKind`): those are approved
before the policy is asked.

`RepoMigration`. A file of `repo` is backed up, removed, moved and rewritten by
separate steps; a failed run is planned anew from what is left. `todo` holds the files
that are left, of which the first in the order of the plan is next. `lossy` is history.

`FileLock`. One lock path, any number of processes. Every step is one system call on
the path: `Create` (with `O_EXCL`) and `WriteMeta` are two, a recovery reads the file
in `Look` and moves aside in `Recover` whatever is at the path by then. `clock[p]` is
how long a process has slept or stalled, at most `MaxStall` beyond what it asked for.

`Bootstrap`, `Startup`. A pid file (and for the proxy a state file with its port),
read, unlinked and written without a lock by shells that start and stop; a process
boots, takes its port if it is free, serves and ends. A dead child looks alive until
its shell ends.

`AutoUpdate`. Checks and their watcher: pull, compare, recreate, each of which may
fail or be killed.

`TaskPipeline`. `create` and `close` under one lock, `ship` without it; a ledger is
emptied and then written. Trees are numbered, `gated` is history: trees that a
close found in order.

## 3. Runs

Components that share no state are checked side by side in one run: a variable
`part` picks the one whose steps a behaviour takes, the others keep their first
state, so the state space is the sum of theirs.

| Run | Instance | Shows |
|---|---|---|
| `leases` (`MCLeases`) | two threads of one control plane and one of another on a table with TTL 3, `CallTime` 2, clock to 6; two jobs in one control plane and one in another with TTL 3, heartbeat 1, queue wait 1, crashes and failing calls | `ToldHolderHolds`: what a client was told stays true until the expiry it was told. `ImplementsExclusiveLease`: the table refines `ExclusiveLease` (takeover only behind the expiry, a dead holder keeps others out for TTL at most). `OverlapBounded`: a job that lost the lease stops within a bound, and one alone in its control plane does not lose it while it renews in time. `TaskTakenUp`: whatever stopped, failed or was left leased, an open task is worked on again, unless every job is locked out by a lock left behind |
| `delivery` (`MCDelivery`) | one worker, four contracts, sweep and dry run, two attempts, 1 crash, 2 planner saves | `CodingRunsBounded`, `PushedCodePassedGates`, `FinalStaysFinal`, and under fairness `EveryRunEnds` and `TaskSettles` |
| `planner` (`MCPlanner`) | two threads, one comment, two planner runs, one decision or one fault; or a request and the loop on one state document, three runs, one commit, two ticks (the window is shut on the second), one fault | `OnlyPermittedWork`: tasks are made only of what may be worked on. `RejectionStands`, `NoDuplicateTask`: unless calls have overlapped. `CommentIsAnswered`. `LaneStateKept`: an update drops nothing it has seen, and the bug lane sleeps only after enough quiet scans in a row |
| `team_runs` (`TeamRuns`) | two threads, the clean-up, two jobs, two scopes of one project, a chat command, a heartbeat, a crash, calls that raise anywhere outside of a try | `RowTellsTruth`: a row that says RUNNING has a thread that works on it, unless somebody has written over it or the thread was cut off; and a run that is worked on says RUNNING, unless two share its row. `ActivityEnds`: nothing that the clean-up can recognise says so for ever |
| `services` (`MCServices`) | two handlers, texts and commits and a crash; the reporter's loop and an API sweep over a log of up to four; two planners, two tasks, four issues, a fault; pages of two over logs of four or five; two runs in one worktree, 729 repositories of nine files, 128 sets of test commands | `LockedIsApproved`, `GreenMeansPassed`, `LockFreezes` (studio); `ReportsHold`, `EventsHandled` (reporter): no event is skipped, and none sent twice but by sweeps that met, failed or stopped; `IssuesInStep`: one issue per task and a milestone that counts tasks as they are; `WatchersTold`: streams and logs are complete up to where they are; `InspectionHolds`: a run reads one clean commit, and what it packs and runs accounts for all there is |
| `panel_sync` (`PanelSync`) | the loop and one API thread, two keys, two changes, one fault, five items | `OneItemPerKey`; `PanelCatchesUp`: once nothing changes, the panel comes to show it |
| `project` (`MCProject`) | two writers of requirements, two opposed texts (one not feasible as it stands), three calls, a crash; two runs of two attempts on a bug and a rewrite by the planner; two approval requests, of high and of low risk, two decisions, an edit of the policy; a migration of six files, two runs, a fault | `RequirementsKept`: opposed requirements are not both active without a question, none is lost unless calls have crossed or died; `FixesProvenBugs`, `ReleasedPasses`; `HardBlocksHold`: what the policy always denies is not approved, but for requests of low risk; `MigrationKeepsFiles` |
| `operations` (`MCOperations`) | three processes on a lock, two crashes; two shells and two control planes; two shells and two proxies on two ports; two watchers and two images; one task, two edits, a fault; three tasks in two worktrees; a worker and a reader on two tasks; two recoveries of two tasks | `HoldersExclusive`; `LockTaken`: the lock passes on wherever a process died, but for a file that was created and never written; `Tracked`: the pid file names the control plane that runs; `ProxyFound`; `UpdateArrives`; `LedgerHolds`: blockers are kept and what is pushed was closed; `ReleasesAreOwn`; `TasksAreTold`; `RecoveryHolds` |

Runs that are expected to fail, each showing a disagreement between the code and
what the repository says of it:

| Run | Code | Statement |
|---|---|---|
| `dormant_head` (`TeamWorkflow`) | the head that is compared is always empty (`proposal_runtime.py:1566`): quiet scans of different commits put the bug lane to sleep | "unchanged_head_after_zero_bug_convergence" (`proposal_runtime.py:1409`) |
| `recovered_fix` (`MCBugProof`) | a recovered task is audited in the worktree that holds its uncommitted fix, and closed as not reproducible (`task_runtime.py:1894`) | "Current worktree no longer reproduces the bug; continuing with review and release gates." (`task_runtime.py:2810`) |
| `denial_stands` (`MCApprovals`) | a request denied by one decision is approved by the next (`approvals.py:333`) | "cannot approve denied request via local audit flow" (`approvals.py:336`) |
| `never_deletes` (`MCProject`) | two files that go to one place in one run leave one backup between them (`migrate_repo_projects.py:235`) | "It never deletes data; it moves/copies with conflict backups." (`migrate_repo_projects.py:11`) |

### Bounds

- `TaskLease`: TTL 3 and `CallTime` 2 keep the code's order (the busy timeout is far
  below the TTL of 600 s) and let a call be old when it decides; a clock of 6 is two
  terms of a lease. One task: rows of different tasks never meet.
- `DeliverySweep`: TTL 3 and heartbeat 1 keep the code's `ttl // 3`; a queue wait of
  1 makes a lease old before its delivery starts. Crashes and failing calls come at any
  step and in any number.
- `Delivery`: two attempts is the code's number. One crash reaches every resume
  path; two planner saves are a whole pass of `_ensure_task_record`, so an old record
  can be written after a newer one of the same pass was delivered. The contracts are
  the ones the planner writes, with and without a required proof. A second worker is
  left out: two workers on one task do break the delivery (section 5).
- `Proposals`, `TeamWorkflow`, `Requirements`, `Issues`: two callers suffice for any
  read-modify-write race; the number of calls lets a third one read what the race
  left. A fault falls at any step of any of them; in the run of `Proposals` a fault or a
  decision of the API, not both, which the proofs cover for the safety properties. In
  `TeamWorkflow` the third run tells
  whether a scan that found a bug between two quiet ones starts the streak anew.
- `Approvals`: one kind of high and one of low risk, either of which a policy may deny.
- `TeamRuns`: two scopes are a project and a target of it, whose codings share a row
  behind two locks. One event fills the list the clean-up recognises runs by, so runs that
  it cannot recognise exist in every behaviour.
- `PanelSync`: five items are more than two keys, a repeat and a crossing can make.
- `EventFeed`: pages of two over four or five events give full, partial and empty
  pages behind every cursor.
- `Inspection`: each of six files small, at the limit or over it, beside three that
  are listed last, untracked by the list limit or packed apart.
- `FileLock`: the interval is the code's third of TTL, and interval plus three stalls
  stay below TTL as `TimingAssumption` asks; two crashes leave a dead holder and a
  dead recovery behind for the third process. A process may die at any step, between
  the creation of the file and its first write too.
- `Bootstrap`, `Startup`: two shells cross in every order, and two processes are one
  more than the pid file can name; two ports make the proxy move once.
- `Worktrees`: two tasks in one directory and one that was recorded with a worktree
  elsewhere. `TaskStore`, `Recovery`: the second task is the one that is passed over
  or taken up late.
- `RepoMigration`: six files are one of each kind, with two that go to one place.

### Fairness

Every fairness condition asks that something that has begun goes on, or that a loop
of the code comes round; no failure, crash or request is ever forced.

- `Delivery!FairSpec`: a started run goes on (git commands have timeouts, agent runs
  are assumed to end), the sweep loop keeps coming, a planner in the middle of saving
  finishes. `EveryRunEnds` assumes that validation commands stop leaving files
  outside the scope at some point; without it the property is false (section 5).
  `TaskSettles` leaves out the task whose contract can never be completed and whose
  policy is to block: the code never records that it is blocked.
- `DeliverySweep!FairSpec`: heartbeats and threads go on, time passes, and at least
  one control plane keeps sweeping (strong fairness, since a sweep is refused while
  the coding lock is taken). The steps of each job share one condition of weak fairness:
  a failing call is never forced. `TaskTakenUp` assumes that crashes and failing calls
  come to an end (`FaultsStop`), and says itself that a task may stay where every job is
  locked out by a lock that was left behind.
- `TeamRuns!Fairness` is one condition for all that goes on by itself (`GoesOn`): as long
  as a thread can go on, a clean-up has work or a row can age, one of these happens.
- `Proposals`, `PanelSync`, `EventReporter`: a call that has begun goes
  on; the discussion loop, the panel loop and the reporter come round.
- `AutoUpdate`: a watcher that lives goes on. `UpdateArrives` assumes that one stays,
  and that runs do not put its checks off for ever where it waits for idleness.
- `FileLock!FairSpec`: time passes, scripts keep asking for the lock, critical
  sections and calls end; renewals are not forced.

## 4. Proofs

Every theorem holds for any values of the constants that satisfy the named
assumptions; the runs check the same formulas on the instances above. The
assumptions are those the modules make of their constants, repeated where a proof
uses them: that distinguished values are distinct, that bounds are numbers, that
functions are functions. Where a theorem needs more, it is said below.

There is one proof module per area. A part is named by its letter in section 2.

### `SweepsProofs`: leases and sweeps

For any TTL and any `CallTime` below it. `CallsAreRecent` (no call in flight is older
than `CallTime`) is the strengthening that makes a decision with an old clock safe: an
expiry that is behind an old clock is behind the clock. From it follow
`NoEarlyTakeover` and `DeadHolderBound`. `ToldIsTrue` needs an invariant that says of
each client that what it was told is covered by its row (`Stands`), inductive only with
the bounds on what clients were told and on when calls began; `TwoNeverTold` is its
corollary. `TableIsExclusiveLease` maps every step to a step of `ExclusiveLease` or a
stutter.

`OverlapIsBounded` (S, `Times`: numbers as times, each job in one control plane).
`Since` reads off a job's guard the longest time since it was last granted the lease;
`Late` says that another instance has not had the lease for longer than that, and that
a job alone in its control plane loses it only TTL after its last renewal; `Running` is
how far a guard may run.

`SweepHoldsItsLock` (S): of the jobs of a control plane inside a sweep no two take the
same lock, and each has its own, whichever way sweeps end.
`OnlyAnUnrecordedSweepLeavesItsLock`, an action property: the locks held beyond those
(`LeftBehind`) change only where the row of a run is not written, which leaves one, and
where the control plane stops, which takes them away. `OneControlPlaneDeliversOnce` is a
corollary of the first for one control plane whose jobs take one lock for a task.
`LeaseIsReleased`: a lease that is held is held for a job that has claimed it and not
ended (`HeldForWork`), unless a control plane stops, the release fails, or the sweep
fails between its claim and the pool (`Abandons`); the step that matters is the release,
where two jobs of a control plane share one row. `LeaseEndsWithinTTL` bounds what is left
behind. Together they are the safety half of `TaskTakenUp`, its exception included: a
lease keeps a task for a bounded time, and a lock only if it was left behind.

### `DeliveryProofs`: the delivery of a task

Type correctness holds for any number of workers, and bounds the attempts. The other
three theorems assume `OneWorker`: two workers on one task do break these properties
(section 5). `OneControlPlaneDeliversOnce` gives the assumption where one control plane
delivers the task under one coding lock; with jobs that take different locks (by target,
by project), or with a second control plane, the code does not give it. `GatesInv` says
what a worker that waits for its reviewer, its tester or its release knows about the
code, and gives `PushedCodePassedGates`. `FinalInv` says that a run that was not forced
is only ever under way on a task that is not final, and that the planner's record is
"todo". `CountInv` bounds the coding runs by what the ledger and, once it has taken the
count over, the run have counted, plus `MaxAttempts` for each record the planner has
written over it.

### `PlannerProofs`: proposals and the state of a target

- `WorkIsPermitted`, `NoDuplicates`, `RejectionIsKept`, with the type invariant. `Fresh`
  says what a call knows that no other has overtaken: where it holds a copy that it
  will write, the copy is the proposal as it is; a run that makes tasks has seen that
  it may, that the proposal may be worked on and whether the item has a task; a
  discussion has seen that the proposal is open. It is inductive because a step of one
  call that changes the proposal overtakes all others under way. `Sane` is what holds
  even of calls that were overtaken: a proposal that is there never goes away, and a
  call continues where it was going.
- `SeenWasAnswered`: the cursor of a proposal, and every copy of it that a call may
  write back, stands on a comment that a reply names (`CommentInv`). Replies are never
  taken back, so that an old copy puts the cursor back at worst and never in front of a
  comment that is still to be answered: the safety half of `CommentIsAnswered`.
- `LaneKept` (W), an action property, with the type invariant. A call whose document
  has not changed since it loaded holds it as it is but for the key it is about to
  write (`DocSeen`); one whose lane has not changed has counted at most one more on the
  streak it read (`LaneSeen`); what a lane update writes is a lane and never an absent
  one (`LaneWritten`). So, unless runs
  wrote over each other, the streak never passes the number of quiet scans in a row, and
  a lane sleeps only after `Threshold` of them (`LaneEarned`). The proof corrected
  the model: its first version had one value for an absent lane and for a lane reset to
  0, so that the merge let the old streak survive a scan that found a bug. The code
  tells the two apart, and `LaneWritten` failed until the model did too; the run now
  has a third scan, with which TLC sees the difference.

### `ProjectProofs`: requirements, bugs, approvals, migration

- `RequirementsStay`, with the type invariant. Every document, on disk or in a call's
  hands, leaves opposed requirements to a decision (`Awaits`): the conflict is looked
  for in the document a call has loaded, so this needs no assumption on overlaps. A
  call that was not overtaken holds every name that was saved from its load to its
  write (`Loaded`), and a file that can be loaded has them (`Stored`).
- `ProvenFirst`, `Passes` (B). That nobody codes on a bug not seen to fail is not
  inductive: a run may come back to the coding stage with a fix that an earlier run
  left behind. `Proven` says that whatever a fix leaves behind, evidence, an attempt or
  a later stage, stems from behind a command that failed. `Unclosed` says that a run
  under way has no reason for closing yet; from it follows that what is released passes
  the commands that prove it.
- `DenialsHold` (A). There is one record for each request, none while its prompt is
  open, and no prompt for a category that its policy denied. It excepts requests of low
  risk (`Unasked`), which the code approves without asking the policy.
- `FilesAreKept` (M), with the type invariant. What `unlink` removes is in its backup,
  `rename` finds nothing where the file goes, and only the file under rewrite is
  nowhere (`Held`): hence the two ways to lose a file are the only ones. As long as no
  run broke, the first run moves all there is and the next finds nothing
  (`Undisturbed`), so that one map decides for every file where it goes (`Home`), and
  `ProjectsDiffer` shows that this map gives no two projects one name: of those with
  one slug the preferred one has the number 0 and the others have more than those
  before them. It assumes that heads are files of the repository, that the orders name
  every file and project, and that what the workspace has already is not one of the
  files to move.

### `OperationsProofs`: beside the deliveries

- `Exclusive` (lock file). Type correctness contains the timing argument (a renewal
  that is late in each of its calls still comes before the expiry because
  `Interval + 3 * MaxStall < TTL`), and mutual exclusion holds up to `raced`.
- `PushesAreOwn` (W, `NamesOfTasks`: each task has a directory and paths). `Own`:
  everything in a directory and on its branch was made by tasks whose names come to
  it. `Alone`: a task without sharers builds on what it has pushed, since its branch
  is set back only before its first push. `Moving`: only a task with an older
  worktree moves one.
- `NoneForgotten` (B). `Known`: a shell nobody has crossed knows, before it unlinks or
  writes the pid file, that the process named there has ended; so no step of it
  forgets a live one.
- `ProxyKept` (P, `MaxPort > 0`). `Noted`: the pid file names the proxy that serves,
  or the shell that is about to write it is known. While it is in the pid file, its
  port is the saved one, or a shell nobody has crossed is about to save it, or some
  shell is about to stop that proxy (`Addressed`). `Sure` is what an uncrossed shell
  knows of the pid file.
- `LedgersKept` (T, numbers as bounds and "free" not a shell). `Making`, `Knows` and
  `Counted`: an uncrossed ledger is torn only while its one uncrossed writer writes
  it, and holds all that was recorded or that the writer is adding. `Checked` and
  `WillStage`: the tree of a ship is gated from its gates to its commit.
- `TasksAreToldTruly` (K; a task exists, and the worker does not read, since its own
  load is a step of a reader). `Reads`: a load nobody crossed holds the text of the
  file; `Writes`: a write nobody crossed holds what it stored; `Calm`, `Once` and
  `Lists` say of a listing under way what it has told and what it has still to load.
- `RecoveryIsSafe` (R, a task exists). What a recovery has listed and nobody has
  changed since is open and waits for nobody (`Listed`, `TakenIsFree`); a second
  guardian comes only of two recoveries that both saw none (`Registering`); what was
  cured and not changed is not reported as missing (`Cured`).
- `UpdatesGoForward` (U, at least one image; an action property, not checked by a run).
  The container runs no newer image than the local tag names, and the tag no newer one
  than the registry has (`InOrder`): so a pull or a restart, of whichever watcher and
  after whatever failure, never goes back.
- `WorktreesTyped`, `BootstrapTyped`, `StartupTyped`, `UpdateTyped`: type correctness.

### `TeamRunsProofs`, `PanelSyncProofs`

`RowsTrue`. `OneCoder` by the locks, one for each scope, `Solo` and `HasRow` because an
id given to a thread has no row before: a run that is neither in doubt nor shared has one
thread at most, and the state of its row follows from where that thread is. A row in
`shared` still has a thread behind it as long as it says RUNNING.

`KeysStayUnique` (`KeysApart`). Until synchronisations cross, one at most is under way
(`Sync`); for each key that it has still to take it has found the item with that key,
or there is none (`Listed`), and no item but the one it works on has the key it is
about to set (`Claims`).

### `ServicesProofs`: studio, reporter, issues, streams, inspection

- `Approved`, `Frozen`, `MergeGate` (studio). The first needs no assumption on how
  calls overlap: `StudioInv` says of the document on disk and of every document a
  handler is about to save that it is `Sound`, and that the artifacts of what was saved
  exist. The other two hold until `raced`: `GateInv` says that, until then, one call at
  a time is inside a save, on the file it emptied, and a call that is to post a passed
  gate leaves behind a request that no later call may change.
- `ReportsAreKept` (R, `ReporterAssumption`: a limit of at least one, which the code
  enforces). Every event up to the cursor, and up to where each sweep stands, has been
  handled (`Handled`). What was sent and not disturbed lies behind the cursor or behind
  a sweep under way, and every sweep under way ends behind it, so no save can put the
  cursor back in front of it (`Settled`): this is where the limit enters, since a
  second sweep reads a cursor that is at most one page older. A sweep that no other has
  crossed is the only one and stands at the cursor or behind it (`Uncrossed`), so the
  event it takes next was not sent before. `CursorOnlyAdvances` follows: the cursor goes
  back only where a crossed sweep stores its own, so that sweeps which do not meet make
  progress, the safety half of `EventsHandled`.
- `IssuesAgree` (I, finitely many tasks), with the type invariant. Who is about to
  create an issue is the only one and there is none yet, unless creations of its
  subject were doubled (`Single`). A synchronisation that is alone holds the counts of
  the records as they are once nobody has still to count, and one that is not has left
  the milestone `behind` (`Counting`).
- `WatchersAreTold` (E, page sizes of at least one), with the type invariant. `Told`
  says of each stream that it has sent up to its cursor what is about its run, each
  once, and that one that ended knows no more than it sent. The step that matters is a
  page: `Advanced` shows that the cursor comes to stand behind the last event there was
  room for, or at the end of the page when all fitted. The position is the least one
  with enough hits before it. `OneSaver` says that two requests for logs that do not
  mix come one by one.
- `InspectionIsSound` (N, `InspectionAssumption`: finitely many paths, a file fits in a
  chunk), with the type invariant. Three facts hold of each run. From its reset until
  its commands start, one that nobody crossed has the worktree as the reset left it
  (`Unspoilt`); what it packed is what packing the worktree gives now (`PackedAsRead`);
  the commands it has run are the first of those it selects (`RunInOrder`). The rest is
  about the operators, for any files. `pack` is a recursion over finite sets:
  `PackingExists` shows that there is a function with its equation, `PackGood` what it
  returns (`Good`: nothing is lost, it fits, and what was left out still does not fit
  where a later file does). Both are inductions over the size of a set, done without an
  induction theorem: a smallest set for which the claim fails is not empty, and without
  its last file the claim holds. The choice of commands is shown by cases (`Covering`).

That a set of numbers has a least element, and a bounded one a greatest (`Least`,
`Greatest`), is proved from the well-founded order of finite sets where a definition
takes a minimum or a maximum: the next task, the last item with a key, the cursor
behind a page, the next file to move.

Four definitions were rewritten so that they can be reasoned about, each to a
statement of the same values that the runs still check: the page of a stream selects
sets of numbers instead of sequences, the migration keeps a set of files and takes the
first, absent keys are values of their own, and an inspection packs sets of files
instead of folding sequences and takes the first command and the first of another
family.

### Only model-checked

- Liveness is out of the prover's reach: `TaskTakenUp`, `EveryRunEnds`,
  `TaskSettles`, `CommentIsAnswered`, `ActivityEnds`, `EventsHandled`,
  `PanelCatchesUp`, `LockTaken`, `UpdateArrives`.

Every safety property of a passing run is stated by a theorem. For four of the liveness
properties section 4 proves the safety facts they rest on: `TaskTakenUp`
(`OnlyAnUnrecordedSweepLeavesItsLock`, `LeaseIsReleased`, `LeaseEndsWithinTTL`), `CommentIsAnswered`
(`SeenWasAnswered`), `EventsHandled` (`CursorOnlyAdvances`), `UpdateArrives`
(`UpdatesGoForward`).

## 5. What the models showed about the code

The four runs above state their disagreement as a property. The rest is what the
models had to follow, or to leave room for, to be faithful; none of it is a property,
most of it is why a property has an "unless".

Delivery. After a push that succeeded `_release_task` names an undefined `issue_url`
(`task_runtime.py:2300`), and the one handler for all failures writes "blocked" over a
task that was released; the same handler lets a delivery that lost its lease write
"blocked" (`:3256`). A scope violation leaves the gates without counting an attempt:
the same code is reviewed and tested again for as long as a command leaves a file
behind (`:3127`). Target, task and project sweeps use different coding locks and the
lease is re-entrant per instance: two workers can share a worktree (`main.py:865`). The
row of a coding run is written behind the coding lock and in front of the try whose
`finally` gives it back (`main.py:1047`): if the write raises, nothing of that scope is
delivered until the process ends. A lease whose release fails stays for its TTL
(`task_runtime.py:390`), and so does one whose sweep fails between claim and pool.
Recovery always forces, and force skips the approval gate (`main.py:2637`;
`OPENTEAM.md:57` says "批准前不编码"). A commit whose push failed leaves nothing to
stage, so every later release of the task fails. The planner's rewrite drops the
audit's contract (`proposal_runtime.py:4379`). QA runs the task's `tests` only;
evidence that an agent claims counts in the audit when it names no commands; the
reproduction stage closes a bug whose commands were all not allowed; a change of the
test-case agent outside its scope is only remarked.

Worktrees and records. Titles without ASCII letters come to one directory
(`proposal_runtime.py:154`, `:1190`). `migrate_legacy_worktrees` names an undefined
`normalized_team_id` (`task_runtime.py:3361`). Reading a ledger writes the database
(`task_runtime.py:135`): a listing that crosses a delivery puts an old status back, a
crash between the two writes brings the database back to the file, and an emptied
ledger loads as no task. With the file mirror switched off (`OPENTEAM_RUNTIME_FILE_MIRROR`)
old files overwrite newer documents.

Recovery and rows. A recovery lists once and codes for minutes while clients give up
after 60 or 120 s and ask again. Placeholder rows RUNNING and Process-Guardian agents
never end; resuming an "intake" task makes a row without a task; `runs/start` takes the
workstream from the request, so a task elsewhere is missing and its run an orphan at
once, and shares the row `run-<task>` (`main.py:1989`). The status page counts
`merge_conflict` neither active nor blocked, the target summary counts it active. STOP
and PAUSE only write the row (`main.py:2197`). The sweeps of a project and of its targets
have one row and different locks: the first to end writes DONE while another works
(`main.py:1040`). What `run_once` does outside of its try, events and pipelines, leaves the
row RUNNING when it raises (`orchestrator.py:85`, `:193`); the clean-up ends it where it
can recognise the run. The clean-up knows a team run by the
oldest 1000 or 5000 events, and does not know the role Coding-Agent (`main.py:481`). A
run is recorded DONE whatever the pipeline answered, and a failed bug scan counts as a
scan without bugs; iterations of the loop take no team lock; `backoff_until` is never
written; the lane state is kept for the lane "bug" only, while the shipped
repo-review workflow has the lane "review".

Planning. `create_issue_comment` is a name `proposal_runtime.py:4750` does not have:
issue labels stay "stage:queued". "approve" wins over "reject" in a comment, and
"不同意" contains "同意" (`:3905`). Applying a discussion puts APPROVED and MATERIALIZED
back to PENDING (`app/skill_library/builtin_skills.py:318`). The checks of a scan store
`stdout_tail` and the prompts read `stdout` (`:2448`), so what they quote is empty; the
cap of twelve candidates is never reached; every run of a target shares one worktree.

Streams. RUN_FINISHED is written after the row says DONE, so a watcher may end without
it. Saved logs keep the oldest events up to their limit; the last page is cut there.

Start and stop. The control plane takes the model's address only from
`OPENTEAM_LLM_BASE_URL` or the default; `litellm_proxy.json` is read by bootstrap and
doctor. A start whose proxy is alive and does not answer fails until a stop; a stop
without `OPENTEAM_LLM_GATEWAY` leaves the proxy running; a crash between "ready" and the
save leaves later starts failing until a stop; "ready" takes any process that answers
on the port. A KILL followed at once by the check leaves the pid file
(`bootstrap_and_run.py:362`). An unknown answer to "is it idle" counts as idle
(`auto_update.py:130`). Bootstrap switches the workflow loops off. A lock file that is
created and not written when its owner dies never expires and is never recovered
(`locks.py:202`), although the module promises crash recovery by TTL (`locks.py:5`):
`LockTaken` names the case.

Task pipelines. A ship whose push failed is told "nothing to ship" the next time
(`task_ship.py:310`, against `:291`). `_validation_evidence_lines` prints return code 1
for 0.

Approvals and requirements. A request of low risk is approved before the policy is asked
(`approvals.py:252`), so a policy that always denies its category ("Hard blocks: never
allow these to be approved automatically", `approvals.yaml:13`) is not heard; the shipped
policy denies none of those categories. A decision that approves does not let the gated action run:
the gate is a request of its own. `record-execution` takes any id, and the policy is
not read again after the prompt. `propose_baseline_v2` captures the raw input before it
refuses, and migrate-v3 rewrites `raw_inputs.jsonl` without a lock. REQUIREMENTS.md can
fall behind when two calls render in the other order (`requirements_store.py:1095`).

Migration. A crash strands logs; the rest of a requirements directory goes to the
directory's project once its `requirements.yaml` has moved; the mapping of slugs is
made anew by a second run and can mix projects; YAML that does not parse is rewritten
to a stub; logs of nested tasks take the name of the wrong directory.

Studio. Two approvals that overlap can leave an approval record and a
`selected_option` that differ (`runtime.py:99`); the repository does not say which
counts.

## 6. What is not modelled

Agent engines and spec loaders (adapters to external frameworks: their answers are
nondeterministic inputs), HTTP clients, the command line and cockpit (formatting;
`openteam_legacy.py` is an older copy that tests call for `--help` only), the stores of
plan, workspace and project configuration (whole-file reads and writes on which nothing
is decided concurrently), hubs and nodes, repository policy checks and one-off
scripts, log files and metrics.

Left out inside modelled parts: what agents, issues and messages say; columns and
fields nobody reads back; drift and conflict reports, snapshots and changelogs, which
are only written; renewals of a lock file that raise (the code swallows the exception);
functions without a caller
(`kickoff_upgrade_plan`, `_kickoff_bug_only_plan`, `_coerce_plan`,
`run_team_workflow`, `kickoff_proposal_discussion`,
`sync_existing_team_workflow_github_content_to_zh` and their helpers).

Hazards without a property: the commit whose push failed, a closed task that a late
failure marks blocked, the task whose proof contract stays incomplete, two overlapping approvals in
the studio, the runtime limit of a workflow (`workflow_registry.py:281`, modelled), a
rendering that falls behind, and the approval gate that force skips: no document or
test says what must hold.

## 7. What comes next

Proofs: the composition of `Delivery` with `DeliverySweep`, whose theorems meet today in
the assumption `OneWorker`; the type invariants of the parts whose main theorem does not
state them. Models: deliveries of two workers with what each may still promise. The
liveness properties stay with TLC, for their fairness arguments are beyond the provers.
