---------------------------- MODULE TeamWorkflow ----------------------------
(***************************************************************************)
(* Runs of a team's finding workflow on one target and the state document  *)
(* they share.                                                             *)
(*                                                                         *)
(* run_team_iteration (a request) and _run_workflow_iteration (the         *)
(* background loop, which takes no team lock) evaluate the workflow's      *)
(* runtime policy, run its pipeline and record what came of it.  All of it *)
(* goes into one document per target, which every update loads and writes  *)
(* as a whole: a step ends with each load and each write.  The document is *)
(*   since    workflow_states: active_since, Never for ""                  *)
(*   lane     lane_states.bug                                              *)
(*   last     last_run: its run id, or Skipped                             *)
(*   history  the run ids of history                                       *)
(* A key nobody has written yet is Absent.  backoff_until is left out: it  *)
(* is read by _should_skip and never written with a value.                 *)
(***************************************************************************)
EXTENDS Integers, Sequences

CONSTANTS
    Request,    \* requests that hold different team locks: each runs the team alone
    Loop,       \* workers of the workflow's loop
    Bug,        \* the workflow's lane is "bug" and hands the scan policy on
    Threshold,  \* dormant_after_zero_scans
    Limit,      \* max_continuous_runtime_minutes, in ticks; 0 for none
    Day,        \* ticks of a day
    Open, Shut, \* active_window_start_hour and active_window_end_hour
    Keep,       \* rows the history keeps
    MaxTime, MaxHead, MaxRuns, MaxFaults  \* bounds

Caller == Request \cup Loop

Absent == -1
Never == 0
NoHead == 0

LaneDoc == [status : {"absent", "active", "dormant"}, streak : Nat, head : 0 .. MaxHead]
NoLane == [status |-> "absent", streak |-> 0, head |-> NoHead]

Doc == [since   : {Absent} \cup 0 .. MaxTime,
        lane    : LaneDoc,
        last    : {Absent} \cup 0 .. MaxRuns,
        history : Seq(1 .. MaxRuns)]
NoDoc == [since |-> Absent, lane |-> NoLane, last |-> Absent, history |-> <<>>]

Label == {"idle", "policy_load", "policy_merge", "policy_put", "prepare", "collect", "tasks",
          "lane_load", "lane_merge", "lane_put", "report", "last_load", "last_put",
          "history_load", "history_put"}

Call ==
    [run     : 0 .. MaxRuns,        \* the team run's id, 0 for the loop's iterations
     forced  : BOOLEAN,
     allowed : BOOLEAN,
     since   : 0 .. MaxTime,        \* policy.active_since
     payload : Doc,                 \* the document as this call will write it
     lane    : LaneDoc,             \* policy.lane_state
     head    : 0 .. MaxHead,        \* repo_context.head_commit
     seen    : 0 .. MaxHead,        \* ghost: the commit the worktree was at
     bugs    : BOOLEAN]             \* the scan found bugs, or bug tasks were open before it

NoCall == [run |-> 0, forced |-> FALSE, allowed |-> FALSE, since |-> Never, payload |-> NoDoc,
           lane |-> NoLane, head |-> NoHead, seen |-> NoHead, bugs |-> FALSE]

VARIABLES
    doc,      \* the target's state document
    now,
    scan,     \* the commit the target's scan worktree is at
    reports,  \* the runs with a report
    pc, call,
    stale,    \* what another call has changed since this one loaded it
    quiet,    \* the latest scans in a row that found no bug: of the same commit, and of any
    crossed,  \* a lane was written from a stale copy, or over by one
    runs, faults

vars == <<doc, now, scan, reports, pc, call, stale, quiet, crossed, runs, faults>>
world == <<now, scan>>

TypeOK ==
    /\ doc \in Doc /\ Len(doc.history) <= Keep
    /\ now \in 1 .. MaxTime /\ scan \in 0 .. MaxHead
    /\ reports \subseteq 1 .. MaxRuns
    /\ pc \in [Caller -> Label] /\ call \in [Caller -> Call]
    /\ stale \in [Caller -> SUBSET {"doc", "lane"}]
    /\ quiet \in [head : 0 .. MaxHead, same : 0 .. Threshold, any : 0 .. Threshold]
    /\ crossed \in BOOLEAN
    /\ runs \in 0 .. MaxRuns /\ faults \in 0 .. MaxFaults

Init ==
    /\ doc = NoDoc
    /\ now = 1 /\ scan = 0 /\ reports = {}
    /\ pc = [t \in Caller |-> "idle"] /\ call = [t \in Caller |-> NoCall]
    /\ stale = [t \in Caller |-> {}]
    /\ quiet = [head |-> NoHead, same |-> 0, any |-> 0]
    /\ crossed = FALSE
    /\ runs = 0 /\ faults = 0

------------------------------------------------------------------------------
(* Loads and writes of the document.                                       *)

Goto(t, label) == pc' = [pc EXCEPT ![t] = label]

\* Caller t loads the document and will write `changed` of it.
Load(t, from, next, changed) ==
    /\ pc[t] = from /\ Goto(t, next)
    /\ call' = [call EXCEPT ![t].payload = changed]
    /\ stale' = [stale EXCEPT ![t] = @ \ {"doc"}]
    /\ UNCHANGED <<doc, world, reports, crossed, quiet, runs, faults>>

\* save_target_state loads once more: the payload's keys win over those it finds.
Merge(payload, current) ==
    [k \in DOMAIN payload |-> IF payload[k] = NoDoc[k] THEN current[k] ELSE payload[k]]

save_target_state(t, from, next) ==
    /\ pc[t] = from /\ Goto(t, next)
    /\ call' = [call EXCEPT ![t].payload = Merge(@, doc)]
    /\ UNCHANGED <<doc, world, reports, stale, crossed, quiet, runs, faults>>

\* The labels of a call that has loaded the document, or the lane, and will use it.
HasDoc == {"policy_merge", "policy_put", "lane_merge", "lane_put", "last_put", "history_put"}
HasLane == {"tasks", "lane_load", "lane_merge", "lane_put"}

\* put_state: the whole document.
Put(t, needs, next, c) ==
    /\ doc' = call[t].payload
    /\ crossed' = (crossed \/ (stale[t] \cap needs # {} /\ doc'.lane # doc.lane))
    /\ stale' = [u \in Caller |->
                   IF u = t THEN stale[u] \ needs
                   ELSE stale[u] \cup (IF pc[u] \in HasDoc /\ doc' # doc THEN {"doc"} ELSE {})
                                 \cup (IF pc[u] \in HasLane /\ doc'.lane # doc.lane THEN {"lane"} ELSE {})]
    /\ Goto(t, next)
    /\ call' = [call EXCEPT ![t] = c]
    /\ UNCHANGED <<world, reports, runs, faults>>

------------------------------------------------------------------------------
(* The runtime policy.                                                     *)

Hour(time) == time % Day
InWindow(time) ==
    \/ Open = Shut
    \/ Open < Shut /\ Hour(time) >= Open /\ Hour(time) < Shut
    \/ Open > Shut /\ (Hour(time) >= Open \/ Hour(time) < Shut)

Active(since) == IF since \in {Absent, Never} THEN now ELSE since

\* The continuous runtime is checked before the window: a workflow that has
\* used it up keeps its active_since when the window shuts.
evaluate_run_policy(since, forced) ==
    IF forced THEN [allowed |-> TRUE, since |-> now]
    ELSE IF Limit > 0 /\ now - Active(since) >= Limit
      THEN [allowed |-> FALSE, since |-> Active(since)]
    ELSE IF ~InWindow(now) THEN [allowed |-> FALSE, since |-> Never]
    ELSE [allowed |-> TRUE, since |-> Active(since)]

Evaluate(t, run, forced) ==
    LET policy == evaluate_run_policy(doc.since, forced) IN
    /\ pc[t] = "idle" /\ Goto(t, "policy_load")
    /\ call' = [call EXCEPT ![t] = [NoCall EXCEPT !.run = run, !.forced = forced,
                                      !.allowed = policy.allowed, !.since = policy.since]]
    /\ stale' = [stale EXCEPT ![t] = {}]
    /\ UNCHANGED <<doc, world, reports, crossed, quiet, faults>>

policy_load(t) == Load(t, "policy_load", "policy_merge", [doc EXCEPT !.since = call[t].since])

policy_merge(t) == save_target_state(t, "policy_merge", "policy_put")

AfterPipeline(t) == IF t \in Request THEN "report" ELSE "idle"

\* A team run that is not allowed is recorded as done all the same; the loop
\* looks only now whether the configuration enables the workflow.
update_workflow_runtime_state(t) ==
    /\ pc[t] = "policy_put"
    /\ \E enabled \in BOOLEAN :
          /\ t \in Request => enabled
          /\ Put(t, {"doc"}, IF call[t].allowed /\ enabled THEN "prepare" ELSE AfterPipeline(t),
                 [NoCall EXCEPT !.run = call[t].run])
    /\ UNCHANGED quiet

------------------------------------------------------------------------------
(* The pipeline.                                                           *)

\* A skill or a required task that raises ends the pipeline: nothing is
\* materialized and the lane is not updated.
run_workflow_fails(t) ==
    /\ faults < MaxFaults /\ faults' = faults + 1
    /\ pc[t] \in {"prepare", "collect", "tasks"}
    /\ Goto(t, AfterPipeline(t))
    /\ call' = [call EXCEPT ![t] = [NoCall EXCEPT !.run = call[t].run]]
    /\ stale' = [stale EXCEPT ![t] = {}]
    /\ UNCHANGED <<doc, world, reports, crossed, quiet, runs>>

\* The runs on a target share its scan worktree, which each resets to the
\* commit the preferred branch is at.
prepare_discovery_repo(t) ==
    /\ pc[t] = "prepare" /\ Goto(t, "collect")
    /\ scan' \in 1 .. MaxHead
    /\ UNCHANGED <<doc, now, reports, call, stale, crossed, quiet, runs, faults>>

\* Only a team run of the bug lane uses what _bug_scan_policy read.
NotesBugs(t) == Bug /\ t \in Request

\* head_commit is looked up by the branch in HEAD, and the scan worktree is
\* always on a detached HEAD: it has no branch.
Detached == TRUE
collect_repo_context == IF Detached THEN NoHead ELSE scan

\* The policy goes with the call and is not read again: lane_state as it is
\* now, and whether a bug task is open (has_unresolved_bug_tasks).
bug_scan_policy(c, unresolved) ==
    [c EXCEPT !.head = collect_repo_context, !.seen = scan, !.lane = doc.lane, !.bugs = unresolved]

collect_context(t) ==
    /\ pc[t] = "collect" /\ Goto(t, "tasks")
    /\ \E unresolved \in BOOLEAN :
          call' = [call EXCEPT ![t] = IF NotesBugs(t) THEN bug_scan_policy(@, unresolved) ELSE @]
    /\ stale' = [stale EXCEPT ![t] = @ \ {"lane"}]
    /\ UNCHANGED <<doc, world, reports, crossed, quiet, runs, faults>>

\* The agents answer anything, and a bug scan that fails (continue_on_error)
\* is a scan that found nothing; materialize_findings then works on proposals
\* and tasks.
run_workflow(t) ==
    /\ pc[t] = "tasks"
    /\ IF NotesBugs(t)
         THEN /\ Goto(t, "lane_load")
              /\ \E found \in BOOLEAN : call' = [call EXCEPT ![t].bugs = @ \/ found]
         ELSE /\ Goto(t, AfterPipeline(t))
              /\ UNCHANGED call
    /\ UNCHANGED <<doc, world, reports, stale, crossed, quiet, runs, faults>>

------------------------------------------------------------------------------
(* The bug lane.                                                           *)

\* Mutant: every scan counts.
Streak_every(c) == c.lane.streak + 1

Streak(c) == IF c.bugs THEN 0
             ELSE IF c.head # c.lane.head THEN 1 ELSE c.lane.streak + 1

UpTo(bound, n) == IF n < bound THEN n ELSE bound

\* _update_bug_lane_state works on the lane the policy saw, _merge_lane_state
\* on the document as it is now.
lane_load(t) ==
    LET streak == Streak(call[t]) IN
    /\ pc[t] = "lane_load" /\ Goto(t, "lane_merge")
    /\ call' = [call EXCEPT ![t] =
          [NoCall EXCEPT !.run = call[t].run, !.seen = call[t].seen, !.bugs = call[t].bugs,
             !.payload = [doc EXCEPT !.lane =
                [status |-> IF Threshold > 0 /\ streak >= Threshold THEN "dormant" ELSE "active",
                 streak |-> UpTo(Threshold, streak),
                 head   |-> call[t].head]]]]
    /\ stale' = [stale EXCEPT ![t] = @ \ {"doc"}]
    /\ UNCHANGED <<doc, world, reports, crossed, quiet, runs, faults>>

lane_merge(t) == save_target_state(t, "lane_merge", "lane_put")

update_bug_lane_state(t) ==
    LET c == call[t] IN
    /\ pc[t] = "lane_put"
    /\ Put(t, {"doc", "lane"}, "report", [NoCall EXCEPT !.run = c.run])
    /\ quiet' = IF c.bugs THEN [head |-> c.seen, same |-> 0, any |-> 0]
                ELSE [head |-> c.seen,
                      same |-> IF c.seen = quiet.head THEN UpTo(Threshold, quiet.same + 1) ELSE UpTo(Threshold, 1),
                      any  |-> UpTo(Threshold, quiet.any + 1)]

------------------------------------------------------------------------------
(* The records of a team run.                                              *)

save_report(t) ==
    /\ pc[t] = "report" /\ Goto(t, "last_load")
    /\ reports' = reports \cup {call[t].run}
    /\ UNCHANGED <<doc, world, call, stale, crossed, quiet, runs, faults>>

last_load(t) == Load(t, "last_load", "last_put", [doc EXCEPT !.last = call[t].run])

\* A run that found no enabled workflow (run 0) ends here.
merge_target_last_run(t) ==
    LET next == IF call[t].run = 0 THEN "idle" ELSE "history_load" IN
    /\ pc[t] = "last_put"
    /\ Put(t, {"doc"}, next, [NoCall EXCEPT !.run = call[t].run])
    /\ UNCHANGED quiet

Rows(rows) == IF Len(rows) > Keep THEN Tail(rows) ELSE rows

history_load(t) ==
    Load(t, "history_load", "history_put", [doc EXCEPT !.history = Rows(Append(@, call[t].run))])

append_target_history(t) ==
    /\ pc[t] = "history_put"
    /\ Put(t, {"doc"}, "idle", NoCall)
    /\ UNCHANGED quiet

------------------------------------------------------------------------------
(* Requests, the loop and the rest of the world.                           *)

run_team_iteration(t) ==
    /\ runs < MaxRuns /\ runs' = runs + 1
    /\ \E forced \in BOOLEAN : Evaluate(t, runs', forced)

\* No finding workflow is enabled: READY or SKIPPED becomes the last run.
run_team_iteration_skipped(t) ==
    /\ runs < MaxRuns /\ runs' = runs + 1
    /\ pc[t] = "idle"
    /\ Goto(t, "last_load")
    /\ call' = [call EXCEPT ![t] = NoCall]
    /\ stale' = [stale EXCEPT ![t] = {}]
    /\ UNCHANGED <<doc, world, reports, crossed, quiet, faults>>

run_workflow_iteration(t) == Evaluate(t, 0, FALSE) /\ UNCHANGED runs

Tick ==
    /\ now < MaxTime /\ now' = now + 1
    /\ UNCHANGED <<doc, scan, reports, pc, call, stale, crossed, quiet, runs, faults>>

Crash ==
    /\ faults < MaxFaults /\ faults' = faults + 1
    /\ \E t \in Caller : pc[t] # "idle"
    /\ pc' = [t \in Caller |-> "idle"] /\ call' = [t \in Caller |-> NoCall]
    /\ stale' = [t \in Caller |-> {}]
    /\ UNCHANGED <<doc, world, reports, crossed, quiet, runs>>

Step(t) ==
    \/ policy_load(t) \/ policy_merge(t) \/ update_workflow_runtime_state(t)
    \/ run_workflow_fails(t) \/ prepare_discovery_repo(t) \/ collect_context(t) \/ run_workflow(t)
    \/ lane_load(t) \/ lane_merge(t) \/ update_bug_lane_state(t)
    \/ save_report(t) \/ last_load(t) \/ merge_target_last_run(t)
    \/ history_load(t) \/ append_target_history(t)

Next ==
    \/ \E t \in Caller : Step(t)
    \/ \E t \in Request : run_team_iteration(t) \/ run_team_iteration_skipped(t)
    \/ \E t \in Loop : run_workflow_iteration(t)
    \/ Tick \/ Crash

Spec == Init /\ [][Next]_vars

------------------------------------------------------------------------------
(* What the document tells.                                                *)

\* The lane sleeps only after Threshold scans in a row found no bug and no
\* open bug task, unless a run wrote over another's.
DormantMeansQuiet == ~crossed /\ doc.lane.status = "dormant" => quiet.any >= Threshold

\* The same of scans of one commit: another head starts the streak anew
\* ("unchanged_head_after_zero_bug_convergence").
DormantForOneHead == ~crossed /\ doc.lane.status = "dormant" => quiet.same >= Threshold

\* A write of one part of the document leaves the others as they are, unless
\* the document changed under it.
Writes ==
    {<<"policy_put", "since">>, <<"lane_put", "lane">>, <<"last_put", "last">>, <<"history_put", "history">>}

NothingForgotten ==
    \A t \in Caller : pc'[t] # pc[t] /\ "doc" \notin stale[t] =>
      \A k \in DOMAIN doc : doc'[k] # doc[k] => <<pc[t], k>> \in Writes

\* What a planner run may rely on in the document, whichever step was taken.
LaneStateKept == [][DormantMeansQuiet' /\ NothingForgotten]_vars
==============================================================================
