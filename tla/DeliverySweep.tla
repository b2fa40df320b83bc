---------------------------- MODULE DeliverySweep ----------------------------
(***************************************************************************)
(* Who works on a delivery task, and for how long: the sweeps of app/main  *)
(* and task_runtime.py, the coding locks of one process, the lease in the  *)
(* shared database and the heartbeat that keeps it.                        *)
(*                                                                         *)
(* One task.  A job is one thread that sweeps again and again.  What a     *)
(* delivery does between two stages is in Delivery; here a stage is the    *)
(* time an agent takes, followed by assert_held.  The calls of the lease   *)
(* table are one step each: TaskLease shows what they promise.  Times are  *)
(* kept as ages and as what is left, so that time itself is unbounded.     *)
(***************************************************************************)
EXTENDS Integers

CONSTANTS
    Job,         \* sweeping threads
    Instance,    \* control planes that share the database
    NoInstance,
    InstanceOf,  \* the control plane of each job
    LockKey,     \* the coding lock each job takes: by task, target or project
    TTL,         \* ttl_sec
    Heartbeat,   \* heartbeat_interval_sec
    MaxQueue     \* longest a claimed task waits for a pool thread

VARIABLES
    lease,   \* the row: holder, seconds until it expires, seconds since taken
    locks,   \* active keys of _TEAM_CODING_LOCKS, per instance
    pc,      \* what each job does
    guard,   \* its lease guard: seconds since the last beat and since the
             \* last success, and whether it has given the lease up
    status   \* of the task: "open" (a sweep delivers it), "closed", "blocked"

vars == <<lease, locks, pc, guard, status>>

\* How long a job may go on after another instance took the lease over: until
\* its next beat, later if it was queued when the lease ran out, and later
\* still if a job of the same instance gave the lease away.
Alone(j) == \A i \in Job : InstanceOf[i] = InstanceOf[j] => i = j
Overlap(j) == MaxQueue + Heartbeat + (IF Alone(j) THEN 0 ELSE TTL)
MaxAge == TTL + MaxQueue + Heartbeat + 1

NoLease == [holder |-> NoInstance, left |-> 0, age |-> 0]
NoGuard == [beat |-> 0, quiet |-> 0, lost |-> FALSE]

TypeOK ==
    /\ lease \in [holder : Instance \cup {NoInstance}, left : 0 .. TTL, age : 0 .. MaxAge]
    /\ locks \in [Instance -> SUBSET {LockKey[j] : j \in Job}]
    /\ pc \in [Job -> {"idle", "sweep", "queued", "stage", "failing", "release"}]
    /\ guard \in [Job -> [beat : Nat, quiet : Nat, lost : BOOLEAN]]
    /\ \A j \in Job : pc[j] = "queued" => guard[j].beat <= MaxQueue
    /\ \A j \in Job : pc[j] = "stage" /\ ~guard[j].lost =>
                        guard[j].beat <= Heartbeat /\ guard[j].quiet < TTL + Heartbeat
    /\ status \in {"open", "closed", "blocked"}

Init ==
    /\ lease = NoLease
    /\ locks = [i \in Instance |-> {}]
    /\ pc = [j \in Job |-> "idle"]
    /\ guard = [j \in Job |-> NoGuard]
    /\ status = "open"

Own(j) == lease.holder = InstanceOf[j]
Goto(j, p) == pc' = [pc EXCEPT ![j] = p]

------------------------------------------------------------------------------
(* A sweep.                                                                *)

\* _run_team_coding_iteration: one sweep per lock key and process.
BeginSweep(j) ==
    /\ pc[j] = "idle" /\ status = "open"
    /\ LockKey[j] \notin locks[InstanceOf[j]]
    /\ locks' = [locks EXCEPT ![InstanceOf[j]] = @ \cup {LockKey[j]}]
    /\ Goto(j, "sweep")
    /\ UNCHANGED <<lease, guard, status>>

\* The row of the run cannot be written behind the lock and before the try that gives
\* it back: the lock stays until the control plane stops.
RowNotWritten(j) ==
    /\ pc[j] = "idle" /\ status = "open"
    /\ LockKey[j] \notin locks[InstanceOf[j]]
    /\ locks' = [locks EXCEPT ![InstanceOf[j]] = @ \cup {LockKey[j]}]
    /\ UNCHANGED <<lease, pc, guard, status>>

EndSweep(j) ==
    /\ Goto(j, "idle")
    /\ locks' = [locks EXCEPT ![InstanceOf[j]] = @ \ {LockKey[j]}]

Grant(j) ==
    /\ lease' = [holder |-> InstanceOf[j], left |-> TTL,
                 age |-> IF Own(j) THEN lease.age ELSE 0]
    /\ guard' = [guard EXCEPT ![j] = NoGuard]
    /\ Goto(j, "queued")
    /\ UNCHANGED locks

\* Mutant: a row is never taken over.
Granted_no_takeover(j) == lease.holder = NoInstance \/ Own(j)

\* claim_task_lease: refused while another instance holds the lease.
Granted(j) == lease.left = 0 \/ Own(j)

\* _claim_delivery_task_lease, and the delivery goes to the pool.
ClaimLease(j) ==
    /\ pc[j] = "sweep"
    /\ \/ ~Granted(j) /\ EndSweep(j) /\ UNCHANGED <<lease, guard>>
       \/ Granted(j) /\ Grant(j)
    /\ UNCHANGED status

\* A sweep that could have the lease ends without: it raises, or the runtime policy
\* passes the task over.
SweepFails(j) ==
    /\ pc[j] = "sweep" /\ Granted(j)
    /\ EndSweep(j)
    /\ UNCHANGED <<lease, guard, status>>

\* The claim is committed and the sweep raises before the delivery is in the pool
\* (the row cannot be read back, no thread can be started): nobody releases the lease.
ClaimLost(j) ==
    /\ pc[j] = "sweep" /\ Granted(j)
    /\ lease' = [holder |-> InstanceOf[j], left |-> TTL,
                 age |-> IF Own(j) THEN lease.age ELSE 0]
    /\ EndSweep(j)
    /\ UNCHANGED <<guard, status>>

\* A pool thread takes the delivery: the guard starts, believing in the
\* lease, and a task that is final by now is skipped.
Execute(j) ==
    /\ pc[j] = "queued"
    /\ \/ status = "open" /\ Goto(j, "stage")
       \/ status # "open" /\ Goto(j, "release")
    /\ guard' = [guard EXCEPT ![j] = NoGuard]
    /\ UNCHANGED <<lease, locks, status>>

\* The ledger cannot be loaded.
LoadFails(j) ==
    /\ pc[j] = "queued" /\ status = "open"
    /\ Goto(j, "release")
    /\ guard' = [guard EXCEPT ![j] = NoGuard]
    /\ UNCHANGED <<lease, locks, status>>

\* An agent answers and assert_held passes: the result goes to the ledger,
\* and the delivery goes on to another stage or ends.
StageEnds(j) ==
    /\ pc[j] = "stage" /\ ~guard[j].lost
    /\ \E s \in {"open", "closed", "blocked"} :
          /\ status' = s
          /\ Goto(j, IF s = "open" THEN "stage" ELSE "release")
    /\ UNCHANGED <<lease, locks, guard>>

\* assert_held raises.
LeaseLost(j) ==
    /\ pc[j] = "stage" /\ guard[j].lost
    /\ Goto(j, "failing")
    /\ UNCHANGED <<lease, locks, guard, status>>

\* The handler of execute_task_delivery, which does not look at the reason.
Handler(j) ==
    /\ pc[j] = "failing"
    /\ status' = "blocked"
    /\ Goto(j, "release")
    /\ UNCHANGED <<lease, locks, guard>>

\* _execute_delivery_candidate's finally, then the end of the sweep.
ReleaseLease(j) ==
    /\ pc[j] = "release"
    /\ lease' = IF Own(j) THEN NoLease ELSE lease
    /\ guard' = [guard EXCEPT ![j] = NoGuard]
    /\ EndSweep(j)
    /\ UNCHANGED status

\* _release_delivery_task_lease swallows the exception of its call: the lease stays.
ReleaseFails(j) ==
    /\ pc[j] = "release" /\ Own(j)
    /\ guard' = [guard EXCEPT ![j] = NoGuard]
    /\ EndSweep(j)
    /\ UNCHANGED <<lease, status>>

------------------------------------------------------------------------------
(* The heartbeat thread, time, crashes.                                    *)

Beating(j) == pc[j] \in {"stage", "failing"} /\ ~guard[j].lost
Due(j) == guard[j].beat = Heartbeat

\* Mutant: a renewal that is refused is taken for a temporary failure.
Beat_refusal_ignored(j) ==
    /\ Beating(j) /\ Due(j)
    /\ lease' = IF Own(j) THEN [lease EXCEPT !.left = TTL] ELSE lease
    /\ guard' = [guard EXCEPT ![j].beat = 0]
    /\ UNCHANGED <<locks, pc, status>>

\* renew_task_lease answers: renewed, or not held any more.
Beat(j) ==
    /\ Beating(j) /\ Due(j)
    /\ \/ /\ Own(j)
          /\ lease' = [lease EXCEPT !.left = TTL]
          /\ guard' = [guard EXCEPT ![j].beat = 0, ![j].quiet = 0]
       \/ /\ ~Own(j)
          /\ guard' = [guard EXCEPT ![j].beat = 0, ![j].lost = TRUE]
          /\ UNCHANGED lease
    /\ UNCHANGED <<locks, pc, status>>

\* It raises: the lease counts as lost once nothing succeeded for a TTL.
BeatFails(j) ==
    /\ Beating(j) /\ Due(j)
    /\ guard' = [guard EXCEPT ![j].beat = 0,
                              ![j].lost = guard[j].quiet >= TTL]
    /\ UNCHANGED <<lease, locks, pc, status>>

\* A control plane stops: its locks and threads go, its lease stays.  (Where it
\* holds no lock it has no sweep either, and nothing to lose.)
Crash(i) ==
    /\ locks[i] # {}
    /\ pc' = [j \in Job |-> IF InstanceOf[j] = i THEN "idle" ELSE pc[j]]
    /\ guard' = [j \in Job |-> IF InstanceOf[j] = i THEN NoGuard ELSE guard[j]]
    /\ locks' = [locks EXCEPT ![i] = {}]
    /\ UNCHANGED <<lease, status>>

Older(n, most) == IF n < most THEN n + 1 ELSE n

\* A second passes.  Heartbeats are on time, stages take as long as they take.
Tick ==
    /\ \A j \in Job : ~(Beating(j) /\ Due(j))
    /\ \A j \in Job : pc[j] = "queued" => guard[j].beat < MaxQueue
    /\ lease' = IF lease.holder = NoInstance THEN lease
                ELSE [lease EXCEPT !.left = IF @ > 0 THEN @ - 1 ELSE 0,
                                   !.age = Older(@, MaxAge)]
    /\ guard' = [j \in Job |->
                  IF Beating(j) \/ pc[j] = "queued"
                  THEN [guard[j] EXCEPT !.beat = @ + 1, !.quiet = @ + 1]
                  ELSE guard[j]]
    /\ UNCHANGED <<locks, pc, status>>

\* A call that fails and cuts a sweep short.
Fault(j) == RowNotWritten(j) \/ SweepFails(j) \/ ClaimLost(j) \/ LoadFails(j) \/ ReleaseFails(j)

\* A sweep under way goes on.
Step(j) ==
    \/ ClaimLease(j) \/ Execute(j)
    \/ StageEnds(j) \/ LeaseLost(j) \/ Handler(j) \/ ReleaseLease(j)

Next ==
    \/ \E j \in Job :
          \/ BeginSweep(j) \/ Step(j)
          \/ Beat(j) \/ BeatFails(j) \/ Fault(j)
    \/ \E i \in Instance : Crash(i)
    \/ Tick

Spec == Init /\ [][Next]_vars

\* Threads go on, beats come, time passes, and sweeps come again and again in
\* at least one control plane: the others may stay down.
FairSpec ==
    /\ Spec
    /\ WF_vars(Tick)
    /\ SF_vars(\E j \in Job : BeginSweep(j))
    /\ \A j \in Job :
          /\ WF_vars(Step(j))
          /\ WF_vars(Beat(j) \/ BeatFails(j))

------------------------------------------------------------------------------
(* What the lease is for.                                                  *)

\* Two instances work on one task only for a bounded time: a job goes on
\* believing in its lease for at most Overlap after another instance's
\* claim_task_lease took the task.
OverlapBounded ==
    \A j \in Job :
       pc[j] = "stage" /\ ~guard[j].lost /\ lease.holder \notin {NoInstance, InstanceOf[j]}
         => lease.age <= Overlap(j)

\* Stops and failing calls, each of which changes one of the two, come to an end: the
\* condition of the next property.
FaultsStop ==
    <>[][<<pc, locks>>' # <<pc, locks>> => \A i \in Instance : ~Crash(i) /\ \A j \in Job : ~Fault(j)]_vars

\* The lock of j is taken and no sweep of its control plane holds it: RowNotWritten
\* left it behind.
LockedOut(j) ==
    /\ LockKey[j] \in locks[InstanceOf[j]]
    /\ \A k \in Job : InstanceOf[k] = InstanceOf[j] /\ LockKey[k] = LockKey[j] => pc[k] = "idle"

\* An open task is worked on again by some sweep, whatever stopped, failed or was left
\* leased before: an expired lease is claimed by another instance.  It is not if every
\* sweep is locked out by a lock that was left behind, which the code never gives back.
TaskTakenUp ==
    FaultsStop => (status = "open" ~> \/ status # "open"
                                      \/ \E j \in Job : pc[j] = "stage"
                                      \/ \A j \in Job : LockedOut(j))
==============================================================================
