------------------------------ MODULE TaskLease ------------------------------
(***************************************************************************)
(* The task_leases table of app/runtime_db.py and its four operations.     *)
(*                                                                         *)
(* claim_task_lease and renew_task_lease are three separate moments each:  *)
(*   1. utc_now_iso() and the expiry are computed, before any lock;        *)
(*   2. one BEGIN IMMEDIATE transaction decides and writes;                *)
(*   3. after the commit the row is read again, on a second connection,    *)
(*      and that row is what the caller gets.                              *)
(* Other clients run between the moments, so 2 may decide with an old      *)
(* clock and 3 may return a row somebody else has written since.           *)
(*                                                                         *)
(* Left out: lease_version, lease_acquired_at, holder_meta and the other   *)
(* columns no caller reads back.  An absent row is NoLease.                *)
(***************************************************************************)
EXTENDS Integers

CONSTANTS
    Task,        \* lease keys, one per delivery task
    NoTask,      \* the task of an idle client
    Instance,    \* instance ids (one per runtime state directory)
    NoInstance,  \* holder of an absent row
    Client,      \* threads that call the table
    InstanceOf,  \* the instance id each thread passes as holder_instance_id
    TTL,         \* lease_ttl_sec
    CallTime,    \* longest a call is in flight: SQLite's busy timeout ends it
    MaxClock     \* bound on the clock

ASSUME TTLAssumption == TTL \in Nat \ {0}
ASSUME ClockAssumption == CallTime \in Nat /\ CallTime < TTL /\ MaxClock \in Nat
ASSUME InstanceAssumption ==
    InstanceOf \in [Client -> Instance] /\ NoInstance \notin Instance

VARIABLES
    clock,   \* the machine's clock, in seconds: every instance reads this one
    leases,  \* the table
    call,    \* the call each client has in flight
    told     \* told[c][t]: expiry of the row c's last claim or renewal returned

vars == <<clock, leases, call, told>>

Lease == [holder : Instance \cup {NoInstance}, expires : Nat]
NoLease == [holder |-> NoInstance, expires |-> 0]

CallStep == {"claim", "claim_row", "renew", "renew_row"}
Call == [step : CallStep, task : Task, now : Nat]
NoCall == [step |-> "idle", task |-> NoTask, now |-> 0]

TypeOK ==
    /\ clock \in Nat
    /\ leases \in [Task -> Lease]
    /\ call \in [Client -> Call \cup {NoCall}]
    /\ told \in [Client -> [Task -> Nat]]

Init ==
    /\ clock = 0
    /\ leases = [t \in Task |-> NoLease]
    /\ call = [c \in Client |-> NoCall]
    /\ told = [c \in Client |-> [t \in Task |-> 0]]

------------------------------------------------------------------------------
(* Clock arithmetic of the table.                                          *)

\* _task_lease_is_active: strictly after, both truncated to seconds.
task_lease_is_active(row, now) == row.expires > now

\* _lease_expires_at_iso: computed with now, before the transaction.
lease_expires_at(now) == now + TTL

------------------------------------------------------------------------------
(* The operations.                                                         *)

Idle(c) == call[c] = NoCall

ReadRowNext(c, step) == call' = [call EXCEPT ![c].step = step]
Return(c) == call' = [call EXCEPT ![c] = NoCall]

\* First moment of both calls: the caller reads the clock.
BeginCall(c, t, step) ==
    /\ Idle(c)
    /\ call' = [call EXCEPT ![c] = [step |-> step, task |-> t, now |-> clock]]
    /\ UNCHANGED <<clock, leases, told>>

\* The claim's early return: an active row of another holder.
Denied(c) ==
    LET row == leases[call[c].task] IN
    /\ task_lease_is_active(row, call[c].now)
    /\ row.holder # NoInstance
    /\ row.holder # InstanceOf[c]

WriteRow(c) ==
    leases' = [leases EXCEPT ![call[c].task] =
                 [holder |-> InstanceOf[c], expires |-> lease_expires_at(call[c].now)]]

\* claim_task_lease, the transaction: insert, take over, or re-claim.
claim_task_lease(c) ==
    /\ call[c].step = "claim"
    /\ \/ /\ Denied(c)
          /\ Return(c)
          /\ UNCHANGED leases
       \/ /\ ~Denied(c)
          /\ WriteRow(c)
          /\ ReadRowNext(c, "claim_row")
    /\ UNCHANGED <<clock, told>>

\* Mutant: renewing does not look at who holds the row.
renew_task_lease_any(c) ==
    /\ call[c].step = "renew"
    /\ WriteRow(c)
    /\ ReadRowNext(c, "renew_row")
    /\ UNCHANGED <<clock, told>>

\* renew_task_lease, the transaction: the holder's own row, expired or not.
\* A row of somebody else, or none, returns None and the guard stops.
renew_task_lease(c) ==
    /\ call[c].step = "renew"
    /\ \/ /\ leases[call[c].task].holder = InstanceOf[c]
          /\ WriteRow(c)
          /\ ReadRowNext(c, "renew_row")
          /\ UNCHANGED told
       \/ /\ leases[call[c].task].holder # InstanceOf[c]
          /\ Return(c)
          /\ UNCHANGED leases
          /\ told' = [told EXCEPT ![c][call[c].task] = 0]
    /\ UNCHANGED clock

\* get_task_lease after the commit: whatever row is there now is the reply.
\* No row is reported to the caller as a lease it does not have.
get_task_lease(c) ==
    /\ call[c].step \in {"claim_row", "renew_row"}
    /\ Return(c)
    /\ told' = [told EXCEPT ![c][call[c].task] = leases[call[c].task].expires]
    /\ UNCHANGED <<clock, leases>>

\* sqlite3 raises ("database is locked") and the transaction is rolled back.
CallFails(c) ==
    /\ call[c].step \in {"claim", "renew"}
    /\ Return(c)
    /\ UNCHANGED <<clock, leases, told>>

\* Mutant: DELETE ... WHERE lease_key = ? without the holder.
release_task_lease_any(c, t) ==
    /\ Idle(c)
    /\ leases' = [leases EXCEPT ![t] = NoLease]
    /\ told' = [told EXCEPT ![c][t] = 0]
    /\ UNCHANGED <<clock, call>>

\* release_task_lease: one DELETE with key and holder; nothing else is checked.
release_task_lease(c, t) ==
    /\ Idle(c)
    /\ leases' = [leases EXCEPT ![t] = IF @.holder = InstanceOf[c] THEN NoLease ELSE @]
    /\ told' = [told EXCEPT ![c][t] = 0]
    /\ UNCHANGED <<clock, call>>

\* The process of c stops: its rows stay until they expire.
Crash(c) ==
    /\ Return(c)
    /\ told' = [told EXCEPT ![c] = [t \in Task |-> 0]]
    /\ UNCHANGED <<clock, leases>>

\* A second passes.  No call is ever older than CallTime.
Tick ==
    /\ clock < MaxClock
    /\ \A c \in Client : ~Idle(c) => clock < call[c].now + CallTime
    /\ clock' = clock + 1
    /\ UNCHANGED <<leases, call, told>>

Next ==
    \/ \E c \in Client, t \in Task :
          \/ BeginCall(c, t, "claim")
          \/ BeginCall(c, t, "renew")
          \/ release_task_lease(c, t)
    \/ \E c \in Client :
          \/ claim_task_lease(c)
          \/ renew_task_lease(c)
          \/ get_task_lease(c)
          \/ CallFails(c)
          \/ Crash(c)
    \/ Tick

Spec == Init /\ [][Next]_vars

------------------------------------------------------------------------------
(* What the table is for.                                                  *)

PassesOn(t) ==
    /\ leases[t].holder # NoInstance
    /\ leases'[t].holder \notin {NoInstance, leases[t].holder}

\* A lease passes from one instance to another only behind its expiry, even
\* though claim_task_lease decides with a clock it read before its lock.
TakeoverOnlyAfterExpiry ==
    [][\A t \in Task : PassesOn(t) => leases[t].expires <= clock]_vars

\* Nobody has to wait more than TTL for the row of a process that died: no
\* order of claims and renewals leaves an expiry further ahead than that.
DeadHolderWaitsAtMostTTL == \A t \in Task : leases[t].expires <= clock + TTL

\* A client that was told "yours until e" by its last claim or renewal, and
\* that shares its instance id with no other client, is the holder until e:
\* the reply read after the commit, and any later call of the others, agree.
Alone(c) == \A d \in Client : InstanceOf[c] = InstanceOf[d] => c = d
ToldHolderHolds ==
    \A c \in Client, t \in Task :
       Alone(c) /\ told[c][t] > clock => /\ leases[t].holder = InstanceOf[c]
                                         /\ leases[t].expires >= told[c][t]

\* The table implements the abstract lease.
Abstract == INSTANCE ExclusiveLease WITH
    time <- clock,
    owner <- [t \in Task |-> leases[t].holder],
    deadline <- [t \in Task |-> leases[t].expires]

ImplementsExclusiveLease == Abstract!Spec
==============================================================================
