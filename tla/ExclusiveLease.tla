--------------------------- MODULE ExclusiveLease ---------------------------
(***************************************************************************)
(* What the task_leases table promises its callers: for each task at most *)
(* one instance owns the lease, the owner has a deadline at most TTL       *)
(* ahead, and ownership passes to another instance only through a release  *)
(* or once the deadline is behind the clock.  A request names the time it  *)
(* is decided at by nothing but the current clock: the delays between an   *)
(* instance reading its clock and its SQL running are not visible here.    *)
(***************************************************************************)
EXTENDS Naturals

CONSTANTS
    Task,        \* lease keys
    Instance,    \* holders
    NoInstance,  \* owner of a free task
    TTL          \* longest time an owner may be granted in one request

VARIABLES time, owner, deadline

vars == <<time, owner, deadline>>

Init ==
    /\ time = 0
    /\ owner = [t \in Task |-> NoInstance]
    /\ deadline = [t \in Task |-> 0]

\* i becomes or stays the owner of t; a new owner needs a free or lapsed task.
Acquire(t, i) ==
    /\ owner[t] \in {NoInstance, i} \/ deadline[t] <= time
    /\ owner' = [owner EXCEPT ![t] = i]
    /\ \E d \in 0..(time + TTL) : deadline' = [deadline EXCEPT ![t] = d]
    /\ UNCHANGED time

Free(t) ==
    /\ owner' = [owner EXCEPT ![t] = NoInstance]
    /\ deadline' = [deadline EXCEPT ![t] = 0]
    /\ UNCHANGED time

Pass ==
    /\ time' = time + 1
    /\ UNCHANGED <<owner, deadline>>

Next ==
    \/ \E t \in Task : Free(t) \/ \E i \in Instance : Acquire(t, i)
    \/ Pass

Spec == Init /\ [][Next]_vars
=============================================================================
