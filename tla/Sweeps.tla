------------------------------- MODULE Sweeps -------------------------------
(***************************************************************************)
(* The leases of tasks (TaskLease), and beside them the sweeps that take   *)
(* one and work on its task (S).  They share no state.                     *)
(***************************************************************************)
EXTENDS TaskLease

CONSTANTS
    Job, Owner,    \* sweeping threads, and the control plane of each (DeliverySweep)
    LockKey, Heartbeat, MaxQueue

VARIABLES lease, locks, pc, guard, status

svars == <<lease, locks, pc, guard, status>>

S == INSTANCE DeliverySweep WITH InstanceOf <- Owner

------------------------------------------------------------------------------
\* Two instances work on one task for a bounded time only (DeliverySweep).
OverlapBounded == S!OverlapBounded
=============================================================================
