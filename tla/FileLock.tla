------------------------------ MODULE FileLock -------------------------------
(***************************************************************************)
(* The lock files of scripts/pipelines/locks.py: one lock path, and the    *)
(* processes (pipeline scripts) that take it for one critical section each.*)
(*                                                                         *)
(* A step is one system call on the path, or the read that follows a       *)
(* failed create.  Every call may come late, by MaxStall at most.  A       *)
(* process slot that is "idle" again stands for a new process.  Renewals   *)
(* that raise are left out: the code swallows them until the lock expires. *)
(***************************************************************************)
EXTENDS Integers

CONSTANTS
    Process,
    Nobody,
    TTL,         \* ttl_sec
    Interval,    \* between two renewals: a third of ttl_sec, at least a second
    MaxStall,    \* how late a system call can come
    MaxCrashes   \* bound: how often

PC == {"idle", "trying", "writing", "stale", "holding", "renewing", "unlink"}

\* The lock outlives a renewal that is late in every step, and a stall is
\* shorter than the second for which release joins the renewal thread.
ASSUME TimingAssumption ==
    /\ TTL \in Nat /\ Interval \in Nat \ {0} /\ MaxStall \in Nat
    /\ Interval + 3 * MaxStall < TTL
ASSUME ProcessAssumption == Nobody \notin Process
ASSUME CrashAssumption == MaxCrashes \in Nat

VARIABLES
    file,   \* the lock file: who created it, and the seconds until expires_at
    pc,     \* what each process does; "renewing" is "holding" while its
            \* renewal thread is between its read and its write
    clock,  \* seconds each process has slept or stalled
    raced,  \* some recovery has moved aside a lock that was not expired
    crashes

vars == <<file, pc, clock, raced, crashes>>

Absent == [state |-> "absent", by |-> Nobody, left |-> 0]
Empty(p) == [state |-> "empty", by |-> p, left |-> 0]
Held(p, left) == [state |-> "held", by |-> p, left |-> left]

MaxClock(point) ==
    IF point = "holding" THEN Interval + MaxStall
    ELSE IF point \in {"idle", "trying"} THEN 0 ELSE MaxStall

TypeOK ==
    /\ file \in [state : {"absent", "empty", "held"},
                 by : Process \cup {Nobody}, left : 0 .. TTL]
    /\ pc \in [Process -> PC]
    /\ clock \in [Process -> Nat]
    /\ \A p \in Process : clock[p] <= MaxClock(pc[p])
    /\ raced \in BOOLEAN /\ crashes \in 0 .. MaxCrashes

Init ==
    /\ file = Absent
    /\ pc = [p \in Process |-> "idle"]
    /\ clock = [p \in Process |-> 0]
    /\ raced = FALSE /\ crashes = 0

\* A system call is made and the next one is awaited.
Goto(p, point) ==
    /\ pc' = [pc EXCEPT ![p] = point]
    /\ clock' = [clock EXCEPT ![p] = 0]

\* The owner a reader of the file sees; a file still empty has none.
Owns(p) == file.state = "held" /\ file.by = p

------------------------------------------------------------------------------
(* _acquire_file_lock.                                                     *)

Begin(p) ==
    /\ pc[p] = "idle"
    /\ Goto(p, "trying")
    /\ UNCHANGED <<file, raced, crashes>>

\* open with O_CREAT and O_EXCL succeeds.
Create(p) ==
    /\ pc[p] = "trying"
    /\ file.state = "absent"
    /\ file' = Empty(p)
    /\ Goto(p, "writing")
    /\ UNCHANGED <<raced, crashes>>

\* The metadata goes into the file that was created, which may no longer be
\* the one at the path; the expiry counts from the time before the create.
WriteMeta(p) ==
    /\ pc[p] = "writing"
    /\ file' = IF file = Empty(p) THEN Held(p, TTL - clock[p]) ELSE file
    /\ Goto(p, "holding")
    /\ UNCHANGED <<raced, crashes>>

\* Mutant: what is expired is not recovered.
is_expired_never(f) == FALSE

\* No expiry in the file, no recovery.
is_expired(f) == f.state = "held" /\ f.left = 0

\* The create fails and the file is read: expired, or the process polls on.
Look(p) ==
    /\ pc[p] = "trying"
    /\ is_expired(file)
    /\ Goto(p, "stale")
    /\ UNCHANGED <<file, raced, crashes>>

\* The deadline is over: LockBusy.
GiveUp(p) ==
    /\ pc[p] = "trying"
    /\ file.state # "absent"
    /\ ~is_expired(file)
    /\ Goto(p, "idle")
    /\ UNCHANGED <<file, raced, crashes>>

\* os.replace moves aside the file that is there now, expired or not.  If
\* there is none, or the move fails, the process tries again or gives up.
Recover(p) ==
    /\ pc[p] = "stale"
    /\ \/ /\ file.state # "absent"
          /\ file' = Absent
          /\ raced' = (raced \/ ~is_expired(file))
          /\ Goto(p, "trying")
          /\ UNCHANGED crashes
       \/ /\ file.state = "absent"
          /\ \E point \in {"trying", "idle"} : Goto(p, point)
          /\ UNCHANGED <<file, raced, crashes>>

------------------------------------------------------------------------------
(* LockHandle.                                                             *)

\* The renewal thread wakes up and reads the file.
RenewRead(p) ==
    /\ pc[p] = "holding"
    /\ clock[p] >= Interval
    /\ Goto(p, IF Owns(p) THEN "renewing" ELSE "holding")
    /\ UNCHANGED <<file, raced, crashes>>

\* Mutant: the heartbeat is renewed and the expiry is not.
RenewWrite_heartbeat_only(p) ==
    /\ pc[p] = "renewing"
    /\ file' = Held(p, file.left)
    /\ Goto(p, "holding")
    /\ UNCHANGED <<raced, crashes>>

\* It puts a file with a new expiry at the path, whatever is there by now.
RenewWrite(p) ==
    /\ pc[p] = "renewing"
    /\ file' = Held(p, TTL - clock[p])
    /\ Goto(p, "holding")
    /\ UNCHANGED <<raced, crashes>>

\* release joins the renewal thread and reads the file.
ReleaseRead(p) ==
    /\ pc[p] = "holding"
    /\ Goto(p, IF Owns(p) THEN "unlink" ELSE "idle")
    /\ UNCHANGED <<file, raced, crashes>>

\* It removes the file that is there by now.
ReleaseUnlink(p) ==
    /\ pc[p] = "unlink"
    /\ file' = Absent
    /\ Goto(p, "idle")
    /\ UNCHANGED <<raced, crashes>>

------------------------------------------------------------------------------
(* Crashes and time.                                                       *)

Crash(p) ==
    /\ pc[p] # "idle"
    /\ crashes < MaxCrashes
    /\ crashes' = crashes + 1
    /\ Goto(p, "idle")
    /\ UNCHANGED <<file, raced>>

Timed(p) == pc[p] \notin {"idle", "trying"}

Tick ==
    /\ \A p \in Process : Timed(p) => clock[p] < MaxClock(pc[p])
    /\ clock' = [p \in Process |-> IF Timed(p) THEN clock[p] + 1 ELSE clock[p]]
    /\ file' = [file EXCEPT !.left = IF @ > 0 THEN @ - 1 ELSE 0]
    /\ UNCHANGED <<pc, raced, crashes>>

Acquire(p) == Create(p) \/ WriteMeta(p) \/ Look(p) \/ GiveUp(p) \/ Recover(p)
Renew(p) == RenewRead(p) \/ RenewWrite(p)
Release(p) == ReleaseRead(p) \/ ReleaseUnlink(p)

Next ==
    \/ \E p \in Process : Begin(p) \/ Acquire(p) \/ Renew(p) \/ Release(p) \/ Crash(p)
    \/ Tick

Spec == Init /\ [][Next]_vars

\* Processes keep coming and go on, critical sections end, time passes.
FairSpec ==
    /\ Spec
    /\ WF_vars(Tick)
    /\ \A p \in Process : WF_vars(Begin(p)) /\ WF_vars(Acquire(p)) /\ WF_vars(Release(p))

------------------------------------------------------------------------------
(* What the lock promises.                                                 *)

Holds(p) == pc[p] \in {"holding", "renewing"}

\* Mutual exclusion of the pipelines that write requirements and tasks: two
\* processes hold the lock at once only if a recovery has moved aside a lock
\* that was not expired, which os.replace does when two processes have read
\* the same expired file.
HoldersExclusive ==
    raced \/ \A p, q \in Process : Holds(p) /\ Holds(q) => p = q

\* A process died between the create and the write: the file names no expiry, so
\* nobody recovers it.
Orphaned == file.state = "empty" /\ pc[file.by] # "writing"

\* "TTL + heartbeat renew for crash recovery": wherever a process died, the lock is
\* taken again, and again and again.  The code keeps this with one exception: a file
\* that was created and never written stays, and nobody takes the lock any more.
LockPassesOn == []<>(\E p \in Process : Holds(p)) \/ <>[]Orphaned
==============================================================================
