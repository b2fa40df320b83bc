----------------------------- MODULE Operations -----------------------------
(***************************************************************************)
(* What runs beside the delivery of one task, and what each part promises: *)
(* the bootstrap of the control plane (B), its auto-update (U), the task   *)
(* pipelines (T), the worktrees of coding tasks (W), the model proxy's     *)
(* startup (P), the two copies of a task (K) and the recovery after a stop *)
(* (R).  They share no state; names that several of them have are told     *)
(* apart by a prefix.                                                      *)
(***************************************************************************)
CONSTANTS
    Shell,       \* invocations of the scripts (Bootstrap, Startup, TaskPipeline)
    Watcher,     \* auto-update loops (AutoUpdate)
    OnlyIfIdle,
    CodingTask,  \* tasks with worktrees (Worktrees)
    Root, Path, RootOf, Allowed, Legacy, NoBranch,
    StoredTask,  \* tasks that are stored and recovered (TaskStore, Recovery)
    Worker, Reader, TeamTask, Resumer,
    MaxProc, MaxTask, MaxTree, MaxBlocked, MaxPort, MaxProxy, MaxImage, MaxTries, MaxEdits,
    MaxWrites, MaxChanges, MaxRuns, MaxResumes, MaxOutages, MaxFaults

VARIABLES
    pidfile, proc, termed, bpc, bcall, bstale, loose, bfaults,
    published, tag, running, active, watching, wpidfile, starting, upc, previous, ufaults,
    ledger, logs, created, closed, lock, tree, index, head, remote, tpc, tcall, tstale,
    crossed, recorded, gated, edited, tfaults,
    dir, old, dirty, branch, wremote, staged, released, wpc, tries, edits,
    ppidfile, saved, proxy, others, ppc, pcall, pstale, ploose, pfaults,
    kfile, store, kpc, kat, have, filter, ktodo, out, kcrossed, disturbed, calm, writes, kfaults,
    docs, rows, coding, guardians, rlocks, rpc, rat, seen, shown, snapshot, changed, fresh, cured,
    owed, rraced, changes, starts, resumes, rfaults

bvars == <<pidfile, proc, termed, bpc, bcall, bstale, loose, bfaults>>
uvars == <<published, tag, running, active, watching, wpidfile, starting, upc, previous, ufaults>>
tvars == <<ledger, logs, created, closed, lock, tree, index, head, remote, tpc, tcall, tstale,
           crossed, recorded, gated, edited, tfaults>>
dvars == <<dir, old, dirty, branch, wremote, staged, released, wpc, tries, edits>>
pvars == <<ppidfile, saved, proxy, others, ppc, pcall, pstale, ploose, pfaults>>
kvars == <<kfile, store, kpc, kat, have, filter, ktodo, out, kcrossed, disturbed, calm, writes,
           kfaults>>
rvars == <<docs, rows, coding, guardians, rlocks, rpc, rat, seen, shown, snapshot, changed, fresh,
           cured, owed, rraced, changes, starts, resumes, rfaults>>

B == INSTANCE Bootstrap WITH pc <- bpc, call <- bcall, stale <- bstale, faults <- bfaults
U == INSTANCE AutoUpdate WITH
       MaxFaults <- MaxOutages, pidfile <- wpidfile, pc <- upc, faults <- ufaults
T == INSTANCE TaskPipeline WITH pc <- tpc, call <- tcall, stale <- tstale, faults <- tfaults
W == INSTANCE Worktrees WITH
       Task <- CodingTask, None <- NoBranch, remote <- wremote, pc <- wpc
P == INSTANCE Startup WITH
       pidfile <- ppidfile, pc <- ppc, call <- pcall, stale <- pstale, loose <- ploose,
       faults <- pfaults
K == INSTANCE TaskStore WITH
       Task <- StoredTask, file <- kfile, pc <- kpc, at <- kat, todo <- ktodo, crossed <- kcrossed,
       faults <- kfaults
R == INSTANCE Recovery WITH
       Task <- StoredTask, ledger <- docs, locks <- rlocks, pc <- rpc, at <- rat, active <- shown,
       raced <- rraced, faults <- rfaults

------------------------------------------------------------------------------
\* A control plane that boots or serves is in the pid file, or about to be,
\* unless shells have crossed or one has died (Bootstrap).
Tracked == B!Tracked

\* Unless calls have crossed, no recorded blocker is lost and what is pushed has passed a
\* close (TaskPipeline).
LedgerHolds == T!LedgerHolds

\* What is pushed of a task is its own work (Worktrees).
ReleasesAreOwn == W!ReleasesAreOwn

\* A model proxy that serves is found by its pid file and its saved address (Startup).
ProxyFound == P!ProxyFound

\* Both copies of a task say the same, and a listing tells it, unless a read or a stop
\* crossed a write (TaskStore).
TasksAreTold == K!TasksAreTold

\* Recoveries respect the gates, leave one guardian, and cure what the status page misses
\* (Recovery).
RecoveryHolds == R!RecoveryHolds
=============================================================================
