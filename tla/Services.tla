------------------------------ MODULE Services ------------------------------
(***************************************************************************)
(* Services beside the delivery studio, and what each promises: the        *)
(* OpenClaw reporter (R), the GitHub issues of tasks (I), the event        *)
(* streams and logs of runs (E) and the inspection of a repository (N).    *)
(* They share no state; names that several of them have are told apart by  *)
(* a prefix.                                                               *)
(***************************************************************************)
EXTENDS Integers, Sequences, FiniteSets

CONSTANTS
    Loop, Api, Limit, MaxEvents, MaxSweeps,     \* EventReporter
    Thread, Task, MaxIssues, MaxUpdates,        \* Issues
    Watcher, Firehose, Saver, Page, Batch, MaxLog, MaxControls,     \* EventFeed
    Inspector, Scanned, Paths, Contents, Manifests, ListLimit, FileChars, ChunkChars, MaxScans, \* Inspection
    MaxFaults

ASSUME ReporterAssumption ==
    /\ Limit \in Nat \ {0} /\ MaxEvents \in Nat /\ MaxSweeps \in Nat

ASSUME IssuesAssumption ==
    /\ IsFiniteSet(Task)
    /\ MaxIssues \in Nat /\ MaxUpdates \in Nat /\ MaxFaults \in Nat

ASSUME FeedAssumption ==
    /\ Watcher \cap Firehose = {}
    /\ Page \in Nat \ {0} /\ Batch \in Nat \ {0} /\ MaxLog \in Nat /\ MaxControls \in Nat

VARIABLES
    last, added, cursor, rpc, at, upto, handled, sent, again, crossed, disturbed, sweeps, rfaults,
    irecord, issues, row, ipc, icall, alone, behind, doubled, updates, ifaults,
    events, frow, phase, due, fpc, fcursor, taken, ended, fsent, known, cut, logs, json, md, mixed, controls,
    content, manifest, branch, tree, dirty, npc, ref, tracked, saw, chunks, baseline, ncrossed, scans

rvars == <<last, added, cursor, rpc, at, upto, handled, sent, again, crossed, disturbed, sweeps, rfaults>>
ivars == <<irecord, issues, row, ipc, icall, alone, behind, doubled, updates, ifaults>>
fvars == <<events, frow, phase, due, fpc, fcursor, taken, ended, fsent, known, cut, logs, json, md, mixed,
           controls>>
nvars == <<content, manifest, branch, tree, dirty, npc, ref, tracked, saw, chunks, baseline, ncrossed,
           scans>>

R == INSTANCE EventReporter WITH pc <- rpc, faults <- rfaults
I == INSTANCE Issues WITH record <- irecord, pc <- ipc, call <- icall, faults <- ifaults
E == INSTANCE EventFeed WITH row <- frow, pc <- fpc, cursor <- fcursor, sent <- fsent
N == INSTANCE Inspection WITH
       Run <- Inspector, Commit <- Scanned, head <- branch, pc <- npc, crossed <- ncrossed

ASSUME InspectionAssumption ==
    /\ Scanned # {} /\ Len(Paths) \in Nat
    /\ Contents \subseteq [Scanned -> [N!File -> Nat \cup {N!Gone}]]
    /\ \A m \in Manifests : m \subseteq N!Command \cup {"python"}
    /\ ListLimit \in Nat /\ MaxScans \in Nat
    /\ FileChars \in Nat /\ ChunkChars \in Nat /\ 34 <= FileChars /\ FileChars <= ChunkChars

------------------------------------------------------------------------------
\* No event before the cursor was skipped, and none is sent twice but by sweeps that have
\* met, failed or stopped (EventReporter).
ReportsHold == R!NothingSkipped /\ R!SentOnce

\* Unless creations were doubled or syncs have crossed, a subject has one issue and the
\* milestone counts its tasks as they are (Issues).
IssuesInStep == I!OneIssuePerSubject /\ I!MilestoneInStep

\* What a watcher saw, a stream carried or a log kept is the run as it was (EventFeed).
WatchersTold == E!WatchersTold

\* An inspection reads one commit, accounts for every file and tries what tests there
\* are, unless another run crossed it (Inspection).
InspectionHolds == N!InspectionHolds
=============================================================================
