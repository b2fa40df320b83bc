------------------------------- MODULE Project -------------------------------
(***************************************************************************)
(* What a project keeps beside its requirements, and what each part        *)
(* promises: the proof that a bug is one (B), the approvals of risky       *)
(* commands (A) and the migration of its files (M).  They share no state.  *)
(***************************************************************************)
EXTENDS Integers, Sequences

CONSTANTS
    Command, Kind, Answer, PlannedItem, MaxAttempts, MaxPlans,     \* BugProof
    RequestKind, CategoryOf, LowKind, MaxRequests, MaxDecisions, MaxEdits,     \* Approvals
    Order, DirOf, KindOf, HeadOf, Claims, DirName, Sorted, Slug, PathOf, Existing, Rewritten,
    Garbled, None, MaxFaults,     \* RepoMigration
    MaxRuns

VARIABLES
    item, audit, tree, evidence, attempts, status, reason, stage, docs, proven, runs, plans,
    policy, log, prompts, asked, executed, decisions, edits, allowed,
    repo, cell, bak, mpc, todo, mapping, ts, now, lossy, broken, mruns, faults

bvars == <<item, audit, tree, evidence, attempts, status, reason, stage, docs, proven, runs, plans>>
avars == <<policy, log, prompts, asked, executed, decisions, edits, allowed>>
mvars == <<repo, cell, bak, mpc, todo, mapping, ts, now, lossy, broken, mruns, faults>>

B == INSTANCE BugProof WITH Named <- Answer, Item <- PlannedItem
A == INSTANCE Approvals WITH Kind <- RequestKind
M == INSTANCE RepoMigration WITH pc <- mpc, runs <- mruns

\* Each file and each project has a place in its order; a head is one of the files, and
\* what the workspace has already is none.
ASSUME MigrationAssumption ==
    /\ Order \in Seq(M!File) /\ Sorted \in Seq(M!Pid)
    /\ \A p \in M!Pid : \E n \in DOMAIN Sorted : Sorted[n] = p
    /\ \A d \in M!Dir : KindOf[d] \in {"requirements", "task"} => HeadOf[d] \in M!File
    /\ DOMAIN Existing \subseteq M!Cell /\ \A c \in DOMAIN Existing : Existing[c] \notin M!File
    /\ M!Torn \notin M!Content
    /\ MaxRuns \in Nat /\ MaxFaults \in Nat

------------------------------------------------------------------------------
\* Nobody codes on a bug that was not shown to fail (BugProof).
FixesProvenBugs == B!FixesProvenBugs

\* What is released passes the commands of its task (BugProof).
ReleasedPasses == B!ReleasedPasses

\* What the policy always denies is not approved, low risk aside (Approvals).
HardBlocksHold == A!HardBlocksHold

\* A migration loses a file only in two ways and keeps projects apart (RepoMigration).
MigrationKeepsFiles == M!MigrationKeepsFiles

\* "It never deletes data; it moves/copies with conflict backups." (RepoMigration)
NeverDeletes == M!NeverDeletes
==============================================================================
