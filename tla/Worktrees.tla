----------------------------- MODULE Worktrees -----------------------------
(***************************************************************************)
(* The worktrees in which tasks are delivered, their branches, and what is *)
(* pushed from them.                                                       *)
(*                                                                         *)
(* A task's worktree is a directory named after the task's hint, or after  *)
(* its lane and title, and its branch is named after the task.  The names  *)
(* are cut and cleaned of everything but ASCII letters and digits, so two  *)
(* tasks may come to the same directory: the second then works in the      *)
(* first one's checkout, on the first one's branch.  Deliveries of several *)
(* tasks run side by side; a step is one git command, or one change of a   *)
(* file.                                                                   *)
(***************************************************************************)
EXTENDS Naturals, FiniteSets

CONSTANTS
    Task,
    Root,         \* directories under the root of worktrees
    Path,         \* files of the repository
    RootOf,       \* the directory each task's names come to, [Task -> Root]
    Allowed,      \* the paths a task may release, [Task -> SUBSET Path]
    Legacy,       \* tasks recorded with a worktree elsewhere, by an older version
    None,
    MaxTries,     \* bound: deliveries of each task
    MaxEdits      \* bound: changes of files

\* A change: who made it and where.
Edit == Task \X Path

VARIABLES
    dir,       \* what each directory holds: nothing, other files, or the checkout of a task's branch
    old,       \* tasks whose older worktree is still where it was
    dirty,     \* uncommitted changes in each directory
    branch,    \* the changes on each task's branch, or None
    remote,    \* the changes on each pushed branch
    staged,    \* what a release in progress has committed
    released,  \* the changes of the releases that succeeded
    pc, tries, edits

vars == <<dir, old, dirty, branch, remote, staged, released, pc, tries, edits>>

TypeOK ==
    /\ dir \in [Root -> {"none", "files"} \cup Task]
    /\ old \subseteq Legacy
    /\ dirty \in [Root -> SUBSET Edit]
    /\ branch \in [Task -> {None} \cup SUBSET Edit]
    /\ remote \in [Task -> SUBSET Edit]
    /\ staged \in [Task -> SUBSET Edit] /\ released \in [Task -> SUBSET Edit]
    /\ pc \in [Task -> {"idle", "move", "add", "work", "commit", "push"}]
    /\ tries \in [Task -> Nat] /\ edits \in Nat

\* A directory may hold files of which git knows nothing.  An older worktree has the
\* task's branch checked out.
Init ==
    /\ dir \in [Root -> {"none", "files"}]
    /\ \E r \in Root : dir[r] = "none"
    /\ old = Legacy
    /\ dirty = [r \in Root |-> {}]
    /\ branch = [t \in Task |-> IF t \in Legacy THEN {} ELSE None]
    /\ remote = [t \in Task |-> {}]
    /\ staged = [t \in Task |-> {}] /\ released = [t \in Task |-> {}]
    /\ pc = [t \in Task |-> "idle"]
    /\ tries = [t \in Task |-> 0] /\ edits = 0

Goto(t, label) == pc' = [pc EXCEPT ![t] = label]

UntitledRoot(t) == CHOOSE r \in Root : TRUE

\* normalize_worktree_hint: the hint's last parts, or the lane and the title.
normalize_worktree_hint(t) == RootOf[t]
worktree_root(t) == normalize_worktree_hint(t)

\* A checkout in the task's directory is taken, whatever its branch; an older worktree is
\* moved there; otherwise a new one is made.
ensure_task_worktree(t) ==
    /\ pc[t] = "idle" /\ tries[t] < MaxTries
    /\ tries' = [tries EXCEPT ![t] = @ + 1]
    /\ LET d == dir[worktree_root(t)]
       IN  Goto(t, IF d \in Task THEN "work" ELSE IF t \in old THEN "move"
                   ELSE IF d = "none" THEN "add" ELSE "idle")
    /\ UNCHANGED <<dir, old, dirty, branch, remote, staged, released, edits>>

\* The directory may have filled up since it was looked at.
move_worktree_root(t) ==
    /\ pc[t] = "move"
    /\ \/ /\ dir[worktree_root(t)] = "none"
          /\ dir' = [dir EXCEPT ![worktree_root(t)] = t]
          /\ old' = old \ {t}
          /\ Goto(t, "work")
       \/ /\ dir[worktree_root(t)] # "none"
          /\ Goto(t, "idle")
          /\ UNCHANGED <<dir, old>>
    /\ UNCHANGED <<dirty, branch, remote, staged, released, tries, edits>>

\* git worktree add -B: makes the branch, or sets it back to HEAD; fails on a directory
\* that is not empty.
worktree_add(t) ==
    /\ pc[t] = "add"
    /\ \/ /\ dir[worktree_root(t)] = "none"
          /\ dir' = [dir EXCEPT ![worktree_root(t)] = t]
          /\ branch' = [branch EXCEPT ![t] = {}]
          /\ Goto(t, "work")
       \/ /\ dir[worktree_root(t)] # "none"
          /\ Goto(t, "idle")
          /\ UNCHANGED <<dir, branch>>
    /\ UNCHANGED <<old, dirty, remote, staged, released, tries, edits>>

\* The stages edit; what they run may write outside the task's paths.
Change(t, p) ==
    /\ pc[t] = "work" /\ edits < MaxEdits
    /\ dirty' = [dirty EXCEPT ![worktree_root(t)] = @ \cup {<<t, p>>}]
    /\ edits' = edits + 1
    /\ UNCHANGED <<dir, old, branch, remote, staged, released, pc, tries>>

out_of_scope(t) == {e \in dirty[worktree_root(t)] : e[2] \notin Allowed[t]}

\* Stages may also fail and leave the worktree as it is.
StagesFail(t) ==
    /\ pc[t] = "work"
    /\ Goto(t, "idle")
    /\ UNCHANGED <<dir, old, dirty, branch, remote, staged, released, tries, edits>>

\* release_task: nothing out of scope, then git add.  Nothing to commit is an error.
StartRelease(t) ==
    /\ pc[t] = "work"
    /\ Goto(t, IF out_of_scope(t) = {} THEN "commit" ELSE "idle")
    /\ UNCHANGED <<dir, old, dirty, branch, remote, staged, released, tries, edits>>

\* Only the task's paths are staged; the commit goes to the branch checked out here.
Commit(t) ==
    LET r == worktree_root(t)
        mine == {e \in dirty[r] : e[2] \in Allowed[t]}
    IN  /\ pc[t] = "commit"
        /\ IF mine = {}
             THEN Goto(t, "idle") /\ UNCHANGED <<dirty, branch, staged>>
             ELSE /\ branch' = [branch EXCEPT ![dir[r]] = @ \cup mine]
                  /\ dirty' = [dirty EXCEPT ![r] = @ \ mine]
                  /\ staged' = [staged EXCEPT ![t] = mine]
                  /\ Goto(t, "push")
        /\ UNCHANGED <<dir, old, remote, released, tries, edits>>

\* The branch pushed is the task's own; where there is none, or the remote refuses, the
\* commit stays behind.
Push(t) ==
    /\ pc[t] = "push"
    /\ Goto(t, "idle")
    /\ staged' = [staged EXCEPT ![t] = {}]
    /\ \/ /\ branch[t] # None
          /\ remote' = [remote EXCEPT ![t] = branch[t]]
          /\ released' = [released EXCEPT ![t] = @ \cup staged[t]]
       \/ UNCHANGED <<remote, released>>
    /\ UNCHANGED <<dir, old, dirty, branch, tries, edits>>

Next ==
    \E t \in Task :
        \/ ensure_task_worktree(t) \/ move_worktree_root(t) \/ worktree_add(t)
        \/ \E p \in Path : Change(t, p)
        \/ StagesFail(t) \/ StartRelease(t) \/ Commit(t) \/ Push(t)

Spec == Init /\ [][Next]_vars

-----------------------------------------------------------------------------
\* _ensure_task_worktree, _release_task: a pushed branch carries its own task's changes
\* and, of other tasks, only those whose worktree has the same name; every change on it
\* lies in the paths of a task that shares the worktree; and a task that shares it with
\* none has pushed all that it released.
Sharing(t) == {o \in Task : RootOf[o] = RootOf[t]}

ReleasesAreOwn ==
    \A t \in Task :
        /\ \A e \in remote[t] : /\ e[1] \in Sharing(t)
                                /\ \E o \in Sharing(t) : e[2] \in Allowed[o]
        /\ Sharing(t) = {t} => released[t] \subseteq remote[t]

=============================================================================
