---------------------------- MODULE TaskPipeline ----------------------------
(***************************************************************************)
(* The command-line pipelines of a task: create, close and ship.           *)
(*                                                                         *)
(* task_create.py scaffolds a task (ledger, logs, metrics), task_close.py  *)
(* runs the gates and closes it, task_ship.py closes it, commits the       *)
(* working tree and pushes.  create and close hold the repo lock and the   *)
(* scope lock, here one lock: FileLock shows when it excludes.  ship holds *)
(* none when it reads the ledger or marks it blocked.  A ledger is written *)
(* by emptying the file and filling it.  Trees are numbered: a commit, the *)
(* index and the remote branch are the number of the tree they hold.       *)
(***************************************************************************)
EXTENDS Naturals, FiniteSetsExt

CONSTANTS
    Shell,      \* invocations that may be under way at once
    MaxTask,    \* tasks ever created: a bound
    MaxTree,    \* edits of the working tree: a bound
    MaxBlocked, \* blockers recorded in a ledger: a bound
    MaxFaults   \* pushes and commits that fail, shells that die: a bound

Task == 1 .. MaxTask
NoTask == 0
Free == "free"

Status == {"absent", "torn", "intake", "closed", "blocked"}
Readable == {"intake", "closed", "blocked"}
Ledger == [status : Status, blockers : 0 .. MaxBlocked]
NoLedger == [status |-> "absent", blockers |-> 0]
Torn == [status |-> "torn", blockers |-> 0]

Label == {"idle", "create_open", "create_dump", "create_logs", "create_metric",
          "lock", "close_read", "gates", "close_open", "close_dump", "close_metric", "close_append",
          "scan", "precheck", "add", "commit", "push",
          "blocked_read", "blocked_open", "blocked_dump"}

Call == [task    : {NoTask} \cup Task,
         ships   : BOOLEAN,               \* task_ship: goes on when the close has passed
         broken  : BOOLEAN,               \* the push is known not to work
         ledger  : Ledger,                \* as read, and to be written
         after   : {"idle", "add"}]       \* what follows _mark_blocked

NoCall == [task |-> NoTask, ships |-> FALSE, broken |-> FALSE, ledger |-> NoLedger, after |-> "idle"]

VARIABLES
    ledger, logs, created, closed,   \* per task: the ledger, the logs are complete, two events' counts
    lock,
    tree, index, head, remote,       \* the working tree, what is staged, committed and pushed
    pc, call,
    stale,     \* the shells under whose feet the ledger they read has changed
    crossed,   \* the tasks whose ledger a stale shell has written, or a dead one left torn
    recorded,  \* blockers ever recorded for a task
    gated,     \* the trees a close found in order
    edited,    \* a tree changed between its gates and its commit
    faults

disk == <<ledger, logs, created, closed>>
git == <<tree, index, head, remote>>
ghosts == <<stale, crossed, recorded, gated, edited>>
vars == <<disk, lock, git, pc, call, ghosts, faults>>

TypeOK ==
    /\ ledger \in [Task -> Ledger] /\ logs \in [Task -> BOOLEAN]
    /\ created \in [Task -> 0 .. 2] /\ closed \in [Task -> 0 .. 2]
    /\ lock \in {Free} \cup Shell
    /\ tree \in 0 .. MaxTree /\ index \in 0 .. MaxTree /\ head \in 0 .. MaxTree /\ remote \in 0 .. MaxTree
    /\ pc \in [Shell -> Label] /\ call \in [Shell -> Call]
    /\ stale \subseteq Shell /\ crossed \subseteq Task
    /\ recorded \in [Task -> 0 .. MaxBlocked]
    /\ gated \subseteq 0 .. MaxTree /\ edited \in BOOLEAN
    /\ faults \in 0 .. MaxFaults

Init ==
    /\ ledger = [t \in Task |-> NoLedger] /\ logs = [t \in Task |-> FALSE]
    /\ created = [t \in Task |-> 0] /\ closed = [t \in Task |-> 0]
    /\ lock = Free
    /\ tree = 0 /\ index = 0 /\ head = 0 /\ remote = 0
    /\ pc = [s \in Shell |-> "idle"] /\ call = [s \in Shell |-> NoCall]
    /\ stale = {} /\ crossed = {} /\ recorded = [t \in Task |-> 0]
    /\ gated = {0} /\ edited = FALSE /\ faults = 0

------------------------------------------------------------------------------
(* Steps, the lock and the ledger file.                                    *)

Goto(s, label) == pc' = [pc EXCEPT ![s] = label]
Of(s) == call[s].task

Ends(s) == Goto(s, "idle") /\ call' = [call EXCEPT ![s] = NoCall]
Release(s) == lock' = IF lock = s THEN Free ELSE lock

Fails == faults < MaxFaults /\ faults' = faults + 1

\* The shells that have read this ledger and will use what they read.
Holding == {"gates", "close_open", "close_dump", "blocked_open", "blocked_dump"}

SetLedger(s, new) ==
    LET t == Of(s) IN
    /\ ledger' = [ledger EXCEPT ![t] = new]
    /\ stale' = stale \cup {u \in Shell \ {s} : pc[u] \in Holding /\ Of(u) = t}
    /\ crossed' = IF s \in stale THEN crossed \cup {t} ELSE crossed

\* write_yaml: path.write_text opens the file, which empties it, and writes.
open(s, from, next) ==
    /\ pc[s] = from /\ Goto(s, next)
    /\ SetLedger(s, Torn)
    /\ UNCHANGED <<logs, created, closed, lock, git, call, recorded, gated, edited, faults>>

Read(s, new) ==
    /\ call' = [call EXCEPT ![s].ledger = new]
    /\ stale' = stale \ {s}

------------------------------------------------------------------------------
(* task_create.                                                            *)

\* The next number after those of the ledgers there are.
next_openteam_seq == 1 + Max({t \in Task : ledger[t].status # "absent"} \cup {0})

\* A create that finds the lock held gives up in the end, which changes nothing.
task_create(s) ==
    LET t == next_openteam_seq IN
    /\ pc[s] = "idle" /\ lock = Free /\ t \in Task
    /\ lock' = s /\ Goto(s, "create_open")
    /\ call' = [call EXCEPT ![s] = [NoCall EXCEPT !.task = t]]
    /\ stale' = stale \ {s}
    /\ UNCHANGED <<disk, git, crossed, recorded, gated, edited, faults>>

create_open(s) == open(s, "create_open", "create_dump")

create_dump(s) ==
    /\ pc[s] = "create_dump" /\ Goto(s, "create_logs")
    /\ SetLedger(s, [status |-> "intake", blockers |-> 0])
    /\ UNCHANGED <<logs, created, closed, lock, git, call, recorded, gated, edited, faults>>

create_logs(s) ==
    /\ pc[s] = "create_logs" /\ Goto(s, "create_metric")
    /\ logs' = [logs EXCEPT ![Of(s)] = TRUE]
    /\ UNCHANGED <<ledger, created, closed, lock, git, call, ghosts, faults>>

create_metric(s) ==
    /\ pc[s] = "create_metric" /\ Ends(s) /\ Release(s)
    /\ created' = [created EXCEPT ![Of(s)] = @ + 1]
    /\ UNCHANGED <<ledger, logs, closed, git, ghosts, faults>>

------------------------------------------------------------------------------
(* task_close, by itself or as the first thing of a ship.                  *)

\* The task must have a ledger file; a ship reads it first, and without a lock.
task_close(s) ==
    /\ pc[s] = "idle" /\ Goto(s, "lock")
    /\ \E t \in Task, ships \in BOOLEAN :
          /\ ledger[t].status # "absent" /\ (ships => ledger[t].status \in Readable)
          /\ call' = [call EXCEPT ![s] = [NoCall EXCEPT !.task = t, !.ships = ships]]
    /\ stale' = stale \ {s}
    /\ UNCHANGED <<disk, lock, git, crossed, recorded, gated, edited, faults>>

acquire(s) ==
    /\ pc[s] = "lock" /\ lock = Free
    /\ lock' = s /\ Goto(s, "close_read")
    /\ UNCHANGED <<disk, git, call, ghosts, faults>>

\* The lock stays busy for wait_sec, or the ledger is empty.
close_gives_up(s) ==
    /\ \/ pc[s] = "lock" /\ lock # Free
       \/ pc[s] = "close_read" /\ ledger[Of(s)].status \notin Readable
    /\ Ends(s) /\ Release(s)
    /\ UNCHANGED <<disk, git, ghosts, faults>>

close_read(s) ==
    /\ pc[s] = "close_read" /\ ledger[Of(s)].status \in Readable
    /\ Goto(s, "gates") /\ Read(s, ledger[Of(s)])
    /\ UNCHANGED <<disk, lock, git, crossed, recorded, gated, edited, faults>>

\* Logs and metrics are there, and policy, purity and tests pass in this tree.
gates_passed(s) ==
    /\ pc[s] = "gates" /\ logs[Of(s)] /\ created[Of(s)] > 0
    /\ Goto(s, IF call[s].ledger.status = "closed" THEN "close_metric" ELSE "close_open")
    /\ gated' = gated \cup {tree}
    /\ UNCHANGED <<disk, lock, git, call, stale, crossed, recorded, edited, faults>>

gates_failed(s) ==
    /\ pc[s] = "gates" /\ Ends(s) /\ Release(s)
    /\ UNCHANGED <<disk, git, ghosts, faults>>

close_open(s) == open(s, "close_open", "close_dump")

\* Mutant: the closed ledger keeps nothing of what blocked the task.
close_dump_anew(s) ==
    /\ pc[s] = "close_dump" /\ Goto(s, "close_metric")
    /\ SetLedger(s, [status |-> "closed", blockers |-> 0])
    /\ UNCHANGED <<logs, created, closed, lock, git, call, recorded, gated, edited, faults>>

close_dump(s) ==
    /\ pc[s] = "close_dump" /\ Goto(s, "close_metric")
    /\ SetLedger(s, [call[s].ledger EXCEPT !.status = "closed"])
    /\ UNCHANGED <<logs, created, closed, lock, git, call, recorded, gated, edited, faults>>

\* The locks go, and a ship goes on.
Closed(s) ==
    /\ Release(s)
    /\ IF call[s].ships
         THEN Goto(s, "scan") /\ call' = [call EXCEPT ![s].ledger = NoLedger]
         ELSE Ends(s)

has_task_closed_event(s) ==
    /\ pc[s] = "close_metric"
    /\ IF closed[Of(s)] > 0 THEN Closed(s) ELSE Goto(s, "close_append") /\ UNCHANGED <<lock, call>>
    /\ UNCHANGED <<disk, git, ghosts, faults>>

close_append(s) ==
    /\ pc[s] = "close_append" /\ Closed(s)
    /\ closed' = [closed EXCEPT ![Of(s)] = @ + 1]
    /\ UNCHANGED <<ledger, logs, created, git, ghosts, faults>>

------------------------------------------------------------------------------
(* task_ship, after its close.                                             *)

MarkBlocked(s, after, broken) ==
    /\ Goto(s, "blocked_read")
    /\ call' = [call EXCEPT ![s].after = after, ![s].broken = broken]

\* The scan finds something, or this is a dry run, or it goes on.
secrets_scan(s) ==
    /\ pc[s] = "scan"
    /\ \/ MarkBlocked(s, "idle", FALSE)
       \/ Ends(s)
       \/ Goto(s, "precheck") /\ UNCHANGED call
    /\ UNCHANGED <<disk, lock, git, ghosts, faults>>

\* No origin, or a dry-run push that fails: the task is blocked, and committed.
precheck(s) ==
    /\ pc[s] = "precheck"
    /\ \/ MarkBlocked(s, "add", TRUE)
       \/ Goto(s, "add") /\ UNCHANGED call
    /\ UNCHANGED <<disk, lock, git, ghosts, faults>>

\* "nothing_to_ship" ends a ship, also one whose commit an earlier one could
\* not push.
git_add(s) ==
    /\ pc[s] = "add"
    /\ index' = tree
    /\ IF tree = head THEN Ends(s) ELSE Goto(s, "commit") /\ UNCHANGED call
    /\ UNCHANGED <<disk, lock, tree, head, remote, ghosts, faults>>

\* What is staged by now; it fails when another ship has committed that.
git_commit(s) ==
    /\ pc[s] = "commit"
    /\ head' = index
    /\ IF index = head \/ call[s].broken THEN Ends(s) ELSE Goto(s, "push") /\ UNCHANGED call
    /\ UNCHANGED <<disk, lock, tree, index, remote, ghosts, faults>>

git_push(s) ==
    /\ pc[s] = "push"
    /\ remote' = head /\ Ends(s)
    /\ UNCHANGED <<disk, lock, tree, index, head, ghosts, faults>>

git_fails(s) ==
    /\ pc[s] \in {"commit", "push"} /\ Fails
    /\ IF pc[s] = "push" THEN MarkBlocked(s, "idle", FALSE) ELSE Ends(s)
    /\ UNCHANGED <<disk, lock, git, ghosts>>

\* _mark_blocked, without a lock; an empty ledger ends the ship.
blocked_read(s) ==
    LET l == ledger[Of(s)] IN
    /\ pc[s] = "blocked_read"
    /\ IF l.status \in Readable /\ l.blockers < MaxBlocked
         THEN Goto(s, "blocked_open") /\ Read(s, [status |-> "blocked", blockers |-> l.blockers + 1])
         ELSE Ends(s) /\ UNCHANGED stale
    /\ UNCHANGED <<disk, lock, git, crossed, recorded, gated, edited, faults>>

blocked_open(s) == open(s, "blocked_open", "blocked_dump")

blocked_dump(s) ==
    /\ pc[s] = "blocked_dump"
    /\ SetLedger(s, call[s].ledger)
    /\ recorded' = [recorded EXCEPT ![Of(s)] = IF @ < MaxBlocked THEN @ + 1 ELSE @]
    /\ IF call[s].after = "idle" THEN Ends(s)
       ELSE Goto(s, "add") /\ call' = [call EXCEPT ![s].ledger = NoLedger]
    /\ UNCHANGED <<logs, created, closed, lock, git, gated, edited, faults>>

------------------------------------------------------------------------------

\* The lock of a shell that died is recovered after its TTL.
shell_dies(s) ==
    /\ pc[s] # "idle" /\ Fails /\ Ends(s) /\ Release(s)
    /\ crossed' = IF pc[s] \in {"create_dump", "close_dump", "blocked_dump"}
                  THEN crossed \cup {Of(s)} ELSE crossed
    /\ UNCHANGED <<disk, git, stale, recorded, gated, edited>>

\* Somebody works on the repository.
Shipping == {"gates", "close_open", "close_dump", "close_metric", "close_append", "scan", "precheck",
             "add", "blocked_read", "blocked_open", "blocked_dump"}
edit ==
    /\ tree < MaxTree /\ tree' = tree + 1
    /\ edited' = (edited \/ \E s \in Shell : call[s].ships /\ pc[s] \in Shipping)
    /\ UNCHANGED <<disk, lock, index, head, remote, pc, call, stale, crossed, recorded, gated, faults>>

Step(s) ==
    \/ task_create(s) \/ create_open(s) \/ create_dump(s) \/ create_logs(s) \/ create_metric(s)
    \/ task_close(s) \/ acquire(s) \/ close_gives_up(s) \/ close_read(s)
    \/ gates_passed(s) \/ gates_failed(s) \/ close_open(s) \/ close_dump(s)
    \/ has_task_closed_event(s) \/ close_append(s)
    \/ secrets_scan(s) \/ precheck(s) \/ git_add(s) \/ git_commit(s) \/ git_push(s) \/ git_fails(s)
    \/ blocked_read(s) \/ blocked_open(s) \/ blocked_dump(s) \/ shell_dies(s)

Next == (\E s \in Shell : Step(s)) \/ edit

Spec == Init /\ [][Next]_vars

------------------------------------------------------------------------------
(* What the pipelines promise.                                             *)

\* A ledger keeps every blocker recorded for its task, unless a shell wrote
\* what it had read before another's write, or died while it wrote.
BlockersKept ==
    \A t \in Task \ crossed :
       \/ \E s \in Shell : Of(s) = t /\ pc[s] \in {"create_dump", "close_dump", "blocked_dump"}
       \/ ledger[t].blockers = recorded[t]

\* "Shipping is only allowed after task close passes": what the remote has
\* passed a close, unless somebody edited between the close and the commit.
PushedWasGated == edited \/ remote \in gated

\* What the pipelines owe a task: its record, and that only checked work leaves.
LedgerHolds == BlockersKept /\ PushedWasGated

=============================================================================
