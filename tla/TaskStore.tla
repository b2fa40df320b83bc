----------------------------- MODULE TaskStore -----------------------------
(***************************************************************************)
(* A delivery task is kept twice: as a document of the runtime database    *)
(* and as a YAML file that mirrors it.  A write stores the document and    *)
(* then the file.  Reading the file writes too: whoever loads it stores    *)
(* what was read, so the listings behind every status page write the       *)
(* database, with a text that a worker may have replaced in between.       *)
(*                                                                         *)
(* Writing the file empties it first.  An empty file loads as no task at   *)
(* all; one that YAML refuses loads as the document of the database.       *)
(* One worker writes a task at a time (the task lease).                    *)
(***************************************************************************)
EXTENDS Integers, FiniteSets

CONSTANTS
    Task,
    Worker,      \* the thread that works on tasks
    Reader,      \* threads that list tasks
    MaxWrites,   \* bound: updates of tasks
    MaxFaults    \* bound: stops of the process

Status == {"todo", "doing", "closed"}
NoStatus == "absent"
Proc == {Worker} \cup Reader

\* Of a file: its status, or that it is missing, just emptied, or cut short.
Content == Status \cup {NoStatus, "empty", "garbled"}

VARIABLES
    file, store,
    pc, at,
    have,        \* the document in hand
    filter,      \* of a listing: the status asked for, or "any"
    todo,        \* of a listing: files it has still to load
    out,         \* of a listing: what it tells, pairs of a task and its status
    crossed,     \* processes that read or wrote a task while another one did
    disturbed,   \* tasks whose copies may differ
    calm,        \* of a listing: tasks nothing disturbed since it began
    writes, faults

vars == <<file, store, pc, at, have, filter, todo, out, crossed, disturbed, calm, writes, faults>>
listing == <<filter, todo, out, calm>>

TypeOK ==
    /\ file \in [Task -> Content] /\ store \in [Task -> Status \cup {NoStatus}]
    /\ pc \in [Proc -> {"idle", "upsert", "loaded", "stored", "emptied", "glob", "next", "done"}]
    /\ at \in [Proc -> Task] /\ have \in [Proc -> Status \cup {NoStatus}]
    /\ filter \in [Reader -> {"any", "todo"}] /\ todo \in [Reader -> SUBSET Task]
    /\ out \in [Reader -> SUBSET (Task \X Status)]
    /\ crossed \subseteq Proc /\ disturbed \subseteq Task /\ calm \in [Reader -> SUBSET Task]
    /\ writes \in Nat /\ faults \in Nat

Init ==
    /\ file = [t \in Task |-> NoStatus] /\ store = [t \in Task |-> NoStatus]
    /\ pc = [p \in Proc |-> "idle"] /\ at = [p \in Proc |-> CHOOSE t \in Task : TRUE]
    /\ have = [p \in Proc |-> NoStatus]
    /\ filter = [r \in Reader |-> "any"] /\ todo = [r \in Reader |-> {}]
    /\ out = [r \in Reader |-> {}]
    /\ crossed = {} /\ disturbed = {} /\ calm = [r \in Reader |-> {}]
    /\ writes = 0 /\ faults = 0

Goto(p, label) == pc' = [pc EXCEPT ![p] = label]

Writing(t) == at[Worker] = t /\ pc[Worker] \in {"stored", "emptied"}
Loading(t) == {p \in Proc : pc[p] = "upsert" /\ at[p] = t}

Disturb(t) ==
    /\ disturbed' = disturbed \cup {t}
    /\ calm' = [r \in Reader |-> calm[r] \ {t}]

------------------------------------------------------------------------------
(* Loading a file.                                                         *)

\* What the text says, if it is a document.
Parsed(t) ==
    IF file[t] \in Status THEN file[t] ELSE IF file[t] = "empty" THEN NoStatus ELSE store[t]

\* Process p reads the file of t.  Only what came from the file will be stored.
_load_yaml(p, t) ==
    /\ at' = [at EXCEPT ![p] = t] /\ have' = [have EXCEPT ![p] = Parsed(t)]
    /\ Goto(p, IF file[t] \in Status THEN "upsert" ELSE "loaded")
    /\ crossed' = IF Writing(t) THEN crossed \cup {p, Worker} ELSE crossed \ {p}

\* Mutant: the loader keeps what it read to itself.
upsert_nothing(p) == UNCHANGED store

upsert_delivery_task(p) == store' = [store EXCEPT ![at[p]] = have[p]]

\* A load that nothing crossed makes the copies equal.
stored_what_it_read(p) ==
    /\ pc[p] = "upsert"
    /\ upsert_delivery_task(p)
    /\ Goto(p, "loaded")
    /\ IF p \in crossed
       THEN Disturb(at[p])
       ELSE disturbed' = disturbed \ {at[p]} /\ UNCHANGED calm
    /\ crossed' = IF Writing(at[p]) THEN crossed \cup {Worker} ELSE crossed
    /\ UNCHANGED <<file, at, have, filter, todo, out, writes, faults>>

------------------------------------------------------------------------------
(* The worker: load, decide, write.                                        *)

take(t) ==
    /\ pc[Worker] = "idle" /\ writes < MaxWrites
    /\ _load_yaml(Worker, t)
    /\ writes' = writes + 1
    /\ UNCHANGED <<file, store, listing, disturbed, faults>>

\* A file without a task in it is not worked on, unless the task is new.
not_a_task ==
    /\ pc[Worker] = "loaded" /\ have[Worker] = NoStatus /\ file[at[Worker]] # NoStatus
    /\ Goto(Worker, "idle")
    /\ UNCHANGED <<file, store, at, have, listing, crossed, disturbed, writes, faults>>

_write_yaml ==
    /\ pc[Worker] = "loaded"
    /\ LET t == at[Worker] IN
       /\ \E s \in Status \ {have[Worker]} :
            /\ have[Worker] = NoStatus => s = "todo" /\ file[t] = NoStatus
            /\ store' = [store EXCEPT ![t] = s] /\ have' = [have EXCEPT ![Worker] = s]
       /\ crossed' = (crossed \ {Worker}) \cup Loading(t)
                        \cup (IF Loading(t) = {} THEN {} ELSE {Worker})
       /\ Disturb(t)
    /\ Goto(Worker, "stored")
    /\ UNCHANGED <<file, at, filter, todo, out, writes, faults>>

empty_file ==
    /\ pc[Worker] = "stored"
    /\ file' = [file EXCEPT ![at[Worker]] = "empty"]
    /\ Goto(Worker, "emptied")
    /\ UNCHANGED <<store, at, have, listing, crossed, disturbed, writes, faults>>

fill_file ==
    /\ pc[Worker] = "emptied"
    /\ file' = [file EXCEPT ![at[Worker]] = have[Worker]]
    /\ disturbed' = IF Worker \in crossed THEN disturbed ELSE disturbed \ {at[Worker]}
    /\ Goto(Worker, "idle")
    /\ UNCHANGED <<store, at, have, listing, crossed, writes, faults>>

------------------------------------------------------------------------------
(* A listing: the documents first, then the files of tasks not seen yet.   *)

Match(r, status) == status # NoStatus /\ filter[r] \in {"any", status}

list_delivery_tasks(r) ==
    /\ pc[r] \in {"idle", "done"}
    /\ \E f \in {"any", "todo"} :
        /\ filter' = [filter EXCEPT ![r] = f]
        /\ out' = [out EXCEPT ![r] =
             {<<t, store[t]>> : t \in {t \in Task : store[t] # NoStatus /\ f \in {"any", store[t]}}}]
    /\ calm' = [calm EXCEPT ![r] = Task \ disturbed]
    /\ Goto(r, "glob")
    /\ UNCHANGED <<file, store, at, have, todo, crossed, disturbed, writes, faults>>

glob(r) ==
    /\ pc[r] = "glob"
    /\ todo' = [todo EXCEPT ![r] = {t \in Task : file[t] # NoStatus}]
    /\ Goto(r, "next")
    /\ UNCHANGED <<file, store, at, have, filter, out, crossed, disturbed, calm, writes, faults>>

\* Every file is loaded, in the order of their names; which order that is does not matter.
load_next(r) ==
    /\ pc[r] = "next"
    /\ \E t \in todo[r] :
        /\ _load_yaml(r, t)
        /\ todo' = [todo EXCEPT ![r] = @ \ {t}]
    /\ UNCHANGED <<file, store, filter, out, disturbed, calm, writes, faults>>

seen_task_ids(r) == {e[1] : e \in out[r]}

tell(r) ==
    /\ pc[r] = "loaded"
    /\ out' = [out EXCEPT ![r] =
         IF at[r] \notin seen_task_ids(r) /\ Match(r, have[r])
         THEN @ \cup {<<at[r], have[r]>>} ELSE @]
    /\ Goto(r, "next")
    /\ UNCHANGED <<file, store, at, have, filter, todo, crossed, disturbed, calm, writes, faults>>

answer(r) ==
    /\ pc[r] = "next" /\ todo[r] = {}
    /\ Goto(r, "done")
    /\ UNCHANGED <<file, store, at, have, listing, crossed, disturbed, writes, faults>>

------------------------------------------------------------------------------
\* The process stops: a file being written stays empty or is cut short.
crash ==
    /\ faults < MaxFaults /\ faults' = faults + 1
    /\ IF pc[Worker] = "emptied"
       THEN \E c \in {"empty", "garbled"} : file' = [file EXCEPT ![at[Worker]] = c]
       ELSE UNCHANGED file
    /\ pc' = [p \in Proc |-> "idle"]
    /\ crossed' = {}
    /\ UNCHANGED <<store, at, have, listing, disturbed, writes>>

Next ==
    \/ \E t \in Task : take(t)
    \/ not_a_task \/ _write_yaml \/ empty_file \/ fill_file
    \/ \E r \in Reader :
        list_delivery_tasks(r) \/ glob(r) \/ load_next(r) \/ tell(r) \/ answer(r)
    \/ \E p \in Proc : stored_what_it_read(p)
    \/ crash

Spec == Init /\ [][Next]_vars

------------------------------------------------------------------------------
(* The copies of a task differ only while it is written, after a stop in   *)
(* the middle of that, or after a load that overlapped the write: the next *)
(* load that nothing overlaps makes them equal again.                      *)
StoreFollowsFile ==
    \A t \in Task : file[t] \in Status /\ store[t] # file[t] => t \in disturbed

(* A listing tells every task once at most; and of a task that nothing     *)
(* disturbed meanwhile, what its file says, if that was asked for.         *)
ListingsTell ==
    \A r \in Reader : pc[r] = "done" =>
      /\ \A d, e \in out[r] : d[1] = e[1] => d = e
      /\ \A t \in calm[r] : file[t] \in Status =>
           (<<t, file[t]>> \in out[r] <=> filter[r] \in {"any", file[t]})

TasksAreTold == StoreFollowsFile /\ ListingsTell
=============================================================================
