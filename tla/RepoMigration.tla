---------------------------- MODULE RepoMigration ----------------------------
(***************************************************************************)
(* migrate_repo_projects.py --force: the files of legacy projects move     *)
(* from the repository to the workspace, one after the other, with a       *)
(* backup of what was there.  A move may fail and the run goes on, or the  *)
(* run dies; it is then run again and plans from what is left.             *)
(*                                                                         *)
(* A directory of the repository holds the files of one project.  Its head *)
(* is requirements.yaml or a task's ledger, which name the project.        *)
(***************************************************************************)
EXTENDS Integers, FiniteSets

CONSTANTS
    Order,      \* the legacy files in the order in which they are planned
    DirOf,      \* DirOf[f]
    KindOf,     \* KindOf[d]: "requirements", "task" or "plain"
    HeadOf,     \* HeadOf[d]: the file that names the project, or None
    Claims,     \* Claims[d]: the project it names; for "plain" the directory's name
    DirName,    \* DirName[d]
    Sorted,     \* the projects' names in the order of sorted()
    Slug,       \* Slug[p]: _slug_project_id
    PathOf,     \* PathOf[f]: the path under the project's state
    Rewritten,  \* yaml files that are rewritten after the move
    Garbled,    \* those among them that do not parse
    Existing,   \* what is in the workspace already: a content for each cell
    None,
    MaxRuns, MaxFaults  \* bounds

File == {Order[n] : n \in DOMAIN Order}
Dir == {DirOf[f] : f \in File}
Pid == {Claims[d] : d \in Dir} \cup {DirName[d] : d \in Dir}

\* The workspace: a project's id (a slug, and a number if it has the suffix
\* "-legacy") and a name.
Project == {Slug[p] : p \in Pid} \X Nat
Cell == Project \X {PathOf[f] : f \in File}

Torn == "torn"    \* truncated, or only a project_id

VARIABLES
    repo,    \* files still in the repository
    cell,    \* the workspace: a file, what was there, or Torn
    bak,     \* backups: by cell and time
    pc, todo, mapping, ts,
    now,
    lossy,   \* what a rewrite or a second backup has overwritten
    broken,  \* a run died or a move failed
    runs, faults

vars == <<repo, cell, bak, pc, todo, mapping, ts, now, lossy, broken, runs, faults>>

Content == File \cup {Existing[c] : c \in DOMAIN Existing}

TypeOK ==
    /\ repo \subseteq File
    /\ DOMAIN cell \subseteq Cell /\ \A c \in DOMAIN cell : cell[c] \in Content \cup {Torn}
    /\ \A b \in DOMAIN bak : bak[b] \in Content \cup {Torn}
    /\ pc \in {"idle", "move", "unlink", "rename", "rewrite"}
    /\ todo \subseteq File /\ lossy \subseteq Content
    /\ broken \in BOOLEAN /\ runs \in 0 .. MaxRuns /\ faults \in 0 .. MaxFaults

Init ==
    /\ repo = File
    /\ cell = Existing /\ bak = <<>>
    /\ pc = "idle" /\ todo = {} /\ mapping = <<>> /\ ts = 0 /\ now = 0
    /\ lossy = {} /\ broken = FALSE /\ runs = 0 /\ faults = 0

\* Put(f, k, v): f with k mapped to v.
Put(f, k, v) == [x \in DOMAIN f \cup {k} |-> IF x = k THEN v ELSE f[x]]
Drop(f, k) == [x \in DOMAIN f \ {k} |-> f[x]]

------------------------------------------------------------------------------
(* The plan.                                                               *)

\* A directory of requirements without its head goes by its own name; logs
\* without the ledger of their task are not found.
infer_project_id(d) ==
    IF KindOf[d] = "requirements" /\ HeadOf[d] \notin repo THEN DirName[d] ELSE Claims[d]

Planned(f) ==
    LET d == DirOf[f] IN f \in repo /\ (KindOf[d] = "task" => HeadOf[d] \in repo)

Rank(p) == CHOOSE n \in DOMAIN Sorted : Sorted[n] = p

\* Mutant: a slug is the project.
compute_project_id_map_slug(pids) == [p \in pids |-> <<Slug[p], 0>>]

\* Of the ids with one slug, the slug itself or else the first keeps it.
compute_project_id_map(pids) ==
    [p \in pids |->
        LET group == {q \in pids : Slug[q] = Slug[p]}
            preferred == IF Slug[p] \in group THEN Slug[p]
                         ELSE CHOOSE q \in group : \A r \in group : Rank(q) <= Rank(r)
        IN <<Slug[p], IF p = preferred THEN 0
                      ELSE Cardinality({q \in group \ {preferred} : Rank(q) <= Rank(p)})>>]

plan_moves ==
    /\ pc = "idle" /\ runs < MaxRuns /\ runs' = runs + 1
    /\ todo' = {f \in File : Planned(f)}
    /\ LET ids == compute_project_id_map({infer_project_id(DirOf[f]) : f \in todo'})
       IN mapping' = [f \in todo' |-> ids[infer_project_id(DirOf[f])]]
    /\ now' \in {now, now + 1} /\ ts' = now'
    /\ pc' = IF todo' = {} THEN "idle" ELSE "move"
    /\ UNCHANGED <<repo, cell, bak, lossy, broken, faults>>

------------------------------------------------------------------------------
(* The moves.                                                              *)

\* The first of the files that are left.
Position(f) == CHOOSE n \in DOMAIN Order : Order[n] = f
f1 == CHOOSE f \in todo : \A g \in todo : Position(f) <= Position(g)
dest == <<mapping[f1], PathOf[f1]>>

Next1 == todo' = todo \ {f1} /\ pc' = IF todo' = {} THEN "idle" ELSE "move"
plan == <<mapping, ts, now, runs>>

\* copy2 to the name with the time of the run: a second backup in one run goes
\* over the first.
backup ==
    /\ bak' = Put(bak, <<dest, ts>>, cell[dest])
    /\ lossy' = IF <<dest, ts>> \in DOMAIN bak THEN lossy \cup ({bak[<<dest, ts>>]} \cap Content) ELSE lossy

safe_move ==
    /\ pc = "move"
    /\ \/ dest \in DOMAIN cell /\ backup /\ pc' = "unlink"
       \/ dest \notin DOMAIN cell /\ pc' = "rename" /\ UNCHANGED <<bak, lossy>>
    /\ UNCHANGED <<repo, cell, todo, broken, faults, plan>>

unlink ==
    /\ pc = "unlink"
    /\ cell' = Drop(cell, dest) /\ pc' = "rename"
    /\ UNCHANGED <<repo, bak, todo, lossy, broken, faults, plan>>

\* The rewrite truncates the file first.
rename ==
    /\ pc = "rename"
    /\ repo' = repo \ {f1}
    /\ \/ f1 \notin Rewritten /\ cell' = Put(cell, dest, f1) /\ Next1
       \/ f1 \in Rewritten /\ cell' = Put(cell, dest, Torn) /\ pc' = "rewrite" /\ UNCHANGED todo
    /\ UNCHANGED <<bak, lossy, broken, faults, plan>>

\* _read_yaml answers an empty document for one that does not parse.
rewrite ==
    /\ pc = "rewrite"
    /\ IF f1 \in Garbled THEN lossy' = lossy \cup {f1} /\ UNCHANGED cell
                         ELSE cell' = [cell EXCEPT ![dest] = f1] /\ UNCHANGED lossy
    /\ Next1
    /\ UNCHANGED <<repo, bak, broken, faults, plan>>

\* The next item goes on after an error; a rewrite that fails is not even one.
MoveFails ==
    /\ pc # "idle" /\ faults < MaxFaults /\ faults' = faults + 1
    /\ broken' = TRUE
    /\ lossy' = IF pc = "rewrite" THEN lossy \cup {f1} ELSE lossy
    /\ \/ Next1
       \/ pc' = "idle" /\ todo' = {}   \* the run dies
    /\ UNCHANGED <<repo, cell, bak, plan>>

Next == plan_moves \/ safe_move \/ unlink \/ rename \/ rewrite \/ MoveFails

Spec == Init /\ [][Next]_vars

------------------------------------------------------------------------------
(* Properties.                                                             *)

Kept(x) == x \in repo \/ (\E c \in DOMAIN cell : cell[c] = x) \/ (\E b \in DOMAIN bak : bak[b] = x)

\* Whatever fails in between, a file is lost only by a second backup of one cell in
\* one run, or by the rewrite of a file that does not parse or could not be written.
LostOnlySo == \A x \in Content \ lossy : Kept(x) \/ (pc = "rewrite" /\ x = f1)

\* The files of two legacy projects never end up in one project of the workspace,
\* unless a run has died or failed on a file.
ProjectsApart ==
    ~broken => \A c, d \in DOMAIN cell : cell[c] \in File /\ cell[d] \in File /\ c[1] = d[1]
                   => Claims[DirOf[cell[c]]] = Claims[DirOf[cell[d]]]

\* What a migration owes its files: it keeps them, and it keeps them apart.
MigrationKeepsFiles == LostOnlySo /\ ProjectsApart

\* "It never deletes data; it moves/copies with conflict backups."
NeverDeletes == pc = "idle" => \A x \in Content : Kept(x)
=============================================================================
