----------------------------- MODULE Inspection -----------------------------
(***************************************************************************)
(* What a planner run looks at before it plans: a worktree of the target   *)
(* is put on the commit to scan and cleaned, its files are listed, read    *)
(* and packed into chunks, one or two test commands are run, and an agent  *)
(* that may run the same commands looks for bugs.  What it answers is an   *)
(* input of TeamWorkflow.                                                  *)
(*                                                                         *)
(* Every run of a target uses the same worktree and takes no lock for it:  *)
(* what a run reads is what the last one to prepare it left there.  Test   *)
(* commands and agents leave changed files behind (dirty).                 *)
(*                                                                         *)
(* A path is its directory, its stem and its extension; a text is its      *)
(* length.  Counts, samples and excerpts of single files are left out.     *)
(***************************************************************************)
EXTENDS Integers, Sequences, FiniteSets

CONSTANTS
    Run,          \* planner runs
    Commit,
    Paths,        \* every path there is, in the order git lists them
    Contents,     \* the repositories: the length of each file at each commit
    Manifests,    \* what they say about tests, in any combination
    ListLimit,    \* files that are listed at most
    FileChars,    \* 4000: what a chunk holds of one file at most
    ChunkChars,   \* 24000: what it holds of all its files
    MaxScans      \* bound: scans begun

File == 1 .. Len(Paths)   \* a file by its place in the listing of git
Gone == -1    \* the length of a file that is not in a commit
None == "none"

VARIABLES
    content, manifest,
    head,         \* the commit of the branch to scan
    tree, dirty,  \* the worktree
    pc,
    ref,          \* the commit a run was given by its reset
    tracked,      \* the paths listed
    saw,          \* what the worktree held while they were listed and read
    chunks,       \* modules of the repository, each with its files
    baseline,     \* commands run, whatever their result
    crossed,      \* runs under which another one used the worktree
    scans

vars == <<content, manifest, head, tree, dirty, pc, ref, tracked, saw, chunks, baseline,
          crossed, scans>>
results == <<tracked, saw, chunks, baseline>>

Init ==
    /\ content \in Contents /\ manifest \in Manifests
    /\ head = CHOOSE c \in Commit : TRUE
    /\ tree = None /\ dirty = FALSE
    /\ pc = [r \in Run |-> "idle"] /\ ref = [r \in Run |-> None]
    /\ tracked = [r \in Run |-> {}] /\ saw = [r \in Run |-> {}]
    /\ chunks = [r \in Run |-> {}] /\ baseline = [r \in Run |-> <<>>]
    /\ crossed = {} /\ scans = 0

Goto(r, label) == pc' = [pc EXCEPT ![r] = label]

\* Runs that are about to use the worktree, or using it.
Using == {r \in Run : pc[r] \notin {"idle", "done"}}
Cross(r) == crossed' = IF Using \ {r} = {} THEN crossed ELSE crossed \cup Using \cup {r}

------------------------------------------------------------------------------
(* The worktree.                                                           *)

\* The branch moves on.
advance ==
    /\ \E c \in Commit \ {head} : head' = c
    /\ UNCHANGED <<content, manifest, tree, dirty, pc, ref, results, crossed, scans>>

\* The checkout keeps changed files, unless it fails and the worktree is made anew.
_prepare_discovery_repo(r) ==
    /\ pc[r] \in {"idle", "done"} /\ scans < MaxScans /\ scans' = scans + 1
    /\ tree' = head
    /\ dirty' \in (IF tree = None THEN {FALSE} ELSE {dirty, FALSE})
    /\ tracked' = [tracked EXCEPT ![r] = {}] /\ saw' = [saw EXCEPT ![r] = {}]
    /\ chunks' = [chunks EXCEPT ![r] = {}] /\ baseline' = [baseline EXCEPT ![r] = <<>>]
    /\ crossed' = IF Using = {} THEN crossed \ {r} ELSE crossed \cup Using \cup {r}
    /\ Goto(r, "sync")
    /\ UNCHANGED <<content, manifest, head, ref>>

\* Mutant: the worktree is left as the checkout left it.
keep_tree(r) == UNCHANGED <<tree, dirty>>

\* git is given the name of the branch again, which may have moved since the checkout.
reset_and_clean(r) == tree' = head /\ dirty' = FALSE

sync(r) ==
    /\ pc[r] = "sync"
    /\ reset_and_clean(r)
    /\ ref' = [ref EXCEPT ![r] = head]
    /\ Cross(r)
    /\ Goto(r, "list")
    /\ UNCHANGED <<content, manifest, head, results, scans>>

\* git fails: the run has no context and ends.
sync_fails(r) ==
    /\ pc[r] = "sync"
    /\ Goto(r, "idle")
    /\ UNCHANGED <<content, manifest, head, tree, dirty, ref, results, crossed, scans>>

------------------------------------------------------------------------------
(* Reading it.                                                             *)

Lengths == content[tree]
See(r) == saw' = [saw EXCEPT ![r] = @ \cup {<<tree, dirty>>}]

\* The first ListLimit of the files that are there.
Listed(len) ==
    LET there == {f \in File : len[f] # Gone}
    IN {f \in there : Cardinality({g \in there : g < f}) < ListLimit}

_git_ls_files(r) ==
    /\ pc[r] = "list"
    /\ tracked' = [tracked EXCEPT ![r] = Listed(Lengths)]
    /\ See(r) /\ Goto(r, "read")
    /\ UNCHANGED <<content, manifest, head, tree, dirty, ref, chunks, baseline, crossed, scans>>

ConfigExt == {".toml", ".json", ".yaml"}
SourceExt == {".py", ".ts", ".js", ".go", ".sh"}
TextExt == ConfigExt \cup SourceExt \cup {".md"}

\* The first rule that fits.
_classify_repo_path(f) ==
    LET p == Paths[f] IN
    CASE p.dir = ".github/workflows" -> "workflow"
      [] p.dir = "tests" -> "test"
      [] p.dir = "docs" \/ (p.dir = "" /\ p.stem = "readme") -> "docs"
      [] p.dir = "scripts" \/ p.ext = ".sh" -> "script"
      [] p.ext \in ConfigExt -> "config"
      [] p.ext \in SourceExt -> "source"
      [] OTHER -> "other"

Rank(f) ==
    LET category == _classify_repo_path(f) IN
    CASE category = "source" -> 0 [] category = "test" -> 1 [] category = "config" -> 2
      [] category = "workflow" -> 3 [] category = "script" -> 4 [] category = "docs" -> 5
      [] OTHER -> 6

\* A module is a path without its extension; __init__ is its directory.
_repository_chunk_label(f) ==
    LET p == Paths[f] IN IF p.stem = "__init__" /\ p.dir # "" THEN <<p.dir>> ELSE <<p.dir, p.stem>>

\* A long text keeps its two ends around a mark of 19 characters.
_module_file_text(n) == IF n <= FileChars THEN n ELSE 2 * ((FileChars - 32) \div 2) + 19

\* By category, and in the order of the listing within one.
Before(f, g) == Rank(f) < Rank(g) \/ (Rank(f) = Rank(g) /\ f < g)
Last(files) == CHOOSE f \in files : \A g \in files \ {f} : Before(g, f)

\* A file that does not fit is counted, and the next one is tried.
fill(acc, f, text) ==
    IF acc.files # {} /\ acc.chars + text > ChunkChars
    THEN [acc EXCEPT !.omitted = @ + 1]
    ELSE [acc EXCEPT !.files = @ \cup {f}, !.chars = @ + text]

\* The last of the files is filled in after the others.
pack(files, len) ==
    LET filled[S \in SUBSET files] ==
          IF S = {} THEN [files |-> {}, chars |-> 0, omitted |-> 0]
          ELSE fill(filled[S \ {Last(S)}], Last(S), _module_file_text(len[Last(S)]))
    IN filled[files]

\* The files of module m: those that cannot be read any more are passed over.
Texts(m, listed, len) ==
    {f \in listed : /\ Paths[f].ext \in TextExt /\ len[f] # Gone
                    /\ _repository_chunk_label(f) = m}

chunk(m, files, packed) ==
    [module |-> m, count |-> Cardinality(files), files |-> packed.files, chars |-> packed.chars,
     omitted |-> packed.omitted]

_repository_module_chunks(listed, len) ==
    {LET files == Texts(m, listed, len) IN chunk(m, files, pack(files, len)) :
       m \in {_repository_chunk_label(f) : f \in {g \in listed : Paths[g].ext \in TextExt /\ len[g] # Gone}}}

read_files(r) ==
    /\ pc[r] = "read"
    /\ chunks' = [chunks EXCEPT ![r] = _repository_module_chunks(tracked[r], Lengths)]
    /\ See(r) /\ Goto(r, "baseline")
    /\ UNCHANGED <<content, manifest, head, tree, dirty, ref, tracked, baseline, crossed, scans>>

------------------------------------------------------------------------------
(* The test commands.                                                      *)

Commands == <<"make test", "make check", "python -m unittest", "pytest -q", "npm test",
              "npm run lint", "go test ./...", "cargo test">>

Family(cmd) ==
    CASE cmd \in {"make test", "make check"} -> "make"
      [] cmd \in {"npm test", "npm run lint"} -> "npm"
      [] cmd = "python -m unittest" -> "python"
      [] cmd = "pytest -q" -> "pytest"
      [] cmd = "go test ./..." -> "go"
      [] cmd = "cargo test" -> "cargo"

\* A python manifest or a test file stands for both python commands; twelve are never reached.
_discover_test_command_candidates(listed) ==
    (manifest \ {"python"})
      \cup (IF "python" \in manifest \/ \E f \in listed : _classify_repo_path(f) = "test"
            THEN {"python -m unittest", "pytest -q"} ELSE {})

At(cmd) == CHOOSE i \in 1 .. Len(Commands) : Commands[i] = cmd
First(cmds) == CHOOSE cmd \in cmds : \A other \in cmds : At(cmd) <= At(other)

\* In the order of Commands, one of each family, two at most.
_select_baseline_commands(candidates) ==
    LET one == First(candidates)
        rest == {cmd \in candidates : Family(cmd) # Family(one)}
    IN IF candidates = {} THEN <<>> ELSE IF rest = {} THEN <<one>> ELSE <<one, First(rest)>>

\* The next command, whatever became of the one before it.
_run_repository_baseline_checks(r) ==
    /\ pc[r] = "baseline"
    /\ LET selected == _select_baseline_commands(_discover_test_command_candidates(tracked[r]))
           n == Len(baseline[r])
       IN IF n < Len(selected)
          THEN /\ baseline' = [baseline EXCEPT ![r] = Append(@, selected[n + 1])]
               /\ dirty' \in {dirty, TRUE}
               /\ Cross(r) /\ UNCHANGED pc
          ELSE Goto(r, "scan") /\ UNCHANGED <<baseline, dirty, crossed>>
    /\ UNCHANGED <<content, manifest, head, tree, ref, tracked, saw, chunks, scans>>

\* The agent may run what _discover_test_command_candidates found.
_structured_bug_scan_for_repo(r) ==
    /\ pc[r] = "scan"
    /\ dirty' \in {dirty, TRUE}
    /\ Cross(r)
    /\ Goto(r, "done")
    /\ UNCHANGED <<content, manifest, head, tree, ref, tracked, saw, chunks, baseline, scans>>

Next ==
    \/ advance
    \/ \E r \in Run :
        \/ _prepare_discovery_repo(r) \/ sync(r) \/ sync_fails(r)
        \/ _git_ls_files(r) \/ read_files(r)
        \/ _run_repository_baseline_checks(r) \/ _structured_bug_scan_for_repo(r)

Spec == Init /\ [][Next]_vars

------------------------------------------------------------------------------
Chunk ==
    [module : {_repository_chunk_label(f) : f \in File}, count : Nat, files : SUBSET File,
     chars : Nat, omitted : Nat]
Command == {Commands[i] : i \in 1 .. Len(Commands)}

TypeOK ==
    /\ content \in Contents /\ manifest \in Manifests /\ head \in Commit
    /\ tree \in Commit \cup {None} /\ dirty \in BOOLEAN
    /\ pc \in [Run -> {"idle", "sync", "list", "read", "baseline", "scan", "done"}]
    /\ ref \in [Run -> Commit \cup {None}]
    /\ tracked \in [Run -> SUBSET File]
    /\ saw \in [Run -> SUBSET (Commit \X BOOLEAN)]
    /\ chunks \in [Run -> SUBSET Chunk]
    /\ baseline \in [Run -> Seq(Command)]
    /\ crossed \subseteq Run /\ scans \in 0 .. MaxScans

(* What a run lists and reads is the commit it was to scan, untouched by   *)
(* earlier commands and agents, unless another run crossed it.             *)
OneCommit == \A r \in Run : r \notin crossed => saw[r] \subseteq {<<ref[r], FALSE>>}

(* A chunk counts every file of its module as held or as omitted, holds at *)
(* least one and no more than fits; and what it omitted for a file of less *)
(* rank is longer than that file.                                          *)
ChunksAccount ==
    \A r \in Run \ crossed : pc[r] = "baseline" => \A k \in chunks[r] :
      /\ Cardinality(k.files) + k.omitted = k.count
      /\ k.files # {} /\ k.chars <= ChunkChars
      /\ \A f \in tracked[r] :
           _repository_chunk_label(f) = k.module /\ Paths[f].ext \in TextExt /\ f \notin k.files =>
             \A g \in k.files : Rank(g) > Rank(f) =>
               _module_file_text(Lengths[g]) < _module_file_text(Lengths[f])

(* The commands run are of two families at most; a candidate that was not  *)
(* run gave way to one of its family, or to two before it.                 *)
BaselineCovers ==
    \A r \in Run : pc[r] = "scan" =>
      LET run == {baseline[r][i] : i \in 1 .. Len(baseline[r])}
      IN /\ \A i, j \in 1 .. Len(baseline[r]) : i # j => Family(baseline[r][i]) # Family(baseline[r][j])
         /\ \A cmd \in _discover_test_command_candidates(tracked[r]) \ run :
              \/ \E other \in run : Family(other) = Family(cmd) /\ At(other) < At(cmd)
              \/ Cardinality({other \in run : At(other) < At(cmd)}) = 2

InspectionHolds == OneCommit /\ ChunksAccount /\ BaselineCovers
=============================================================================
