----------------------------- MODULE MCServices -----------------------------
(***************************************************************************)
(* DeliveryStudio, the parts of Services and Inspection for TLC.  They     *)
(* share no state: a behaviour picks the one that works, the others keep   *)
(* their first state.  Of EventFeed it is the watch commands, the streams  *)
(* of all events or the requests for the logs, which do not meet; of       *)
(* Inspection two runs in one worktree, one run in one of many             *)
(* repositories, or one with any of the test commands.                     *)
(***************************************************************************)
EXTENDS DeliveryStudio, Services, TLC

VARIABLE part

Path(d, s, e) == [dir |-> d, stem |-> s, ext |-> e]
MCPaths == <<Path("", "readme", ".md"), Path("src", "a", ".go"), Path("src", "a", ".js"),
             Path("src", "a", ".json"), Path("src", "a", ".md"), Path("src", "a", ".py"),
             Path("src", "a", ".sh"), Path("src", "a", ".ts"), Path("tests", "a", ".py")>>

\* A repository of one test file, which the second commit removes.
Small == "k1" :> [f \in 1 .. 9 |-> IF f \in {8, 9} THEN 100 ELSE -1]
           @@ "k2" :> [f \in 1 .. 9 |-> IF f = 8 THEN 100 ELSE -1]
Large ==
    {LET len == n @@ 1 :> 50 @@ 8 :> 9000 @@ 9 :> 10 IN "k1" :> len @@ "k2" :> len :
       n \in [2 .. 7 -> {100, 4000, 9000}]}
Bare == [k \in {"k1", "k2"} |-> [f \in 1 .. 9 |-> IF f = 8 THEN 100 ELSE -1]]

MCContents == {Small, Bare} \cup Large
MCManifests ==
    SUBSET {"make test", "make check", "python", "npm test", "npm run lint", "go test ./...",
            "cargo test"}

allvars == <<part, vars, rvars, ivars, fvars, nvars>>

Inspecting == {"worktree", "chunks", "tests"}
Feeding == {"watch", "stream", "logs"}

AllInit ==
    /\ Init /\ R!Init /\ I!Init /\ E!Init
    /\ part \in {"studio", "reporter", "issues"} \cup Feeding \cup Inspecting
    /\ N!Init
    /\ content \in (IF part = "chunks" THEN Large ELSE IF part = "tests" THEN {Bare} ELSE {Small})
    /\ part # "tests" => manifest = {}

\* Only a watch command is let come to the last of the log.
FeedNext ==
    /\ \/ E!Write
       \/ part = "watch" /\ \E c \in Watcher : E!Stream(c)
       \/ part = "stream" /\ \E c \in Firehose : E!Stream(c)
       \/ part = "logs" /\ \E s \in Saver : E!Save(s)
    /\ part # "watch" => Len(events') < MaxLog

\* Only in the worktree two runs meet.
InspectionNext ==
    /\ N!Next
    /\ part # "worktree" => scans' <= 1 /\ npc'["n2"] = "idle" /\ branch' = branch

AllNext ==
    \/ part = "studio" /\ Next /\ UNCHANGED <<part, rvars, ivars, fvars, nvars>>
    \/ part = "reporter" /\ R!Next /\ UNCHANGED <<part, vars, ivars, fvars, nvars>>
    \/ part = "issues" /\ I!Next /\ UNCHANGED <<part, vars, rvars, fvars, nvars>>
    \/ part \in Feeding /\ FeedNext /\ UNCHANGED <<part, vars, rvars, ivars, nvars>>
    \/ part \in Inspecting /\ InspectionNext /\ UNCHANGED <<part, vars, rvars, ivars, fvars>>

\* The fairness of the reporter, which is the one with a promise to keep.
Reports(A) == part = "reporter" /\ A /\ UNCHANGED <<part, vars, ivars, fvars, nvars>>
AllSpec ==
    /\ AllInit /\ [][AllNext]_allvars
    /\ WF_allvars(Reports(R!loop)) /\ \A s \in R!Sweeper : WF_allvars(Reports(R!Step(s)))

\* Each event is looked at (EventReporter).
EventsHandled == part = "reporter" => R!EveryEventHandled
=============================================================================
