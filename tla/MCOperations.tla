---------------------------- MODULE MCOperations ----------------------------
(***************************************************************************)
(* FileLock and the parts of Operations for TLC.  They share no state: a   *)
(* behaviour picks the one that works, the others keep their first state.  *)
(*                                                                         *)
(* Of three tasks the first two come to one directory, and the third was   *)
(* recorded with a worktree elsewhere.  One recovery runs with a stop and  *)
(* others who change rows, or two run and nothing else does.               *)
(***************************************************************************)
EXTENDS FileLock, Operations, TLC

MCRootOf == "t1" :> "shared" @@ "t2" :> "shared" @@ "t3" :> "own"
MCAllowed == "t1" :> {"p"} @@ "t2" :> {"p", "q"} @@ "t3" :> {"q"}

VARIABLE part

rest == <<bvars, uvars, tvars, dvars, pvars, kvars, rvars>>

AllInit ==
    /\ Init /\ B!Init /\ U!Init /\ T!Init /\ W!Init /\ P!Init /\ K!Init /\ R!Init
    /\ part \in {"lock", "bootstrap", "pipeline", "update", "worktrees", "startup", "store",
                "recovery", "recoveries"}
    /\ part # "update" => tag = 1
    /\ part # "worktrees" => \A r \in Root : dir[r] = "none"
    /\ part # "startup" => others = {}

AllNext ==
    \/ part = "lock" /\ Next /\ UNCHANGED <<part, rest>>
    \/ part = "bootstrap" /\ B!Next /\ UNCHANGED <<part, vars, uvars, tvars, dvars, pvars, kvars, rvars>>
    \/ part = "update" /\ U!Next /\ UNCHANGED <<part, vars, bvars, tvars, dvars, pvars, kvars, rvars>>
    \/ part = "pipeline" /\ T!Next /\ UNCHANGED <<part, vars, bvars, uvars, dvars, pvars, kvars, rvars>>
    \/ part = "worktrees" /\ W!Next /\ UNCHANGED <<part, vars, bvars, uvars, tvars, pvars, kvars, rvars>>
    \/ part = "startup" /\ P!Next /\ UNCHANGED <<part, vars, bvars, uvars, tvars, dvars, kvars, rvars>>
    \/ part = "store" /\ K!Next /\ UNCHANGED <<part, vars, bvars, uvars, tvars, dvars, pvars, rvars>>
    \/ /\ part \in {"recovery", "recoveries"} /\ R!Next
       /\ part = "recovery" => rpc'["r2"] = "idle"
       /\ part = "recoveries" => starts' = 0 /\ rfaults' = 0
       /\ UNCHANGED <<part, vars, bvars, uvars, tvars, dvars, pvars, kvars>>

allvars == <<part, vars, rest>>

\* The fairness of FileLock, and the watcher's.
Locks(A) == part = "lock" /\ A /\ UNCHANGED <<part, rest>>
Checks(w) == part = "update" /\ U!Checks(w) /\ UNCHANGED <<part, vars, bvars, tvars, dvars, pvars, kvars, rvars>>
AllSpec ==
    /\ AllInit /\ [][AllNext]_allvars
    /\ WF_allvars(Locks(Tick))
    /\ \A p \in Process :
        WF_allvars(Locks(Begin(p))) /\ WF_allvars(Locks(Acquire(p))) /\ WF_allvars(Locks(Release(p)))
    /\ \A w \in Watcher : WF_allvars(Checks(w))

\* A lock is taken again and again, wherever a process died, unless it died between
\* creating the file and writing it and the empty file stays (FileLock).
LockTaken == part = "lock" => LockPassesOn

\* The container ends up with the last image published (AutoUpdate).
UpdateArrives == part = "update" => U!UpdateArrives
=============================================================================
