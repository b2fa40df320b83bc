----------------------------- MODULE AutoUpdate -----------------------------
(***************************************************************************)
(* Keeping the control plane's container at the published image.           *)
(*                                                                         *)
(* auto_update.py checks now and then (watch), or once (check): it asks    *)
(* the control plane for active runs, pulls the image and recreates the    *)
(* container if the image is another one than before or than the running   *)
(* one.  start and stop manage a watcher through a pid file.  Checks may   *)
(* overlap, and a check may be killed between any two of its commands.     *)
(***************************************************************************)
EXTENDS Naturals

CONSTANTS
    Watcher,      \* processes that may run the watch loop
    OnlyIfIdle,   \* OPENTEAM_CONTROL_PLANE_AUTO_UPDATE_ONLY_IF_IDLE
    MaxImage,     \* images ever published: a bound
    MaxFaults     \* commands that fail: a bound

Image == 1 .. MaxImage
NoImage == 0
None == "none"

Label == {"sleep", "ask", "image", "pull", "inspect", "up"}

VARIABLES
    published,   \* the image the registry has under the name
    tag,         \* the local image of the name
    running,     \* the container's image, NoImage without a container
    active,      \* the control plane has active runs
    watching,    \* the watchers that live
    pidfile,     \* watcher.pid
    starting,    \* the watchers spawned and not noted down yet
    pc,
    previous,    \* what the name was locally before the pull
    faults

vars == <<published, tag, running, active, watching, pidfile, starting, pc, previous, faults>>

TypeOK ==
    /\ published \in Image /\ tag \in {NoImage} \cup Image /\ running \in {NoImage} \cup Image
    /\ active \in BOOLEAN
    /\ watching \subseteq Watcher
    /\ pidfile \in {None} \cup Watcher /\ starting \subseteq Watcher
    /\ pc \in [Watcher -> Label] /\ previous \in [Watcher -> {NoImage} \cup Image]
    /\ faults \in 0 .. MaxFaults

Init ==
    /\ published = 1 /\ tag \in {NoImage, 1} /\ running = tag /\ active = FALSE
    /\ watching = {} /\ pidfile = None /\ starting = {}
    /\ pc = [w \in Watcher |-> "sleep"] /\ previous = [w \in Watcher |-> NoImage]
    /\ faults = 0

watchers == <<watching, pidfile, starting>>

------------------------------------------------------------------------------
(* run_update_check.                                                       *)

Goto(w, label) == pc' = [pc EXCEPT ![w] = label]

At(w, label) == w \in watching /\ pc[w] = label

\* A check forgets what it has seen when it ends.
Ends(w) == Goto(w, "sleep") /\ previous' = [previous EXCEPT ![w] = NoImage]

Fails == faults < MaxFaults /\ faults' = faults + 1

\* Only a known number of active runs puts an update off.
Postponed(answer) == OnlyIfIdle /\ answer = "active"

wake(w) ==
    /\ At(w, "sleep") /\ Goto(w, "ask")
    /\ UNCHANGED <<published, tag, running, active, watchers, previous, faults>>

\* A control plane that is down, or slow, gives no answer.
query_active_run_count(w) ==
    /\ At(w, "ask")
    /\ \E answer \in {IF active THEN "active" ELSE "idle", "unknown"} :
          IF Postponed(answer) THEN Ends(w)
          ELSE Goto(w, "image") /\ UNCHANGED previous
    /\ UNCHANGED <<published, tag, running, active, watchers, faults>>

local_image_id(w) ==
    /\ At(w, "image") /\ Goto(w, "pull")
    /\ previous' = [previous EXCEPT ![w] = tag]
    /\ UNCHANGED <<published, tag, running, active, watchers, faults>>

pull(w) ==
    /\ At(w, "pull") /\ Goto(w, "inspect")
    /\ tag' = published
    /\ UNCHANGED <<published, running, active, watchers, previous, faults>>

pull_failed(w) ==
    /\ At(w, "pull") /\ Fails /\ Ends(w)
    /\ UNCHANGED <<published, tag, running, active, watchers>>

\* Mutant: only a pull that brought something new leads to a restart.
should_restart_new(before, updated, current) == updated # NoImage /\ before # updated

should_restart_control_plane(before, updated, current) ==
    updated # NoImage /\ (before # updated \/ current # updated)

inspect(w) ==
    /\ At(w, "inspect")
    /\ IF should_restart_control_plane(previous[w], tag, running)
         THEN Goto(w, "up") /\ previous' = [previous EXCEPT ![w] = NoImage]
         ELSE Ends(w)
    /\ UNCHANGED <<published, tag, running, active, watchers, faults>>

\* docker compose up --force-recreate takes the image the tag names by now,
\* and ends the runs of the container it replaces.
up(w) ==
    /\ At(w, "up") /\ Ends(w)
    /\ running' = tag /\ active' = FALSE
    /\ UNCHANGED <<published, tag, watchers, faults>>

restart_failed(w) ==
    /\ At(w, "up") /\ Fails /\ Ends(w)
    /\ UNCHANGED <<published, tag, running, active, watchers>>

------------------------------------------------------------------------------
(* start and stop of the watcher.                                          *)

\* A pid file that names no living watcher is removed.  Until the new watcher
\* is noted down, another start finds none and spawns its own.
start(w) ==
    /\ w \notin watching /\ pidfile \notin watching
    /\ watching' = watching \cup {w} /\ starting' = starting \cup {w} /\ pidfile' = None
    /\ UNCHANGED <<published, tag, running, active, pc, previous, faults>>

start_noted(w) ==
    /\ w \in starting
    /\ pidfile' = w /\ starting' = starting \ {w}
    /\ UNCHANGED <<published, tag, running, active, watching, pc, previous, faults>>

\* The start dies: its watcher runs and is noted down nowhere.
start_dies(w) ==
    /\ w \in starting /\ starting' = starting \ {w}
    /\ UNCHANGED <<published, tag, running, active, watching, pidfile, pc, previous, faults>>

\* The watcher ends; the docker command it has under way may still come through.
Dies(w) ==
    /\ watching' = watching \ {w} /\ Ends(w)
    /\ tag' \in {tag} \cup (IF At(w, "pull") THEN {published} ELSE {})
    /\ \/ running' = running /\ active' = active
       \/ At(w, "up") /\ running' = tag /\ active' = FALSE
    /\ UNCHANGED <<published, faults>>

stop ==
    /\ pidfile # None /\ pidfile' = None
    /\ IF pidfile \in watching THEN Dies(pidfile)
       ELSE UNCHANGED <<published, tag, running, active, watching, pc, previous, faults>>
    /\ UNCHANGED starting

\* SIGTERM, a crash or a reboot.
watcher_dies(w) ==
    /\ w \in watching /\ Dies(w)
    /\ UNCHANGED <<pidfile, starting>>

status ==
    /\ pidfile \notin watching /\ pidfile' = None
    /\ UNCHANGED <<published, tag, running, active, watching, starting, pc, previous, faults>>

------------------------------------------------------------------------------
(* The world.                                                              *)

publish ==
    /\ published < MaxImage /\ published' = published + 1
    /\ UNCHANGED <<tag, running, active, watchers, pc, previous, faults>>

run_begins ==
    /\ ~active /\ running # NoImage /\ active' = TRUE
    /\ UNCHANGED <<published, tag, running, watchers, pc, previous, faults>>

run_ends ==
    /\ active /\ active' = FALSE
    /\ UNCHANGED <<published, tag, running, watchers, pc, previous, faults>>

------------------------------------------------------------------------------

Checks(w) ==
    \/ wake(w) \/ query_active_run_count(w) \/ local_image_id(w)
    \/ pull(w) \/ inspect(w) \/ up(w)

Next ==
    \/ \E w \in Watcher :
          \/ Checks(w) \/ pull_failed(w) \/ restart_failed(w)
          \/ start(w) \/ start_noted(w) \/ start_dies(w) \/ watcher_dies(w)
    \/ stop \/ status
    \/ publish \/ run_begins \/ run_ends

\* A watcher that lives goes on, and its commands return.
Fairness == \A w \in Watcher : WF_vars(Checks(w))

Spec == Init /\ [][Next]_vars /\ Fairness

------------------------------------------------------------------------------
(* What the watcher is for.                                                *)

\* If some watcher stays, and runs do not put its checks off for ever, the
\* container ends up with the last image published, whatever failed before.
UpdateArrives ==
    (\E w \in Watcher : <>[](w \in watching)) /\ (<>[]~active \/ ~OnlyIfIdle)
      => <>[](running = published)
=============================================================================
