----------------------------- MODULE Bootstrap ------------------------------
(***************************************************************************)
(* Starting, stopping and restarting the local control plane.              *)
(*                                                                         *)
(* bootstrap_and_run.py knows its control plane only by a pid file, which  *)
(* it reads, unlinks and writes without a lock.  The control plane is a    *)
(* process that boots, serves the one port if nobody else does, and leaves *)
(* when it is told to (SIGTERM), killed, or by itself.  A dead process     *)
(* still looks alive to kill(pid, 0) until the shell that started it ends. *)
(* Process ids are never used again.  The model proxy is in Startup; what  *)
(* a start does over HTTP once the port answers can fail but stops nothing *)
(* and is left out.                                                        *)
(***************************************************************************)
EXTENDS Naturals

CONSTANTS
    Shell,     \* invocations of the script that may be under way at once
    MaxProc,   \* control planes ever started: a bound
    MaxFaults  \* shells that die and control planes that fail: a bound

Proc == 1 .. MaxProc
None == 0

Label == {"idle", "check", "probe", "spawn", "write", "wait",
          "stop_read", "stop_wait", "stop_check", "stop_unlink"}

\* What a call goes on with when _stop_pid has returned.
After == {"idle", "check", "spawn"}

Call == [after : After,
         pid   : {None} \cup Proc,   \* the process it stops
         child : {None} \cup Proc,   \* the process it has started
         old   : {None} \cup Proc]   \* a restart: what the pid file named when it began

NoCall == [after |-> "idle", pid |-> None, child |-> None, old |-> None]

VARIABLES
    pidfile,   \* control_plane.pid, None when there is none
    proc,      \* what became of each process
    termed,    \* the processes that were sent SIGTERM
    pc, call,
    stale,     \* the shells under whose feet the pid file changed since they read it
    loose,     \* a stale shell changed the pid file, or one died before it wrote it
    faults

vars == <<pidfile, proc, termed, pc, call, stale, loose, faults>>

ProcState == {"unborn", "booting", "serving", "leaving", "killed", "dead"}

TypeOK ==
    /\ pidfile \in {None} \cup Proc
    /\ proc \in [Proc -> ProcState] /\ termed \subseteq Proc
    /\ pc \in [Shell -> Label] /\ call \in [Shell -> Call]
    /\ stale \subseteq Shell /\ loose \in BOOLEAN
    /\ faults \in Nat

Init ==
    /\ pidfile = None
    /\ proc = [p \in Proc |-> "unborn"] /\ termed = {}
    /\ pc = [s \in Shell |-> "idle"] /\ call = [s \in Shell |-> NoCall]
    /\ stale = {} /\ loose = FALSE /\ faults = 0

------------------------------------------------------------------------------
(* The pid file and the processes.                                         *)

Goto(s, label) == pc' = [pc EXCEPT ![s] = label]

Serving == {p \in Proc : proc[p] = "serving"}

\* A dead child of a shell that has not ended is a zombie.
pid_alive(p) ==
    /\ p # None
    /\ \/ proc[p] \in {"booting", "serving", "leaving", "killed"}
       \/ proc[p] = "dead" /\ \E s \in Shell : pc[s] # "idle" /\ call[s].child = p

Reads(s) == stale' = stale \ {s}

Changes(s, new) ==
    /\ pidfile' = new
    /\ stale' = IF new = pidfile THEN stale \ {s}
                ELSE {u \in Shell : u # s /\ pc[u] # "idle"}
    /\ loose' = (loose \/ s \in stale)

\* The end of an invocation; its zombies go with it.
Ends(s) == Goto(s, "idle") /\ call' = [call EXCEPT ![s] = NoCall]

------------------------------------------------------------------------------
(* _stop_pid.                                                              *)

Resume(s) == IF call[s].after = "idle" THEN Ends(s) ELSE Goto(s, call[s].after) /\ UNCHANGED call

stop_nothing(s) ==
    /\ pc[s] = "stop_read" /\ pidfile = None
    /\ Resume(s) /\ Reads(s)
    /\ UNCHANGED <<pidfile, proc, termed, loose, faults>>

stop_dead(s) ==
    /\ pc[s] = "stop_read" /\ pidfile # None /\ ~pid_alive(pidfile)
    /\ Goto(s, "stop_unlink") /\ Reads(s)
    /\ UNCHANGED <<pidfile, proc, termed, call, loose, faults>>

stop_term(s) ==
    /\ pc[s] = "stop_read" /\ pid_alive(pidfile)
    /\ termed' = termed \cup {pidfile}
    /\ Goto(s, "stop_wait") /\ Reads(s)
    /\ call' = [call EXCEPT ![s].pid = pidfile]
    /\ UNCHANGED <<pidfile, proc, loose, faults>>

stop_gone(s) ==
    /\ pc[s] \in {"stop_wait", "stop_check"} /\ ~pid_alive(call[s].pid)
    /\ Goto(s, "stop_unlink")
    /\ UNCHANGED <<pidfile, proc, termed, call, stale, loose, faults>>

stop_kill(s) ==
    /\ pc[s] = "stop_wait" /\ pid_alive(call[s].pid)
    /\ proc' = [proc EXCEPT ![call[s].pid] = IF @ = "dead" THEN @ ELSE "killed"]
    /\ Goto(s, "stop_check")
    /\ UNCHANGED <<pidfile, termed, call, stale, loose, faults>>

\* The look right after the SIGKILL may come too early: the pid file stays.
stop_unsure(s) ==
    /\ pc[s] = "stop_check" /\ pid_alive(call[s].pid)
    /\ Resume(s)
    /\ UNCHANGED <<pidfile, proc, termed, stale, loose, faults>>

stop_unlink(s) ==
    /\ pc[s] = "stop_unlink"
    /\ Changes(s, None) /\ Resume(s)
    /\ UNCHANGED <<proc, termed, faults>>

------------------------------------------------------------------------------
(* _start_control_plane.                                                   *)

check(s) ==
    /\ pc[s] = "check"
    /\ Goto(s, IF pid_alive(pidfile) THEN "probe" ELSE "spawn") /\ Reads(s)
    /\ UNCHANGED <<pidfile, proc, termed, call, loose, faults>>

\* Whoever serves the port answers for the process of the pid file.
already_running(s) ==
    /\ pc[s] = "probe" /\ Serving # {}
    /\ Ends(s)
    /\ UNCHANGED <<pidfile, proc, termed, stale, loose, faults>>

\* A control plane that is still booting, or too busy to answer, is replaced.
not_ready(s) ==
    /\ pc[s] = "probe"
    /\ Goto(s, "stop_read") /\ call' = [call EXCEPT ![s].after = "spawn"]
    /\ UNCHANGED <<pidfile, proc, termed, stale, loose, faults>>

spawn(s) ==
    /\ pc[s] = "spawn"
    /\ \E p \in Proc :
          /\ proc[p] = "unborn" /\ \A q \in Proc : q < p => proc[q] # "unborn"
          /\ proc' = [proc EXCEPT ![p] = "booting"]
          /\ call' = [call EXCEPT ![s].child = p]
    /\ Goto(s, "write")
    /\ UNCHANGED <<pidfile, termed, stale, loose, faults>>

\* Mutant: a pid file that is still there is not written over.
write_pid_new(s) ==
    /\ pc[s] = "write" /\ Goto(s, "wait")
    /\ Changes(s, IF pidfile = None THEN call[s].child ELSE pidfile)
    /\ UNCHANGED <<proc, termed, call, faults>>

write_pid(s) ==
    /\ pc[s] = "write" /\ Goto(s, "wait")
    /\ Changes(s, call[s].child)
    /\ UNCHANGED <<proc, termed, call, faults>>

ready(s) ==
    /\ pc[s] = "wait" /\ Serving # {}
    /\ Ends(s)
    /\ UNCHANGED <<pidfile, proc, termed, stale, loose, faults>>

\* It stops what the pid file names by now.
failed_to_start(s) ==
    /\ pc[s] = "wait" /\ Serving = {}
    /\ Goto(s, "stop_read") /\ call' = [call EXCEPT ![s].after = "idle", ![s].old = None]
    /\ UNCHANGED <<pidfile, proc, termed, stale, loose, faults>>

------------------------------------------------------------------------------
(* Invocations.                                                            *)

Begin(s, label, after, old) ==
    /\ pc[s] = "idle" /\ Goto(s, label)
    /\ call' = [call EXCEPT ![s] = [NoCall EXCEPT !.after = after, !.old = old]]
    /\ stale' = stale \ {s}
    /\ UNCHANGED <<pidfile, proc, termed, loose, faults>>

start_flow(s) == Begin(s, "check", "idle", None)
stop_flow(s) == Begin(s, "stop_read", "idle", None)
restart(s) == Begin(s, "stop_read", "check", pidfile)

\* The shell dies; a process it was about to note down is on its own.
shell_dies(s) ==
    /\ faults < MaxFaults /\ faults' = faults + 1
    /\ pc[s] # "idle" /\ Ends(s)
    /\ loose' = (loose \/ pc[s] = "write")
    /\ UNCHANGED <<pidfile, proc, termed, stale>>

------------------------------------------------------------------------------
(* Control planes.                                                         *)

Becomes(p, state) ==
    /\ proc' = [proc EXCEPT ![p] = state]
    /\ UNCHANGED <<pidfile, termed, pc, call, stale, loose>>

\* uvicorn binds the port, or leaves because another process has it.
bind(p) ==
    /\ proc[p] = "booting"
    /\ Becomes(p, IF Serving = {} THEN "serving" ELSE "leaving")
    /\ UNCHANGED faults

\* SIGTERM: it closes the port, and leaves when its connections have ended.
shut_down(p) ==
    /\ p \in termed /\ proc[p] \in {"booting", "serving"}
    /\ Becomes(p, "leaving") /\ UNCHANGED faults

gone(p) == proc[p] \in {"leaving", "killed"} /\ Becomes(p, "dead") /\ UNCHANGED faults

control_plane_fails(p) ==
    /\ faults < MaxFaults /\ faults' = faults + 1
    /\ proc[p] \in {"booting", "serving"} /\ Becomes(p, "dead")

------------------------------------------------------------------------------

Step(s) ==
    \/ stop_nothing(s) \/ stop_dead(s) \/ stop_term(s) \/ stop_gone(s)
    \/ stop_kill(s) \/ stop_unsure(s) \/ stop_unlink(s)
    \/ check(s) \/ already_running(s) \/ not_ready(s)
    \/ spawn(s) \/ write_pid(s) \/ ready(s) \/ failed_to_start(s)
    \/ start_flow(s) \/ stop_flow(s) \/ restart(s) \/ shell_dies(s)

Next ==
    \/ \E s \in Shell : Step(s)
    \/ \E p \in Proc : bind(p) \/ shut_down(p) \/ gone(p) \/ control_plane_fails(p)

Spec == Init /\ [][Next]_vars

------------------------------------------------------------------------------
(* What a pid file is worth.                                               *)

\* A control plane that boots or serves is the one the next stop will find, or
\* its shell is about to note it down, unless shells have crossed or one died
\* with its process not noted down: then it may run on for good.
Tracked ==
    ~loose => \A p \in Proc : proc[p] \in {"booting", "serving"} =>
       p = pidfile \/ \E s \in Shell : pc[s] = "write" /\ call[s].child = p
=============================================================================
