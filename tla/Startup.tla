------------------------------ MODULE Startup -------------------------------
(***************************************************************************)
(* The start and the stop of a node, with the model proxy in front of the  *)
(* language models.                                                        *)
(*                                                                         *)
(* A start is a row of steps each of which raises when it fails, and       *)
(* leaves behind what the steps before it made.  The model proxy takes the *)
(* address of the last one, or the default; where another process has the  *)
(* port, it takes the next free one, and only when somebody answers there  *)
(* is the address saved for the next start, for status and for doctor.     *)
(* The proxy is known by a pid file, and its address by a state file: two  *)
(* files, each read and written by itself.  Bootstrap models the control   *)
(* plane's pid file; here the control plane answers or does not.           *)
(***************************************************************************)
EXTENDS Naturals, FiniteSetsExt

CONSTANTS
    Shell,      \* invocations of the script that may be under way at once
    MaxPort,    \* bound: ports looked at; port 1 is the default (4000)
    MaxProxy,   \* bound: proxies ever started
    MaxFaults   \* bound: shells that die, proxies that fail, ports taken by others

Port == 1 .. MaxPort
Proxy == 1 .. MaxProxy
None == 0

Label == {"idle", "packages", "address", "check", "probe", "port", "spawn", "pid", "wait", "save", "rest",
           "stop_read", "stop_kill", "stop_unlink"}

\* What an invocation goes on with after _stop_pid.
After == {"idle", "packages"}
Call == [after : After, addr : {None} \cup Port, child : {None} \cup Proxy]
NoCall == [after |-> "idle", addr |-> None, child |-> None]

VARIABLES
    pidfile,    \* litellm_proxy.pid
    saved,      \* the port in litellm_proxy.json
    proxy,      \* each proxy: its port and its state
    others,     \* ports that other processes have
    pc, call,
    stale,      \* invocations under whose feet one of the files changed
    loose,      \* a stale invocation changed a file, or one died
    faults

vars == <<pidfile, saved, proxy, others, pc, call, stale, loose, faults>>

TypeOK ==
    /\ pidfile \in {None} \cup Proxy /\ saved \in {None} \cup Port
    /\ proxy \in [Proxy -> [port : {None} \cup Port, state : {"unborn", "booting", "serving", "dead"}]]
    /\ others \subseteq Port
    /\ pc \in [Shell -> Label] /\ call \in [Shell -> Call]
    /\ stale \subseteq Shell /\ loose \in BOOLEAN
    /\ faults \in Nat

Init ==
    /\ pidfile = None /\ saved = None
    /\ proxy = [p \in Proxy |-> [port |-> None, state |-> "unborn"]]
    /\ others \in SUBSET {1}
    /\ pc = [s \in Shell |-> "idle"] /\ call = [s \in Shell |-> NoCall]
    /\ stale = {} /\ loose = FALSE /\ faults = 0

------------------------------------------------------------------------------
processes == <<proxy, others>>
disk == <<pidfile, saved>>
clean == <<stale, loose, faults>>

Goto(s, label) == pc' = [pc EXCEPT ![s] = label]

\* The end of an invocation, also of one that raises.
Ends(s) == Goto(s, "idle") /\ call' = [call EXCEPT ![s] = NoCall]

\* To have changed a file is to have changed it for all others that are under way.
Changed(s) ==
    /\ stale' = {u \in Shell : u # s /\ pc[u] # "idle"}
    /\ loose' = (loose \/ s \in stale)

pid_alive(p) == p # None /\ proxy[p].state \in {"booting", "serving"}
Listening(a) == \E p \in Proxy : proxy[p] = [port |-> a, state |-> "serving"]
is_local_port_available(a) == a \notin others /\ ~Listening(a)

\* Another process may speak the proxy's protocol, or not.
MayAnswer(a) == Listening(a) \/ a \in others
MayNotAnswer(a) == ~Listening(a)

------------------------------------------------------------------------------
(* _stop_pid, in the three steps that matter to two files.                 *)

stop_read(s) ==
    /\ pc[s] = "stop_read"
    /\ \/ /\ pidfile = None
          /\ IF call[s].after = "idle" THEN Ends(s) ELSE Goto(s, call[s].after) /\ UNCHANGED call
       \/ /\ pidfile # None
          /\ Goto(s, IF pid_alive(pidfile) THEN "stop_kill" ELSE "stop_unlink")
          /\ call' = [call EXCEPT ![s].child = pidfile]
    /\ stale' = stale \ {s}
    /\ UNCHANGED <<disk, processes, loose, faults>>

stop_kill(s) ==
    /\ pc[s] = "stop_kill"
    /\ proxy' = [proxy EXCEPT ![call[s].child].state = "dead"]
    /\ Goto(s, "stop_unlink")
    /\ UNCHANGED <<disk, others, call, clean>>

\* The address of the proxy stays saved.
stop_unlink(s) ==
    /\ pc[s] = "stop_unlink"
    /\ pidfile' = None /\ Changed(s)
    /\ IF call[s].after = "idle" THEN Ends(s) ELSE Goto(s, call[s].after) /\ call' = [call EXCEPT ![s].child = None]
    /\ UNCHANGED <<saved, processes, faults>>

------------------------------------------------------------------------------
(* _start_flow.                                                            *)

\* Packages that are missing are installed, or the start ends here.
ensure_python_dependencies(s) ==
    /\ pc[s] = "packages"
    /\ Goto(s, "address") \/ Goto(s, "idle")
    /\ UNCHANGED <<disk, processes, call, clean>>

resolved_litellm_base_url == IF saved = None THEN 1 ELSE saved

ReadAddress(s) ==
    /\ pc[s] = "address"
    /\ call' = [call EXCEPT ![s].addr = resolved_litellm_base_url]
    /\ Goto(s, "check") /\ stale' = stale \ {s}
    /\ UNCHANGED <<disk, processes, loose, faults>>

check(s) ==
    /\ pc[s] = "check"
    /\ Goto(s, IF pid_alive(pidfile) THEN "probe" ELSE "port")
    /\ UNCHANGED <<disk, processes, call, clean>>

\* Somebody answers at the address within five seconds; otherwise the start raises, and
\* the proxy is left as it is.
already_running(s) ==
    /\ pc[s] = "probe"
    /\ \/ MayAnswer(call[s].addr) /\ Goto(s, "rest") /\ UNCHANGED call
       \/ MayNotAnswer(call[s].addr) /\ Ends(s)
    /\ UNCHANGED <<disk, processes, clean>>

find_free_local_port(a) ==
    LET free == {b \in Port : b > a /\ is_local_port_available(b)}
    IN  IF free # {} THEN Min(free) ELSE a

ChoosePort(s) ==
    LET a == call[s].addr
    IN  /\ pc[s] = "port"
        /\ call' = [call EXCEPT ![s].addr = IF is_local_port_available(a) THEN a ELSE find_free_local_port(a)]
        /\ Goto(s, "spawn")
        /\ UNCHANGED <<disk, processes, clean>>

spawn(s) ==
    /\ pc[s] = "spawn"
    /\ \E p \in Proxy :
          /\ proxy[p].state = "unborn" /\ \A q \in Proxy : q < p => proxy[q].state # "unborn"
          /\ proxy' = [proxy EXCEPT ![p] = [port |-> call[s].addr, state |-> "booting"]]
          /\ call' = [call EXCEPT ![s].child = p]
    /\ Goto(s, "pid")
    /\ UNCHANGED <<disk, others, clean>>

write_pid(s) ==
    /\ pc[s] = "pid"
    /\ pidfile' = call[s].child /\ Changed(s)
    /\ Goto(s, "wait")
    /\ UNCHANGED <<saved, processes, call, faults>>

\* Within a minute somebody answers, or what the pid file names by now is stopped.
wait_litellm_ready(s) ==
    /\ pc[s] = "wait"
    /\ \/ MayAnswer(call[s].addr) /\ Goto(s, "save") /\ UNCHANGED call
       \/ /\ MayNotAnswer(call[s].addr)
          /\ Goto(s, "stop_read") /\ call' = [call EXCEPT ![s] = NoCall]
    /\ UNCHANGED <<disk, processes, clean>>

\* Mutant: the address is saved as it was asked for.
write_litellm_state_asked(s) ==
    /\ pc[s] = "save"
    /\ saved' = resolved_litellm_base_url /\ Changed(s)
    /\ Goto(s, "rest")
    /\ UNCHANGED <<pidfile, processes, call, faults>>

write_litellm_state(s) ==
    /\ pc[s] = "save"
    /\ saved' = call[s].addr /\ Changed(s)
    /\ Goto(s, "rest")
    /\ UNCHANGED <<pidfile, processes, call, faults>>

\* The control plane, the first team run and the recovery: each is made or raises, and
\* the proxy runs on.
RestOfStart(s) ==
    /\ pc[s] = "rest"
    /\ Ends(s)
    /\ UNCHANGED <<disk, processes, clean>>

------------------------------------------------------------------------------
(* Invocations, and what happens outside them.                             *)

Begin(s, label, after) ==
    /\ pc[s] = "idle" /\ Goto(s, label)
    /\ call' = [call EXCEPT ![s] = [NoCall EXCEPT !.after = after]]
    /\ stale' = stale \ {s}
    /\ UNCHANGED <<disk, processes, loose, faults>>

start_flow(s) == Begin(s, "packages", "idle")
stop_flow(s) == Begin(s, "stop_read", "idle")
restart(s) == Begin(s, "stop_read", "packages")

shell_dies(s) ==
    /\ pc[s] # "idle" /\ faults < MaxFaults
    /\ Ends(s)
    /\ loose' = TRUE /\ faults' = faults + 1
    /\ UNCHANGED <<disk, processes, stale>>

\* The proxy binds its port, or leaves where somebody else was faster.
bind(p) ==
    /\ proxy[p].state = "booting"
    /\ proxy' = [proxy EXCEPT ![p].state =
                    IF is_local_port_available(proxy[p].port) THEN "serving" ELSE "dead"]
    /\ UNCHANGED <<disk, others, pc, call, clean>>

proxy_fails(p) ==
    /\ proxy[p].state \in {"booting", "serving"} /\ faults < MaxFaults
    /\ proxy' = [proxy EXCEPT ![p].state = "dead"]
    /\ faults' = faults + 1
    /\ UNCHANGED <<disk, others, pc, call, stale, loose>>

\* A port is taken, or given back, by another process.
other_binds(a) ==
    /\ faults < MaxFaults /\ ~Listening(a)
    /\ others' = IF a \in others THEN others \ {a} ELSE others \cup {a}
    /\ faults' = faults + 1
    /\ UNCHANGED <<disk, proxy, pc, call, stale, loose>>

Step(s) ==
    \/ stop_read(s) \/ stop_kill(s) \/ stop_unlink(s)
    \/ ensure_python_dependencies(s) \/ ReadAddress(s) \/ check(s) \/ already_running(s)
    \/ ChoosePort(s) \/ spawn(s) \/ write_pid(s) \/ wait_litellm_ready(s) \/ write_litellm_state(s)
    \/ RestOfStart(s)
    \/ start_flow(s) \/ stop_flow(s) \/ restart(s) \/ shell_dies(s)

Next ==
    \/ \E s \in Shell : Step(s)
    \/ \E p \in Proxy : bind(p) \/ proxy_fails(p)
    \/ \E a \in Port : other_binds(a)

Spec == Init /\ [][Next]_vars

------------------------------------------------------------------------------
\* _start_litellm_proxy, _resolved_litellm_base_url: while nobody starts or stops, a proxy
\* that serves is the one in the pid file and the address that the next start, status and
\* doctor resolve is its port, unless invocations have crossed or one has died.
ProxyFound ==
    (~loose /\ \A s \in Shell : pc[s] = "idle") =>
        \A p \in Proxy : proxy[p].state = "serving" =>
            pidfile = p /\ resolved_litellm_base_url = proxy[p].port
=============================================================================
