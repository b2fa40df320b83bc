--------------------------- MODULE EventReporter ---------------------------
(***************************************************************************)
(* The reports of events over OpenClaw: sweeps read the event log after a  *)
(* stored cursor, report the events one by one and store the new cursor.   *)
(*                                                                         *)
(* The reporting loop and API calls sweep in threads of their own and      *)
(* nothing excludes them from each other.  An event is sent, or filtered,  *)
(* or its delivery fails: the sweep goes on to the next one in each case.  *)
(* A step ends with a read or a write of the stored state, a read of the   *)
(* log, or a message sent.                                                 *)
(***************************************************************************)
EXTENDS Integers, FiniteSetsExt

CONSTANTS
    Loop,         \* the reporting loop
    Api,          \* threads that serve /v1/openclaw/sweep
    Limit,        \* events per sweep
    MaxEvents,    \* bound: events other parts add to the log
    MaxSweeps,    \* bound: sweeps over the API
    MaxFaults     \* bound: failures of a sweep and stops of the process

Sweeper == {Loop} \cup Api

\* The loop adds an event of its own for each of its failures.
Event == 1 .. MaxEvents + MaxFaults
Position == 0 .. MaxEvents + MaxFaults

VARIABLES
    last,       \* id of the last event in the log
    added,      \* how many of them other parts added
    cursor,     \* the stored cursor
    pc,
    at, upto,   \* the sweep: last event handled, last row of its list
    handled,    \* events that a sweep has reported, filtered or failed to deliver
    sent,       \* events sent
    again,      \* events sent more than once
    crossed,    \* sweeps that ran while another one did
    disturbed,  \* events sent by such sweeps, or by one that stopped before it stored its cursor
    sweeps, faults

vars == <<last, added, cursor, pc, at, upto, handled, sent, again, crossed, disturbed,
          sweeps, faults>>
outside == <<last, added, sweeps, faults>>
history == <<handled, sent, again, disturbed>>

TypeOK ==
    /\ last \in Position /\ added \in 0 .. MaxEvents
    /\ cursor \in 0 .. last
    /\ pc \in [Sweeper -> {"idle", "list", "report"}]
    /\ at \in [Sweeper -> Position] /\ upto \in [Sweeper -> Position]
    /\ handled \subseteq Event /\ sent \subseteq handled /\ again \subseteq sent
    /\ disturbed \subseteq Event
    /\ crossed \subseteq Sweeper
    /\ sweeps \in 0 .. MaxSweeps /\ faults \in 0 .. MaxFaults

Init ==
    /\ last = 0 /\ added = 0 /\ cursor = 0
    /\ pc = [s \in Sweeper |-> "idle"]
    /\ at = [s \in Sweeper |-> 0] /\ upto = [s \in Sweeper |-> 0]
    /\ handled = {} /\ sent = {} /\ again = {} /\ disturbed = {}
    /\ crossed = {}
    /\ sweeps = 0 /\ faults = 0

------------------------------------------------------------------------------
(* sweep_events.                                                           *)

Active == {s \in Sweeper : pc[s] # "idle"}

\* load_state: the cursor.
load_state(s) ==
    /\ pc[s] = "idle"
    /\ pc' = [pc EXCEPT ![s] = "list"]
    /\ at' = [at EXCEPT ![s] = cursor]
    /\ crossed' = IF Active = {} THEN {} ELSE Sweeper
    /\ UNCHANGED <<cursor, upto, history>>

list_events(s) ==
    /\ pc[s] = "list"
    /\ upto' = [upto EXCEPT ![s] = Min({last, at[s] + Limit})]
    /\ pc' = [pc EXCEPT ![s] = "report"]
    /\ UNCHANGED <<cursor, at, crossed, history, outside>>

\* report_event of the next row.  A filtered event, a disabled reporter, a dry run and
\* a failed delivery send nothing.
report_event(s) ==
    /\ pc[s] = "report" /\ at[s] < upto[s]
    /\ at' = [at EXCEPT ![s] = @ + 1]
    /\ handled' = handled \cup {at[s] + 1}
    /\ \/ UNCHANGED <<sent, again, disturbed>>
       \/ /\ sent' = sent \cup {at[s] + 1}
          /\ again' = again \cup ({at[s] + 1} \cap sent)
          /\ disturbed' = IF s \in crossed THEN disturbed \cup {at[s] + 1} ELSE disturbed
    /\ UNCHANGED <<cursor, pc, upto, crossed, outside>>

Return(s) ==
    /\ pc' = [pc EXCEPT ![s] = "idle"]
    /\ at' = [at EXCEPT ![s] = 0] /\ upto' = [upto EXCEPT ![s] = 0]
    /\ crossed' = crossed \ {s}

\* Mutant: the cursor of the newest event there is.
save_state_newest(s) ==
    /\ pc[s] = "report" /\ at[s] = upto[s]
    /\ cursor' = last
    /\ Return(s)
    /\ UNCHANGED <<history, outside>>

\* save_state: whatever the cursor has become meanwhile.
save_state(s) ==
    /\ pc[s] = "report" /\ at[s] = upto[s]
    /\ cursor' = upto[s]
    /\ Return(s)
    /\ UNCHANGED <<history, outside>>

\* The database or the detection of OpenClaw fails: the sweep is over.  The loop
\* logs that; a caller of the API gets an error.
sweep_fails(s) ==
    /\ pc[s] # "idle"
    /\ faults < MaxFaults /\ faults' = faults + 1
    /\ last' = IF s = Loop THEN last + 1 ELSE last
    /\ disturbed' = disturbed \cup (sent \cap (cursor + 1 .. at[s]))
    /\ Return(s)
    /\ UNCHANGED <<added, cursor, handled, sent, again, sweeps>>

------------------------------------------------------------------------------
(* The callers, the log, and stops of the process.                         *)

\* Mutant: the loop waits for a full list.
loop_full == load_state(Loop) /\ cursor + Limit <= last /\ UNCHANGED outside

\* The loop sweeps again and again.  A sweep of an empty log is left out.
loop == load_state(Loop) /\ cursor < last /\ UNCHANGED outside

v1_openclaw_sweep(s) ==
    /\ sweeps < MaxSweeps /\ sweeps' = sweeps + 1
    /\ load_state(s)
    /\ UNCHANGED <<last, added, faults>>

add_event ==
    /\ added < MaxEvents /\ added' = added + 1
    /\ last' = last + 1
    /\ UNCHANGED <<cursor, pc, at, upto, crossed, history, sweeps, faults>>

Crash ==
    /\ faults < MaxFaults /\ faults' = faults + 1
    /\ Active # {}
    /\ pc' = [s \in Sweeper |-> "idle"]
    /\ at' = [s \in Sweeper |-> 0] /\ upto' = [s \in Sweeper |-> 0]
    /\ crossed' = {}
    /\ disturbed' = disturbed \cup {e \in sent : e > cursor}
    /\ UNCHANGED <<last, added, cursor, handled, sent, again, sweeps>>

Step(s) == list_events(s) \/ report_event(s) \/ save_state(s)

Next ==
    \/ \E s \in Sweeper : Step(s) \/ sweep_fails(s)
    \/ loop
    \/ \E s \in Api : v1_openclaw_sweep(s)
    \/ add_event \/ Crash

Spec == Init /\ [][Next]_vars

\* The loop comes round, and a sweep that has begun goes on.
Fairness == WF_vars(loop) /\ \A s \in Sweeper : WF_vars(Step(s))

LiveSpec == Spec /\ Fairness

------------------------------------------------------------------------------
(* Properties.                                                             *)

\* The stored cursor never passes an event that no sweep has looked at, however
\* sweeps overlap, fail or stop; it may go back.
NothingSkipped == 1 .. cursor \subseteq handled

\* An event is sent again only if it was sent by a sweep that ran while another one did,
\* or by one that failed or stopped before it stored how far it had come.
SentOnce == again \subseteq disturbed

\* Every event in the log is looked at in the end.
EveryEventHandled == \A e \in Event : e <= last ~> e \in handled

=============================================================================
