--------------------------- MODULE TeamRunsProofs ----------------------------
(***************************************************************************)
(* Proofs about TeamRuns, for any threads, runs and bounds.                *)
(***************************************************************************)
EXTENDS TeamRuns, FiniteSetTheorems, TLAPS

------------------------------------------------------------------------------
(* TeamRuns.  A run that is not shared has one thread at most (Solo): two  *)
(* coders have different locks (OneCoder), and who begins beside another   *)
(* shares the run; a fresh run is begun only under an id whose row is      *)
(* absent, and no row is removed (HasRow).                                 *)

Ids ==
    /\ CodingRun # TaskRun /\ CodingRun \notin FreshRun /\ TaskRun \notin FreshRun
    /\ Cleaner \notin Thread /\ "team" \notin Scope /\ "none" \notin Scope

Codes(t) == call[t].job = "coding" /\ pc[t] \in {"work", "ended"}

\* What the label of a thread says of its call.
Place(t) ==
    /\ pc[t] \in {"runs", "agents", "lock"} => call[t].job = "coding"
    /\ pc[t] = "started" => call[t].job # "coding"
    /\ IF call[t].job = "coding" THEN call[t].run = CodingRun /\ call[t].key \in Scope
                                 ELSE call[t].run \in {TaskRun} \cup FreshRun /\ call[t].key \notin Scope
    /\ Codes(t) => call[t].key \in locks

OneCoder == \A t, u \in Thread : Codes(t) /\ Codes(u) /\ call[t].key = call[u].key => t = u
HasRow == \A t \in Thread : Working(t) => runs[call[t].run].state # "absent"
Solo == \A t, u \in Thread :
    Working(t) /\ Working(u) /\ call[t].run = call[u].run /\ call[t].run \notin shared => t = u

CallType == [job : Job, run : Run, flow : Flow, key : Key \cup {"none"}, number : Nat]

RInv ==
    /\ runs \in [Run -> Row] /\ pc \in [Proc -> Label] /\ call \in [Thread -> CallType] /\ jobs \in Nat
    /\ \A t \in Thread : Place(t)
    /\ OneCoder /\ HasRow /\ Solo
    /\ RowTellsTruth

LEMMA TeamRunsInit ==
    ASSUME Ids, Init
    PROVE  RInv
  <1>1. runs \in [Run -> Row] /\ pc \in [Proc -> Label]
    BY DEF Init, NoRow, Row, State, Label
  <1>2. call \in [Thread -> CallType]
    BY DEF Init, NoCall, CallType, Job, Flow, Run
  <1>3. \A t \in Thread : /\ pc[t] = "idle" /\ call[t].job = "none" /\ call[t].run = TaskRun
                          /\ call[t].key = "none"
    BY DEF Init, NoCall, Proc
  <1>4. \A r \in Run : runs[r].state = "absent"
    BY DEF Init, NoRow
  <1>5. \A t \in Thread : ~Working(t) /\ Place(t) /\ ~Codes(t)
    BY <1>3 DEF Working, Place, Codes, Ids
  <1>6. jobs \in Nat
    BY DEF Init
  <1> QED
    BY <1>1, <1>2, <1>4, <1>5, <1>6 DEF RInv, OneCoder, HasRow, Solo, RowTellsTruth, WorksOn

\* Somebody other than its thread writes rows.
LEMMA RowStep ==
    ASSUME RInv, UNCHANGED <<pc, call, locks, shared, jobs>>, runs' \in [Run -> Row], doubt \subseteq doubt',
           \A r \in Run : \/ runs'[r].state = runs[r].state
                          \/ r \in doubt' /\ runs'[r].state # "absent"
    PROVE  RInv'
  <1>1. /\ \A t \in Thread : Place(t)' /\ (Working(t)' <=> Working(t))
        /\ OneCoder' /\ Solo'
    BY DEF RInv, Place, Codes, OneCoder, Solo, Working
  <1>2. HasRow'
    BY <1>1 DEF RInv, HasRow, Place, Run
  <1>3. RowTellsTruth'
    <2>1. \A t \in Thread, r \in Run : WorksOn(t, r)' <=> WorksOn(t, r)
      BY <1>1 DEF WorksOn
    <2> QED
      BY <2>1 DEF RInv, RowTellsTruth
  <1> QED
    BY <1>1, <1>2, <1>3 DEF RInv

\* A step of a clean-up, or of a thread, that writes no row.
LEMMA MoveStep ==
    ASSUME Ids, RInv, NEW p \in Proc, NEW l \in Label, pc' = [pc EXCEPT ![p] = l],
           UNCHANGED <<runs, doubt, shared, call, locks, jobs>>,
           p \in Thread =>
             \/ pc[p] \in {"runs", "agents"} /\ l \in {"runs", "agents", "lock"}
             \/ pc[p] = "started" /\ l = "work"
    PROVE  RInv'
  <1>1. \A t \in Thread : /\ t # p => pc'[t] = pc[t]
                          /\ t = p => pc'[t] = l
    BY DEF RInv, Proc
  <1>2. \A t \in Thread : /\ Working(t)' <=> Working(t)
                          /\ Codes(t)' <=> Codes(t)
    BY <1>1 DEF Working, Codes, RInv, Place
  <1>3. \A t \in Thread : Place(t)'
    BY <1>1, <1>2 DEF RInv, Place
  <1>4. pc' \in [Proc -> Label]
    BY DEF RInv
  <1>5. OneCoder' /\ HasRow' /\ Solo' /\ RowTellsTruth'
    BY <1>2 DEF RInv, OneCoder, HasRow, Solo, RowTellsTruth, WorksOn
  <1> QED
    BY <1>3, <1>4, <1>5 DEF RInv

\* A thread t begins to work on run r, which it shares if another works on it.
LEMMA BeginStep ==
    ASSUME Ids, RInv, NEW t \in Thread, NEW r \in Run, NEW l \in {"started", "work"}, NEW c \in CallType,
           NEW row \in Row, row.state = "RUNNING",
           shared' = shared \cup {r} \/ (shared' = shared \ {r} /\ \A u \in Thread \ {t} : ~WorksOn(u, r)),
           pc' = [pc EXCEPT ![t] = l], call' = [call EXCEPT ![t] = c], runs' = [runs EXCEPT ![r] = row],
           doubt' = doubt \ {r}, jobs' \in Nat, locks \subseteq locks', ~Working(t), c.run = r,
           IF c.job = "coding"
             THEN /\ r = CodingRun /\ l = "work" /\ c.key \in Scope /\ c.key \in locks'
                  /\ \A u \in Thread : Codes(u) => call[u].key # c.key
             ELSE r # CodingRun /\ c.key \notin Scope
    PROVE  RInv'
  <1>1. /\ \A u \in Thread : u # t => pc'[u] = pc[u] /\ call'[u] = call[u]
        /\ pc'[t] = l /\ call'[t] = c
    BY DEF RInv, Proc
  <1>2. \A x \in Run : runs'[x] = IF x = r THEN row ELSE runs[x]
    BY DEF RInv
  <1>3. /\ \A u \in Thread : u # t => /\ Working(u)' <=> Working(u)
                                      /\ Codes(u)' <=> Codes(u)
        /\ Working(t)' /\ (Codes(t)' => c.job = "coding")
    BY <1>1 DEF Working, Codes
  <1>4. ASSUME NEW u \in Thread PROVE Place(u)'
    <2>1. CASE u = t
      BY <1>1, <2>1 DEF Place, Codes, Ids, Run
    <2>2. CASE u # t
      BY <1>1, <1>3, <2>2 DEF RInv, Place
    <2> QED
      BY <2>1, <2>2
  <1>5. OneCoder'
    BY <1>1, <1>3 DEF RInv, OneCoder
  <1>6. HasRow'
    BY <1>1, <1>2, <1>3 DEF RInv, HasRow, CallType
  <1>7. Solo'
    BY <1>1, <1>3 DEF RInv, Solo, WorksOn
  <1>8. ASSUME NEW x \in Run \ doubt'
        PROVE  /\ runs'[x].state = "RUNNING" => \E u \in Thread : WorksOn(u, x)'
               /\ x \notin shared' /\ (\E u \in Thread : WorksOn(u, x)') => runs'[x].state = "RUNNING"
    <2>1. CASE x = r
      BY <1>1, <1>2, <1>3, <2>1 DEF WorksOn
    <2>2. CASE x # r
      <3>1. x \notin doubt /\ (x \in shared' <=> x \in shared) /\ runs'[x] = runs[x]
        BY <1>2, <1>8, <2>2
      <3>2. \A u \in Thread : WorksOn(u, x)' <=> WorksOn(u, x)
        BY <1>1, <1>3, <2>2 DEF WorksOn
      <3> QED
        BY <3>1, <3>2 DEF RInv, RowTellsTruth
    <2> QED
      BY <2>1, <2>2
  <1>9. /\ runs' \in [Run -> Row] /\ pc' \in [Proc -> Label] /\ call' \in [Thread -> CallType]
    BY DEF RInv, Label
  <1> QED
    BY <1>4, <1>5, <1>6, <1>7, <1>8, <1>9 DEF RInv, RowTellsTruth

\* A thread leaves its run, and the row says so or is in doubt; or it works on none (l =
\* "ended": it has an event to write yet).
LEMMA LeaveStep ==
    ASSUME Ids, RInv, NEW t \in Thread, NEW l \in {"ended", "idle", "runs"}, NEW c \in CallType, NEW row \in Row,
           IF Working(t) THEN row.state # "absent" /\ (row.state = "RUNNING" => call[t].run \in doubt')
                         ELSE row = runs[call[t].run],
           pc' = [pc EXCEPT ![t] = l], call' = [call EXCEPT ![t] = c], runs' = [runs EXCEPT ![call[t].run] = row],
           doubt \subseteq doubt', shared' = shared, jobs' \in Nat,
           l = "ended" => c = call[t] /\ pc[t] = "work",
           l = "idle" => c.job # "coding" /\ c.run = TaskRun /\ c.key \notin Scope,
           l = "runs" => c.job = "coding" /\ c.run = CodingRun /\ c.key \in Scope,
           \A k \in locks \cap Scope : k \in locks' \/ (Codes(t) /\ l # "ended" /\ k = call[t].key)
    PROVE  RInv'
  <1>1. /\ \A u \in Thread : u # t => pc'[u] = pc[u] /\ call'[u] = call[u]
        /\ pc'[t] = l /\ call'[t] = c
    BY DEF RInv, Proc
  <1>2. call[t].run \in Run /\ \A x \in Run : runs'[x] = IF x = call[t].run THEN row ELSE runs[x]
    BY DEF RInv, CallType
  <1>3. /\ \A u \in Thread : u # t => /\ Working(u)' <=> Working(u)
                                      /\ Codes(u)' <=> Codes(u)
        /\ ~Working(t)' /\ (Codes(t)' => Codes(t) /\ l = "ended")
    BY <1>1 DEF Working, Codes
  <1>4. ASSUME NEW u \in Thread PROVE Place(u)'
    <2>1. CASE u = t
      <3>1. CASE l = "ended"
        <4>1. c = call[t] /\ Place(t) /\ (Codes(t)' => Codes(t))
          BY <1>3, <3>1 DEF RInv
        <4>2. Codes(t) => call[t].key \in locks \cap Scope
          BY <4>1 DEF Place, Codes
        <4>3. Codes(t)' => call'[t].key \in locks'
          BY <1>1, <3>1, <4>1, <4>2
        <4> QED
          BY <1>1, <2>1, <3>1, <4>1, <4>3 DEF Place
      <3>2. CASE l # "ended"
        <4>1. ~Codes(t)' /\ pc'[t] = l /\ call'[t] = c /\ l \in {"idle", "runs"}
          BY <1>1, <1>3, <3>2
        <4> QED
          BY <2>1, <4>1 DEF Place
      <3> QED
        BY <3>1, <3>2
    <2>2. CASE u # t
      <3>1. Codes(u)' => call[u].key \in locks'
        <4> SUFFICES ASSUME Codes(u)' PROVE call[u].key \in locks'
          OBVIOUS
        <4>1. Codes(u) /\ call[u].key \in locks \cap Scope
          BY <1>3, <2>2 DEF RInv, Place, Codes
        <4>2. Codes(t) => call[t].key # call[u].key
          BY <2>2, <4>1 DEF RInv, OneCoder
        <4> QED
          BY <4>1, <4>2
      <3> QED
        BY <1>1, <2>2, <3>1 DEF RInv, Place
    <2> QED
      BY <2>1, <2>2
  <1>5. OneCoder' /\ Solo'
    BY <1>1, <1>3 DEF RInv, OneCoder, Solo
  <1>6. HasRow'
    BY <1>1, <1>2, <1>3 DEF RInv, HasRow, CallType
  <1>7. ASSUME NEW x \in Run \ doubt'
        PROVE  /\ runs'[x].state = "RUNNING" => \E u \in Thread : WorksOn(u, x)'
               /\ x \notin shared' /\ (\E u \in Thread : WorksOn(u, x)') => runs'[x].state = "RUNNING"
    <2>1. CASE WorksOn(t, x)
      <3>1. runs'[x].state # "RUNNING"
        BY <1>2, <1>7, <2>1 DEF WorksOn
      <3>2. x \notin shared => \A u \in Thread : ~WorksOn(u, x)'
        BY <1>1, <1>3, <2>1 DEF RInv, Solo, WorksOn
      <3> QED
        BY <3>1, <3>2
    <2>2. CASE ~WorksOn(t, x)
      <3>1. x \notin doubt /\ runs'[x] = runs[x]
        BY <1>2, <1>7, <2>2 DEF WorksOn
      <3>2. \A u \in Thread : WorksOn(u, x)' <=> WorksOn(u, x)
        BY <1>1, <1>3, <2>2 DEF WorksOn
      <3> QED
        BY <3>1, <3>2 DEF RInv, RowTellsTruth
    <2> QED
      BY <2>1, <2>2
  <1>8. /\ runs' \in [Run -> Row] /\ pc' \in [Proc -> Label] /\ call' \in [Thread -> CallType]
    BY DEF RInv, Label
  <1> QED
    BY <1>4, <1>5, <1>6, <1>7, <1>8 DEF RInv, RowTellsTruth

LEMMA RunBegins ==
    ASSUME Ids, RInv, NEW t \in Thread
    PROVE  /\ v1_team_run(t) => RInv'
           /\ v1_run_start(t) => RInv'
           /\ coding_begin(t) => RInv'
  <1> USE DEF Goto, counters, Proc
  <1>1. \A flow \in Flow, r \in Run, job \in {"team", "start"}, k \in {"team", "none"} :
          [job |-> job, run |-> r, flow |-> flow, key |-> k, number |-> jobs + 1] \in CallType
    BY DEF RInv, CallType, Job, Key
  <1>2. \A named \in BOOLEAN : [state |-> "RUNNING", old |-> FALSE, named |-> named] \in Row
    BY DEF Row, State
  <1>3. ASSUME NEW job \in {"team", "start"}, NEW r \in {TaskRun} \cup Absent, NEW flow \in Flow,
               NEW k \in {"team", "none"}, NEW named \in BOOLEAN, upsert_begin(t, job, r, flow, k, named),
               r # TaskRun \/ k = "none", locks \subseteq locks'
        PROVE  RInv'
    <2> DEFINE c == [job |-> job, run |-> r, flow |-> flow, key |-> k, number |-> jobs + 1]
               row == [state |-> "RUNNING", old |-> FALSE, named |-> named]
    <2>1. /\ c \in CallType /\ c.run = r /\ c.job # "coding" /\ row \in Row /\ row.state = "RUNNING"
          /\ r \in Run /\ r # CodingRun /\ c.key \notin Scope
      BY <1>1, <1>2 DEF Run, Absent, Ids
    <2>2. /\ pc[t] = "idle" /\ jobs' \in Nat /\ doubt' = doubt \ {r}
          /\ pc' = [pc EXCEPT ![t] = "started"] /\ call' = [call EXCEPT ![t] = c]
          /\ runs' = [runs EXCEPT ![r] = row]
      BY <1>3 DEF upsert_begin, Begin, Take, NewCall, upsert_run, RInv
    <2>3. shared' = shared \cup {r} \/ (shared' = shared \ {r} /\ \A u \in Thread \ {t} : ~WorksOn(u, r))
      <3>1. shared' = IF Beside(t, r, k) THEN shared \cup {r} ELSE shared \ {r}
        BY <1>3 DEF upsert_begin, Begin
      <3>2. r # TaskRun => \A u \in Thread : ~WorksOn(u, r)
        BY DEF RInv, HasRow, Absent, WorksOn
      <3>3. k = "none" /\ ~Beside(t, r, k) => \A u \in Thread \ {t} : ~WorksOn(u, r)
        BY DEF Beside
      <3> QED
        BY <1>3, <3>1, <3>2, <3>3
    <2>4. ~Working(t)
      BY <2>2 DEF Working
    <2> HIDE DEF c, row
    <2> QED
      BY <1>3, <2>1, <2>2, <2>3, <2>4, BeginStep
  <1>4. ASSUME v1_team_run(t) PROVE RInv'
    <2> DEFINE r == CHOOSE x \in Absent : TRUE
    <2>1. r \in Absent
      BY <1>4 DEF v1_team_run
    <2>2. PICK named \in BOOLEAN : upsert_begin(t, "team", r, "team", "team", named)
      BY <1>4 DEF v1_team_run
    <2> HIDE DEF r
    <2>3. r # TaskRun
      BY <2>1 DEF Absent, Ids
    <2> QED
      BY <1>3, <1>4, <2>1, <2>2, <2>3 DEF v1_team_run, Flow
  <1>5. ASSUME v1_run_start(t) PROVE RInv'
    BY <1>3, <1>5 DEF v1_run_start
  <1>6. ASSUME coding_begin(t) PROVE RInv'
    <2> DEFINE row == [state |-> "RUNNING", old |-> FALSE, named |-> FALSE]
    <2>1. row \in Row /\ row.state = "RUNNING"
      BY <1>2
    <2>2. /\ pc[t] = "lock" /\ call[t].key \notin locks /\ locks' = locks \cup {call[t].key}
          /\ doubt' = doubt \ {CodingRun} /\ pc' = [pc EXCEPT ![t] = "work"] /\ call' = call /\ jobs' = jobs
          /\ runs' = [runs EXCEPT ![CodingRun] = row]
          /\ shared' = IF Beside(t, CodingRun, call[t].key) THEN shared \cup {CodingRun} ELSE shared \ {CodingRun}
      BY <1>6 DEF coding_begin, Begin, upsert_run
    <2>3. /\ call[t] \in CallType /\ call[t].job = "coding" /\ call[t].run = CodingRun /\ jobs \in Nat
          /\ call[t].key \in Scope
      BY <2>2 DEF RInv, Place
    <2>4. call' = [call EXCEPT ![t] = call[t]]
      BY <2>2 DEF RInv
    <2>5. ~Working(t) /\ \A u \in Thread : Codes(u) => call[u].key # call[t].key
      BY <2>2 DEF RInv, Place, Working
    <2>6. \A u \in Thread : WorksOn(u, CodingRun) => Codes(u)
      BY DEF RInv, Place, Codes, Working, WorksOn, Ids
    <2>7. ~Beside(t, CodingRun, call[t].key) => \A u \in Thread \ {t} : ~WorksOn(u, CodingRun)
      BY <2>5, <2>6 DEF Beside
    <2> HIDE DEF row
    <2> QED
      BY <2>1, <2>2, <2>3, <2>4, <2>5, <2>7, BeginStep DEF Run
  <1> QED
    BY <1>4, <1>5, <1>6

LEMMA EndedStep ==
    ASSUME Ids, RInv, NEW t \in Thread, NEW row \in Row, pc[t] = "work", row.state \notin {"RUNNING", "absent"},
           pc' = [pc EXCEPT ![t] = "ended"], runs' = [runs EXCEPT ![call[t].run] = row],
           UNCHANGED <<call, doubt, shared, jobs, locks>>
    PROVE  RInv'
  <1> DEFINE c == call[t]
             l == "ended"
  <1>1. c \in CallType /\ call' = [call EXCEPT ![t] = c] /\ jobs' \in Nat /\ c = call[t]
    BY DEF RInv
  <1>2. l \in {"ended", "idle", "runs"} /\ l # "idle" /\ l # "runs" /\ pc' = [pc EXCEPT ![t] = l]
    OBVIOUS
  <1>3. Working(t)
    BY DEF Working
  <1> HIDE DEF c, l
  <1> QED
    BY <1>1, <1>2, <1>3, LeaveStep

LEMMA RunEnds ==
    ASSUME Ids, RInv, NEW t \in Thread
    PROVE  /\ finish(t) => RInv'
           /\ ended(t) => RInv'
           /\ coding_finish(t) => RInv'
           /\ coding_row_fails(t) => RInv'
           /\ coding_busy(t) => RInv'
           /\ cut_off(t) => RInv'
           /\ v1_team_coding_run(t) => RInv'
  <1> USE DEF Goto, counters, Proc
  <1>1. /\ call[t] \in CallType /\ call[t].run \in Run /\ runs[call[t].run] \in Row /\ jobs \in Nat
        /\ runs = [runs EXCEPT ![call[t].run] = runs[call[t].run]] /\ call = [call EXCEPT ![t] = call[t]]
    BY DEF RInv, CallType
  <1>2. NoCall \in CallType /\ NoCall.job # "coding" /\ NoCall.run = TaskRun /\ NoCall.key \notin Scope
    BY DEF NoCall, CallType, Job, Flow, Run, Ids
  <1>3. ASSUME finish(t) PROVE RInv'
    <2>1. PICK state \in {"DONE", "FAILED"} : update_run_state(call[t].run, state)
      BY <1>3 DEF finish
    <2> DEFINE row == [runs[call[t].run] EXCEPT !.state = state, !.old = FALSE]
    <2>2. row \in Row /\ row.state \notin {"RUNNING", "absent"}
      BY <1>1 DEF Row, State
    <2>3. runs' = [runs EXCEPT ![call[t].run] = row]
      BY <2>1 DEF update_run_state
    <2>4. pc[t] = "work" /\ pc' = [pc EXCEPT ![t] = "ended"] /\ UNCHANGED <<call, doubt, shared, jobs, locks>>
      BY <1>3 DEF finish
    <2> HIDE DEF row
    <2> QED
      BY <2>2, <2>3, <2>4, EndedStep
  <1>4. ASSUME ended(t) PROVE RInv'
    <2>1. /\ pc[t] = "ended" /\ pc' = [pc EXCEPT ![t] = "idle"] /\ call' = [call EXCEPT ![t] = NoCall]
          /\ locks' = locks \ {call[t].key} /\ UNCHANGED <<runs, doubt, shared, jobs>>
      BY <1>4 DEF ended, Return
    <2>2. ~Working(t) /\ \A k \in locks \cap Scope : k \in locks' \/ (Codes(t) /\ k = call[t].key)
      BY <2>1 DEF Working, Codes, RInv, Place
    <2> QED
      BY <1>1, <1>2, <2>1, <2>2, LeaveStep
  <1>5. ASSUME coding_finish(t) PROVE RInv'
    <2>1. PICK state \in {"DONE", "FAILED"} :
            /\ upsert_run(CodingRun, state, FALSE)
            /\ \/ Goto(t, "ended") /\ UNCHANGED <<locks, call>>
               \/ Return(t) /\ locks' = locks \ {call[t].key}
      BY <1>5 DEF coding_finish
    <2> DEFINE row == [state |-> state, old |-> FALSE, named |-> FALSE]
    <2>2. row \in Row /\ row.state \notin {"RUNNING", "absent"}
      BY DEF Row, State
    <2>3. pc[t] = "work" /\ call[t].job = "coding" /\ call[t].run = CodingRun /\ UNCHANGED <<doubt, shared, jobs>>
      BY <1>5 DEF coding_finish, RInv, Place
    <2>4. runs' = [runs EXCEPT ![call[t].run] = row] /\ Working(t) /\ Codes(t)
      BY <2>1, <2>3 DEF upsert_run, Working, Codes
    <2> HIDE DEF row
    <2>5. CASE Goto(t, "ended") /\ UNCHANGED <<locks, call>>
      BY <2>2, <2>3, <2>4, <2>5, EndedStep
    <2>6. CASE Return(t) /\ locks' = locks \ {call[t].key}
      BY <1>1, <1>2, <2>2, <2>3, <2>4, <2>6, LeaveStep DEF Return
    <2> QED
      BY <2>1, <2>5, <2>6
  <1>6. ASSUME coding_busy(t) PROVE RInv'
    <2>1. /\ pc[t] = "lock" /\ pc' = [pc EXCEPT ![t] = "idle"] /\ call' = [call EXCEPT ![t] = NoCall]
          /\ UNCHANGED <<runs, doubt, shared, jobs, locks>>
      BY <1>6 DEF coding_busy, Return
    <2> QED
      BY <1>1, <1>2, <2>1, LeaveStep DEF Working
  <1>8. ASSUME coding_row_fails(t) PROVE RInv'
    <2>1. /\ pc[t] = "lock" /\ pc' = [pc EXCEPT ![t] = "idle"] /\ call' = [call EXCEPT ![t] = NoCall]
          /\ locks \subseteq locks' /\ UNCHANGED <<runs, doubt, shared, jobs>>
      BY <1>8 DEF coding_row_fails, Return
    <2> QED
      BY <1>1, <1>2, <2>1, LeaveStep DEF Working
  <1>9. ASSUME cut_off(t) PROVE RInv'
    <2>1. /\ Working(t) /\ pc' = [pc EXCEPT ![t] = "idle"] /\ call' = [call EXCEPT ![t] = NoCall]
          /\ locks' = locks \ {call[t].key} /\ doubt' = doubt \cup {call[t].run}
          /\ UNCHANGED <<runs, shared, jobs>>
      BY <1>9 DEF cut_off, Return
    <2>2. runs[call[t].run].state # "absent"
      BY <2>1 DEF RInv, HasRow
    <2>3. \A k \in locks \cap Scope : k \in locks' \/ (Codes(t) /\ k = call[t].key)
      BY <2>1 DEF Working, Codes, RInv, Place
    <2> QED
      BY <1>1, <1>2, <2>1, <2>2, <2>3, LeaveStep
  <1>7. ASSUME v1_team_coding_run(t) PROVE RInv'
    <2>0. PICK k \in Scope : Take(t, NewCall("coding", CodingRun, "team", k), "runs")
      BY <1>7 DEF v1_team_coding_run
    <2> DEFINE c == [job |-> "coding", run |-> CodingRun, flow |-> "team", key |-> k, number |-> jobs + 1]
    <2>1. c \in CallType /\ c.job = "coding" /\ c.run = CodingRun /\ c.key \in Scope
      BY <1>1 DEF CallType, Job, Flow, Run, Key
    <2>2. /\ pc[t] = "idle" /\ pc' = [pc EXCEPT ![t] = "runs"] /\ call' = [call EXCEPT ![t] = c]
          /\ jobs' = jobs + 1 /\ UNCHANGED <<runs, doubt, shared, locks>>
      BY <1>7, <2>0 DEF v1_team_coding_run, Take, NewCall
    <2> HIDE DEF c
    <2>3. ~Working(t) /\ jobs' \in Nat
      BY <1>1, <2>2 DEF Working
    <2>4. runs' = [runs EXCEPT ![call[t].run] = runs[call[t].run]]
      BY <1>1, <2>2
    <2> QED
      BY <1>1, <2>1, <2>2, <2>3, <2>4, LeaveStep
  <1> QED
    BY <1>3, <1>4, <1>5, <1>6, <1>7, <1>8, <1>9

\* Others write rows: the clean-up, time, a user, a recovery.
LEMMA RowsWritten ==
    ASSUME Ids, RInv
    PROVE  /\ \A p \in Proc : Clean(p) => RInv'
           /\ clean => RInv'
           /\ age => RInv'
           /\ v1_chat => RInv'
           /\ v1_recovery_resume => RInv'
  <1> USE DEF Goto, counters, Command
  <1>0. runs \in [Run -> Row] /\ pc \in [Proc -> Label]
    BY DEF RInv
  <1>1. ASSUME NEW p \in Proc, fail_run(p) PROVE RInv'
    <2>1. PICK r : r \in todo[p].runs /\ update_run_state(r, "FAILED") /\ doubt' = doubt \cup {r}
      BY <1>1 DEF fail_run
    <2>2. runs' \in [Run -> Row] /\ \A x \in Run : runs'[x].state = IF x = r THEN "FAILED" ELSE runs[x].state
      BY <1>0, <2>1 DEF update_run_state, Row, State
    <2> QED
      BY <1>1, <2>1, <2>2, RowStep DEF fail_run
  <1>2. ASSUME NEW p \in Proc, fail_agent(p) PROVE RInv'
    BY <1>0, <1>2, RowStep DEF fail_agent
  <1>3. ASSUME NEW p \in Proc, list_agents(p) PROVE RInv'
    <2>1. /\ pc[p] = "runs" /\ pc' = [pc EXCEPT ![p] = "agents"]
          /\ UNCHANGED <<runs, doubt, shared, call, locks, jobs>>
      BY <1>3 DEF list_agents
    <2> QED
      BY <2>1, MoveStep DEF Label
  <1>4. ASSUME NEW p \in Proc, cleaned(p) PROVE RInv'
    <2>1. /\ pc[p] = "agents" /\ pc' = [pc EXCEPT ![p] = IF p = Cleaner THEN "idle" ELSE "lock"]
          /\ UNCHANGED <<runs, doubt, shared, call, locks, jobs>>
      BY <1>4 DEF cleaned
    <2> QED
      BY <2>1, MoveStep DEF Label, Ids
  <1>5. ASSUME clean PROVE RInv'
    <2>1. pc' = [pc EXCEPT ![Cleaner] = "runs"] /\ UNCHANGED <<runs, doubt, shared, call, locks, jobs>>
      BY <1>5 DEF clean, list_runs
    <2> QED
      BY <2>1, MoveStep DEF Label, Proc, Ids
  <1>6. ASSUME age PROVE RInv'
    <2>1. UNCHANGED <<pc, call, locks, jobs, doubt, shared>>
      BY <1>6 DEF age
    <2>2. CASE runs' = runs
      BY <1>0, <2>1, <2>2, RowStep
    <2>3. ASSUME NEW r \in Run, runs' = [runs EXCEPT ![r].old = TRUE] PROVE RInv'
      <3>1. runs' \in [Run -> Row] /\ \A x \in Run : runs'[x].state = runs[x].state
        BY <1>0, <2>3 DEF Row
      <3> QED
        BY <2>1, <3>1, RowStep
    <2> QED
      BY <1>6, <2>2, <2>3 DEF age
  <1>7. ASSUME NEW r \in Run, NEW state \in {"PAUSED", "RUNNING"},
               update_run_state(r, state) \/ upsert_run(r, state, FALSE),
               doubt' = doubt \cup {r}, UNCHANGED <<pc, call, locks, shared, jobs>>
        PROVE  RInv'
    <2>1. PICK row \in Row : runs' = [runs EXCEPT ![r] = row] /\ row.state = state
      <3>1. runs[r] \in Row /\ state \in State
        BY <1>0 DEF State
      <3>2. [state |-> state, old |-> FALSE, named |-> FALSE] \in Row
        BY <3>1 DEF Row
      <3>3. [runs[r] EXCEPT !.state = state, !.old = FALSE] \in Row
        BY <3>1 DEF Row
      <3>4. [runs[r] EXCEPT !.state = state, !.old = FALSE].state = state
        BY <3>1 DEF Row
      <3> QED
        BY <1>7, <3>2, <3>3, <3>4 DEF update_run_state, upsert_run
    <2>2. runs' \in [Run -> Row] /\ \A x \in Run : runs'[x] = IF x = r THEN row ELSE runs[x]
      BY <1>0, <2>1
    <2> QED
      BY <1>7, <2>1, <2>2, RowStep
  <1>8. ASSUME v1_chat PROVE RInv'
    BY <1>7, <1>8 DEF v1_chat
  <1>9. ASSUME v1_recovery_resume PROVE RInv'
    BY <1>7, <1>9 DEF v1_recovery_resume, Run
  <1> QED
    BY <1>1, <1>2, <1>3, <1>4, <1>5, <1>6, <1>8, <1>9 DEF Clean

\* A run that fails at once: nobody works on it.
LEMMA RefuseStep ==
    ASSUME Ids, RInv, NEW t \in Thread, refuse(t)
    PROVE  RInv'
  <1>1. PICK r \in {TaskRun} \cup Absent, named \in BOOLEAN : Begin(t, r, "none", "FAILED", named)
    BY DEF refuse
  <1>2. UNCHANGED <<pc, call, locks>> /\ jobs' \in Nat
    BY DEF refuse, RInv
  <1>3. r \in Run /\ r # CodingRun
    BY DEF Run, Absent, Ids
  <1>4. runs' \in [Run -> Row] /\ \A x \in Run : runs'[x].state = IF x = r THEN "FAILED" ELSE runs[x].state
    BY <1>1, <1>3 DEF Begin, upsert_run, Row, State, RInv
  <1>5. r \notin shared' => \A u \in Thread : ~WorksOn(u, r)
    BY <1>1 DEF Begin, Beside, WorksOn, Working, refuse
  <1>6. /\ \A u \in Thread : Place(u)' /\ (Working(u)' <=> Working(u))
        /\ \A u \in Thread, x \in Run : WorksOn(u, x)' <=> WorksOn(u, x)
        /\ OneCoder'
    BY <1>2 DEF RInv, Place, Codes, OneCoder, Working, WorksOn
  <1>7. HasRow'
    BY <1>2, <1>4, <1>6 DEF RInv, HasRow, CallType
  <1>8. \A x \in Run : x # r => (x \in doubt' <=> x \in doubt) /\ (x \in shared' <=> x \in shared)
    BY <1>1 DEF Begin
  <1>9. Solo'
    BY <1>2, <1>5, <1>6, <1>8 DEF RInv, Solo, WorksOn, CallType
  <1>10. RowTellsTruth'
    BY <1>4, <1>5, <1>6, <1>8 DEF RInv, RowTellsTruth
  <1> QED
    BY <1>2, <1>4, <1>6, <1>7, <1>9, <1>10 DEF RInv

LEMMA RunsCrash ==
    ASSUME Ids, RInv, Crash
    PROVE  RInv'
  <1>1. /\ pc' = [p \in Proc |-> "idle"] /\ call' = [t \in Thread |-> NoCall] /\ UNCHANGED <<runs, jobs>>
        /\ doubt' = doubt \cup {call[t].run : t \in {u \in Thread : Working(u)}}
    BY DEF Crash
  <1>2. \A t \in Thread : pc'[t] = "idle" /\ call'[t] = NoCall
    BY <1>1 DEF Proc
  <1>3. NoCall \in CallType /\ NoCall.job # "coding" /\ NoCall.run = TaskRun /\ NoCall.key \notin Scope
    BY DEF NoCall, CallType, Job, Flow, Run, Ids
  <1>4. \A t \in Thread : ~Working(t)' /\ ~Codes(t)' /\ Place(t)'
    BY <1>2, <1>3 DEF Working, Codes, Place
  <1>5. pc' \in [Proc -> Label] /\ call' \in [Thread -> CallType]
    BY <1>1, <1>3 DEF Label
  <1>6. RowTellsTruth'
    BY <1>1, <1>4 DEF RInv, RowTellsTruth, WorksOn
  <1>7. OneCoder' /\ HasRow' /\ Solo'
    BY <1>4 DEF OneCoder, HasRow, Solo
  <1> QED
    BY <1>1, <1>4, <1>5, <1>6, <1>7 DEF RInv

LEMMA TeamRunsNext ==
    ASSUME Ids, RInv, [Next]_vars
    PROVE  RInv'
  <1>0. runs \in [Run -> Row]
    BY DEF RInv
  <1>1. ASSUME NEW t \in Thread, started(t) PROVE RInv'
    <2>1. /\ pc[t] = "started" /\ pc' = [pc EXCEPT ![t] = "work"]
          /\ UNCHANGED <<runs, doubt, shared, call, locks, jobs>>
      BY <1>1 DEF started, Goto, counters
    <2> QED
      BY <2>1, MoveStep DEF Label, Proc
  <1>2. ASSUME NEW t \in Thread, beat(t) PROVE RInv'
    BY <1>0, <1>2, RowStep DEF beat
  <1>3. CASE UNCHANGED vars
    BY <1>0, <1>3, RowStep DEF vars
  <1> QED
    BY <1>1, <1>2, <1>3, RunBegins, RunEnds, RowsWritten, RefuseStep, RunsCrash DEF Next, Step

\* Whatever teams are run and stopped, for whatever scopes, however the clean-up overlaps
\* with them, wherever the process stops or a run raises, and also behind a lock that was not
\* given back: a row says RUNNING exactly while a thread works on the run, but for the rows
\* that others have written or that a cut off thread has left (doubt), and those that two
\* runs write (shared).
THEOREM RowsTrue == Spec => []RowTellsTruth
  <1>0. Ids
    BY TeamRunsAssumption DEF Ids
  <1>1. Init => RInv
    BY <1>0, TeamRunsInit
  <1>2. RInv /\ [Next]_vars => RInv'
    BY <1>0, TeamRunsNext
  <1>3. RInv => RowTellsTruth
    BY DEF RInv
  <1> QED
    BY <1>1, <1>2, <1>3, PTL DEF Spec

==============================================================================
