---------------------------- MODULE SweepsProofs -----------------------------
(***************************************************************************)
(* Proofs about TaskLease, for any tasks, instances and clients, any TTL   *)
(* and any CallTime below it, and about the sweeps that hold its leases    *)
(* (Sweeps): how long two control planes overlap, the coding locks, and    *)
(* what becomes of a lease when a delivery ends.                           *)
(***************************************************************************)
EXTENDS Sweeps, Integers, FiniteSets, FiniteSetTheorems, TLAPS

\* A call with a step in progress is a real call, on a task of the table.
LEMMA InFlight ==
  ASSUME TypeOK, NEW c \in Client, call[c].step \in CallStep
  PROVE  call[c] \in Call /\ call[c].task \in Task /\ call[c].now \in Nat
BY DEF TypeOK, Call, NoCall, CallStep

\* Moving a call to its next step changes that step and nothing else.
LEMMA MovedCall ==
  ASSUME TypeOK, NEW c \in Client, call[c].step \in CallStep,
         NEW s \in CallStep, ReadRowNext(c, s)
  PROVE  /\ call' \in [Client -> Call \cup {NoCall}]
         /\ call'[c] = [step |-> s, task |-> call[c].task, now |-> call[c].now]
         /\ call'[c].task = call[c].task /\ call'[c].now = call[c].now
         /\ call[c] # NoCall /\ call'[c] # NoCall
         /\ \A d \in Client : d # c => call'[d] = call[d]
<1>1. call[c] \in Call
  BY InFlight
<1>2. call[c] = [step |-> call[c].step, task |-> call[c].task, now |-> call[c].now]
  BY <1>1 DEF Call
<1>3. [call[c] EXCEPT !.step = s]
        = [step |-> s, task |-> call[c].task, now |-> call[c].now]
  BY <1>1 DEF Call
<1>4. [step |-> s, task |-> call[c].task, now |-> call[c].now] \in Call
  BY <1>1 DEF Call
<1>5. call'[c] = [step |-> s, task |-> call[c].task, now |-> call[c].now]
  BY <1>3 DEF TypeOK, ReadRowNext
<1> QED
  BY <1>1, <1>4, <1>5 DEF TypeOK, ReadRowNext, Call, NoCall, CallStep

\* Writing the row of a call in flight gives a row of the table.
LEMMA WrittenRow ==
  ASSUME TypeOK, NEW c \in Client, call[c].step \in CallStep, WriteRow(c)
  PROVE  /\ leases' \in [Task -> Lease]
         /\ leases'[call[c].task].holder = InstanceOf[c]
         /\ leases'[call[c].task].expires = call[c].now + TTL
         /\ \A t \in Task : t # call[c].task => leases'[t] = leases[t]
BY InFlight, TTLAssumption, InstanceAssumption
   DEF TypeOK, WriteRow, Lease, lease_expires_at

\* Type correctness: the table and the calls in flight keep their shape.
THEOREM TypeCorrect == Spec => []TypeOK
<1> USE TTLAssumption, ClockAssumption, InstanceAssumption
    DEF TypeOK, Lease, NoLease, Call, NoCall, CallStep
<1>1. Init => TypeOK
  BY DEF Init
<1>2. TypeOK /\ [Next]_vars => TypeOK'
  <2> SUFFICES ASSUME TypeOK, [Next]_vars PROVE TypeOK'
    OBVIOUS
  <2>1. ASSUME NEW c \in Client, NEW t \in Task, BeginCall(c, t, "claim")
        PROVE  TypeOK'
    BY <2>1 DEF BeginCall
  <2>2. ASSUME NEW c \in Client, NEW t \in Task, BeginCall(c, t, "renew")
        PROVE  TypeOK'
    BY <2>2 DEF BeginCall
  <2>3. ASSUME NEW c \in Client, NEW t \in Task, release_task_lease(c, t)
        PROVE  TypeOK'
    BY <2>3 DEF release_task_lease
  <2>4. ASSUME NEW c \in Client, claim_task_lease(c) PROVE TypeOK'
    BY <2>4, InFlight, WrittenRow, MovedCall DEF claim_task_lease, Return
  <2>5. ASSUME NEW c \in Client, renew_task_lease(c) PROVE TypeOK'
    <3>1. call[c].step \in CallStep
      BY <2>5 DEF renew_task_lease
    <3>2. CASE WriteRow(c) /\ ReadRowNext(c, "renew_row") /\ UNCHANGED <<clock, told>>
      BY <3>1, <3>2, WrittenRow, MovedCall
    <3>3. CASE /\ Return(c) /\ UNCHANGED <<clock, leases>>
               /\ told' = [told EXCEPT ![c][call[c].task] = 0]
      BY <3>1, <3>3, InFlight DEF Return
    <3> QED
      BY <2>5, <3>2, <3>3 DEF renew_task_lease
  <2>6. ASSUME NEW c \in Client, get_task_lease(c) PROVE TypeOK'
    BY <2>6 DEF get_task_lease, Return
  <2>7. ASSUME NEW c \in Client, CallFails(c) PROVE TypeOK'
    BY <2>7 DEF CallFails, Return
  <2>8. ASSUME NEW c \in Client, Crash(c) PROVE TypeOK'
    BY <2>8 DEF Crash, Return
  <2>9. CASE Tick
    BY <2>9 DEF Tick
  <2>10. CASE UNCHANGED vars
    BY <2>10 DEF vars
  <2> QED
    BY <2>1, <2>2, <2>3, <2>4, <2>5, <2>6, <2>7, <2>8, <2>9, <2>10 DEF Next
<1> QED
  BY <1>1, <1>2, PTL DEF Spec

------------------------------------------------------------------------------
(* The clock a call was decided with is never ahead, nor far behind.       *)

CallsAreRecent ==
    \A c \in Client :
       ~Idle(c) => call[c].now <= clock /\ clock <= call[c].now + CallTime

LEMMA CallsStayRecent == Spec => []CallsAreRecent
<1> USE ClockAssumption DEF CallsAreRecent, Idle
<1>1. Init => CallsAreRecent
  BY DEF Init
<1>2. TypeOK /\ CallsAreRecent /\ [Next]_vars => CallsAreRecent'
  <2> SUFFICES ASSUME TypeOK, CallsAreRecent, [Next]_vars PROVE CallsAreRecent'
    OBVIOUS
  <2> USE DEF TypeOK, Call, NoCall, CallStep
  <2>1. ASSUME NEW c \in Client, NEW t \in Task,
               BeginCall(c, t, "claim") \/ BeginCall(c, t, "renew")
        PROVE  CallsAreRecent'
    BY <2>1 DEF BeginCall
  <2>2. ASSUME NEW c \in Client, NEW t \in Task, release_task_lease(c, t)
        PROVE  CallsAreRecent'
    BY <2>2 DEF release_task_lease
  <2>3. ASSUME NEW c \in Client, Return(c), UNCHANGED clock
        PROVE  CallsAreRecent'
    BY <2>3 DEF Return
  <2>6. ASSUME NEW c \in Client, call[c].step \in CallStep, NEW s \in CallStep,
               ReadRowNext(c, s), UNCHANGED clock
        PROVE  CallsAreRecent'
    <3>1. call'[c].now = call[c].now /\ ~Idle(c)
      BY <2>6, MovedCall
    <3>2. \A d \in Client : d # c => call'[d] = call[d]
      BY <2>6, MovedCall
    <3> QED
      BY <2>6, <3>1, <3>2
  <2>7. ASSUME NEW c \in Client,
               claim_task_lease(c) \/ renew_task_lease(c) \/ get_task_lease(c)
                 \/ CallFails(c) \/ Crash(c)
        PROVE  CallsAreRecent'
    <3>1. CASE claim_task_lease(c)
      BY <3>1, <2>3, <2>6 DEF claim_task_lease
    <3>2. CASE renew_task_lease(c)
      BY <3>2, <2>3, <2>6 DEF renew_task_lease
    <3>3. CASE get_task_lease(c) \/ CallFails(c) \/ Crash(c)
      BY <3>3, <2>3 DEF get_task_lease, CallFails, Crash
    <3> QED
      BY <2>7, <3>1, <3>2, <3>3
  <2>4. CASE Tick
    BY <2>4 DEF Tick
  <2>5. CASE UNCHANGED vars
    BY <2>5 DEF vars
  <2> QED
    BY <2>1, <2>2, <2>4, <2>5, <2>7 DEF Next
<1> QED
  BY <1>1, <1>2, TypeCorrect, PTL DEF Spec

------------------------------------------------------------------------------
(* Takeovers.                                                              *)

\* A transaction that writes over the row of another instance finds it expired.
LEMMA OverwrittenRowExpired ==
  ASSUME TypeOK, CallsAreRecent, NEW c \in Client, NEW t \in Task,
         claim_task_lease(c) \/ renew_task_lease(c),
         leases[t].holder # InstanceOf[c], leases[t].holder # NoInstance,
         leases'[t] # leases[t]
  PROVE  leases[t].expires <= clock
<1>1. /\ call[c].step \in {"claim", "renew"}
      /\ WriteRow(c)
      /\ call[c].step = "renew" => leases[call[c].task].holder = InstanceOf[c]
      /\ call[c].step = "claim" => ~Denied(c)
  BY DEF claim_task_lease, renew_task_lease
<1>2. t = call[c].task
  BY <1>1, WrittenRow DEF CallStep
<1>3. ~task_lease_is_active(leases[t], call[c].now)
  BY <1>1, <1>2 DEF Denied
<1>4. call[c].now <= clock
  BY <1>1 DEF CallsAreRecent, Idle, NoCall
<1> QED
  BY <1>1, <1>2, <1>3, <1>4, InFlight DEF task_lease_is_active, TypeOK, Lease, CallStep

\* A lease passes from one instance to another only behind its expiry.
THEOREM NoEarlyTakeover == Spec => TakeoverOnlyAfterExpiry
<1>1. TypeOK /\ CallsAreRecent /\ [Next]_vars
        => [\A t \in Task : PassesOn(t) => leases[t].expires <= clock]_vars
  <2> SUFFICES ASSUME TypeOK, CallsAreRecent, Next, NEW t \in Task, PassesOn(t)
               PROVE  leases[t].expires <= clock
    OBVIOUS
  <2>1. /\ leases[t].holder # NoInstance
        /\ leases'[t].holder # leases[t].holder
        /\ leases'[t].holder # NoInstance
        /\ leases'[t] # leases[t]
    BY DEF PassesOn
  <2>2. ASSUME NEW c \in Client, NEW s \in Task, release_task_lease(c, s)
        PROVE  FALSE
    BY <2>1, <2>2 DEF release_task_lease, TypeOK, NoLease
  <2>3. PICK c \in Client : claim_task_lease(c) \/ renew_task_lease(c)
    BY <2>1, <2>2 DEF Next, BeginCall, get_task_lease, CallFails, Crash, Tick
  <2>4. leases[t].holder # InstanceOf[c]
    <3>1. WriteRow(c) /\ call[c].step \in CallStep
      BY <2>1, <2>3 DEF claim_task_lease, renew_task_lease, CallStep
    <3>2. t = call[c].task
      BY <2>1, <3>1, WrittenRow
    <3>3. leases'[t].holder = InstanceOf[c]
      BY <3>1, <3>2, WrittenRow
    <3> QED
      BY <2>1, <3>3
  <2> QED
    BY <2>1, <2>3, <2>4, OverwrittenRowExpired
<1> QED
  BY <1>1, TypeCorrect, CallsStayRecent, PTL DEF Spec, TakeoverOnlyAfterExpiry

------------------------------------------------------------------------------
(* The bound on an expiry.                                                 *)

\* No row's expiry is ever more than TTL ahead of the clock.
THEOREM DeadHolderBound == Spec => []DeadHolderWaitsAtMostTTL
<1> USE TTLAssumption DEF DeadHolderWaitsAtMostTTL
<1>1. Init => DeadHolderWaitsAtMostTTL
  <2> SUFFICES ASSUME Init, NEW t \in Task PROVE leases[t].expires <= clock + TTL
    OBVIOUS
  <2>1. leases[t].expires = 0 /\ clock = 0
    BY DEF Init, NoLease
  <2> QED
    BY <2>1
<1>2. TypeOK /\ CallsAreRecent /\ DeadHolderWaitsAtMostTTL /\ [Next]_vars
        => DeadHolderWaitsAtMostTTL'
  <2> SUFFICES ASSUME TypeOK, CallsAreRecent, DeadHolderWaitsAtMostTTL, [Next]_vars
               PROVE  DeadHolderWaitsAtMostTTL'
    OBVIOUS
  <2>1. ASSUME NEW c \in Client, WriteRow(c), call[c].step \in CallStep, UNCHANGED clock
        PROVE  DeadHolderWaitsAtMostTTL'
    <3>1. call[c].now <= clock
      BY <2>1 DEF CallsAreRecent, Idle, NoCall, CallStep
    <3>2. leases'[call[c].task].expires = call[c].now + TTL
      BY <2>1, WrittenRow
    <3>3. \A t \in Task : t # call[c].task => leases'[t] = leases[t]
      BY <2>1, WrittenRow
    <3> QED
      BY <2>1, <3>1, <3>2, <3>3, InFlight DEF TypeOK
  <2>2. ASSUME NEW c \in Client, NEW t \in Task, release_task_lease(c, t)
        PROVE  DeadHolderWaitsAtMostTTL'
    BY <2>2 DEF release_task_lease, TypeOK, Lease, NoLease
  <2>3. ASSUME NEW c \in Client, claim_task_lease(c) \/ renew_task_lease(c)
        PROVE  DeadHolderWaitsAtMostTTL'
    BY <2>1, <2>3 DEF claim_task_lease, renew_task_lease, CallStep
  <2>4. CASE UNCHANGED leases /\ clock' \in {clock, clock + 1}
    BY <2>4 DEF TypeOK, Lease
  <2> QED
    BY <2>2, <2>3, <2>4
       DEF Next, vars, BeginCall, get_task_lease, CallFails, Crash, Tick
<1> QED
  BY <1>1, <1>2, TypeCorrect, CallsStayRecent, PTL DEF Spec

------------------------------------------------------------------------------
(* What a client was told.                                                 *)

\* While a call is in flight, the caller was told nothing beyond what the call
\* is about to write.
ToldBeforeCall ==
    \A c \in Client :
       ~Idle(c) => told[c][call[c].task] <= call[c].now + TTL

ToldBounded == \A c \in Client, t \in Task : told[c][t] <= clock + TTL

\* No client is told of an expiry beyond what any row can have.
LEMMA ToldStaysBounded == Spec => [](ToldBounded /\ ToldBeforeCall)
<1> USE TTLAssumption
<1>1. Init => ToldBounded /\ ToldBeforeCall
  <2> SUFFICES ASSUME Init PROVE ToldBounded /\ ToldBeforeCall
    OBVIOUS
  <2> USE DEF ToldBounded, ToldBeforeCall, Idle
  <2>1. clock = 0 /\ \A c \in Client, t \in Task : told[c][t] = 0
    BY DEF Init
  <2>2. \A c \in Client : call[c] = NoCall
    BY DEF Init
  <2> QED
    BY <2>1, <2>2
<1>2. TypeOK /\ DeadHolderWaitsAtMostTTL /\ ToldBounded /\ ToldBeforeCall /\ [Next]_vars
        => ToldBounded' /\ ToldBeforeCall'
  <2> SUFFICES ASSUME TypeOK, DeadHolderWaitsAtMostTTL, ToldBounded, ToldBeforeCall,
                      [Next]_vars
               PROVE  ToldBounded' /\ ToldBeforeCall'
    OBVIOUS
  <2> USE DEF ToldBounded, ToldBeforeCall, Idle
  <2>1. ASSUME NEW c \in Client, NEW t \in Task, NEW s \in {"claim", "renew"},
               BeginCall(c, t, s)
        PROVE  ToldBounded' /\ ToldBeforeCall'
    BY <2>1 DEF BeginCall, TypeOK
  <2>2. ASSUME NEW c \in Client, Idle(c) \/ Return(c), UNCHANGED clock,
               \A d \in Client : d # c => call'[d] = call[d] /\ told'[d] = told[d],
               Idle(c)', \A t \in Task : told'[c][t] <= clock + TTL
        PROVE  ToldBounded' /\ ToldBeforeCall'
    BY <2>2
  <2>3. ASSUME NEW c \in Client, NEW t \in Task, release_task_lease(c, t)
        PROVE  ToldBounded' /\ ToldBeforeCall'
    <3>1. \A d \in Client : d # c => call'[d] = call[d] /\ told'[d] = told[d]
      BY <2>3 DEF release_task_lease, TypeOK
    <3>2. \A u \in Task : told'[c][u] <= clock + TTL
      BY <2>3 DEF release_task_lease, TypeOK
    <3> QED
      BY <2>2, <2>3, <3>1, <3>2 DEF release_task_lease
  <2>4. ASSUME NEW c \in Client, call[c].step \in CallStep, NEW s \in CallStep,
               ReadRowNext(c, s), UNCHANGED <<clock, told>>
        PROVE  ToldBounded' /\ ToldBeforeCall'
    <3>1. call'[c].now = call[c].now /\ call'[c].task = call[c].task /\ call[c] # NoCall
      BY <2>4, MovedCall
    <3>2. \A d \in Client : d # c => call'[d] = call[d]
      BY <2>4, MovedCall
    <3> QED
      BY <2>4, <3>1, <3>2
  <2>5. ASSUME NEW c \in Client, Return(c), UNCHANGED clock,
               \A d \in Client : d # c => told'[d] = told[d],
               \A t \in Task : told'[c][t] <= clock + TTL
        PROVE  ToldBounded' /\ ToldBeforeCall'
    BY <2>2, <2>5 DEF Return, TypeOK
  <2>6. ASSUME NEW c \in Client, claim_task_lease(c) PROVE ToldBounded' /\ ToldBeforeCall'
    BY <2>6, <2>4, <2>5 DEF claim_task_lease, CallStep
  <2>7. ASSUME NEW c \in Client, renew_task_lease(c) PROVE ToldBounded' /\ ToldBeforeCall'
    <3>1. CASE told' = [told EXCEPT ![c][call[c].task] = 0] /\ Return(c)
      <4>1. \A d \in Client : d # c => told'[d] = told[d]
        BY <3>1 DEF TypeOK
      <4>2. \A t \in Task : told'[c][t] <= clock + TTL
        BY <3>1 DEF TypeOK
      <4> QED
        BY <2>5, <2>7, <3>1, <4>1, <4>2 DEF renew_task_lease
    <3> QED
      BY <2>4, <2>7, <3>1 DEF renew_task_lease, CallStep
  <2>8. ASSUME NEW c \in Client, get_task_lease(c) PROVE ToldBounded' /\ ToldBeforeCall'
    <3>1. \A d \in Client : d # c => told'[d] = told[d]
      BY <2>8 DEF get_task_lease, TypeOK
    <3>2. \A t \in Task : told'[c][t] <= clock + TTL
      BY <2>8, InFlight DEF get_task_lease, TypeOK, CallStep, DeadHolderWaitsAtMostTTL
    <3> QED
      BY <2>5, <2>8, <3>1, <3>2 DEF get_task_lease
  <2>9. ASSUME NEW c \in Client, CallFails(c) \/ Crash(c)
        PROVE  ToldBounded' /\ ToldBeforeCall'
    <3>1. \A d \in Client : d # c => told'[d] = told[d]
      BY <2>9 DEF CallFails, Crash, TypeOK
    <3>2. \A t \in Task : told'[c][t] <= clock + TTL
      BY <2>9 DEF CallFails, Crash, TypeOK
    <3> QED
      BY <2>5, <2>9, <3>1, <3>2 DEF CallFails, Crash
  <2>10. CASE Tick
    BY <2>10 DEF Tick, TypeOK
  <2>11. CASE UNCHANGED vars
    BY <2>11 DEF vars
  <2> QED
    BY <2>1, <2>3, <2>6, <2>7, <2>8, <2>9, <2>10, <2>11 DEF Next
<1> QED
  BY <1>1, <1>2, TypeCorrect, DeadHolderBound, PTL DEF Spec

\* ToldHolderHolds for one client, strengthened by the row between the commit
\* and the read: it is still the one the client wrote.
Stands(c) ==
    /\ call[c].step \in {"claim_row", "renew_row"} =>
         /\ leases[call[c].task].holder = InstanceOf[c]
         /\ leases[call[c].task].expires = call[c].now + TTL
    /\ \A t \in Task :
         told[c][t] > clock =>
            leases[t].holder = InstanceOf[c] /\ leases[t].expires >= told[c][t]

\* No other client's step touches a live row of c.
LEMMA LiveRowKept ==
  ASSUME TypeOK, CallsAreRecent,
         NEW c \in Client, Alone(c), NEW t \in Task,
         leases[t].holder = InstanceOf[c], leases[t].expires > clock,
         NEW d \in Client, d # c,
         \/ claim_task_lease(d) \/ renew_task_lease(d)
         \/ \E u \in Task : release_task_lease(d, u)
  PROVE  leases'[t] = leases[t]
<1>1. InstanceOf[c] # InstanceOf[d] /\ InstanceOf[c] # NoInstance
  BY InstanceAssumption DEF Alone
<1>2. ASSUME claim_task_lease(d) \/ renew_task_lease(d), leases'[t] # leases[t]
      PROVE  FALSE
  <2>1. leases[t].expires <= clock
    BY <1>1, <1>2, OverwrittenRowExpired
  <2> QED
    BY <2>1 DEF TypeOK, Lease
<1>3. ASSUME NEW u \in Task, release_task_lease(d, u) PROVE leases'[t] = leases[t]
  BY <1>1, <1>3 DEF release_task_lease, TypeOK
<1> QED
  BY <1>2, <1>3

\* A step of another client keeps Stands(c).
LEMMA OthersKeepStanding ==
  ASSUME TypeOK, CallsAreRecent,
         NEW c \in Client, Alone(c), Stands(c), NEW d \in Client, d # c,
         call'[c] = call[c], told'[c] = told[c], clock' = clock,
         \/ UNCHANGED leases
         \/ claim_task_lease(d) \/ renew_task_lease(d)
         \/ \E u \in Task : release_task_lease(d, u)
  PROVE  Stands(c)'
<1>1. ASSUME call[c].step \in {"claim_row", "renew_row"}
      PROVE  leases'[call[c].task] = leases[call[c].task]
  <2>1. call[c].now \in Nat /\ call[c].task \in Task
    BY <1>1, InFlight DEF CallStep
  <2>2. clock <= call[c].now + CallTime
    BY <1>1 DEF CallsAreRecent, Idle, NoCall
  <2>3. leases[call[c].task].expires = call[c].now + TTL
    BY <1>1 DEF Stands
  <2>4. leases[call[c].task].expires > clock
    BY <2>1, <2>2, <2>3, TTLAssumption, ClockAssumption DEF TypeOK
  <2> QED
    BY <1>1, <2>1, <2>4, LiveRowKept DEF Stands
<1>2. ASSUME NEW t \in Task, told[c][t] > clock PROVE leases'[t] = leases[t]
  <2>1. leases[t].expires > clock
    BY <1>2 DEF Stands, TypeOK, Lease
  <2> QED
    BY <1>2, <2>1, LiveRowKept DEF Stands
<1> QED
  BY <1>1, <1>2 DEF Stands

\* A step of c itself keeps Stands(c).
LEMMA OwnStepKeepsStanding ==
  ASSUME TypeOK, CallsAreRecent, DeadHolderWaitsAtMostTTL, ToldBeforeCall,
         NEW c \in Client, Stands(c),
         \/ \E t \in Task : \/ BeginCall(c, t, "claim") \/ BeginCall(c, t, "renew")
                            \/ release_task_lease(c, t)
         \/ claim_task_lease(c) \/ renew_task_lease(c) \/ get_task_lease(c)
         \/ CallFails(c) \/ Crash(c)
  PROVE  Stands(c)'
<1> DEFINE k == call[c].task
<1>1. ASSUME Idle(c)', UNCHANGED clock,
             \A t \in Task : told'[c][t] > clock =>
                 leases'[t].holder = InstanceOf[c] /\ leases'[t].expires >= told'[c][t]
      PROVE  Stands(c)'
  BY <1>1 DEF Stands, Idle, NoCall
<1>2. ASSUME call[c].step \in CallStep, WriteRow(c), UNCHANGED <<clock, told>>,
             NEW s \in CallStep, ReadRowNext(c, s)
      PROVE  Stands(c)'
  <2>1. k \in Task /\ call'[c].task = k /\ call'[c].now = call[c].now /\ call[c] # NoCall
    BY <1>2, InFlight, MovedCall
  <2>2. leases'[k].holder = InstanceOf[c] /\ leases'[k].expires = call[c].now + TTL
    BY <1>2, WrittenRow
  <2>3. told[c][k] <= call[c].now + TTL
    BY <2>1 DEF ToldBeforeCall, Idle
  <2>4. \A t \in Task : t # k => leases'[t] = leases[t]
    BY <1>2, WrittenRow
  <2>5. leases'[k].expires >= told'[c][k]
    BY <1>2, <2>1, <2>2, <2>3, InFlight, TTLAssumption DEF TypeOK
  <2> QED
    BY <1>2, <2>1, <2>2, <2>4, <2>5 DEF Stands
<1>3. ASSUME NEW t \in Task, BeginCall(c, t, "claim") \/ BeginCall(c, t, "renew")
      PROVE  Stands(c)'
  <2>1. call'[c].step \in {"claim", "renew"}
    BY <1>3 DEF BeginCall, TypeOK
  <2> QED
    BY <1>3, <2>1 DEF BeginCall, Stands
<1>4. ASSUME NEW t \in Task, release_task_lease(c, t) PROVE Stands(c)'
  <2>1. \A u \in Task : IF u = t THEN told'[c][u] = 0
                                  ELSE leases'[u] = leases[u] /\ told'[c][u] = told[c][u]
    BY <1>4 DEF release_task_lease, TypeOK
  <2>2. Idle(c)' /\ UNCHANGED clock
    BY <1>4 DEF release_task_lease, Idle
  <2>3. ASSUME NEW u \in Task, told'[c][u] > clock
        PROVE  leases'[u].holder = InstanceOf[c] /\ leases'[u].expires >= told'[c][u]
    <3>1. clock \in Nat
      BY DEF TypeOK
    <3>2. u # t
      BY <2>1, <2>3, <3>1
    <3>3. leases'[u] = leases[u] /\ told'[c][u] = told[c][u]
      BY <2>1, <3>2
    <3>4. told[c][u] > clock =>
             leases[u].holder = InstanceOf[c] /\ leases[u].expires >= told[c][u]
      BY DEF Stands
    <3> QED
      BY <2>3, <3>3, <3>4
  <2> QED
    BY <1>1, <2>2, <2>3
<1>5. ASSUME Return(c), UNCHANGED <<clock, leases>>,
             \A t \in Task : told'[c][t] \in {0, told[c][t]}
      PROVE  Stands(c)'
  <2>1. Idle(c)'
    BY <1>5 DEF Return, Idle, TypeOK
  <2> QED
    BY <1>1, <1>5, <2>1 DEF Stands, TypeOK
<1>6. ASSUME claim_task_lease(c) PROVE Stands(c)'
  BY <1>2, <1>5, <1>6 DEF claim_task_lease, CallStep
<1>7. ASSUME renew_task_lease(c) PROVE Stands(c)'
  <2>1. CASE WriteRow(c) /\ ReadRowNext(c, "renew_row") /\ UNCHANGED told
    BY <1>2, <1>7, <2>1 DEF renew_task_lease, CallStep
  <2>2. CASE Return(c) /\ UNCHANGED leases /\ told' = [told EXCEPT ![c][k] = 0]
    BY <1>5, <1>7, <2>2 DEF renew_task_lease, TypeOK
  <2> QED
    BY <1>7, <2>1, <2>2 DEF renew_task_lease
<1>8. ASSUME get_task_lease(c) PROVE Stands(c)'
  <2>1. k \in Task /\ leases[k].holder = InstanceOf[c]
    BY <1>8, InFlight DEF get_task_lease, Stands, CallStep
  <2>2. \A t \in Task : told'[c][t] = IF t = k THEN leases[k].expires ELSE told[c][t]
    BY <1>8, <2>1 DEF get_task_lease, TypeOK
  <2>3. Idle(c)' /\ UNCHANGED <<clock, leases>>
    BY <1>8 DEF get_task_lease, Return, Idle, TypeOK
  <2> QED
    BY <1>1, <2>1, <2>2, <2>3 DEF Stands, TypeOK, Lease
<1>9. ASSUME CallFails(c) \/ Crash(c) PROVE Stands(c)'
  BY <1>5, <1>9 DEF CallFails, Crash, TypeOK
<1> QED
  BY <1>3, <1>4, <1>6, <1>7, <1>8, <1>9

\* A client alone on its instance holds what it was told, until it expires.
THEOREM ToldIsTrue == Spec => []ToldHolderHolds
<1> DEFINE AllStand == \A c \in Client : Alone(c) => Stands(c)
<1>1. Init => AllStand
  <2> SUFFICES ASSUME Init, NEW c \in Client PROVE Stands(c)
    OBVIOUS
  <2>1. call[c].step = "idle" /\ clock = 0 /\ \A t \in Task : told[c][t] = 0
    BY DEF Init, NoCall
  <2> QED
    BY <2>1 DEF Stands
<1>2. TypeOK /\ CallsAreRecent /\ DeadHolderWaitsAtMostTTL /\ ToldBeforeCall /\ AllStand
        /\ [Next]_vars => AllStand'
  <2> SUFFICES ASSUME TypeOK, CallsAreRecent, DeadHolderWaitsAtMostTTL, ToldBeforeCall,
                      AllStand, [Next]_vars, NEW c \in Client, Alone(c)
               PROVE  Stands(c)'
    BY DEF Alone
  <2>1. Stands(c)
    OBVIOUS
  <2>2. CASE Tick
    BY <2>1, <2>2 DEF Tick, Stands, TypeOK
  <2>3. CASE UNCHANGED vars
    BY <2>1, <2>3 DEF vars, Stands
  <2>4. ASSUME NEW d \in Client,
               \/ \E t \in Task : \/ BeginCall(d, t, "claim") \/ BeginCall(d, t, "renew")
                                  \/ release_task_lease(d, t)
               \/ claim_task_lease(d) \/ renew_task_lease(d) \/ get_task_lease(d)
               \/ CallFails(d) \/ Crash(d)
        PROVE  Stands(c)'
    <3>1. CASE d = c
      BY <2>1, <2>4, <3>1, OwnStepKeepsStanding
    <3>2. CASE d # c
      <4>1. call'[c] = call[c] /\ told'[c] = told[c] /\ clock' = clock
        BY <2>4, <3>2
           DEF BeginCall, release_task_lease, claim_task_lease, renew_task_lease,
               get_task_lease, CallFails, Crash, Return, ReadRowNext, TypeOK
      <4>2. \/ UNCHANGED leases
            \/ claim_task_lease(d) \/ renew_task_lease(d)
            \/ \E t \in Task : release_task_lease(d, t)
        BY <2>4 DEF BeginCall, get_task_lease, CallFails, Crash
      <4> QED
        BY <2>1, <3>2, <4>1, <4>2, OthersKeepStanding
    <3> QED
      BY <3>1, <3>2
  <2> QED
    BY <2>2, <2>3, <2>4 DEF Next
<1>3. AllStand => ToldHolderHolds
  BY DEF Stands, ToldHolderHolds
<1> QED
  BY <1>1, <1>2, <1>3, TypeCorrect, CallsStayRecent, DeadHolderBound, ToldStaysBounded, PTL
     DEF Spec

\* No two such clients are ever both inside the time claim_task_lease or
\* renew_task_lease told them.
NeverTwoTold ==
    \A c, d \in Client, t \in Task :
       Alone(c) /\ Alone(d) /\ told[c][t] > clock /\ told[d][t] > clock => c = d

THEOREM TwoNeverTold == Spec => []NeverTwoTold
<1>1. ToldHolderHolds => NeverTwoTold
  BY InstanceAssumption DEF ToldHolderHolds, NeverTwoTold, Alone
<1> QED
  BY <1>1, ToldIsTrue, PTL

------------------------------------------------------------------------------
(* Refinement.                                                             *)

\* The table, with its delayed clocks and its rereads, is an ExclusiveLease.
THEOREM TableIsExclusiveLease == Spec => ImplementsExclusiveLease
<1>1. Init => Abstract!Init
  BY DEF Init, Abstract!Init, NoLease
<1>2. TypeOK /\ TypeOK' /\ CallsAreRecent /\ DeadHolderWaitsAtMostTTL' /\ [Next]_vars
        => [Abstract!Next]_Abstract!vars
  <2> SUFFICES ASSUME TypeOK, TypeOK', CallsAreRecent, DeadHolderWaitsAtMostTTL', [Next]_vars
               PROVE  [Abstract!Next]_Abstract!vars
    OBVIOUS
  <2>1. ASSUME UNCHANGED <<clock, leases>> PROVE UNCHANGED Abstract!vars
    BY <2>1 DEF Abstract!vars
  <2>2. ASSUME NEW c \in Client, NEW t \in Task, release_task_lease(c, t)
        PROVE  [Abstract!Next]_Abstract!vars
    <3>1. CASE leases[t].holder = InstanceOf[c]
      <4>1. Abstract!Free(t)
        BY <2>2, <3>1 DEF release_task_lease, Abstract!Free, TypeOK, NoLease
      <4> QED
        BY <4>1 DEF Abstract!Next
    <3>2. CASE leases[t].holder # InstanceOf[c]
      BY <2>1, <2>2, <3>2 DEF release_task_lease, TypeOK
    <3> QED
      BY <3>1, <3>2
  <2>3. ASSUME NEW c \in Client, claim_task_lease(c) \/ renew_task_lease(c),
               leases' # leases
        PROVE  Abstract!Next
    <3> DEFINE t == call[c].task
    <3>1. WriteRow(c) /\ call[c].step \in CallStep /\ UNCHANGED clock
      BY <2>3 DEF claim_task_lease, renew_task_lease, CallStep
    <3>2. t \in Task /\ InstanceOf[c] \in Instance
      BY <3>1, InFlight, InstanceAssumption
    <3>3. /\ leases'[t].holder = InstanceOf[c]
          /\ \A u \in Task : u # t => leases'[u] = leases[u]
      BY <3>1, WrittenRow
    <3>4. leases[t].holder \in {NoInstance, InstanceOf[c]} \/ leases[t].expires <= clock
      <4>1. CASE leases'[t] = leases[t]
        BY <3>3, <4>1
      <4>2. CASE leases'[t] # leases[t]
        BY <2>3, <3>2, <4>2, OverwrittenRowExpired
      <4> QED
        BY <4>1, <4>2
    <3>5. leases'[t].expires \in 0..(clock + TTL)
      BY <3>1, <3>2, TTLAssumption DEF DeadHolderWaitsAtMostTTL, TypeOK, Lease
    <3>6. [u \in Task |-> leases'[u].holder]
            = [[u \in Task |-> leases[u].holder] EXCEPT ![t] = InstanceOf[c]]
      BY <3>2, <3>3
    <3>7. [u \in Task |-> leases'[u].expires]
            = [[u \in Task |-> leases[u].expires] EXCEPT ![t] = leases'[t].expires]
      BY <3>2, <3>3
    <3>8. Abstract!Acquire(t, InstanceOf[c])
      BY <3>1, <3>2, <3>4, <3>5, <3>6, <3>7 DEF Abstract!Acquire
    <3> QED
      BY <3>2, <3>8 DEF Abstract!Next
  <2>4. CASE Tick
    BY <2>4 DEF Tick, Abstract!Next, Abstract!Pass
  <2> QED
    BY <2>1, <2>2, <2>3, <2>4
       DEF Next, vars, BeginCall, get_task_lease, CallFails, Crash, claim_task_lease,
           renew_task_lease
<1> QED
  BY <1>1, <1>2, TypeCorrect, CallsStayRecent, DeadHolderBound, PTL
     DEF Spec, ImplementsExclusiveLease, Abstract!Spec

------------------------------------------------------------------------------
(* DeliverySweep.  Since when another instance has the lease, a job can    *)
(* tell from its guard (Since): it took the lease behind the last grant,   *)
(* which a queued job counts from, or behind the start of its stages,      *)
(* less the time it was queued.  A job that is alone in its control plane  *)
(* loses the lease only when it runs out, TTL after its last renewal.      *)

Times ==
    /\ TTL \in Nat \ {0} /\ Heartbeat \in Nat /\ MaxQueue \in Nat
    /\ Owner \in [Job -> Instance] /\ NoInstance \notin Instance

Believes(j) == pc[j] = "queued" \/ (pc[j] = "stage" /\ ~guard[j].lost)

\* The longest time since a job was last granted the lease, as far as its guard tells.
Since(j) == IF pc[j] = "queued" THEN guard[j].beat ELSE guard[j].quiet + MaxQueue

Taken(j) == lease.holder # NoInstance /\ ~S!Own(j)

SweepType ==
    /\ lease \in [holder : Instance \cup {NoInstance}, left : Nat, age : Nat]
    /\ pc \in [Job -> {"idle", "sweep", "queued", "stage", "failing", "release"}]
    /\ guard \in [Job -> [beat : Nat, quiet : Nat, lost : BOOLEAN]]

\* How far the guard of a job that believes in the lease has run.
Running(j) ==
    /\ pc[j] = "queued" => guard[j].beat <= MaxQueue
    /\ pc[j] = "stage" /\ ~guard[j].lost => guard[j].beat <= Heartbeat /\ guard[j].quiet < TTL + guard[j].beat

Late(j) ==
    Believes(j) =>
      /\ Taken(j) => lease.age <= Since(j)
      /\ S!Alone(j) /\ S!Own(j) => TTL <= lease.left + Since(j)
      /\ S!Alone(j) /\ ~S!Own(j) => TTL <= Since(j)
      /\ S!Alone(j) /\ Taken(j) => lease.age + TTL <= Since(j)

SInv == SweepType /\ \A j \in Job : Running(j) /\ Late(j)

LEMMA SweepInit ==
    ASSUME Times, S!Init
    PROVE  SInv
  BY DEF Times, S!Init, S!NoLease, S!NoGuard, SInv, SweepType, Running, Late, Believes

\* Neither the lease nor the guard of a believing job changes, and no job begins to believe.
LEMMA QuietSweep ==
    ASSUME Times, SInv, UNCHANGED lease, SweepType',
           \A j \in Job : Believes(j)' => pc'[j] = pc[j] /\ guard'[j] = guard[j]
    PROVE  SInv'
  <1> SUFFICES ASSUME NEW j \in Job PROVE Running(j)' /\ Late(j)'
    BY DEF SInv
  <1>1. CASE Believes(j)'
    <2>1. Believes(j) /\ Since(j)' = Since(j) /\ (Taken(j)' <=> Taken(j)) /\ (S!Own(j)' <=> S!Own(j))
      BY <1>1 DEF Believes, Since, Taken, S!Own
    <2> QED
      BY <1>1, <2>1 DEF SInv, Running, Late
  <1>2. CASE ~Believes(j)'
    BY <1>2 DEF Running, Late, Believes
  <1> QED
    BY <1>1, <1>2

\* The lease goes to a job, or to nobody of its control plane any more: what the others
\* believe stays in time.
LEMMA GrantElsewhere ==
    ASSUME Times, SInv, NEW j \in Job, NEW k \in Job \ {j}, lease.left = 0 \/ S!Own(j),
           lease' = [holder |-> Owner[j], left |-> TTL, age |-> IF S!Own(j) THEN lease.age ELSE 0],
           pc'[k] = pc[k], guard'[k] = guard[k]
    PROVE  Running(k)' /\ Late(k)'
  <1> USE DEF Times
  <1> DEFINE a == IF S!Own(j) THEN lease.age ELSE 0
  <1>0. SweepType /\ Running(k) /\ Late(k) /\ Owner[j] \in Instance /\ Owner[k] \in Instance
    BY DEF SInv
  <1>1. a \in Nat
    BY <1>0 DEF SweepType
  <1>2. Running(k)' /\ (Believes(k)' <=> Believes(k)) /\ Since(k)' = Since(k)
    BY <1>0 DEF Running, Believes, Since
  <1>3. CASE Owner[k] = Owner[j]
    <2>1. ~S!Alone(k)
      BY <1>3 DEF S!Alone
    <2>2. ~Taken(k)'
      BY <1>3 DEF Taken, S!Own
    <2> QED
      BY <1>2, <2>1, <2>2 DEF Late, S!Alone
  <1>4. CASE Owner[k] # Owner[j]
    <2>1. Taken(k)' /\ ~S!Own(k)'
      BY <1>0, <1>4 DEF Taken, S!Own
    <2>2. lease'.age = a
      OBVIOUS
    <2>3. Since(k) \in Nat
      BY <1>0 DEF SweepType, Since
    <2>4. CASE S!Own(j)
      <3>1. Taken(k) /\ ~S!Own(k) /\ a = lease.age
        BY <1>0, <1>4, <2>4 DEF Taken, S!Own
      <3> QED
        BY <1>0, <1>2, <2>1, <2>2, <3>1 DEF Late
    <2>5. CASE ~S!Own(j)
      <3>1. a = 0 /\ lease.left = 0
        BY <2>5
      <3>2. Believes(k) /\ S!Alone(k) => TTL <= Since(k)
        BY <1>0, <2>3, <3>1 DEF Late
      <3> QED
        BY <1>0, <1>2, <2>1, <2>2, <2>3, <3>1, <3>2 DEF Late
    <2> QED
      BY <2>4, <2>5
  <1> QED
    BY <1>3, <1>4

LEMMA SweepNext ==
    ASSUME Times, SInv, [S!Next]_(S!vars)
    PROVE  SInv'
  <1> USE DEF Times
  <1>0. SweepType /\ \A j \in Job : Running(j) /\ Late(j) /\ Owner[j] \in Instance
    BY DEF SInv
  <1>1. ASSUME NEW j \in Job, S!BeginSweep(j) \/ S!LeaseLost(j) \/ S!Handler(j) PROVE SInv'
    <2>1. UNCHANGED <<lease, guard>> /\ \E l \in {"sweep", "failing", "release"} : pc' = [pc EXCEPT ![j] = l]
      BY <1>1 DEF S!BeginSweep, S!LeaseLost, S!Handler, S!Goto
    <2> QED
      BY <1>0, <2>1, QuietSweep DEF SweepType, Believes
  <1>2. ASSUME NEW j \in Job, S!StageEnds(j) PROVE SInv'
    <2>1. UNCHANGED <<lease, guard>> /\ pc[j] = "stage" /\ \E l \in {"stage", "release"} : pc' = [pc EXCEPT ![j] = l]
      BY <1>2 DEF S!StageEnds, S!Goto
    <2> QED
      BY <1>0, <2>1, QuietSweep DEF SweepType, Believes
  <1>3. ASSUME NEW i \in Instance, S!Crash(i) PROVE SInv'
    <2>1. /\ lease' = lease
          /\ \A j \in Job : IF Owner[j] = i THEN pc'[j] = "idle" ELSE pc'[j] = pc[j] /\ guard'[j] = guard[j]
      BY <1>3 DEF S!Crash
    <2>2. SweepType'
      BY <1>0, <1>3 DEF SweepType, S!Crash, S!NoGuard
    <2> QED
      BY <2>1, <2>2, QuietSweep DEF Believes
  <1>4. ASSUME NEW j \in Job, S!ClaimLease(j) PROVE SInv'
    <2>1. CASE pc' = [pc EXCEPT ![j] = "idle"] /\ UNCHANGED <<lease, guard>>
      BY <1>0, <2>1, QuietSweep DEF SweepType, Believes
    <2>2. CASE (lease.left = 0 \/ S!Own(j)) /\ S!Grant(j)
      <3> DEFINE a == IF S!Own(j) THEN lease.age ELSE 0
      <3>1. a \in Nat
        BY <1>0 DEF SweepType
      <3>2. /\ lease' = [holder |-> Owner[j], left |-> TTL, age |-> a]
            /\ guard' = [guard EXCEPT ![j] = [beat |-> 0, quiet |-> 0, lost |-> FALSE]]
            /\ pc' = [pc EXCEPT ![j] = "queued"]
        BY <2>2 DEF S!Grant, S!Goto, S!NoGuard
      <3>3. SweepType'
        BY <1>0, <3>1, <3>2 DEF SweepType
      <3>4. Running(j)' /\ Late(j)'
        BY <1>0, <3>1, <3>2 DEF SweepType, Running, Late, Taken, Since, S!Own, Believes
      <3>5. ASSUME NEW k \in Job \ {j} PROVE Running(k)' /\ Late(k)'
        <4>1. pc'[k] = pc[k] /\ guard'[k] = guard[k]
          BY <1>0, <3>2 DEF SweepType
        <4> QED
          BY <2>2, <3>2, <4>1, GrantElsewhere
      <3> QED
        BY <3>3, <3>4, <3>5 DEF SInv
    <2> QED
      BY <1>4, <2>1, <2>2 DEF S!ClaimLease, S!Granted, S!EndSweep, S!Goto
  <1>5. ASSUME NEW j \in Job, S!Execute(j) PROVE SInv'
    <2>1. /\ lease' = lease /\ pc[j] = "queued"
          /\ guard' = [guard EXCEPT ![j] = [beat |-> 0, quiet |-> 0, lost |-> FALSE]]
          /\ pc' = [pc EXCEPT ![j] = "stage"] \/ pc' = [pc EXCEPT ![j] = "release"]
      BY <1>5 DEF S!Execute, S!Goto, S!NoGuard
    <2>2. SweepType'
      BY <1>0, <2>1 DEF SweepType
    <2>3. ASSUME NEW k \in Job \ {j} PROVE Running(k)' /\ Late(k)'
      <3>1. pc'[k] = pc[k] /\ guard'[k] = guard[k]
        BY <1>0, <2>1 DEF SweepType
      <3> QED
        BY <1>0, <2>1, <3>1 DEF Running, Late, Believes, Since, Taken, S!Own
    <2>4. Running(j)'
      BY <1>0, <2>1 DEF SweepType, Running
    <2>5. Late(j)'
      <3>1. Believes(j) /\ Since(j) <= MaxQueue
        BY <1>0, <2>1 DEF Believes, Since, Running
      <3>2. Believes(j)' => Since(j)' = MaxQueue
        BY <1>0, <2>1 DEF Believes, Since, SweepType
      <3>3. (Taken(j)' <=> Taken(j)) /\ (S!Own(j)' <=> S!Own(j))
        BY <2>1 DEF Taken, S!Own
      <3>4. lease.left \in Nat /\ lease.age \in Nat /\ Since(j) \in Nat
        BY <1>0 DEF SweepType, Since
      <3> QED
        BY <1>0, <2>1, <3>1, <3>2, <3>3, <3>4 DEF Late
    <2> QED
      BY <2>2, <2>3, <2>4, <2>5 DEF SInv
  <1>6. ASSUME NEW j \in Job, S!ReleaseLease(j) PROVE SInv'
    <2>1. /\ pc' = [pc EXCEPT ![j] = "idle"]
          /\ guard' = [guard EXCEPT ![j] = [beat |-> 0, quiet |-> 0, lost |-> FALSE]]
          /\ lease' = (IF S!Own(j) THEN [holder |-> NoInstance, left |-> 0, age |-> 0] ELSE lease)
      BY <1>6 DEF S!ReleaseLease, S!EndSweep, S!Goto, S!NoGuard, S!NoLease
    <2>2. SweepType'
      BY <1>0, <2>1 DEF SweepType
    <2>3. CASE ~S!Own(j)
      BY <1>0, <2>1, <2>2, <2>3, QuietSweep DEF SweepType, Believes
    <2>4. CASE S!Own(j)
      <3>1. lease'.holder = NoInstance
        BY <2>1, <2>4
      <3>2. ASSUME NEW k \in Job PROVE Running(k)' /\ Late(k)'
        <4>1. CASE k = j
          BY <1>0, <2>1, <4>1 DEF SweepType, Running, Late, Believes
        <4>2. CASE k # j
          <5>1. pc'[k] = pc[k] /\ guard'[k] = guard[k]
            BY <1>0, <2>1, <4>2 DEF SweepType
          <5>2. ~Taken(k)' /\ ~S!Own(k)'
            BY <1>0, <3>1 DEF Taken, S!Own
          <5>3. S!Alone(k) => ~S!Own(k)
            BY <1>0, <2>4, <4>2 DEF S!Alone, S!Own
          <5>4. Running(k)' /\ (Believes(k)' <=> Believes(k)) /\ Since(k)' = Since(k)
            BY <1>0, <5>1 DEF Running, Believes, Since
          <5> QED
            BY <1>0, <5>2, <5>3, <5>4 DEF Late
        <4> QED
          BY <4>1, <4>2
      <3> QED
        BY <2>2, <3>2 DEF SInv
    <2> QED
      BY <2>3, <2>4
  <1>7. ASSUME NEW j \in Job, S!Beat(j) PROVE SInv'
    <2>0. pc' = pc /\ S!Beating(j)
      BY <1>7 DEF S!Beat
    <2>1. CASE S!Own(j) /\ lease' = [lease EXCEPT !.left = TTL]
                 /\ guard' = [guard EXCEPT ![j] = [guard[j] EXCEPT !.beat = 0, !.quiet = 0]]
      <3>1. SweepType'
        BY <1>0, <2>0, <2>1 DEF SweepType
      <3>2. lease'.holder = lease.holder /\ lease'.age = lease.age /\ lease'.left = TTL
        BY <1>0, <2>1 DEF SweepType
      <3>3. ASSUME NEW k \in Job PROVE Running(k)' /\ Late(k)'
        <4>1. CASE k = j
          <5>1. guard'[j].beat = 0 /\ guard'[j].quiet = 0 /\ guard'[j].lost = guard[j].lost /\ pc'[j] # "queued"
            BY <1>0, <2>0, <2>1 DEF SweepType, S!Beating
          <5>2. S!Own(j)' /\ ~Taken(j)'
            BY <2>1, <3>2 DEF Taken, S!Own
          <5> QED
            BY <2>0, <3>2, <4>1, <5>1, <5>2 DEF Running, Late, Since
        <4>2. CASE k # j
          <5>1. pc'[k] = pc[k] /\ guard'[k] = guard[k]
            BY <1>0, <2>0, <2>1, <4>2 DEF SweepType
          <5>2. Running(k)' /\ (Believes(k)' <=> Believes(k)) /\ Since(k)' = Since(k) /\ Since(k) \in Nat
            BY <1>0, <5>1 DEF Running, Believes, Since, SweepType
          <5>3. (Taken(k)' <=> Taken(k)) /\ (S!Own(k)' <=> S!Own(k))
            BY <3>2 DEF Taken, S!Own
          <5> QED
            BY <1>0, <3>2, <5>2, <5>3 DEF Late
        <4> QED
          BY <4>1, <4>2
      <3> QED
        BY <3>1, <3>3 DEF SInv
    <2>2. CASE lease' = lease /\ guard' = [guard EXCEPT ![j] = [guard[j] EXCEPT !.beat = 0, !.lost = TRUE]]
      <3>1. SweepType' /\ guard'[j].lost /\ \A k \in Job \ {j} : guard'[k] = guard[k]
        BY <1>0, <2>0, <2>2 DEF SweepType
      <3>2. ~Believes(j)'
        BY <2>0, <3>1 DEF Believes, S!Beating
      <3> QED
        BY <2>0, <2>2, <3>1, <3>2, QuietSweep
    <2> QED
      BY <1>7, <2>1, <2>2 DEF S!Beat
  <1>8. ASSUME NEW j \in Job, S!BeatFails(j) PROVE SInv'
    <2> DEFINE b == guard[j].quiet >= TTL
               g == [guard[j] EXCEPT !.beat = 0, !.lost = b]
    <2>0. /\ pc' = pc /\ lease' = lease /\ guard' = [guard EXCEPT ![j].beat = 0, ![j].lost = b]
          /\ b \in BOOLEAN /\ (~b => ~(guard[j].quiet >= TTL))
      BY <1>8 DEF S!BeatFails
    <2> HIDE DEF b
    <2>1. pc' = pc /\ lease' = lease /\ guard' = [guard EXCEPT ![j] = g] /\ b \in BOOLEAN
      BY <2>0
    <2>2. /\ SweepType' /\ \A k \in Job \ {j} : guard'[k] = guard[k]
          /\ guard'[j].beat = 0 /\ guard'[j].quiet = guard[j].quiet /\ guard'[j].lost = b
      BY <1>0, <2>1 DEF SweepType
    <2>3. pc[j] # "queued" /\ ~guard[j].lost
      BY <1>8 DEF S!BeatFails, S!Beating
    <2>4. ASSUME NEW k \in Job PROVE Running(k)' /\ Late(k)'
      <3>1. (Taken(k)' <=> Taken(k)) /\ (S!Own(k)' <=> S!Own(k))
        BY <2>1 DEF Taken, S!Own
      <3>2. (Believes(k)' => Believes(k)) /\ (Since(k)' = Since(k))
        BY <1>0, <2>1, <2>2, <2>3 DEF Believes, Since
      <3>3. Running(k)'
        <4>1. CASE k = j
          <5>1. guard[j].quiet \in Nat /\ guard[j].beat \in Nat
            BY <1>0 DEF SweepType
          <5>2. ~b => guard[j].quiet < TTL
            BY <2>0, <5>1
          <5> QED
            BY <2>1, <2>2, <2>3, <4>1, <5>1, <5>2 DEF Running
        <4>2. CASE k # j
          BY <1>0, <2>1, <2>2, <4>2 DEF Running
        <4> QED
          BY <4>1, <4>2
      <3> QED
        BY <1>0, <2>1, <3>1, <3>2, <3>3 DEF Late
    <2> QED
      BY <2>2, <2>4 DEF SInv
  <1>9. CASE S!Tick
    <2> DEFINE rest == IF lease.left > 0 THEN lease.left - 1 ELSE 0
               older == S!Older(lease.age, S!MaxAge)
    <2>1. rest \in Nat /\ lease.left <= rest + 1 /\ older \in Nat /\ older <= lease.age + 1
      BY <1>0 DEF SweepType, S!Older
    <2>2. lease' = (IF lease.holder = NoInstance THEN lease ELSE [lease EXCEPT !.left = rest, !.age = older])
      BY <1>9 DEF S!Tick
    <2> HIDE DEF rest, older
    <2>3. /\ lease'.holder = lease.holder
          /\ lease.holder # NoInstance => lease'.left = rest /\ lease'.age = older
          /\ lease' \in [holder : Instance \cup {NoInstance}, left : Nat, age : Nat]
      BY <1>0, <2>1, <2>2 DEF SweepType
    <2>4. ASSUME NEW j \in Job
          PROVE  /\ S!Beating(j) \/ pc[j] = "queued" =>
                      guard'[j] = [guard[j] EXCEPT !.beat = @ + 1, !.quiet = @ + 1]
                 /\ ~(S!Beating(j) \/ pc[j] = "queued") => guard'[j] = guard[j]
                 /\ guard'[j] \in [beat : Nat, quiet : Nat, lost : BOOLEAN]
      <3> DEFINE more == [guard[j] EXCEPT !.beat = @ + 1, !.quiet = @ + 1]
      <3>1. guard'[j] = IF S!Beating(j) \/ pc[j] = "queued" THEN more ELSE guard[j]
        BY <1>9 DEF S!Tick
      <3>2. guard[j] \in [beat : Nat, quiet : Nat, lost : BOOLEAN]
        BY <1>0 DEF SweepType
      <3>3. more \in [beat : Nat, quiet : Nat, lost : BOOLEAN]
        <4> DEFINE b == guard[j].beat + 1
                   q == guard[j].quiet + 1
        <4>1. b \in Nat /\ q \in Nat /\ more = [guard[j] EXCEPT !.beat = b, !.quiet = q]
          BY <3>2
        <4> HIDE DEF b, q
        <4> QED
          BY <3>2, <4>1
      <3> QED
        BY <3>1, <3>2, <3>3
    <2>5. pc' = pc /\ guard' \in [Job -> [beat : Nat, quiet : Nat, lost : BOOLEAN]]
      <3>1. pc' = pc /\ DOMAIN guard' = Job /\ guard' = [j \in Job |-> guard'[j]]
        BY <1>9 DEF S!Tick
      <3> QED
        BY <2>4, <3>1
    <2>6. SweepType'
      BY <1>0, <2>3, <2>5 DEF SweepType
    <2>7. ASSUME NEW j \in Job, Believes(j)' PROVE Running(j)' /\ Late(j)'
      <3>1. Believes(j) /\ guard[j].beat \in Nat /\ guard[j].quiet \in Nat
        BY <1>0, <2>4, <2>5, <2>7 DEF Believes, S!Beating, SweepType
      <3>2. /\ guard'[j].beat = guard[j].beat + 1 /\ guard'[j].quiet = guard[j].quiet + 1
            /\ guard'[j].lost = guard[j].lost
        BY <1>0, <2>4, <3>1 DEF SweepType, Believes, S!Beating
      <3>3. pc[j] = "queued" => guard[j].beat < MaxQueue
        BY <1>9 DEF S!Tick
      <3>4. pc[j] = "stage" /\ ~guard[j].lost => guard[j].beat # Heartbeat
        BY <1>9 DEF S!Tick, S!Beating, S!Due
      <3>5. Running(j)'
        <4>1. CASE pc[j] = "queued"
          BY <2>5, <3>1, <3>2, <3>3, <4>1 DEF Running
        <4>2. CASE pc[j] = "stage" /\ ~guard[j].lost
          <5>1. guard[j].beat <= Heartbeat /\ guard[j].quiet < TTL + guard[j].beat
            BY <1>0, <4>2 DEF Running
          <5> QED
            BY <2>5, <3>1, <3>2, <3>4, <4>2, <5>1 DEF Running
        <4> QED
          BY <3>1, <4>1, <4>2 DEF Believes
      <3>6. Since(j)' = Since(j) + 1 /\ Since(j) \in Nat
        BY <2>5, <3>1, <3>2 DEF Since
      <3>7. (Taken(j)' <=> Taken(j)) /\ (S!Own(j)' <=> S!Own(j))
        BY <2>3 DEF Taken, S!Own
      <3>8. S!Own(j) => lease.holder # NoInstance
        BY <1>0 DEF S!Own
      <3>9. lease.left \in Nat /\ lease.age \in Nat
        BY <1>0 DEF SweepType
      <3>10. Late(j)'
        BY <1>0, <2>1, <2>3, <3>1, <3>6, <3>7, <3>8, <3>9 DEF Late, Taken
      <3> QED
        BY <3>5, <3>10
    <2>8. ASSUME NEW j \in Job, ~Believes(j)' PROVE Running(j)' /\ Late(j)'
      BY <2>8 DEF Running, Late, Believes
    <2> QED
      BY <2>6, <2>7, <2>8 DEF SInv
  <1>10. CASE UNCHANGED S!vars
    BY <1>10, <1>0, QuietSweep DEF S!vars, SweepType, Believes
  <1>11. ASSUME NEW j \in Job, S!RowNotWritten(j) \/ S!SweepFails(j) PROVE SInv'
    <2>1. UNCHANGED <<lease, guard>> /\ (pc' = pc \/ pc' = [pc EXCEPT ![j] = "idle"])
      BY <1>11 DEF S!RowNotWritten, S!SweepFails, S!EndSweep, S!Goto
    <2> QED
      BY <1>0, <2>1, QuietSweep DEF SweepType, Believes
  <1>12. ASSUME NEW j \in Job, S!LoadFails(j) \/ S!ReleaseFails(j) PROVE SInv'
    <2>1. /\ lease' = lease
          /\ guard' = [guard EXCEPT ![j] = [beat |-> 0, quiet |-> 0, lost |-> FALSE]]
          /\ \E l \in {"idle", "release"} : pc' = [pc EXCEPT ![j] = l]
      BY <1>12 DEF S!LoadFails, S!ReleaseFails, S!EndSweep, S!Goto, S!NoGuard
    <2> QED
      BY <1>0, <2>1, QuietSweep DEF SweepType, Believes
  <1>13. ASSUME NEW j \in Job, S!ClaimLost(j) PROVE SInv'
    <2>1. /\ lease.left = 0 \/ S!Own(j)
          /\ lease' = [holder |-> Owner[j], left |-> TTL, age |-> IF S!Own(j) THEN lease.age ELSE 0]
          /\ guard' = guard /\ pc' = [pc EXCEPT ![j] = "idle"]
      BY <1>13 DEF S!ClaimLost, S!Granted, S!EndSweep, S!Goto
    <2>2. SweepType'
      <3> DEFINE a == IF S!Own(j) THEN lease.age ELSE 0
      <3>1. a \in Nat
        BY <1>0 DEF SweepType
      <3>2. lease' = [holder |-> Owner[j], left |-> TTL, age |-> a]
        BY <2>1
      <3> HIDE DEF a
      <3> QED
        BY <1>0, <2>1, <3>1, <3>2 DEF SweepType
    <2>3. Running(j)' /\ Late(j)'
      BY <1>0, <2>1 DEF SweepType, Running, Late, Believes
    <2>4. ASSUME NEW k \in Job \ {j} PROVE Running(k)' /\ Late(k)'
      <3>1. pc'[k] = pc[k] /\ guard'[k] = guard[k]
        BY <1>0, <2>1 DEF SweepType
      <3> QED
        BY <2>1, <3>1, GrantElsewhere
    <2> QED
      BY <2>2, <2>3, <2>4 DEF SInv
  <1> QED
    BY <1>1, <1>2, <1>3, <1>4, <1>5, <1>6, <1>7, <1>8, <1>9, <1>10, <1>11, <1>12, <1>13
       DEF S!Next, S!Step, S!Fault

\* Any number of jobs in any number of control planes, whatever crashes and whatever
\* calls fail: a job that goes on believing in its lease after another instance took
\* it does so for Overlap at most.
THEOREM OverlapIsBounded ==
    ASSUME Times
    PROVE  S!Spec => []OverlapBounded
  <1>1. S!Init => SInv
    BY SweepInit
  <1>2. SInv /\ [S!Next]_(S!vars) => SInv'
    BY SweepNext
  <1>3. SInv => OverlapBounded
    <2> SUFFICES ASSUME SInv, NEW j \in Job, pc[j] = "stage", ~guard[j].lost,
                        lease.holder \notin {NoInstance, Owner[j]}
                 PROVE  lease.age <= S!Overlap(j)
      BY DEF OverlapBounded, S!OverlapBounded
    <2>1. Believes(j) /\ Taken(j) /\ Running(j) /\ Late(j)
      BY DEF Believes, Taken, S!Own, SInv
    <2>2. /\ lease.age \in Nat /\ guard[j].beat \in Nat /\ guard[j].quiet \in Nat
          /\ guard[j].beat <= Heartbeat /\ guard[j].quiet < TTL + guard[j].beat
      BY <2>1 DEF SInv, SweepType, Running
    <2>3. lease.age <= guard[j].quiet + MaxQueue
      BY <2>1 DEF Late, Since
    <2>4. S!Alone(j) => lease.age + TTL <= guard[j].quiet + MaxQueue
      BY <2>1 DEF Late, Since
    <2>5. CASE S!Alone(j)
      BY <2>2, <2>4, <2>5 DEF S!Overlap, Times
    <2>6. CASE ~S!Alone(j)
      BY <2>2, <2>3, <2>6 DEF S!Overlap, Times
    <2> QED
      BY <2>5, <2>6
  <1> QED
    BY <1>1, <1>2, <1>3, PTL DEF S!Spec

------------------------------------------------------------------------------
(* The coding locks.  Of the jobs of one control plane that take the same  *)
(* lock one at most is inside a sweep, and every job inside has its lock.  *)
(* The locks held beyond those were left behind by sweeps whose run could  *)
(* not be recorded.                                                        *)

Inside(i) == {j \in Job : Owner[j] = i /\ pc[j] # "idle"}
Used(i) == {LockKey[j] : j \in Inside(i)}
LeftBehind(i) == locks[i] \ Used(i)

LockPerKey ==
    /\ \A i \in Instance : Used(i) \subseteq locks[i]
    /\ \A i \in Instance : \A j, k \in Inside(i) : LockKey[j] = LockKey[k] => j = k

LockInv ==
    /\ LockPerKey
    /\ DOMAIN locks = Instance /\ locks = [i \in Instance |-> locks[i]]
    /\ pc \in [Job -> {"idle", "sweep", "queued", "stage", "failing", "release"}]

LEMMA LockInit ==
    ASSUME Times, S!Init
    PROVE  LockInv
  BY DEF Times, S!Init, LockInv, LockPerKey, Inside, Used

\* Nobody enters or leaves a sweep.
LEMMA LocksStay ==
    ASSUME LockInv, UNCHANGED locks, pc' \in [Job -> {"idle", "sweep", "queued", "stage", "failing", "release"}],
           \A j \in Job : pc'[j] = "idle" <=> pc[j] = "idle"
    PROVE  LockInv' /\ \A i \in Instance : LeftBehind(i)' = LeftBehind(i)
  <1>1. \A i \in Instance : Inside(i)' = Inside(i)
    BY DEF Inside
  <1>2. \A i \in Instance : Used(i)' = Used(i)
    BY <1>1 DEF Used
  <1> QED
    BY <1>1, <1>2 DEF LockInv, LockPerKey, LeftBehind

\* A job takes its lock, which nobody in its control plane holds.
LEMMA LockTaken ==
    ASSUME Times, LockInv, NEW j \in Job, S!BeginSweep(j)
    PROVE  LockInv' /\ \A i \in Instance : LeftBehind(i)' = LeftBehind(i)
  <1>1. /\ Owner[j] \in Instance /\ pc[j] = "idle" /\ LockKey[j] \notin locks[Owner[j]]
        /\ locks' = [locks EXCEPT ![Owner[j]] = @ \cup {LockKey[j]}] /\ pc' = [pc EXCEPT ![j] = "sweep"]
    BY DEF Times, S!BeginSweep, S!Goto
  <1>2. \A i \in Instance : Inside(i)' = IF i = Owner[j] THEN Inside(i) \cup {j} ELSE Inside(i)
    BY <1>1 DEF Inside, LockInv
  <1>3. \A i \in Instance : /\ Used(i)' = IF i = Owner[j] THEN Used(i) \cup {LockKey[j]} ELSE Used(i)
                            /\ locks'[i] = IF i = Owner[j] THEN locks[i] \cup {LockKey[j]} ELSE locks[i]
    BY <1>1, <1>2 DEF Used, LockInv
  <1>4. \A k \in Inside(Owner[j]) : LockKey[k] # LockKey[j]
    BY <1>1 DEF LockInv, LockPerKey, Used
  <1>5. \A i \in Instance : \A k, l \in Inside(i)' : LockKey[k] = LockKey[l] => k = l
    BY <1>1, <1>2, <1>4 DEF LockInv, LockPerKey
  <1>6. /\ DOMAIN locks' = Instance /\ locks' = [i \in Instance |-> locks'[i]]
        /\ pc' \in [Job -> {"idle", "sweep", "queued", "stage", "failing", "release"}]
    BY <1>1 DEF LockInv
  <1>7. \A i \in Instance : Used(i)' \subseteq locks'[i] /\ LeftBehind(i)' = LeftBehind(i)
    <2> SUFFICES ASSUME NEW i \in Instance PROVE Used(i)' \subseteq locks'[i] /\ LeftBehind(i)' = LeftBehind(i)
      OBVIOUS
    <2>1. Used(i) \subseteq locks[i]
      BY DEF LockInv, LockPerKey
    <2>2. LeftBehind(i)' = locks'[i] \ Used(i)'
      BY DEF LeftBehind
    <2>3. CASE i = Owner[j]
      BY <1>1, <1>3, <2>1, <2>2, <2>3 DEF LeftBehind
    <2>4. CASE i # Owner[j]
      BY <1>3, <2>1, <2>2, <2>4 DEF LeftBehind
    <2> QED
      BY <2>3, <2>4
  <1> QED
    BY <1>5, <1>6, <1>7 DEF LockInv, LockPerKey

\* A lock is taken and left: no sweep is begun.
LEMMA LockLeft ==
    ASSUME Times, LockInv, NEW j \in Job, S!RowNotWritten(j)
    PROVE  LockInv' /\ \A i \in Instance \ {Owner[j]} : LeftBehind(i)' = LeftBehind(i)
  <1>1. /\ Owner[j] \in Instance /\ pc' = pc
        /\ locks' = [locks EXCEPT ![Owner[j]] = @ \cup {LockKey[j]}]
    BY DEF Times, S!RowNotWritten
  <1>2. \A i \in Instance : /\ Inside(i)' = Inside(i) /\ Used(i)' = Used(i)
                            /\ locks'[i] = IF i = Owner[j] THEN locks[i] \cup {LockKey[j]} ELSE locks[i]
    BY <1>1 DEF Inside, Used, LockInv
  <1>3. DOMAIN locks' = Instance /\ locks' = [i \in Instance |-> locks'[i]]
    BY <1>1 DEF LockInv
  <1>4. ASSUME NEW i \in Instance PROVE Used(i)' \subseteq locks'[i]
    <2>1. Used(i) \subseteq locks[i]
      BY DEF LockInv, LockPerKey
    <2>2. Used(i)' = Used(i) /\ locks[i] \subseteq locks'[i]
      BY <1>2
    <2> QED
      BY <2>1, <2>2
  <1>5. ASSUME NEW i \in Instance, NEW k \in Inside(i)', NEW l \in Inside(i)', LockKey[k] = LockKey[l]
        PROVE  k = l
    <2>1. k \in Inside(i) /\ l \in Inside(i)
      BY <1>2
    <2> QED
      BY <1>5, <2>1 DEF LockInv, LockPerKey
  <1>6. \A i \in Instance \ {Owner[j]} : LeftBehind(i)' = LeftBehind(i)
    BY <1>2 DEF LeftBehind
  <1> QED
    BY <1>1, <1>3, <1>4, <1>5, <1>6 DEF LockInv, LockPerKey

\* A job leaves its sweep and gives the lock back, which no other job holds.
LEMMA LockGivenBack ==
    ASSUME Times, LockInv, NEW j \in Job, pc[j] # "idle", S!EndSweep(j)
    PROVE  LockInv' /\ \A i \in Instance : LeftBehind(i)' = LeftBehind(i)
  <1>1. /\ Owner[j] \in Instance
        /\ locks' = [locks EXCEPT ![Owner[j]] = @ \ {LockKey[j]}] /\ pc' = [pc EXCEPT ![j] = "idle"]
    BY DEF Times, S!EndSweep, S!Goto
  <1>2. \A i \in Instance : Inside(i)' = IF i = Owner[j] THEN Inside(i) \ {j} ELSE Inside(i)
    BY <1>1 DEF Inside, LockInv
  <1>3. j \in Inside(Owner[j])
    BY DEF Inside
  <1>4. \A k \in Inside(Owner[j]) \ {j} : LockKey[k] # LockKey[j]
    BY <1>1, <1>3 DEF LockInv, LockPerKey
  <1>5. \A i \in Instance : /\ Used(i)' = IF i = Owner[j] THEN Used(i) \ {LockKey[j]} ELSE Used(i)
                            /\ locks'[i] = IF i = Owner[j] THEN locks[i] \ {LockKey[j]} ELSE locks[i]
    BY <1>1, <1>2, <1>3, <1>4 DEF Used, LockInv
  <1>6. \A i \in Instance : \A k, l \in Inside(i)' : LockKey[k] = LockKey[l] => k = l
    BY <1>2 DEF LockInv, LockPerKey
  <1>7. /\ DOMAIN locks' = Instance /\ locks' = [i \in Instance |-> locks'[i]]
        /\ pc' \in [Job -> {"idle", "sweep", "queued", "stage", "failing", "release"}]
    BY <1>1 DEF LockInv
  <1>8. LockKey[j] \in Used(Owner[j])
    BY <1>3 DEF Used
  <1>9. \A i \in Instance : Used(i)' \subseteq locks'[i] /\ LeftBehind(i)' = LeftBehind(i)
    BY <1>5, <1>8 DEF LockInv, LockPerKey, LeftBehind
  <1> QED
    BY <1>6, <1>7, <1>9 DEF LockInv, LockPerKey

\* Who leaves a lock behind at i, or takes away what was left.
Leaves(i) == S!Crash(i) \/ \E j \in Job : Owner[j] = i /\ S!RowNotWritten(j)

LEMMA LockNext ==
    ASSUME Times, LockInv, [S!Next]_(S!vars)
    PROVE  LockInv' /\ \A i \in Instance : LeftBehind(i)' = LeftBehind(i) \/ Leaves(i)
  <1> DEFINE Goal == LockInv' /\ \A i \in Instance : LeftBehind(i)' = LeftBehind(i) \/ Leaves(i)
  <1>1. ASSUME NEW j \in Job, S!ClaimLease(j) PROVE Goal
    <2>1. CASE S!EndSweep(j)
      BY <1>1, <2>1, LockGivenBack DEF S!ClaimLease
    <2>2. CASE S!Grant(j)
      <3>1. pc[j] # "idle" /\ pc' = [pc EXCEPT ![j] = "queued"] /\ UNCHANGED locks
        BY <1>1, <2>2 DEF S!ClaimLease, S!Grant, S!Goto
      <3> QED
        BY <3>1, LocksStay DEF LockInv
    <2> QED
      BY <1>1, <2>1, <2>2 DEF S!ClaimLease
  <1>2. ASSUME NEW j \in Job,
               S!Execute(j) \/ S!LoadFails(j) \/ S!StageEnds(j) \/ S!LeaseLost(j) \/ S!Handler(j)
        PROVE  Goal
    <2>1. pc[j] # "idle" /\ UNCHANGED locks /\ \E l \in {"stage", "failing", "release"} : pc' = [pc EXCEPT ![j] = l]
      BY <1>2 DEF S!Execute, S!LoadFails, S!StageEnds, S!LeaseLost, S!Handler, S!Goto
    <2> QED
      BY <2>1, LocksStay DEF LockInv
  <1>3. ASSUME NEW j \in Job, S!ReleaseLease(j) \/ S!ReleaseFails(j) \/ S!SweepFails(j) \/ S!ClaimLost(j)
        PROVE  Goal
    <2>1. pc[j] # "idle" /\ S!EndSweep(j)
      BY <1>3 DEF S!ReleaseLease, S!ReleaseFails, S!SweepFails, S!ClaimLost, S!Granted
    <2> QED
      BY <2>1, LockGivenBack
  <1>4. ASSUME NEW j \in Job, S!Beat(j) \/ S!BeatFails(j) PROVE Goal
    BY <1>4, LocksStay DEF S!Beat, S!BeatFails, LockInv
  <1>5. ASSUME NEW i \in Instance, S!Crash(i) PROVE Goal
    <2>1. /\ pc' = [j \in Job |-> IF Owner[j] = i THEN "idle" ELSE pc[j]]
          /\ locks' = [locks EXCEPT ![i] = {}]
      BY <1>5 DEF S!Crash
    <2>2. \A k \in Instance : Inside(k)' = IF k = i THEN {} ELSE Inside(k)
      BY <2>1 DEF Inside, LockInv
    <2>3. \A k \in Instance : /\ k = i => Used(k)' = {}
                              /\ k # i => Used(k)' = Used(k) /\ locks'[k] = locks[k]
      BY <2>1, <2>2 DEF Used, LockInv
    <2>4. \A k \in Instance : \A j, l \in Inside(k)' : LockKey[j] = LockKey[l] => j = l
      BY <2>2 DEF LockInv, LockPerKey
    <2>5. /\ DOMAIN locks' = Instance /\ locks' = [k \in Instance |-> locks'[k]]
          /\ pc' \in [Job -> {"idle", "sweep", "queued", "stage", "failing", "release"}]
      BY <2>1 DEF LockInv
    <2>6. \A k \in Instance : Used(k)' \subseteq locks'[k] /\ (LeftBehind(k)' = LeftBehind(k) \/ k = i)
      BY <2>3 DEF LockInv, LockPerKey, LeftBehind
    <2> QED
      BY <1>5, <2>4, <2>5, <2>6 DEF LockInv, LockPerKey, Leaves
  <1>6. CASE S!Tick
    BY <1>6, LocksStay DEF S!Tick, LockInv
  <1>7. CASE UNCHANGED S!vars
    BY <1>7, LocksStay DEF S!vars, LockInv
  <1>8. ASSUME NEW j \in Job, S!RowNotWritten(j) PROVE Goal
    BY <1>8, LockLeft DEF Leaves
  <1>9. ASSUME NEW j \in Job, S!BeginSweep(j) PROVE Goal
    BY <1>9, LockTaken
  <1> QED
    BY <1>1, <1>2, <1>3, <1>4, <1>5, <1>6, <1>7, <1>8, <1>9 DEF S!Next, S!Step, S!Fault

\* Of the sweeps of one control plane that take the same coding lock, whatever they are
\* doing and however the earlier ones ended, one at most is under way, and it has the lock.
THEOREM SweepHoldsItsLock ==
    ASSUME Times
    PROVE  S!Spec => []LockPerKey
  <1>1. S!Init => LockInv
    BY LockInit
  <1>2. LockInv /\ [S!Next]_(S!vars) => LockInv'
    BY LockNext
  <1>3. LockInv => LockPerKey
    BY DEF LockInv
  <1> QED
    BY <1>1, <1>2, <1>3, PTL DEF S!Spec

\* A lock that is held for no sweep was left by one whose run could not be recorded, for
\* every other end of a sweep gives its lock back; and such a lock, which keeps its tasks
\* from being delivered, is gone only when the control plane stops.
LocksLeft == [][\A i \in Instance : LeftBehind(i)' = LeftBehind(i) \/ Leaves(i)]_(S!vars)

THEOREM OnlyAnUnrecordedSweepLeavesItsLock ==
    ASSUME Times
    PROVE  S!Spec => LocksLeft
  <1>1. LockInv /\ [S!Next]_(S!vars)
          => [\A i \in Instance : LeftBehind(i)' = LeftBehind(i) \/ Leaves(i)]_(S!vars)
    BY LockNext
  <1>2. S!Init => LockInv
    BY LockInit
  <1>3. LockInv /\ [S!Next]_(S!vars) => LockInv'
    BY LockNext
  <1> QED
    BY <1>1, <1>2, <1>3, PTL DEF S!Spec, LocksLeft

\* Where one control plane alone delivers a task and its jobs take one lock for it, one
\* of them at most is between the claim and the release: what OneWorker asks of Delivery.
OneDelivers == \A j, k \in Job : pc[j] # "idle" /\ pc[k] # "idle" => j = k

THEOREM OneControlPlaneDeliversOnce ==
    ASSUME Times, NEW home \in Instance, NEW key,
           \A j \in Job : Owner[j] = home /\ LockKey[j] = key
    PROVE  S!Spec => []OneDelivers
  <1>1. LockPerKey => OneDelivers
    BY DEF LockPerKey, OneDelivers, Inside
  <1> QED
    BY <1>1, SweepHoldsItsLock, PTL

------------------------------------------------------------------------------
(* The lease between deliveries.  It is held for a job that has claimed    *)
(* it: the last one granted it is under way until it gives the lease back, *)
(* on every path through its stages.  A crash leaves a lease behind, and so *)
(* do a release that fails and a sweep that fails behind its claim; it has  *)
(* TTL at most to run then.                                                *)

HeldForWork ==
    lease.holder # NoInstance =>
      \E j \in Job : Owner[j] = lease.holder /\ pc[j] \notin {"idle", "sweep"}

\* Neither the holder changes nor a job of it that has claimed the lease ends.
LEMMA WorkGoesOn ==
    ASSUME HeldForWork, lease'.holder = lease.holder,
           \A j \in Job : pc[j] \notin {"idle", "sweep"} => pc'[j] \notin {"idle", "sweep"}
    PROVE  HeldForWork'
  BY DEF HeldForWork

\* What leaves a lease behind.
Abandons == (\E i \in Instance : S!Crash(i)) \/ \E j \in Job : S!ReleaseFails(j) \/ S!ClaimLost(j)

LEMMA HeldNext ==
    ASSUME Times, SInv, HeldForWork, [S!Next]_(S!vars), ~Abandons
    PROVE  HeldForWork'
  <1>0. /\ pc \in [Job -> {"idle", "sweep", "queued", "stage", "failing", "release"}]
        /\ lease \in [holder : Instance \cup {NoInstance}, left : Nat, age : Nat]
    BY DEF SInv, SweepType
  <1>1. ASSUME NEW j \in Job,
               \/ S!BeginSweep(j) \/ S!RowNotWritten(j) \/ S!SweepFails(j)
               \/ S!LeaseLost(j) \/ S!Handler(j)
        PROVE  HeldForWork'
    <2>1. \/ pc' = pc
          \/ pc[j] \in {"idle", "sweep"} /\ \E l \in {"idle", "sweep"} : pc' = [pc EXCEPT ![j] = l]
          \/ \E l \in {"failing", "release"} : pc' = [pc EXCEPT ![j] = l]
      BY <1>1 DEF S!BeginSweep, S!RowNotWritten, S!SweepFails, S!Granted, S!EndSweep,
                  S!LeaseLost, S!Handler, S!Goto
    <2>2. lease' = lease
      BY <1>1 DEF S!BeginSweep, S!RowNotWritten, S!SweepFails, S!LeaseLost, S!Handler
    <2> QED
      BY <1>0, <2>1, <2>2, WorkGoesOn
  <1>2. ASSUME NEW j \in Job, S!Execute(j) \/ S!LoadFails(j) \/ S!StageEnds(j) PROVE HeldForWork'
    <2>1. lease' = lease /\ \E l \in {"stage", "release"} : pc' = [pc EXCEPT ![j] = l]
      BY <1>2 DEF S!Execute, S!LoadFails, S!StageEnds, S!Goto
    <2> QED
      BY <1>0, <2>1, WorkGoesOn
  <1>3. ASSUME NEW j \in Job, S!ClaimLease(j) PROVE HeldForWork'
    <2>1. CASE S!EndSweep(j) /\ UNCHANGED lease
      <3>1. pc[j] = "sweep" /\ pc' = [pc EXCEPT ![j] = "idle"]
        BY <1>3, <2>1 DEF S!ClaimLease, S!EndSweep, S!Goto
      <3> QED
        BY <1>0, <2>1, <3>1, WorkGoesOn
    <2>2. CASE S!Grant(j)
      <3>1. lease'.holder = Owner[j] /\ pc' = [pc EXCEPT ![j] = "queued"]
        BY <2>2 DEF S!Grant, S!Goto
      <3> QED
        BY <1>0, <3>1 DEF HeldForWork
    <2> QED
      BY <1>3, <2>1, <2>2 DEF S!ClaimLease
  <1>4. ASSUME NEW j \in Job, S!ReleaseLease(j) PROVE HeldForWork'
    <2>1. pc' = [pc EXCEPT ![j] = "idle"] /\ lease' = IF S!Own(j) THEN S!NoLease ELSE lease
      BY <1>4 DEF S!ReleaseLease, S!EndSweep, S!Goto
    <2>2. CASE S!Own(j)
      BY <2>1, <2>2 DEF HeldForWork, S!NoLease
    <2>3. CASE ~S!Own(j)
      BY <1>0, <2>1, <2>3 DEF HeldForWork, S!Own
    <2> QED
      BY <2>2, <2>3
  <1>5. ASSUME NEW j \in Job, S!Beat(j) \/ S!BeatFails(j) PROVE HeldForWork'
    <2>1. lease'.holder = lease.holder /\ pc' = pc
      BY <1>0, <1>5 DEF S!Beat, S!BeatFails
    <2> QED
      BY <2>1, WorkGoesOn
  <1>6. CASE S!Tick
    <2>1. lease'.holder = lease.holder /\ pc' = pc
      BY <1>0, <1>6 DEF S!Tick
    <2> QED
      BY <2>1, WorkGoesOn
  <1>7. CASE UNCHANGED S!vars
    BY <1>7, WorkGoesOn DEF S!vars
  <1> QED
    BY <1>1, <1>2, <1>3, <1>4, <1>5, <1>6, <1>7 DEF S!Next, S!Step, S!Fault, Abandons

\* However a delivery goes, whether its guard gives the lease up, its handler blocks the
\* task or another control plane has taken over: a lease that is held is held for a job
\* that has claimed it and not ended.  Three things break this: a control plane that
\* stops, a release that fails, which the code swallows, and a sweep that fails between
\* its claim and the pool.
LeaseHasWork == [][HeldForWork => HeldForWork' \/ Abandons]_(S!vars)

THEOREM LeaseIsReleased ==
    ASSUME Times
    PROVE  S!Spec => LeaseHasWork
  <1>1. SInv /\ [S!Next]_(S!vars) => [HeldForWork => HeldForWork' \/ Abandons]_(S!vars)
    BY HeldNext
  <1>2. S!Init => SInv
    BY SweepInit
  <1>3. SInv /\ [S!Next]_(S!vars) => SInv'
    BY SweepNext
  <1> QED
    BY <1>1, <1>2, <1>3, PTL DEF S!Spec, LeaseHasWork

\* What a lease still has to run never exceeds TTL, so a lease that is left behind
\* is free to other control planes after TTL seconds in which nobody renews it.
LeaseShort == lease.left <= TTL

THEOREM LeaseEndsWithinTTL ==
    ASSUME Times
    PROVE  S!Spec => []LeaseShort
  <1>1. S!Init => LeaseShort
    BY DEF Times, S!Init, S!NoLease, LeaseShort
  <1>2. SInv /\ LeaseShort /\ [S!Next]_(S!vars) => LeaseShort'
    <2> SUFFICES ASSUME SInv, LeaseShort, [S!Next]_(S!vars) PROVE LeaseShort'
      OBVIOUS
    <2>1. lease \in [holder : Instance \cup {NoInstance}, left : Nat, age : Nat] /\ TTL \in Nat
      BY DEF Times, SInv, SweepType
    <2>2. CASE S!Tick
      <3>1. \/ lease' = lease
            \/ lease' = [lease EXCEPT !.left = IF lease.left > 0 THEN lease.left - 1 ELSE 0,
                                     !.age = S!Older(lease.age, S!MaxAge)]
        BY <2>2 DEF S!Tick
      <3>2. lease'.left \in {lease.left, lease.left - 1, 0}
        BY <2>1, <3>1
      <3> QED
        BY <2>1, <3>2 DEF LeaseShort
    <2>3. ASSUME NEW j \in Job, S!ClaimLease(j) PROVE LeaseShort'
      BY <2>1, <2>3 DEF S!ClaimLease, S!Grant, LeaseShort
    <2>4. ASSUME NEW j \in Job, S!Beat(j) \/ S!ReleaseLease(j) \/ S!ClaimLost(j) PROVE LeaseShort'
      BY <2>1, <2>4 DEF S!Beat, S!ReleaseLease, S!ClaimLost, S!NoLease, LeaseShort
    <2>5. CASE UNCHANGED lease
      BY <2>5 DEF LeaseShort
    <2> QED
      BY <2>2, <2>3, <2>4, <2>5 DEF S!Next, S!Step, S!Fault, S!vars, S!BeginSweep, S!RowNotWritten,
         S!SweepFails, S!LoadFails, S!ReleaseFails, S!Execute, S!StageEnds, S!LeaseLost,
         S!Handler, S!BeatFails, S!Crash
  <1>3. S!Init => SInv
    BY SweepInit
  <1>4. SInv /\ [S!Next]_(S!vars) => SInv'
    BY SweepNext
  <1> QED
    BY <1>1, <1>2, <1>3, <1>4, PTL DEF S!Spec
==============================================================================
