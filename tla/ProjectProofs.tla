---------------------------- MODULE ProjectProofs ----------------------------
(***************************************************************************)
(* Proofs about what a project keeps: its requirements, the proof that a   *)
(* bug is one, the approvals of risky commands, and its files when they    *)
(* migrate (Requirements, Project).                                        *)
(***************************************************************************)
EXTENDS Requirements, Project, Integers, Sequences, FiniteSets, FiniteSetTheorems,
        WellFoundedInduction, TLAPS

------------------------------------------------------------------------------
(* BugProof.  FixesProvenBugs is not inductive: a run may come back to the *)
(* coding stage from the review of a fix that an earlier run left behind.  *)
(* That is sound because everything an earlier fix leaves behind           *)
(* (evidence, an attempt) can only stem from a stage behind the proof.     *)

\* The stages a run reaches only after the reproduction.
Behind == {"coding", "review", "qa"}

Proven ==
    /\ attempts \in Nat
    /\ attempts > 0 => proven
    /\ evidence # {} => proven
    /\ stage \in Behind => proven

\* A run that is under way has no reason for closing the task yet.
Unclosed == stage # "idle" => reason = "none"

(* A reproduction is a command of the contract that was run and failed.    *)
LEMMA ReproducedFails ==
    ASSUME NEW S, B!audit_reproduced(B!run_validation_evidence(S))
    PROVE  \E c \in S : B!Outcome(c) = "failed"
  BY DEF B!audit_reproduced, B!run_validation_evidence

LEMMA InitProven == B!Init => Proven /\ Unclosed
  BY DEF B!Init, Proven, Unclosed, Behind

(* The reproduction is the only way behind the proof, and it goes on       *)
(* either because it has just proven the bug, or because of what a fix of  *)
(* an earlier run has left.                                                *)
LEMMA ReproKeepsProven ==
    ASSUME NEW commands, Proven, B!run_bug_repro_stage(commands)
    PROVE  Proven'
  <1> DEFINE contract == B!bug_contract([B!NoExtra EXCEPT !.commands = commands])
             reproduced == B!audit_reproduced(B!run_validation_evidence(contract.commands))
  <1>1. /\ attempts' = attempts /\ evidence' = evidence
        /\ proven' = (proven \/ \E c \in contract.commands : B!Outcome(c) = "failed")
    BY DEF B!run_bug_repro_stage
  <1>2. \/ reproduced
        \/ ~reproduced /\ B!has_post_fix_candidate_changes
        \/ stage' = "idle"
    BY DEF B!run_bug_repro_stage, B!Close
  <1>3. CASE reproduced
    <2>1. proven'
      BY <1>1, <1>3, ReproducedFails
    <2> QED
      BY <1>1, <2>1 DEF Proven
  <1>4. CASE B!has_post_fix_candidate_changes
    <2>1. proven
      BY <1>4 DEF B!has_post_fix_candidate_changes, Proven
    <2> QED
      BY <1>1, <2>1 DEF Proven
  <1>5. CASE stage' = "idle"
    BY <1>1, <1>5 DEF Proven, Behind
  <1> QED
    BY <1>2, <1>3, <1>4, <1>5

LEMMA NextProven ==
    ASSUME Proven, [B!Next]_(B!vars)
    PROVE  Proven'
  <1>1. CASE \E force \in BOOLEAN : B!execute_task_delivery(force)
    BY <1>1 DEF B!execute_task_delivery, Proven, Behind
  <1>2. CASE \E a \in B!AuditAnswer : B!run_issue_audit_stage(a)
    BY <1>2 DEF B!run_issue_audit_stage, B!bounds, B!Goto, B!Close, Proven, Behind
  <1>3. CASE B!EnterProof
    BY <1>3 DEF B!EnterProof, B!bounds, B!Goto, Proven, Behind
  <1>4. CASE B!CheckContract
    BY <1>4 DEF B!CheckContract, B!bounds, B!Goto, B!Close, Proven, Behind
  <1>5. CASE \E b \in B!TestCaseAnswer : B!run_bug_testcase_stage(b)
    BY <1>5 DEF B!run_bug_testcase_stage, B!bounds, B!Goto, B!Close, Proven, Behind
  <1>6. CASE \E commands \in Answer : B!run_bug_repro_stage(commands)
    BY <1>6, ReproKeepsProven
  <1>7. CASE \E commands \in Answer : B!run_coding_stage(commands)
    <2>1. stage = "coding" /\ attempts' = attempts + 1 /\ proven' = proven
      BY <1>7 DEF B!run_coding_stage
    <2> QED
      BY <2>1 DEF Proven, Behind
  <1>8. CASE B!AttemptsExhausted
    BY <1>8 DEF B!AttemptsExhausted, B!bounds, B!Block, Proven, Behind
  <1>9. CASE \E r \in B!ReviewAnswer : B!run_review_stage(r)
    <2>1. /\ stage = "review"
          /\ attempts' = attempts /\ proven' = proven /\ evidence' = evidence
      BY <1>9 DEF B!run_review_stage
    <2> QED
      BY <2>1 DEF Proven, Behind
  <1>10. CASE \E approved \in BOOLEAN, commands \in Answer : B!run_qa_stage(approved, commands)
    <2>1. stage = "qa" /\ attempts' = attempts /\ proven' = proven
      BY <1>10 DEF B!run_qa_stage, B!bounds
    <2> QED
      BY <2>1 DEF Proven, Behind
  <1>11. CASE B!RunFails
    BY <1>11 DEF B!RunFails, B!bounds, Proven, Behind
  <1>12. CASE B!ensure_task_record
    BY <1>12 DEF B!ensure_task_record, Proven, Behind
  <1>13. CASE UNCHANGED B!vars
    BY <1>13 DEF B!vars, Proven, Behind
  <1> QED
    BY <1>1, <1>2, <1>3, <1>4, <1>5, <1>6, <1>7, <1>8, <1>9, <1>10, <1>11, <1>12, <1>13 DEF B!Next

LEMMA NextUnclosed ==
    ASSUME Unclosed, [B!Next]_(B!vars)
    PROVE  Unclosed'
  <1>1. CASE \E force \in BOOLEAN : B!execute_task_delivery(force)
    BY <1>1 DEF B!execute_task_delivery, Unclosed
  <1>2. CASE \E a \in B!AuditAnswer : B!run_issue_audit_stage(a)
    BY <1>2 DEF B!run_issue_audit_stage, B!Goto, B!Close, Unclosed
  <1>3. CASE B!EnterProof \/ B!CheckContract
    BY <1>3 DEF B!EnterProof, B!CheckContract, B!Goto, B!Close, Unclosed
  <1>4. CASE \E b \in B!TestCaseAnswer : B!run_bug_testcase_stage(b)
    BY <1>4 DEF B!run_bug_testcase_stage, B!Goto, B!Close, Unclosed
  <1>5. CASE \E commands \in Answer : B!run_bug_repro_stage(commands)
    BY <1>5 DEF B!run_bug_repro_stage, B!Goto, B!Close, B!Block, Unclosed
  <1>6. CASE \E commands \in Answer : B!run_coding_stage(commands)
    BY <1>6 DEF B!run_coding_stage, B!Goto, Unclosed
  <1>7. CASE B!AttemptsExhausted
    BY <1>7 DEF B!AttemptsExhausted, B!Block, Unclosed
  <1>8. CASE \E r \in B!ReviewAnswer : B!run_review_stage(r)
    BY <1>8 DEF B!run_review_stage, B!Goto, B!Block, Unclosed
  <1>9. CASE \E approved \in BOOLEAN, commands \in Answer : B!run_qa_stage(approved, commands)
    BY <1>9 DEF B!run_qa_stage, B!Goto, B!Close, Unclosed
  <1>10. CASE B!RunFails
    BY <1>10 DEF B!RunFails, Unclosed
  <1>11. CASE B!ensure_task_record
    BY <1>11 DEF B!ensure_task_record, Unclosed
  <1>12. CASE UNCHANGED B!vars
    BY <1>12 DEF B!vars, Unclosed
  <1> QED
    BY <1>1, <1>2, <1>3, <1>4, <1>5, <1>6, <1>7, <1>8, <1>9, <1>10, <1>11, <1>12 DEF B!Next

(* Nobody codes on a bug that was not seen to fail, however runs are       *)
(* forced, fail or lose their contract: FixesProvenBugs always holds.      *)
THEOREM ProvenFirst == B!Spec => []FixesProvenBugs
  <1>1. B!Init => Proven
    BY InitProven
  <1>2. Proven /\ [B!Next]_(B!vars) => Proven'
    BY NextProven
  <1>3. Proven => FixesProvenBugs
    BY DEF Proven, FixesProvenBugs, B!FixesProvenBugs
  <1> QED
    BY <1>1, <1>2, <1>3, PTL DEF B!Spec

(* A step in which a QA run is closed as released ran every command of the *)
(* task, those the proof added included, and all passed.                   *)
LEMMA ReleaseStep ==
    ASSUME Unclosed, [B!Next]_(B!vars)
    PROVE  stage = "qa" /\ reason' = "released" => \A c \in item.tests : B!Outcome(c) = "ok"
  <1> SUFFICES ASSUME stage = "qa", reason' = "released", NEW c \in item.tests
               PROVE  B!Outcome(c) = "ok"
    OBVIOUS
  <1>1. reason = "none"
    BY DEF Unclosed
  <1>2. PICK approved \in BOOLEAN, commands \in Answer : B!run_qa_stage(approved, commands)
    BY <1>1 DEF B!Next, B!vars, B!execute_task_delivery, B!run_issue_audit_stage, B!EnterProof, B!CheckContract,
                B!run_bug_testcase_stage, B!run_bug_repro_stage, B!run_coding_stage, B!AttemptsExhausted,
                B!run_review_stage, B!RunFails, B!ensure_task_record, B!Goto, B!Block
  <1> DEFINE found == B!run_validation_evidence(commands \cup item.tests)
  <1>3. B!merge_qa_with_validation_evidence(approved, found)
    BY <1>1, <1>2 DEF B!run_qa_stage, B!Goto
  <1>4. B!Outcome(c) \in found
    BY DEF B!run_validation_evidence
  <1> QED
    BY <1>3, <1>4 DEF B!merge_qa_with_validation_evidence

(* What is released passes every command the task names: ReleasedPasses is *)
(* true of every step.                                                     *)
THEOREM Passes == B!Spec => ReleasedPasses
  <1>1. B!Init => Unclosed
    BY InitProven
  <1>2. Unclosed /\ [B!Next]_(B!vars) => Unclosed'
    BY NextUnclosed
  <1>3. Unclosed /\ [B!Next]_(B!vars) =>
          [stage = "qa" /\ reason' = "released" => \A c \in item.tests : B!Outcome(c) = "ok"]_(B!vars)
    BY ReleaseStep
  <1> QED
    BY <1>1, <1>2, <1>3, PTL DEF B!Spec, ReleasedPasses, B!ReleasedPasses

------------------------------------------------------------------------------
(* Approvals.  A request has one record in the log, and none while its     *)
(* prompt is open; no prompt is open for a category that its policy        *)
(* denies; and a decision is made on the record, so that it approves       *)
(* nothing whose record says DENIED.  Only what is approved as it is asked *)
(* for, a request of low risk, has not asked the policy.                   *)

Entry == [id : Nat, is : {"request", "decision"}, kind : RequestKind, status : A!Status]
Recorded(id, n) == log[n].id = id /\ log[n].is = "request"

AInv ==
    /\ log \in Seq(Entry) /\ policy \in A!Policy /\ asked \in Nat
    /\ prompts \subseteq [id : Nat, of : A!Request]
    /\ \A n \in 1 .. Len(log) : log[n].id <= asked
    /\ \A p \in prompts : /\ p.id <= asked /\ CategoryOf[p.of.kind] \notin p.of.policy.deny
                          /\ \A n \in 1 .. Len(log) : ~Recorded(p.id, n)
    /\ \A p, q \in prompts : p.id = q.id => p = q
    /\ \A id \in Nat : \A m, n \in 1 .. Len(log) : Recorded(id, m) /\ Recorded(id, n) => m = n
    /\ A!HardBlocksHold

LEMMA Entries ==
    ASSUME log \in Seq(Entry), NEW n \in 1 .. Len(log)
    PROVE  log[n] \in Entry /\ log[n].id \in Nat /\ log[n].kind \in RequestKind
  <1>1. log[n] \in Entry
    OBVIOUS
  <1> QED
    BY <1>1 DEF Entry

\* A prompt dies, or the policy changes.
LEMMA SilentStep ==
    ASSUME AInv, UNCHANGED <<log, asked, allowed>>, policy' \in A!Policy, prompts' \subseteq prompts
    PROVE  AInv'
  <1>1. A!HardBlocksHold'
    BY DEF AInv, A!HardBlocksHold, A!Newest, A!Denied
  <1>2. /\ \A p \in prompts' : /\ p.id <= asked /\ CategoryOf[p.of.kind] \notin p.of.policy.deny
                               /\ \A n \in 1 .. Len(log) : ~Recorded(p.id, n)
        /\ \A p, q \in prompts' : p.id = q.id => p = q
        /\ prompts' \subseteq [id : Nat, of : A!Request]
    BY DEF AInv
  <1> QED
    BY <1>1, <1>2 DEF AInv, Recorded

\* A command logs one event.
LEMMA LogStep ==
    ASSUME AInv, NEW id \in Nat, NEW is \in {"request", "decision"}, NEW k \in RequestKind,
           NEW outcome \in A!Status, NEW p, A!Append1(id, is, k, outcome, p),
           policy' = policy, asked' \in Nat, asked <= asked', id <= asked', prompts' \subseteq prompts,
           is = "request" => /\ \A q \in prompts' : q.id # id
                             /\ \A n \in 1 .. Len(log) : ~Recorded(id, n),
           outcome = "APPROVED" =>
             /\ CategoryOf[k] \notin p.deny \/ (is = "request" /\ k \in LowKind)
             /\ \A n \in 1 .. Len(log) : Recorded(id, n) => log[n].status # "DENIED"
    PROVE  AInv'
  <1> DEFINE e == [id |-> id, is |-> is, kind |-> k, status |-> outcome]
  <1>1. /\ log \in Seq(Entry) /\ e \in Entry /\ log' = Append(log, e)
        /\ allowed' = (CategoryOf[k] \notin p.deny)
        /\ e.id = id /\ e.is = is /\ e.kind = k /\ e.status = outcome
    BY DEF AInv, A!Append1, Entry
  <1> HIDE DEF e
  <1>2. /\ Len(log') = Len(log) + 1 /\ log'[Len(log) + 1] = e /\ log' \in Seq(Entry)
        /\ \A n \in 1 .. Len(log) : log'[n] = log[n]
        /\ Len(log) \in Nat
    BY <1>1
  <1>3. \A n \in 1 .. Len(log') : log'[n].id <= asked'
    <2> TAKE n \in 1 .. Len(log')
    <2>1. CASE n = Len(log) + 1
      BY <1>1, <1>2, <2>1
    <2>2. CASE n \in 1 .. Len(log)
      <3>1. log[n] \in Entry /\ log[n].id \in Nat /\ log[n].id <= asked /\ asked \in Nat
        BY <1>1, <2>2, Entries DEF AInv
      <3> QED
        BY <1>2, <2>2, <3>1
    <2> QED
      BY <1>2, <2>1, <2>2
  <1>4. ASSUME NEW q \in prompts'
        PROVE  /\ q.id <= asked' /\ CategoryOf[q.of.kind] \notin q.of.policy.deny
               /\ \A n \in 1 .. Len(log') : ~(log'[n].id = q.id /\ log'[n].is = "request")
    <2>1. q \in prompts /\ q.id \in Nat /\ q.id <= asked /\ asked \in Nat
      BY DEF AInv
    <2>2. q.id <= asked'
      BY <2>1
    <2>3. CategoryOf[q.of.kind] \notin q.of.policy.deny /\ \A n \in 1 .. Len(log) : ~Recorded(q.id, n)
      BY <2>1 DEF AInv
    <2>4. is = "request" => q.id # id
      BY <1>4
    <2>5. \A n \in 1 .. Len(log') : n \in 1 .. Len(log) \/ n = Len(log) + 1
      BY <1>2
    <2> QED
      BY <1>1, <1>2, <2>2, <2>3, <2>4, <2>5, Zenon DEF Recorded
  <1>5. ASSUME NEW i \in Nat, NEW m \in 1 .. Len(log'), NEW n \in 1 .. Len(log'),
               Recorded(i, m)', Recorded(i, n)'
        PROVE  m = n
    <2>1. (m \in 1 .. Len(log) \/ m = Len(log) + 1) /\ (n \in 1 .. Len(log) \/ n = Len(log) + 1)
      BY <1>2
    <2>2. ASSUME NEW x \in 1 .. Len(log), Recorded(i, x)' PROVE Recorded(i, x)
      <3>1. log'[x] = log[x]
        BY <1>2
      <3> QED
        BY <2>2, <3>1 DEF Recorded
    <2>3. ASSUME NEW y \in Nat, y = Len(log) + 1, Recorded(i, y)', NEW x \in 1 .. Len(log), Recorded(i, x)' PROVE FALSE
      <3>1. i = id /\ is = "request"
        BY <1>1, <1>2, <2>3 DEF Recorded
      <3> QED
        BY <2>2, <2>3, <3>1
    <2>4. CASE m \in 1 .. Len(log) /\ n \in 1 .. Len(log)
      <3>1. Recorded(i, m) /\ Recorded(i, n)
        BY <1>5, <2>2, <2>4
      <3>2. \A id1 \in Nat : \A m1, n1 \in 1 .. Len(log) : Recorded(id1, m1) /\ Recorded(id1, n1) => m1 = n1
        BY DEF AInv
      <3> QED
        BY <2>4, <3>1, <3>2
    <2>5. CASE m = Len(log) + 1 /\ n \in 1 .. Len(log)
      BY <1>2, <1>5, <2>3, <2>5
    <2>6. CASE n = Len(log) + 1 /\ m \in 1 .. Len(log)
      BY <1>2, <1>5, <2>3, <2>6
    <2> QED
      BY <2>1, <2>4, <2>5, <2>6
  <1>6. A!HardBlocksHold'
    <2>1. ASSUME outcome = "APPROVED" PROVE (allowed' \/ A!Unasked(e)) /\ ~A!Denied(id, "request")'
      <3>1. allowed' \/ A!Unasked(e)
        BY <1>1, <2>1 DEF A!Unasked
      <3>2. ASSUME NEW n \in 1 .. Len(log), log'[n].id = id, log'[n].is = "request", log'[n].status = "DENIED"
            PROVE  FALSE
        BY <1>2, <2>1, <3>2 DEF Recorded
      <3> QED
        BY <1>2, <3>1, <3>2 DEF A!Denied
    <2>2. A!Newest' = e
      BY <1>2 DEF A!Newest
    <2> QED
      BY <1>1, <2>1, <2>2 DEF A!HardBlocksHold
  <1>7. prompts' \subseteq [id : Nat, of : A!Request] /\ \A q, r \in prompts' : q.id = r.id => q = r
    BY DEF AInv
  <1> QED
    BY <1>1, <1>2, <1>3, <1>4, <1>5, <1>6, <1>7 DEF AInv, Recorded

\* What no person has approved is approved only if the policy does not deny it or the risk
\* is low; and a person is asked only about what the policy does not deny.
LEMMA OutcomeAllowed ==
    ASSUME NEW r \in A!Request
    PROVE  /\ A!Outcome(r) \in A!Status \cup {"prompt"}
           /\ A!Outcome(r) = "prompt" => CategoryOf[r.kind] \notin r.policy.deny
           /\ A!Outcome(r) = "APPROVED" => CategoryOf[r.kind] \notin r.policy.deny \/ r.kind \in LowKind
  BY DEF A!Request, A!Policy, A!Category, A!Outcome, A!risk_classify, A!policy_decide, A!Status

LEMMA ApprovalsNext ==
    ASSUME AInv, [A!Next]_(A!vars)
    PROVE  AInv'
  <1>0. asked \in Nat /\ policy \in A!Policy
    BY DEF AInv
  <1>1. ASSUME NEW k \in RequestKind, NEW role \in A!Role, NEW flag \in A!Flag, A!cmd_request(k, role, flag)
        PROVE  AInv'
    <2> DEFINE r == [kind |-> k, role |-> role, flag |-> flag, policy |-> policy]
               id == asked + 1
    <2>1. r \in A!Request /\ r.kind = k /\ r.policy = policy
      BY <1>0 DEF A!Request
    <2>2. id \in Nat /\ asked' = id /\ asked < id /\ policy' = policy
      BY <1>0, <1>1 DEF A!cmd_request
    <2>3. \A n \in 1 .. Len(log) : log[n].id \in Nat /\ log[n].id # id
      <3>1. \A n \in 1 .. Len(log) : log[n].id \in Nat /\ log[n].id <= asked
        BY Entries DEF AInv
      <3> QED
        BY <1>0, <3>1
    <2>4. \A q \in prompts : q.id \in Nat /\ q.id <= asked /\ q.id # id
      BY <1>0 DEF AInv
    <2>5. CASE A!Outcome(r) = "prompt"
      <3>1. prompts' = prompts \cup {[id |-> id, of |-> r]} /\ UNCHANGED <<log, allowed>>
        BY <1>1, <2>5 DEF A!cmd_request
      <3>2. CategoryOf[r.kind] \notin r.policy.deny
        BY <2>1, <2>5, OutcomeAllowed
      <3> HIDE DEF r, id
      <3>3. prompts' \subseteq [id : Nat, of : A!Request]
        BY <2>1, <2>2, <3>1 DEF AInv
      <3>4. \A q \in prompts' : /\ q.id <= asked' /\ CategoryOf[q.of.kind] \notin q.of.policy.deny
                                /\ \A n \in 1 .. Len(log) : ~Recorded(q.id, n)
        <4> TAKE q \in prompts'
        <4>1. CASE q \in prompts
          BY <1>0, <2>2, <2>4, <4>1 DEF AInv
        <4>2. CASE q = [id |-> id, of |-> r]
          BY <2>2, <2>3, <3>2, <4>2 DEF Recorded
        <4> QED
          BY <3>1, <4>1, <4>2
      <3>5. \A p, q \in prompts' : p.id = q.id => p = q
        BY <2>4, <3>1 DEF AInv
      <3>6. \A n \in 1 .. Len(log) : log[n].id <= asked'
        BY <1>0, <2>2, <2>3 DEF AInv
      <3>7. A!HardBlocksHold'
        BY <3>1 DEF AInv, A!HardBlocksHold, A!Newest, A!Denied
      <3>8. /\ log' = log /\ policy' = policy /\ asked' \in Nat /\ log \in Seq(Entry) /\ policy \in A!Policy
            /\ \A i \in Nat : \A m, n \in 1 .. Len(log) : Recorded(i, m) /\ Recorded(i, n) => m = n
        BY <2>2, <3>1 DEF AInv
      <3> QED
        BY <3>3, <3>4, <3>5, <3>6, <3>7, <3>8 DEF AInv, Recorded
    <2>6. CASE A!Outcome(r) # "prompt"
      <3> DEFINE outcome == A!Outcome(r)
      <3>1. A!Append1(id, "request", k, outcome, policy) /\ prompts' = prompts
        BY <1>1, <2>6 DEF A!cmd_request
      <3>2. /\ outcome \in A!Status
            /\ outcome = "APPROVED" => CategoryOf[k] \notin policy.deny \/ k \in LowKind
        BY <2>1, <2>6, OutcomeAllowed
      <3>3. \A n \in 1 .. Len(log) : ~Recorded(id, n)
        BY <2>3 DEF Recorded
      <3>4. "request" \in {"request", "decision"}
        OBVIOUS
      <3> HIDE DEF r, id, outcome
      <3>5. id \in Nat /\ id <= asked' /\ asked' \in Nat /\ asked <= asked' /\ policy' = policy /\ k \in RequestKind
        BY <1>0, <2>2
      <3>6. prompts' \subseteq prompts /\ \A q \in prompts' : q.id # id
        BY <2>4, <3>1
      <3>7. outcome = "APPROVED" => \A n \in 1 .. Len(log) : Recorded(id, n) => log[n].status # "DENIED"
        BY <3>3
      <3> QED
        BY <3>1, <3>2, <3>3, <3>4, <3>5, <3>6, <3>7, LogStep
    <2> QED
      BY <2>5, <2>6
  <1>2. ASSUME NEW p \in prompts, NEW yes \in BOOLEAN, A!interactive_confirm(p, yes)
        PROVE  AInv'
    <2> DEFINE outcome == IF yes THEN "APPROVED" ELSE "DENIED"
    <2>1. /\ p.id \in Nat /\ p.id <= asked /\ p.of.kind \in RequestKind
          /\ CategoryOf[p.of.kind] \notin p.of.policy.deny
          /\ \A n \in 1 .. Len(log) : ~Recorded(p.id, n)
      BY DEF AInv, A!Request
    <2>2. /\ A!Append1(p.id, "request", p.of.kind, outcome, p.of.policy)
          /\ prompts' = prompts \ {p} /\ policy' = policy /\ asked' = asked
      BY <1>2 DEF A!interactive_confirm
    <2>3. \A q \in prompts' : q.id # p.id
      BY <2>2 DEF AInv
    <2>4. outcome \in A!Status
      BY DEF A!Status
    <2>5. prompts' \subseteq prompts /\ asked' \in Nat /\ asked <= asked' /\ p.id <= asked'
      BY <1>0, <2>1, <2>2
    <2> HIDE DEF outcome
    <2> DEFINE id == p.id
               k == p.of.kind
               pol == p.of.policy
    <2> HIDE DEF id, k, pol
    <2>6. /\ id \in Nat /\ k \in RequestKind /\ CategoryOf[k] \notin pol.deny /\ id <= asked'
          /\ \A n \in 1 .. Len(log) : ~Recorded(id, n)
          /\ A!Append1(id, "request", k, outcome, pol) /\ \A q \in prompts' : q.id # id
      BY <2>1, <2>2, <2>3, <2>5 DEF id, k, pol
    <2> QED
      BY <2>2, <2>4, <2>5, <2>6, LogStep
  <1>3. ASSUME NEW p \in prompts, A!PromptDies(p) PROVE AInv'
    BY <1>0, <1>3, SilentStep DEF A!PromptDies
  <1>4. ASSUME NEW id \in A!Id, NEW outcome \in {"APPROVED", "DENIED"}, A!cmd_decide(id, outcome)
        PROVE  AInv'
    <2>1. PICK n \in 1 .. Len(log) :
            /\ Recorded(id, n) /\ A!Decidable(log[n], outcome)
            /\ A!Append1(id, "decision", log[n].kind, outcome, policy)
      BY <1>4 DEF A!cmd_decide, A!find_approval_request_record, Recorded
    <2>2. /\ log[n] \in Entry /\ log[n].id = id /\ log[n].kind \in RequestKind /\ id \in Nat /\ id <= asked
      <3>1. log[n] \in Entry /\ log[n].id \in Nat /\ log[n].kind \in RequestKind /\ log[n].id <= asked
        BY Entries DEF AInv
      <3> QED
        BY <2>1, <3>1 DEF Recorded
    <2>3. UNCHANGED <<policy, prompts, asked>>
      BY <1>4 DEF A!cmd_decide
    <2>4. ASSUME outcome = "APPROVED"
          PROVE  /\ CategoryOf[log[n].kind] \notin policy.deny
                 /\ \A m \in 1 .. Len(log) : Recorded(id, m) => log[m].status # "DENIED"
      <3>1. log[n].status # "DENIED" /\ CategoryOf[log[n].kind] \notin policy.deny
        BY <2>1, <2>4 DEF A!Decidable, A!policy_decide
      <3> QED
        BY <2>1, <2>2, <3>1 DEF AInv
    <2>5. outcome \in A!Status
      BY DEF A!Status
    <2> QED
      BY <1>0, <2>1, <2>2, <2>3, <2>4, <2>5, LogStep
  <1>5. CASE A!EditPolicy
    BY <1>5, SilentStep DEF A!EditPolicy
  <1>6. CASE UNCHANGED A!vars
    BY <1>0, <1>6, SilentStep DEF A!vars
  <1> QED
    BY <1>1, <1>2, <1>3, <1>4, <1>5, <1>6 DEF A!Next

\* Whatever the policy forbids and whoever edits it meanwhile, for any kinds and any
\* number of requests: no command approves what the policy it read always denies, but for
\* a request of low risk, which is approved unasked, nor a request that was denied when it
\* was made.
THEOREM DenialsHold == A!Spec => []HardBlocksHold
  <1>1. A!Init => AInv
    <2> SUFFICES ASSUME A!Init PROVE AInv
      OBVIOUS
    <2>1. log \in Seq(Entry) /\ Len(log) = 0
      BY DEF A!Init
    <2>2. policy \in A!Policy
      BY DEF A!Init, A!Policy
    <2> QED
      BY <2>1, <2>2 DEF A!Init, AInv, A!HardBlocksHold
  <1>2. AInv /\ [A!Next]_(A!vars) => AInv'
    BY ApprovalsNext
  <1>3. AInv => HardBlocksHold
    BY DEF AInv, HardBlocksHold
  <1> QED
    BY <1>1, <1>2, <1>3, PTL DEF A!Spec

------------------------------------------------------------------------------
(* Requirements.  A call that no other has overtaken holds a document with *)
(* every name that was saved, from where it loads it to where it writes    *)
(* it; and every document, loaded or stored, leaves opposed requirements   *)
(* to a decision.                                                          *)

Writing == {"drift_md", "open", "dump"}
Back == {"scaffold", "md", "load", "idle"}

Awaits(items) == \A i, j \in items : <<i.text, j.text>> \in Opposed => i.status # "ACTIVE"
Names(items) == {NameOf(i) : i \in items}

\* What a call may load, without being overtaken from its start.
Readable == yaml.kind \in {"doc", "absent"} \/ (yaml.kind = "empty" /\ \A t \in Thread : pc[t] # "dump")

Stored ==
    /\ Awaits(yaml.items)
    /\ yaml.kind # "doc" => yaml.items = {}
    /\ Readable => kept \subseteq Names(yaml.items)

Loaded(t) ==
    /\ Awaits(call[t].doc.items)
    /\ pc[t] \in Writing =>
          /\ call[t].doc.kind = "doc"
          /\ t \notin overtaken => kept \subseteq Names(call[t].doc.items)
    /\ pc[t] \in {"open", "dump"} => call[t].then \in Back
    /\ pc[t] = "drift_md" => call[t].then \in {"drift_md", "load", "idle"}

ReqInv == TypeOK /\ raw <= calls /\ Stored /\ \A t \in Thread : Loaded(t)

LEMMA BlankIsYaml ==
    /\ Blank \in Yaml /\ NoDoc("absent") \in Yaml /\ NoDoc("empty") \in Yaml /\ NoDoc("broken") \in Yaml
    /\ Blank.items = {} /\ Blank.kind = "doc" /\ NoCall \in Call /\ NoCall.doc = Blank /\ NoCall.then = "idle"
  <1>1. 0 \in Raw /\ 1 \in Id
    BY RequirementsAssumption DEF Raw, Id
  <1>2. \A k \in {"absent", "empty", "broken", "doc"} : NoDoc(k) \in Yaml
    BY <1>1 DEF NoDoc, Yaml
  <1>3. Blank \in Yaml
    BY <1>2 DEF Blank
  <1>4. NoCall \in Call
    BY <1>1, <1>3 DEF NoCall, Call, Label
  <1> QED
    BY <1>2, <1>3, <1>4 DEF Blank, NoDoc, NoCall

LEMMA NothingAwaits == Awaits({}) /\ Awaits(Blank.items)
  BY BlankIsYaml DEF Awaits

LEMMA ReqInit == Init => ReqInv
  <1> SUFFICES ASSUME Init PROVE ReqInv
    OBVIOUS
  <1>1. TypeOK
    <2>1. 0 \in Raw /\ md \in Markdown
      BY RequirementsAssumption DEF Init, Raw, Markdown
    <2>2. pc \in [Thread -> Label] /\ call \in [Thread -> Call] /\ yaml \in Yaml
      BY BlankIsYaml DEF Init, Label
    <2>3. 0 \in 0 .. MaxCalls /\ 0 \in 0 .. MaxCrashes
      BY RequirementsAssumption
    <2>4. raw \in Raw /\ baseline \in Raw \cup {Torn} /\ proposed \in BOOLEAN
      BY <2>1 DEF Init
    <2> QED
      BY <2>1, <2>2, <2>3, <2>4 DEF TypeOK, Init
  <1>2. yaml.kind = "absent" /\ yaml.items = {}
    BY DEF Init, NoDoc
  <1>3. Stored
    BY <1>2, NothingAwaits DEF Stored, Init
  <1>4. ASSUME NEW t \in Thread PROVE Loaded(t)
    BY NothingAwaits, BlankIsYaml DEF Loaded, Init, Writing
  <1>5. raw <= calls
    BY DEF Init
  <1> QED
    BY <1>1, <1>3, <1>4, <1>5 DEF ReqInv

------------------------------------------------------------------------------
(* Lemmas about documents.                                                 *)

\* Document doc with an item more keeps its names, and leaves what is opposed to
\* a decision when conflicts name at least what the new text is opposed to.
LEMMA AddedHolds ==
    ASSUME NEW doc \in Yaml, NEW text \in Text \cup {Decision}, NEW st \in {"ACTIVE", "NEED_PM_DECISION"},
           NEW ref \in Raw, NEW conflicts, doc.kind = "doc"
    PROVE  /\ Added(doc, text, st, ref, conflicts) \in Yaml
           /\ Added(doc, text, st, ref, conflicts).kind = "doc"
           /\ Names(doc.items) \subseteq Names(Added(doc, text, st, ref, conflicts).items)
  <1> DEFINE Old == {[i EXCEPT !.status = IF i.id \in conflicts THEN "NEED_PM_DECISION" ELSE @] : i \in doc.items}
             One == [id |-> doc.next, text |-> text, status |-> st, raw |-> ref]
             More == Added(doc, text, st, ref, conflicts)
  <1>1. doc.items \subseteq Item /\ doc.next \in Id
    BY DEF Yaml
  <1>2. Old \subseteq Item
    BY <1>1 DEF Item
  <1>3. One \in Item
    BY <1>1 DEF Item
  <1>4. doc.next + 1 \in Id
    BY <1>1 DEF Id
  <1>5. More.items = Old \cup {One} /\ More.kind = "doc" /\ More = [doc EXCEPT !.items = Old \cup {One}, !.next = @ + 1]
    BY DEF Added, Yaml
  <1>6. More \in Yaml
    BY <1>2, <1>3, <1>4, <1>5 DEF Yaml
  <1>7. Names(doc.items) \subseteq Names(Old)
    <2> SUFFICES ASSUME NEW i \in doc.items PROVE \E j \in Old : NameOf(i) = NameOf(j)
      BY DEF Names
    <2>1. [i EXCEPT !.status = IF i.id \in conflicts THEN "NEED_PM_DECISION" ELSE @] \in Old
      OBVIOUS
    <2>2. NameOf(i) = NameOf([i EXCEPT !.status = IF i.id \in conflicts THEN "NEED_PM_DECISION" ELSE @])
      BY <1>1 DEF NameOf, Item
    <2> QED
      BY <2>1, <2>2
  <1>8. Names(Old) \subseteq Names(More.items)
    BY <1>5 DEF Names
  <1> QED
    BY <1>5, <1>6, <1>7, <1>8

LEMMA AddedAwaits ==
    ASSUME NEW doc \in Yaml, NEW text \in Text \cup {Decision}, NEW st \in {"ACTIVE", "NEED_PM_DECISION"},
           NEW ref \in Raw, NEW conflicts, doc.kind = "doc", Awaits(doc.items),
           \A i \in doc.items : <<i.text, text>> \in Opposed => i.id \in conflicts,
           conflicts # {} => st # "ACTIVE"
    PROVE  Awaits(Added(doc, text, st, ref, conflicts).items)
  <1> DEFINE Put(i) == [i EXCEPT !.status = IF i.id \in conflicts THEN "NEED_PM_DECISION" ELSE @]
             One == [id |-> doc.next, text |-> text, status |-> st, raw |-> ref]
             More == Added(doc, text, st, ref, conflicts)
  <1>1. doc.items \subseteq Item
    BY DEF Yaml
  <1>2. More.items = {Put(i) : i \in doc.items} \cup {One}
    BY DEF Added, Yaml
  <1>3. \A i \in doc.items : /\ Put(i).text = i.text
                             /\ Put(i).status = "ACTIVE" => i.status = "ACTIVE" /\ i.id \notin conflicts
    BY <1>1 DEF Item
  <1>4. One.text = text /\ One.status = st
    OBVIOUS
  <1> HIDE DEF Put, One
  <1>5. ASSUME NEW i \in doc.items, NEW j \in doc.items, <<Put(i).text, Put(j).text>> \in Opposed
        PROVE  Put(i).status # "ACTIVE"
    BY <1>3, <1>5 DEF Awaits
  <1>6. ASSUME NEW i \in doc.items, <<Put(i).text, One.text>> \in Opposed
        PROVE  Put(i).status # "ACTIVE"
    BY <1>3, <1>4, <1>6
  <1>7. ASSUME NEW i \in doc.items, <<One.text, Put(i).text>> \in Opposed
        PROVE  One.status # "ACTIVE"
    <2>1. <<i.text, text>> \in Opposed
      <3>1. <<text, i.text>> \in Opposed
        BY <1>3, <1>4, <1>7
      <3>2. <<<<text, i.text>>[2], <<text, i.text>>[1]>> \in Opposed
        BY <3>1, RequirementsAssumption
      <3> QED
        BY <3>2
    <2> QED
      BY <2>1, <1>4
  <1>8. <<One.text, One.text>> \notin Opposed
    <2> SUFFICES ASSUME <<text, text>> \in Opposed PROVE FALSE
      BY <1>4
    <2>1. <<text, text>>[1] # <<text, text>>[2]
      BY RequirementsAssumption
    <2> QED
      BY <2>1
  <1>9. \A i, j \in More.items : <<i.text, j.text>> \in Opposed => i.status # "ACTIVE"
    BY <1>2, <1>5, <1>6, <1>7, <1>8
  <1> QED
    BY <1>9 DEF Awaits

LEMMA FixedHolds ==
    ASSUME ReqInv
    PROVE  Fixed(yaml) \in Yaml /\ Fixed(yaml).kind = "doc" /\ Fixed(yaml).items = yaml.items
  BY DEF ReqInv, TypeOK, Fixed, Yaml

\* What a call loads keeps every name, unless the call is overtaken from its start.
LEMMA LoadKeeps ==
    ASSUME ReqInv, NEW t \in Thread, pc[t] # "dump", Loads(t), yaml.kind # "broken"
    PROVE  /\ t \notin overtaken' => kept \subseteq Names(yaml.items)
           /\ overtaken' \subseteq Thread /\ overtaken' \ {t} = overtaken \ {t}
  <1>1. yaml.kind \in {"absent", "empty", "broken", "doc"} /\ overtaken \subseteq Thread
    BY DEF ReqInv, TypeOK, Yaml
  <1>2. ASSUME t \notin overtaken' PROVE \A u \in Thread : pc[u] # "dump"
    BY <1>2 DEF Loads, Others
  <1> QED
    BY <1>1, <1>2 DEF Loads, ReqInv, Stored, Readable

------------------------------------------------------------------------------
(* Steps of a call that write no document.                                 *)

LEMMA Goes ==
    ASSUME ReqInv, NEW t \in Thread, NEW l \in Label, NEW c \in Call, pc[t] # "dump",
           pc' = [pc EXCEPT ![t] = l], call' = [call EXCEPT ![t] = c], yaml' = yaml, kept' = kept,
           overtaken' \ {t} = overtaken \ {t}, Awaits(c.doc.items),
           l \in Writing => /\ c.doc.kind = "doc"
                            /\ t \notin overtaken' => kept \subseteq Names(c.doc.items),
           l \in {"open", "dump"} => c.then \in Back,
           l = "drift_md" => c.then \in {"drift_md", "load", "idle"}
    PROVE  /\ pc' \in [Thread -> Label] /\ call' \in [Thread -> Call]
           /\ Stored' /\ \A u \in Thread : Loaded(u)'
  <1>1. pc \in [Thread -> Label] /\ call \in [Thread -> Call]
    BY DEF ReqInv, TypeOK
  <1>2. pc' \in [Thread -> Label] /\ call' \in [Thread -> Call]
    BY <1>1
  <1>3. pc'[t] = l /\ call'[t] = c /\ \A u \in Thread \ {t} : pc'[u] = pc[u] /\ call'[u] = call[u]
    BY <1>1
  <1>4. Readable' => Readable
    BY <1>3 DEF Readable
  <1>5. Stored'
    BY <1>4 DEF ReqInv, Stored
  <1>6. Loaded(t)'
    BY <1>3 DEF Loaded
  <1>7. ASSUME NEW u \in Thread \ {t} PROVE Loaded(u)'
    <2>1. Loaded(u) /\ (u \in overtaken' <=> u \in overtaken)
      BY DEF ReqInv
    <2> QED
      BY <1>3, <2>1 DEF Loaded
  <1> QED
    BY <1>2, <1>5, <1>6, <1>7

\* The rest of the type is one conjunct each.
Rest ==
    /\ raw \in Raw /\ baseline \in Raw \cup {Torn} /\ proposed \in BOOLEAN
    /\ yaml \in Yaml /\ md \in Markdown
    /\ overtaken \subseteq Thread /\ mixed \subseteq Thread /\ kept \subseteq Name
    /\ calls \in 0 .. MaxCalls /\ crashes \in 0 .. MaxCrashes
    /\ raw <= calls

LEMMA HasRest == ReqInv => Rest
  BY DEF ReqInv, TypeOK, Rest

LEMMA ReqFrom ==
    ASSUME Rest', pc' \in [Thread -> Label], call' \in [Thread -> Call], Stored', \A u \in Thread : Loaded(u)'
    PROVE  ReqInv'
  BY DEF ReqInv, TypeOK, Rest

\* A call begins.
LEMMA Begins ==
    ASSUME ReqInv, NEW t \in Thread, NEW l \in Label \ Writing, NEW c \in Call,
           Begin(t, l, c), Awaits(c.doc.items), yaml' = yaml, md' = md, baseline' = baseline, proposed' = proposed,
           raw' \in {raw, raw + 1}
    PROVE  ReqInv'
  <1>1. pc[t] # "dump" /\ l \notin {"open", "dump", "drift_md"}
    BY DEF Begin, Writing
  <1>2. pc' = [pc EXCEPT ![t] = l] /\ call' = [call EXCEPT ![t] = c] /\ kept' = kept /\ overtaken' = overtaken
    BY DEF Begin
  <1>3. pc' \in [Thread -> Label] /\ call' \in [Thread -> Call] /\ Stored' /\ \A u \in Thread : Loaded(u)'
    BY <1>1, <1>2, Goes
  <1>4. Rest'
    <2>1. Rest
      BY HasRest
    <2>2. calls' = calls + 1 /\ calls < MaxCalls /\ mixed' = mixed /\ crashes' = crashes
      BY DEF Begin
    <2>3. calls' \in 0 .. MaxCalls /\ raw' \in Raw /\ raw' <= calls'
      BY <2>1, <2>2, RequirementsAssumption DEF Rest, Raw
    <2> QED
      BY <2>1, <2>2, <2>3, <1>2 DEF Rest
  <1> QED
    BY <1>3, <1>4, ReqFrom

\* A call goes on, and writes at most a baseline, a proposal or the rendering.
LEMMA GoesOn ==
    ASSUME ReqInv, NEW t \in Thread, NEW l \in Label, NEW c \in Call, pc[t] # "dump",
           Goto(t, l, c), Awaits(c.doc.items),
           yaml' = yaml, raw' = raw, mixed' = mixed,
           baseline' \in Raw \cup {Torn}, proposed' \in BOOLEAN, md' \in Markdown,
           overtaken' \subseteq Thread, overtaken' \ {t} = overtaken \ {t},
           l \in Writing => /\ c.doc.kind = "doc"
                            /\ t \notin overtaken' => kept \subseteq Names(c.doc.items),
           l \in {"open", "dump"} => c.then \in Back,
           l = "drift_md" => c.then \in {"drift_md", "load", "idle"}
    PROVE  ReqInv'
  <1> DEFINE d == IF l = "idle" THEN NoCall ELSE c
  <1>1. d \in Call /\ Awaits(d.doc.items) /\ (l \in Writing => d = c)
    BY BlankIsYaml, NothingAwaits DEF Writing
  <1>2. pc' = [pc EXCEPT ![t] = l] /\ call' = [call EXCEPT ![t] = d] /\ kept' = kept
        /\ calls' = calls /\ crashes' = crashes
    BY DEF Goto, counters
  <1> HIDE DEF d
  <1>3. pc' \in [Thread -> Label] /\ call' \in [Thread -> Call] /\ Stored' /\ \A u \in Thread : Loaded(u)'
    <2>1. l \in {"open", "dump", "drift_md"} => d = c
      BY <1>1 DEF Writing
    <2>2. l \in Writing => d.doc.kind = "doc" /\ (t \notin overtaken' => kept \subseteq Names(d.doc.items))
      BY <1>1
    <2>3. l \in {"open", "dump"} => d.then \in Back
      BY <2>1
    <2>4. l = "drift_md" => d.then \in {"drift_md", "load", "idle"}
      BY <2>1
    <2> QED
      BY <1>1, <1>2, <2>2, <2>3, <2>4, Goes
  <1>4. Rest'
    BY HasRest, <1>2 DEF Rest
  <1> QED
    BY <1>3, <1>4, ReqFrom

------------------------------------------------------------------------------
(* The actions.                                                            *)

\* A call of the API or the command line begins.
LEMMA StepBegins ==
    ASSUME ReqInv, NEW t \in Thread,
           \/ \E text \in Text : add_requirement_raw_first(t, text) \/ add_requirement_system_update(t, text)
           \/ propose_baseline_v2(t) \/ rebuild_requirements_md(t)
    PROVE  ReqInv'
  <1>1. raw \in Raw /\ raw <= calls /\ yaml \in Yaml /\ Awaits(yaml.items)
    BY DEF ReqInv, TypeOK, Stored
  <1>2. ASSUME calls < MaxCalls PROVE raw + 1 \in Raw
    BY <1>1, <1>2, RequirementsAssumption DEF Raw, ReqInv, TypeOK
  <1>3. ASSUME NEW text \in Text, add_requirement_raw_first(t, text) PROVE ReqInv'
    <2> DEFINE c == [NoCall EXCEPT !.kind = "add", !.text = text, !.raw = raw + 1]
    <2>1. Begin(t, "baseline", c) /\ raw' = raw + 1 /\ UNCHANGED <<baseline, proposed, yaml, md>>
      BY <1>3 DEF add_requirement_raw_first, capture_raw_input
    <2>2. c \in Call /\ c.doc = Blank
      BY <1>2, <2>1, BlankIsYaml DEF Begin, Call
    <2> HIDE DEF c
    <2> QED
      BY <2>1, <2>2, Begins, NothingAwaits DEF Label, Writing
  <1>4. ASSUME NEW text \in Text, add_requirement_system_update(t, text) PROVE ReqInv'
    <2> DEFINE c == [NoCall EXCEPT !.kind = "system", !.text = text]
    <2>1. Begin(t, "scaffold", c) /\ UNCHANGED <<raw, baseline, proposed, yaml, md>>
      BY <1>4 DEF add_requirement_system_update, files
    <2>2. c \in Call /\ c.doc = Blank
      BY BlankIsYaml DEF Call
    <2> HIDE DEF c
    <2> QED
      BY <2>1, <2>2, Begins, NothingAwaits DEF Label, Writing
  <1>5. ASSUME propose_baseline_v2(t) PROVE ReqInv'
    <2> DEFINE c == [NoCall EXCEPT !.kind = "v2", !.text = Decision, !.raw = raw + 1]
    <2>1. Begin(t, "scaffold", c) /\ raw' = raw + 1 /\ UNCHANGED <<baseline, proposed, yaml, md>>
      BY <1>5 DEF propose_baseline_v2, capture_raw_input
    <2>2. c \in Call /\ c.doc = Blank
      BY <1>2, <2>1, BlankIsYaml DEF Begin, Call
    <2> HIDE DEF c
    <2> QED
      BY <2>1, <2>2, Begins, NothingAwaits DEF Label, Writing
  <1>6. ASSUME rebuild_requirements_md(t) PROVE ReqInv'
    <2> DEFINE c == [NoCall EXCEPT !.doc = yaml]
    <2>1. Begin(t, "md", c) /\ UNCHANGED <<raw, baseline, proposed, yaml, md>>
      BY <1>6 DEF rebuild_requirements_md, files
    <2>2. c \in Call /\ c.doc = yaml
      BY <1>1, BlankIsYaml DEF Call
    <2> HIDE DEF c
    <2> QED
      BY <1>1, <2>1, <2>2, Begins DEF Label, Writing
  <1> QED
    BY <1>3, <1>4, <1>5, <1>6

\* What the steps of a call may rely on.
LEMMA Known ==
    ASSUME ReqInv, NEW t \in Thread
    PROVE  /\ call[t] \in Call /\ call[t].doc \in Yaml /\ call[t].then \in Label /\ call[t].raw \in Raw
           /\ call[t].text \in Text \cup {Decision} /\ Awaits(call[t].doc.items) /\ Loaded(t)
           /\ baseline \in Raw \cup {Torn} /\ proposed \in BOOLEAN /\ md \in Markdown /\ yaml \in Yaml
           /\ Awaits(yaml.items) /\ overtaken \subseteq Thread
           /\ render_requirements_md(call[t].doc) \in Markdown
  <1>1. call[t] \in Call
    BY DEF ReqInv, TypeOK
  <1>2. call[t].doc \in Yaml /\ call[t].doc.items \in SUBSET Item
    BY <1>1 DEF Call, Yaml
  <1>3. call[t].then \in Label /\ call[t].raw \in Raw /\ call[t].text \in Text \cup {Decision}
    BY <1>1 DEF Call
  <1>4. render_requirements_md(call[t].doc) \in Markdown
    BY <1>2 DEF render_requirements_md, Markdown
  <1> QED
    BY <1>1, <1>2, <1>3, <1>4 DEF ReqInv, TypeOK, Stored, Loaded

\* The scaffold and the baselines.
LEMMA StepBaselines ==
    ASSUME ReqInv, NEW t \in Thread, ensure_baseline_v1(t) \/ baseline_v2(t)
    PROVE  ReqInv'
  <1>1. pc[t] # "dump" /\ overtaken' = overtaken /\ mixed' = mixed
    BY DEF ensure_baseline_v1, baseline_v2, Raise
  <1>2. yaml' = yaml /\ raw' = raw /\ md' = md
    BY DEF ensure_baseline_v1, baseline_v2, Raise, files
  <1>3. baseline' \in Raw \cup {Torn} /\ proposed' \in BOOLEAN
    BY Known DEF ensure_baseline_v1, baseline_v2, Raise, files
  <1>4. \E l \in {"baseline_put", "scaffold", "v2_put", "idle", "decide"}, c \in {call[t], NoCall} : Goto(t, l, c)
    BY DEF ensure_baseline_v1, baseline_v2, Raise, Goto
  <1>5. PICK l \in {"baseline_put", "scaffold", "v2_put", "idle", "decide"}, c \in {call[t], NoCall} : Goto(t, l, c)
    BY <1>4
  <1>6. c \in Call /\ Awaits(c.doc.items)
    BY <1>5, Known, BlankIsYaml, NothingAwaits
  <1>7. l \in Label /\ l \notin {"open", "dump", "drift_md"}
    BY <1>5 DEF Label
  <1> QED
    BY <1>1, <1>2, <1>3, <1>5, <1>6, <1>7, Known, GoesOn DEF Writing

LEMMA StepScaffold ==
    ASSUME ReqInv, NEW t \in Thread, ensure_scaffold(t)
    PROVE  ReqInv'
  <1> DEFINE c1 == [call[t] EXCEPT !.doc = Blank, !.then = "scaffold"]
             c2 == [call[t] EXCEPT !.doc = Blank]
  <1>1. c1 \in Call /\ c1.doc = Blank /\ c1.then = "scaffold" /\ c2 \in Call /\ c2.doc = Blank
    BY Known, BlankIsYaml DEF Call, Label
  <1>2. AfterScaffold(call[t]) \in Label \ Writing
    BY DEF AfterScaffold, Label, Writing
  <1>3. pc[t] = "scaffold" /\ UNCHANGED <<raw, baseline, proposed, yaml, mixed>>
    BY DEF ensure_scaffold
  <1>4. \/ yaml.kind = "absent" /\ Goto(t, "open", c1) /\ Loads(t) /\ UNCHANGED md
        \/ /\ md' = IF md.kind = "absent" THEN [md EXCEPT !.kind = "scaffold"] ELSE md
           /\ Goto(t, AfterScaffold(call[t]), c2) /\ UNCHANGED overtaken
    BY DEF ensure_scaffold
  <1> HIDE DEF c1, c2
  <1>5. ASSUME yaml.kind = "absent", Goto(t, "open", c1), Loads(t), md' = md PROVE ReqInv'
    <2>1. /\ t \notin overtaken' => kept \subseteq Names(yaml.items)
          /\ overtaken' \subseteq Thread /\ overtaken' \ {t} = overtaken \ {t}
      BY <1>3, <1>5, LoadKeeps
    <2>2. yaml.items = {} /\ Blank.items = {} /\ Blank.kind = "doc"
      BY <1>5, BlankIsYaml DEF ReqInv, Stored
    <2>3. t \notin overtaken' => kept \subseteq Names(c1.doc.items)
      BY <2>1, <2>2, <1>1
    <2>4. "open" \in Label /\ "open" # "drift_md" /\ c1.then \in Back
      BY <1>1 DEF Label, Back
    <2> QED
      BY <1>1, <1>3, <1>5, <2>1, <2>2, <2>3, <2>4, Known, NothingAwaits, GoesOn
  <1>6. ASSUME md' = IF md.kind = "absent" THEN [md EXCEPT !.kind = "scaffold"] ELSE md,
               Goto(t, AfterScaffold(call[t]), c2), overtaken' = overtaken
        PROVE  ReqInv'
    <2>1. md' \in Markdown
      BY <1>6, Known DEF Markdown
    <2>2. AfterScaffold(call[t]) \notin {"open", "dump", "drift_md"}
      BY <1>2 DEF Writing
    <2> QED
      BY <1>1, <1>2, <1>3, <1>6, <2>1, <2>2, Known, NothingAwaits, GoesOn
  <1> QED
    BY <1>4, <1>5, <1>6

\* The renderings, and the check after an addition.
LEMMA StepRenders ==
    ASSUME ReqInv, NEW t \in Thread, render(t) \/ post_check(t)
    PROVE  ReqInv'
  <1> DEFINE c1 == [call[t] EXCEPT !.kind = "post", !.text = Decision, !.doc = Blank]
             c2 == [call[t] EXCEPT !.doc = yaml]
             c3 == [call[t] EXCEPT !.doc = Blank]
  <1>1. c1 \in Call /\ c1.doc = Blank /\ c2 \in Call /\ c2.doc = yaml /\ c3 \in Call /\ c3.doc = Blank
    BY Known, BlankIsYaml DEF Call
  <1>2. pc[t] # "dump" /\ overtaken' = overtaken /\ mixed' = mixed /\ yaml' = yaml /\ raw' = raw
        /\ baseline' = baseline /\ proposed' = proposed
    BY DEF render, post_check, files
  <1>3. md' \in Markdown
    BY Known DEF render, post_check, files
  <1>4. \E l \in {"post", "idle", "post_md", "drift"}, c \in {c1, c2, c3, call[t], NoCall} : Goto(t, l, c)
    BY DEF render, post_check
  <1> HIDE DEF c1, c2, c3
  <1>5. PICK l \in {"post", "idle", "post_md", "drift"}, c \in {c1, c2, c3, call[t], NoCall} : Goto(t, l, c)
    BY <1>4
  <1>6. c \in Call /\ Awaits(c.doc.items)
    BY <1>1, <1>5, Known, BlankIsYaml, NothingAwaits
  <1>7. l \in Label /\ l \notin {"open", "dump", "drift_md"}
    BY <1>5 DEF Label
  <1> QED
    BY <1>2, <1>3, <1>5, <1>6, <1>7, Known, GoesOn DEF Writing

\* The check for drift loads the document, renders it, and saves it if it changed it.
LEMMA StepDrift ==
    ASSUME ReqInv, NEW t \in Thread, drift_check(t)
    PROVE  ReqInv'
  <1> DEFINE then == IF Fixed(yaml) = yaml THEN "drift_md" ELSE AfterDrift(call[t])
             c == [call[t] EXCEPT !.doc = Fixed(yaml), !.then = then]
  <1>1. then \in {"drift_md", "load", "idle"}
    BY DEF AfterDrift
  <1> HIDE DEF then
  <1>2. c \in Call /\ c.doc = Fixed(yaml) /\ c.then = then
    BY <1>1, Known, FixedHolds DEF Call, Label
  <1>3. pc[t] = "drift" /\ UNCHANGED <<raw, baseline, proposed, yaml, md, mixed>>
    BY DEF drift_check, files
  <1>4. \/ Goto(t, "decide", call[t]) /\ UNCHANGED overtaken
        \/ yaml.kind # "broken" /\ Goto(t, "drift_md", c) /\ Loads(t)
    BY DEF drift_check, then
  <1> HIDE DEF c
  <1>5. ASSUME Goto(t, "decide", call[t]), overtaken' = overtaken PROVE ReqInv'
    <2>1. "decide" \in Label /\ "decide" \notin Writing
      BY DEF Label, Writing
    <2> QED
      BY <2>1, <1>3, <1>5, Known, GoesOn
  <1>6. ASSUME yaml.kind # "broken", Goto(t, "drift_md", c), Loads(t) PROVE ReqInv'
    <2>1. /\ t \notin overtaken' => kept \subseteq Names(yaml.items)
          /\ overtaken' \subseteq Thread /\ overtaken' \ {t} = overtaken \ {t}
      BY <1>3, <1>6, LoadKeeps
    <2>2. c.doc.kind = "doc" /\ c.doc.items = yaml.items
      BY <1>2, FixedHolds
    <2>3. "drift_md" \in Label
      BY DEF Label
    <2> QED
      BY <1>1, <1>2, <1>3, <1>6, <2>1, <2>2, <2>3, Known, GoesOn
  <1> QED
    BY <1>4, <1>5, <1>6

LEMMA StepDriftRender ==
    ASSUME ReqInv, NEW t \in Thread, drift_render(t)
    PROVE  ReqInv'
  <1> DEFINE c1 == [call[t] EXCEPT !.doc = Blank, !.then = "idle"]
  <1>1. c1 \in Call /\ c1.doc = Blank
    BY Known, BlankIsYaml DEF Call, Label
  <1>2. /\ pc[t] = "drift_md" /\ md' = render_requirements_md(call[t].doc)
        /\ UNCHANGED <<raw, baseline, proposed, yaml, overtaken, mixed>>
    BY DEF drift_render
  <1>3. IF call[t].then = "drift_md" THEN Goto(t, AfterDrift(call[t]), c1) ELSE Goto(t, "open", call[t])
    BY DEF drift_render
  <1> HIDE DEF c1
  <1>4. ASSUME Goto(t, AfterDrift(call[t]), c1) PROVE ReqInv'
    <2>1. AfterDrift(call[t]) \in Label /\ AfterDrift(call[t]) \notin Writing
      BY DEF AfterDrift, Label, Writing
    <2>2. AfterDrift(call[t]) \notin {"open", "dump", "drift_md"}
      BY <2>1 DEF Writing
    <2> QED
      BY <1>1, <1>2, <1>4, <2>1, <2>2, Known, NothingAwaits, GoesOn
  <1>5. ASSUME call[t].then # "drift_md", Goto(t, "open", call[t]) PROVE ReqInv'
    <2>1. /\ call[t].doc.kind = "doc" /\ (t \notin overtaken => kept \subseteq Names(call[t].doc.items))
          /\ call[t].then \in Back
      BY <1>2, <1>5, Known DEF Loaded, Writing, Back
    <2>2. "open" \in Label
      BY DEF Label
    <2> QED
      BY <1>2, <1>5, <2>1, <2>2, Known, GoesOn
  <1> QED
    BY <1>3, <1>4, <1>5

\* A call adds an item to the document that it has loaded: with a text, or as a
\* decision to be made.
LEMMA Adds ==
    ASSUME ReqInv, NEW t \in Thread, NEW text \in Text \cup {Decision}, NEW c,
           NEW st \in {"ACTIVE", "NEED_PM_DECISION"}, NEW conflicts,
           pc[t] \in {"load", "decide"}, yaml.kind = "doc",
           \A i \in yaml.items : <<i.text, text>> \in Opposed => i.id \in conflicts,
           conflicts # {} => st # "ACTIVE",
           Loads(t), UNCHANGED <<raw, baseline, proposed, yaml, md, mixed>>,
           c.doc = Added(yaml, text, st, call[t].raw, conflicts), c.then = "md",
           c.doc \in Yaml => c \in Call,
           Goto(t, "open", c)
    PROVE  ReqInv'
  <1> DEFINE doc == Added(yaml, text, st, call[t].raw, conflicts)
  <1>1. doc \in Yaml /\ doc.kind = "doc" /\ Names(yaml.items) \subseteq Names(doc.items) /\ Awaits(doc.items)
    BY Known, AddedHolds, AddedAwaits
  <1>3. c \in Call /\ c.doc = doc /\ c.then = "md"
    BY <1>1
  <1> HIDE DEF doc
  <1>4. /\ t \notin overtaken' => kept \subseteq Names(yaml.items)
        /\ overtaken' \subseteq Thread /\ overtaken' \ {t} = overtaken \ {t}
    BY LoadKeeps
  <1>5. "open" \in Label /\ c.then \in Back /\ "open" # "drift_md"
    BY <1>3 DEF Label, Back
  <1> QED
    BY <1>1, <1>3, <1>4, <1>5, Known, GoesOn

LEMMA StepAdds ==
    ASSUME ReqInv, NEW t \in Thread, add_requirement(t)
    PROVE  ReqInv'
  <1> DEFINE c1 == [call[t] EXCEPT !.kind = "post", !.text = Decision]
  <1>1. c1 \in Call /\ c1.doc = call[t].doc
    BY Known DEF Call
  <1>2. pc[t] = "load"
    BY DEF add_requirement
  <1>3. ASSUME Raise(t) PROVE ReqInv'
    <2>1. /\ Goto(t, "idle", NoCall)
          /\ UNCHANGED <<raw, baseline, proposed, yaml, md, overtaken, mixed>>
      BY <1>3 DEF Raise, Goto, files
    <2>2. "idle" \in Label /\ "idle" \notin Writing
      BY DEF Label, Writing
    <2> QED
      BY <1>2, <2>1, <2>2, Known, BlankIsYaml, NothingAwaits, GoesOn
  <1>4. ASSUME Goto(t, "post", c1), UNCHANGED <<files, overtaken, mixed>> PROVE ReqInv'
    <2>1. UNCHANGED <<raw, baseline, proposed, yaml, md, overtaken, mixed>>
      BY <1>4 DEF files
    <2>2. "post" \in Label /\ "post" \notin Writing
      BY DEF Label, Writing
    <2> HIDE DEF c1
    <2> QED
      BY <1>1, <1>2, <1>4, <2>1, <2>2, Known, GoesOn
  <1>5. ASSUME yaml.kind = "doc", NEW more \in SUBSET {i.id : i \in yaml.items}, NEW uncertain \in BOOLEAN,
               LET conflicts == detect_conflicts(yaml.items, call[t].text) \cup more
                   st == IF conflicts # {} \/ uncertain THEN "NEED_PM_DECISION" ELSE "ACTIVE"
               IN Goto(t, "open", [call[t] EXCEPT
                          !.doc = Added(yaml, call[t].text, st, call[t].raw, conflicts),
                          !.then = "md"]),
               Loads(t), UNCHANGED <<files, mixed>>
        PROVE  ReqInv'
    <2> DEFINE conflicts == detect_conflicts(yaml.items, call[t].text) \cup more
               st == IF conflicts # {} \/ uncertain THEN "NEED_PM_DECISION" ELSE "ACTIVE"
    <2>1. \A i \in yaml.items : <<i.text, call[t].text>> \in Opposed => i.id \in conflicts
      BY DEF detect_conflicts
    <2>2. st \in {"ACTIVE", "NEED_PM_DECISION"} /\ (conflicts # {} => st # "ACTIVE")
      OBVIOUS
    <2>3. Goto(t, "open", [call[t] EXCEPT !.doc = Added(yaml, call[t].text, st, call[t].raw, conflicts),
                                          !.then = "md"])
      BY <1>5
    <2>4. UNCHANGED <<raw, baseline, proposed, yaml, md, mixed>>
      BY <1>5 DEF files
    <2> HIDE DEF conflicts, st
    <2> DEFINE c2 == [call[t] EXCEPT !.doc = Added(yaml, call[t].text, st, call[t].raw, conflicts),
                                     !.then = "md"]
    <2>5. /\ c2.doc = Added(yaml, call[t].text, st, call[t].raw, conflicts) /\ c2.then = "md"
          /\ c2.doc \in Yaml => c2 \in Call
      BY Known DEF Call, Label
    <2>6. Goto(t, "open", c2)
      BY <2>3
    <2>7. call[t].text \in Text \cup {Decision} /\ pc[t] \in {"load", "decide"}
      BY <1>2, Known
    <2>8. yaml.kind = "doc" /\ Loads(t)
      BY <1>5
    <2> HIDE DEF c1, c2
    <2>9. ASSUME NEW text, NEW s, NEW cf, NEW c,
                 text \in Text \cup {Decision}, s \in {"ACTIVE", "NEED_PM_DECISION"}, cf # {} => s # "ACTIVE",
                 \A i \in yaml.items : <<i.text, text>> \in Opposed => i.id \in cf,
                 c.doc = Added(yaml, text, s, call[t].raw, cf), c.then = "md",
                 c.doc \in Yaml => c \in Call, Goto(t, "open", c)
          PROVE  ReqInv'
      BY <2>4, <2>7, <2>8, <2>9, Adds
    <2>10. call[t].text \in Text \cup {Decision} /\ st \in {"ACTIVE", "NEED_PM_DECISION"}
      BY <2>2, <2>7
    <2>11. conflicts # {} => st # "ACTIVE"
      BY <2>2
    <2> QED
      BY <2>1, <2>5, <2>6, <2>9, <2>10, <2>11
  <1> QED
    BY <1>3, <1>4, <1>5 DEF add_requirement

LEMMA StepDecides ==
    ASSUME ReqInv, NEW t \in Thread, append_need_pm_decision_item(t)
    PROVE  ReqInv'
  <1>1. pc[t] = "decide" /\ UNCHANGED <<raw, baseline, proposed, yaml, md, mixed>>
    BY DEF append_need_pm_decision_item, files
  <1>2. ASSUME Goto(t, "idle", NoCall), overtaken' = overtaken PROVE ReqInv'
    <2>1. "idle" \in Label /\ "idle" \notin Writing
      BY DEF Label, Writing
    <2> QED
      BY <1>1, <1>2, <2>1, Known, BlankIsYaml, NothingAwaits, GoesOn
  <1>3. ASSUME yaml.kind = "doc", Loads(t),
               Goto(t, "open", [call[t] EXCEPT
                       !.kind = "decide", !.text = Decision,
                       !.doc = Added(yaml, Decision, "NEED_PM_DECISION", call[t].raw, {}),
                       !.then = "md"])
        PROVE  ReqInv'
    <2>1. \A i \in yaml.items : <<i.text, Decision>> \notin Opposed
      BY RequirementsAssumption
    <2> DEFINE c == [call[t] EXCEPT !.kind = "decide", !.text = Decision,
                                    !.doc = Added(yaml, Decision, "NEED_PM_DECISION", call[t].raw, {}),
                                    !.then = "md"]
    <2>2. /\ c.doc = Added(yaml, Decision, "NEED_PM_DECISION", call[t].raw, {}) /\ c.then = "md"
          /\ c.doc \in Yaml => c \in Call
      BY Known DEF Call, Label
    <2>3. Goto(t, "open", c)
      BY <1>3
    <2> HIDE DEF c
    <2> QED
      BY <1>1, <1>3, <2>1, <2>2, <2>3, Adds
  <1> QED
    BY <1>2, <1>3 DEF append_need_pm_decision_item

\* The document is truncated: nobody can read it before it is written again.
LEMMA StepOpens ==
    ASSUME ReqInv, NEW t \in Thread, open(t)
    PROVE  ReqInv'
  <1>1. /\ pc[t] = "open" /\ yaml' = NoDoc("empty") /\ mixed' = mixed \ {t} /\ Goto(t, "dump", call[t])
        /\ UNCHANGED <<raw, baseline, proposed, md, overtaken>>
    BY DEF open
  <1>2. pc \in [Thread -> Label] /\ call \in [Thread -> Call]
    BY DEF ReqInv, TypeOK
  <1>3. pc' = [pc EXCEPT ![t] = "dump"] /\ call' = call /\ UNCHANGED <<kept, calls, crashes>>
    BY <1>1, <1>2 DEF Goto, counters
  <1>4. pc' \in [Thread -> Label] /\ pc'[t] = "dump" /\ \A u \in Thread \ {t} : pc'[u] = pc[u]
    BY <1>2, <1>3 DEF Label
  <1>5. yaml'.kind = "empty" /\ yaml'.items = {}
    BY <1>1 DEF NoDoc
  <1>6. Stored'
    BY <1>4, <1>5, NothingAwaits DEF Stored, Readable
  <1>7. ASSUME NEW u \in Thread PROVE Loaded(u)'
    <2>1. Loaded(u) /\ Loaded(t)
      BY DEF ReqInv
    <2> QED
      BY <1>1, <1>3, <1>4, <2>1 DEF Loaded, Writing
  <1>8. Rest'
    BY HasRest, <1>1, <1>3, BlankIsYaml DEF Rest
  <1> QED
    BY <1>2, <1>3, <1>4, <1>6, <1>7, <1>8, ReqFrom

\* The document is written, over whatever other calls have written since it was
\* loaded; they are overtaken, and so is every call that is under way.
LEMMA StepDumps ==
    ASSUME ReqInv, NEW t \in Thread, dump(t)
    PROVE  ReqInv'
  <1>1. /\ pc[t] = "dump"
        /\ yaml' = call[t].doc \/ yaml' = NoDoc("broken")
        /\ overtaken' = (overtaken \cup {u \in Thread : pc[u] # "idle"}) \ {t}
        /\ mixed' = (mixed \cup Others(t, "dump")) \ {t}
        /\ kept' = New(call[t]) \cup (IF t \in overtaken THEN {} ELSE kept)
        /\ pc' = [pc EXCEPT ![t] = call[t].then]
        /\ call' = [call EXCEPT ![t] = IF call[t].then = "idle" THEN NoCall ELSE @]
        /\ UNCHANGED <<raw, baseline, proposed, md, calls, crashes>>
    BY DEF dump, counters
  <1>2. pc \in [Thread -> Label] /\ call \in [Thread -> Call] /\ yaml \in Yaml
    BY DEF ReqInv, TypeOK
  <1>3. /\ call[t].doc.kind = "doc" /\ (t \notin overtaken => kept \subseteq Names(call[t].doc.items))
        /\ call[t].then \in Back
    BY <1>1, Known DEF Loaded, Writing
  <1>4. pc' \in [Thread -> Label] /\ call' \in [Thread -> Call]
    BY <1>1, <1>2, Known, BlankIsYaml
  <1>5. New(call[t]) \subseteq Names(call[t].doc.items) /\ Names(call[t].doc.items) \subseteq Name
    <2>1. call[t].doc.items \subseteq Item
      BY Known DEF Yaml
    <2>2. \A i \in Item : NameOf(i) \in Name
      BY DEF NameOf, Item, Name
    <2> QED
      BY <2>1, <2>2 DEF New, Names
  <1>6. kept' \subseteq Names(call[t].doc.items)
    BY <1>1, <1>3, <1>5
  <1>7. Stored'
    <2>1. NoDoc("broken").kind = "broken" /\ NoDoc("broken").items = {}
      BY DEF NoDoc
    <2>2. CASE yaml' = call[t].doc
      BY <1>3, <1>6, <2>2, Known DEF Stored, Readable
    <2>3. CASE yaml' = NoDoc("broken")
      BY <2>1, <2>3, NothingAwaits DEF Stored, Readable
    <2> QED
      BY <1>1, <2>2, <2>3
  <1>8. Loaded(t)'
    <2>1. pc'[t] = call[t].then /\ call'[t] \in {call[t], NoCall}
      BY <1>1, <1>2
    <2>2. pc'[t] \notin Writing /\ pc'[t] \notin {"open", "dump", "drift_md"}
      BY <1>3, <2>1 DEF Back, Writing
    <2>3. Awaits(call'[t].doc.items)
      BY <2>1, Known, BlankIsYaml, NothingAwaits
    <2> QED
      BY <2>2, <2>3 DEF Loaded
  <1>9. ASSUME NEW u \in Thread \ {t} PROVE Loaded(u)'
    <2>1. pc'[u] = pc[u] /\ call'[u] = call[u] /\ Loaded(u)
      BY <1>1, <1>2 DEF ReqInv
    <2>2. pc[u] \in Writing => u \in overtaken'
      BY <1>1 DEF Writing
    <2> QED
      BY <2>1, <2>2 DEF Loaded
  <1>10. Rest'
    <2>1. yaml' \in Yaml /\ kept' \subseteq Name
      BY <1>1, <1>5, <1>6, Known, BlankIsYaml
    <2> QED
      BY <1>1, <2>1, HasRest DEF Rest, Others
  <1> QED
    BY <1>4, <1>7, <1>8, <1>9, <1>10, ReqFrom

\* The process stops.
LEMMA StepCrashes ==
    ASSUME ReqInv, Crash
    PROVE  ReqInv'
  <1>1. /\ crashes < MaxCrashes /\ crashes' = crashes + 1
        /\ yaml' = yaml \/ yaml' = NoDoc("broken")
        /\ md' = md \/ md' = [kind |-> "torn", items |-> {}]
        /\ baseline' = baseline \/ baseline' = Torn
        /\ proposed' = proposed \/ proposed' = TRUE
        /\ kept' = (IF yaml.kind = "empty" THEN {} ELSE kept)
        /\ pc' = [t \in Thread |-> "idle"] /\ call' = [t \in Thread |-> NoCall]
        /\ overtaken' = {} /\ mixed' = {} /\ UNCHANGED <<raw, calls>>
    <2>1. /\ yaml' = yaml \/ yaml' = NoDoc("broken")
          /\ md' = md \/ md' = [kind |-> "torn", items |-> {}]
      BY DEF Crash
    <2>2. (baseline' = baseline \/ baseline' = Torn) /\ (proposed' = proposed \/ proposed' = TRUE)
      BY DEF Crash
    <2> QED
      BY <2>1, <2>2 DEF Crash
  <1>2. pc' \in [Thread -> Label] /\ call' \in [Thread -> Call]
    BY <1>1, BlankIsYaml DEF Label
  <1>3. Stored'
    <2>1. NoDoc("broken").kind = "broken" /\ NoDoc("broken").items = {}
      BY DEF NoDoc
    <2>2. CASE yaml' = NoDoc("broken")
      BY <2>1, <2>2, NothingAwaits DEF Stored, Readable
    <2>3. CASE yaml' = yaml
      BY <1>1, <2>3 DEF ReqInv, Stored, Readable
    <2> QED
      BY <1>1, <2>2, <2>3
  <1>4. ASSUME NEW u \in Thread PROVE Loaded(u)'
    <2>1. pc'[u] = "idle" /\ call'[u] = NoCall
      BY <1>1
    <2> QED
      BY <2>1, BlankIsYaml, NothingAwaits DEF Loaded, Writing
  <1>5. Rest'
    <2> DEFINE torn == [kind |-> "torn", items |-> {}]
    <2>4. torn \in Markdown
      BY DEF Markdown
    <2>5. (md' = md \/ md' = torn) /\ md \in Markdown
      BY <1>1, HasRest DEF Rest
    <2> HIDE DEF torn
    <2>6. md' \in Markdown
      BY <2>4, <2>5
    <2>7. yaml' \in Yaml /\ baseline' \in Raw \cup {Torn}
      BY <1>1, HasRest, BlankIsYaml DEF Rest
    <2>8. proposed' \in BOOLEAN
      BY <1>1, HasRest DEF Rest
    <2>1. md' \in Markdown /\ yaml' \in Yaml /\ baseline' \in Raw \cup {Torn} /\ proposed' \in BOOLEAN
      BY <2>6, <2>7, <2>8
    <2>2. kept' \subseteq Name /\ raw' \in Raw /\ calls' \in 0 .. MaxCalls /\ raw' <= calls'
      BY <1>1, HasRest DEF Rest
    <2>3. crashes' \in 0 .. MaxCrashes
      BY <1>1, HasRest, RequirementsAssumption DEF Rest
    <2> QED
      BY <1>1, <2>1, <2>2, <2>3 DEF Rest
  <1> QED
    BY <1>2, <1>3, <1>4, <1>5, ReqFrom

LEMMA ReqNext == ReqInv /\ [Next]_vars => ReqInv'
  <1> SUFFICES ASSUME ReqInv, [Next]_vars PROVE ReqInv'
    OBVIOUS
  <1>1. ASSUME UNCHANGED vars PROVE ReqInv'
    BY <1>1 DEF vars, ReqInv, TypeOK, Stored, Readable, Loaded
  <1>2. ASSUME NEW t \in Thread,
               \/ \E text \in Text :
                     add_requirement_raw_first(t, text) \/ add_requirement_system_update(t, text)
               \/ propose_baseline_v2(t) \/ rebuild_requirements_md(t)
               \/ ensure_baseline_v1(t) \/ ensure_scaffold(t) \/ baseline_v2(t)
               \/ open(t) \/ dump(t) \/ render(t)
               \/ drift_check(t) \/ drift_render(t) \/ post_check(t)
               \/ add_requirement(t) \/ append_need_pm_decision_item(t)
        PROVE  ReqInv'
    BY <1>2, StepBegins, StepBaselines, StepScaffold, StepOpens, StepDumps, StepRenders, StepDrift,
       StepDriftRender, StepAdds, StepDecides
  <1> QED
    BY <1>1, <1>2, StepCrashes DEF Next

\* The files of a scope and the calls on them keep their types, whatever calls overlap
\* and wherever the process stops.
THEOREM RequirementsTyped == Spec => []TypeOK
  <1>1. ReqInv => TypeOK
    BY DEF ReqInv
  <1> QED
    BY <1>1, ReqInit, ReqNext, PTL DEF Spec

\* Of two opposed requirements neither is active, and what a call has saved stays until
\* calls write over each other or the process stops in a write: for any threads, texts
\* and oppositions, any number of calls and of stops.
THEOREM RequirementsStay == Spec => []RequirementsKept
  <1>1. ReqInv => RequirementsKept
    BY DEF ReqInv, Stored, Readable, RequirementsKept, OpposedAwaitDecision, NoneLost, Awaits, Names
  <1> QED
    BY <1>1, ReqInit, ReqNext, PTL DEF Spec

------------------------------------------------------------------------------
(* RepoMigration.  What unlink drops has its backup, and rename finds no   *)
(* file where it goes, so that only the file that is being rewritten is    *)
(* nowhere (Held).  The first run moves all the files, and an unbroken run *)
(* leaves none to the next: one map of the projects decides (Home).        *)

\* A set of numbers has a least one.
LEMMA Least ==
    ASSUME NEW S \in SUBSET Nat, S # {}
    PROVE  \E x \in S : \A y \in S : x <= y
  <1> DEFINE Segments == {1 .. x : x \in S}
  <1>1. \A x \in S : 1 .. x \in FiniteSubsetsOf(Nat)
    <2> TAKE x \in S
    <2>1. x \in Nat /\ 1 \in Int /\ x \in Int
      OBVIOUS
    <2>2. IsFiniteSet(1 .. x)
      BY <2>1, FS_Interval
    <2>3. 1 .. x \subseteq Nat
      BY <2>1
    <2> QED
      BY <2>2, <2>3 DEF FiniteSubsetsOf
  <1>2. Segments \subseteq FiniteSubsetsOf(Nat) /\ Segments # {}
    BY <1>1
  <1>3. PICK J \in Segments : \A L \in Segments : ~ (<<L, J>> \in StrictSubsetOrdering(Nat))
    BY <1>2, FS_StrictSubsetOrderingWellFounded, WFMin
  <1>4. PICK x \in S : J = 1 .. x
    BY <1>3
  <1>5. ASSUME NEW y \in S, ~(x <= y) PROVE FALSE
    <2>1. x \in 1 .. x /\ x \notin 1 .. y /\ 1 .. y \subseteq 1 .. x
      BY <1>5
    <2>2. 1 .. y \in SUBSET Nat /\ 1 .. x \in SUBSET Nat
      OBVIOUS
    <2>3. 1 .. y # 1 .. x
      BY <2>1, Zenon
    <2>4. <<1 .. y, 1 .. x>> \in StrictSubsetOrdering(Nat)
      BY <2>1, <2>2, <2>3 DEF StrictSubsetOrdering
    <2> QED
      BY <1>3, <1>4, <2>4
  <1> QED
    BY <1>4, <1>5

\* The file that is next is one of those that are left.
LEMMA Next1IsLeft ==
    ASSUME todo \subseteq M!File, todo # {}
    PROVE  M!f1 \in todo
  <1>1. \A f \in M!File : M!Position(f) \in Nat
    <2> TAKE f \in M!File
    <2>1. \E n \in DOMAIN Order : Order[n] = f
      BY DEF M!File
    <2>2. M!Position(f) \in DOMAIN Order
      BY <2>1 DEF M!Position
    <2> QED
      BY <2>2, MigrationAssumption
  <1> DEFINE S == {M!Position(f) : f \in todo}
  <1>2. S \in SUBSET Nat /\ S # {}
    BY <1>1
  <1>3. PICK n \in S : \A k \in S : n <= k
    BY <1>2, Least
  <1>4. PICK f \in todo : n = M!Position(f)
    BY <1>3
  <1>5. \A g \in todo : M!Position(f) <= M!Position(g)
    BY <1>3, <1>4
  <1> QED
    BY <1>5 DEF M!f1

------------------------------------------------------------------------------
(* The map of the projects.                                                *)

LEMMA MigrationCardinality == \A S : M!Cardinality(S) = Cardinality(S)
  BY DEF M!Cardinality, Cardinality

LEMMA Ranks ==
    /\ \A p \in M!Pid : M!Rank(p) \in Nat
    /\ \A p, q \in M!Pid : M!Rank(p) = M!Rank(q) => p = q
    /\ IsFiniteSet(M!Pid)
  <1>1. \A p \in M!Pid : M!Rank(p) \in DOMAIN Sorted /\ Sorted[M!Rank(p)] = p
    BY MigrationAssumption DEF M!Rank
  <1>2. DOMAIN Sorted = 1 .. Len(Sorted) /\ Len(Sorted) \in Nat
    BY MigrationAssumption
  <1>3. \A p, q \in M!Pid : M!Rank(p) = M!Rank(q) => p = q
    BY <1>1
  <1>4. IsFiniteSet(1 .. Len(Sorted))
    <2>1. 1 \in Int /\ Len(Sorted) \in Int
      BY <1>2
    <2> QED
      BY <2>1, FS_Interval
  <1> DEFINE rank == [p \in M!Pid |-> M!Rank(p)]
  <1>5. rank \in Injection(M!Pid, 1 .. Len(Sorted))
    BY <1>1, <1>2, <1>3 DEF Injection, IsInjective
  <1>6. IsFiniteSet(M!Pid)
    BY <1>4, <1>5, FS_Injection
  <1> QED
    BY <1>1, <1>2, <1>3, <1>6

\* The projects of the workspace are as many as those that the files name.
LEMMA ProjectsDiffer ==
    ASSUME NEW pids \in SUBSET M!Pid
    PROVE  LET ids == M!compute_project_id_map(pids) IN
           /\ ids \in [pids -> M!Project]
           /\ \A p, q \in pids : ids[p] = ids[q] => p = q
  <1> DEFINE group(p) == {q \in pids : Slug[q] = Slug[p]}
             preferred(p) == IF Slug[p] \in group(p) THEN Slug[p]
                             ELSE CHOOSE q \in group(p) : \A r \in group(p) : M!Rank(q) <= M!Rank(r)
             before(p) == {q \in group(p) \ {preferred(p)} : M!Rank(q) <= M!Rank(p)}
             ids == M!compute_project_id_map(pids)
  <1>1. ids = [p \in pids |-> <<Slug[p], IF p = preferred(p) THEN 0 ELSE Cardinality(before(p))>>]
    BY MigrationCardinality DEF M!compute_project_id_map
  <1>2. \A p \in pids : /\ IsFiniteSet(before(p)) /\ Cardinality(before(p)) \in Nat
                        /\ p # preferred(p) => p \in before(p) /\ Cardinality(before(p)) # 0
    <2> TAKE p \in pids
    <2>1. IsFiniteSet(before(p))
      <3>1. before(p) \in SUBSET M!Pid
        OBVIOUS
      <3> QED
        BY <3>1, Ranks, FS_Subset
    <2>2. p # preferred(p) => p \in before(p)
      <3>1. M!Rank(p) <= M!Rank(p)
        BY Ranks
      <3> QED
        BY <3>1
    <2> HIDE DEF before
    <2> QED
      BY <2>1, <2>2, FS_CardinalityType, FS_EmptySet
  <1>3. \A p \in pids : ids[p] = <<Slug[p], IF p = preferred(p) THEN 0 ELSE Cardinality(before(p))>>
    BY <1>1
  <1>4. \A p, q \in pids : Slug[p] = Slug[q] => group(p) = group(q) /\ preferred(p) = preferred(q)
    <2> TAKE p, q \in pids
    <2>1. Slug[p] = Slug[q] => group(p) = group(q)
      OBVIOUS
    <2> HIDE DEF group
    <2> QED
      BY <2>1
  <1>5. \A p, q \in pids : /\ Slug[p] = Slug[q] /\ p # preferred(p) /\ q # preferred(q)
                           /\ Cardinality(before(p)) = Cardinality(before(q)) /\ M!Rank(p) <= M!Rank(q)
                           => p = q
    <2> SUFFICES ASSUME NEW p \in pids, NEW q \in pids, Slug[p] = Slug[q], p # preferred(p), q # preferred(q),
                        Cardinality(before(p)) = Cardinality(before(q)), M!Rank(p) <= M!Rank(q)
                 PROVE  p = q
      OBVIOUS
    <2>1. group(p) = group(q) /\ preferred(p) = preferred(q)
      BY <1>4
    <2>2. \A r \in pids : M!Rank(r) <= M!Rank(p) => M!Rank(r) <= M!Rank(q)
      BY Ranks
    <2> HIDE DEF group, preferred
    <2>3. before(p) \subseteq before(q)
      <3> SUFFICES ASSUME NEW r \in before(p) PROVE r \in before(q)
        OBVIOUS
      <3>1. r \in pids
        BY DEF group
      <3> QED
        BY <2>1, <2>2, <3>1
    <2>4. q \in before(q) /\ IsFiniteSet(before(q))
      BY <1>2
    <2>5. before(p) = before(q)
      <3> HIDE DEF before
      <3> QED
        BY <2>3, <2>4, FS_Subset
    <2>6. M!Rank(q) <= M!Rank(p)
      BY <2>4, <2>5
    <2> QED
      BY <2>6, Ranks
  <1> HIDE DEF before, preferred, group, ids
  <1>6. ids \in [pids -> M!Project]
    <2>1. \A p \in pids : ids[p] \in M!Project
      BY <1>2, <1>3 DEF M!Project
    <2> QED
      BY <1>1, <2>1
  <1>7. \A p, q \in pids : ids[p] = ids[q] => p = q
    <2> SUFFICES ASSUME NEW p \in pids, NEW q \in pids, ids[p] = ids[q] PROVE p = q
      OBVIOUS
    <2>1. Slug[p] = Slug[q] /\ preferred(p) = preferred(q)
      BY <1>3, <1>4
    <2>2. CASE p = preferred(p) \/ q = preferred(q)
      BY <1>2, <1>3, <2>1, <2>2
    <2>3. CASE p # preferred(p) /\ q # preferred(q)
      <3>1. Cardinality(before(p)) = Cardinality(before(q))
        BY <1>3, <2>3
      <3>2. M!Rank(p) <= M!Rank(q) \/ M!Rank(q) <= M!Rank(p)
        BY Ranks
      <3> QED
        BY <1>5, <2>1, <2>3, <3>1, <3>2
    <2> QED
      BY <2>2, <2>3
  <1> QED
    BY <1>6, <1>7 DEF ids

------------------------------------------------------------------------------
(* The state.                                                              *)

MigrationTyped ==
    /\ M!TypeOK
    /\ mapping \in [DOMAIN mapping -> M!Project] /\ todo \subseteq DOMAIN mapping
    /\ mpc # "idle" <=> todo # {}

\* What a step finds where the file goes.
Held ==
    /\ mpc = "unlink" => /\ M!dest \in DOMAIN cell
                         /\ <<M!dest, ts>> \in DOMAIN bak /\ bak[<<M!dest, ts>>] = cell[M!dest]
    /\ mpc = "rename" => M!dest \notin DOMAIN cell
    /\ mpc = "rewrite" => M!dest \in DOMAIN cell /\ cell[M!dest] = M!Torn

\* Where the first run plans to move a file.
Home(f) == M!compute_project_id_map({Claims[DirOf[g]] : g \in M!File})[Claims[DirOf[f]]]

Undisturbed ==
    ~broken =>
        /\ \A c \in DOMAIN cell : cell[c] \in M!File => c[1] = Home(cell[c])
        /\ mpc = "idle" => repo = M!File \/ repo = {}
        /\ mpc # "idle" => /\ \A f \in todo : mapping[f] = Home(f)
                           /\ repo = IF mpc = "rewrite" THEN todo \ {M!f1} ELSE todo

MigrationInv == MigrationTyped /\ Held /\ M!LostOnlySo /\ Undisturbed

LEMMA HomesDiffer ==
    /\ \A f \in M!File : Home(f) \in M!Project
    /\ \A f, g \in M!File : Home(f) = Home(g) => Claims[DirOf[f]] = Claims[DirOf[g]]
  <1> DEFINE pids == {Claims[DirOf[g]] : g \in M!File}
             ids == M!compute_project_id_map(pids)
  <1>1. pids \in SUBSET M!Pid
    BY DEF M!Pid, M!Dir
  <1>2. ids \in [pids -> M!Project] /\ \A p, q \in pids : ids[p] = ids[q] => p = q
    <2> HIDE DEF pids
    <2> QED
      BY <1>1, ProjectsDiffer
  <1>3. \A f \in M!File : Claims[DirOf[f]] \in pids /\ Home(f) = ids[Claims[DirOf[f]]]
    BY DEF Home
  <1> HIDE DEF pids, ids
  <1> QED
    BY <1>2, <1>3

\* The file that moves, and where it goes.
LEMMA Moving ==
    ASSUME MigrationInv, mpc # "idle"
    PROVE  M!f1 \in todo /\ M!f1 \in M!File /\ M!dest \in M!Cell /\ M!dest[1] = mapping[M!f1]
  <1>1. todo \subseteq M!File /\ todo # {} /\ todo \subseteq DOMAIN mapping /\ mapping \in [DOMAIN mapping -> M!Project]
    BY DEF MigrationInv, MigrationTyped, M!TypeOK
  <1>2. M!f1 \in todo
    BY <1>1, Next1IsLeft
  <1>3. mapping[M!f1] \in M!Project
    BY <1>1, <1>2
  <1>4. M!dest \in M!Cell /\ M!dest[1] = mapping[M!f1]
    BY <1>1, <1>2, <1>3 DEF M!dest, M!Cell
  <1> QED
    BY <1>1, <1>2, <1>4

LEMMA SameDest ==
    ASSUME todo' = todo, mapping' = mapping
    PROVE  M!f1' = M!f1 /\ M!dest' = M!dest
  <1>1. M!f1' = M!f1
    BY DEF M!f1
  <1> QED
    BY <1>1 DEF M!dest

LEMMA MigrationInit == ASSUME M!Init PROVE MigrationInv
  <1>1. /\ repo = M!File /\ cell = Existing /\ bak = <<>> /\ mpc = "idle" /\ todo = {} /\ mapping = <<>>
        /\ lossy = {} /\ broken = FALSE /\ mruns = 0 /\ faults = 0
    BY DEF M!Init
  <1>2. \A c \in DOMAIN Existing : Existing[c] \in M!Content /\ Existing[c] \notin M!File
    BY MigrationAssumption DEF M!Content
  <1>3. DOMAIN bak = {} /\ DOMAIN mapping = {}
    BY <1>1
  <1>4. MigrationTyped
    <2>1. mapping \in [{} -> M!Project]
      BY <1>1, <1>3
    <2>2. DOMAIN cell \subseteq M!Cell /\ \A c \in DOMAIN cell : cell[c] \in M!Content
      BY <1>1, <1>2, MigrationAssumption
    <2>3. mruns \in 0 .. MaxRuns /\ faults \in 0 .. MaxFaults
      BY <1>1, MigrationAssumption
    <2>4. M!TypeOK
      BY <1>1, <1>3, <2>2, <2>3, Zenon DEF M!TypeOK
    <2> QED
      BY <1>1, <1>3, <2>1, <2>4 DEF MigrationTyped
  <1>5. Held
    BY <1>1 DEF Held
  <1>6. M!LostOnlySo
    BY <1>1 DEF M!LostOnlySo, M!Kept, M!Content
  <1>7. Undisturbed
    BY <1>1, <1>2 DEF Undisturbed
  <1> QED
    BY <1>4, <1>5, <1>6, <1>7 DEF MigrationInv

LEMMA MigrationPlans == ASSUME MigrationInv, M!plan_moves PROVE MigrationInv'
  <1> DEFINE pids == {M!infer_project_id(DirOf[f]) : f \in todo'}
             ids == M!compute_project_id_map(pids)
  <1>1. /\ mpc = "idle" /\ mruns' = mruns + 1 /\ mruns < MaxRuns
        /\ todo' = {f \in M!File : M!Planned(f)}
        /\ mapping' = [f \in todo' |-> ids[M!infer_project_id(DirOf[f])]]
        /\ mpc' = IF todo' = {} THEN "idle" ELSE "move"
        /\ repo' = repo /\ cell' = cell /\ bak' = bak /\ lossy' = lossy /\ broken' = broken /\ faults' = faults
    BY DEF M!plan_moves
  <1>2. todo' \subseteq M!File /\ \A f \in todo' : f \in repo
    BY <1>1 DEF M!Planned
  <1>3. pids \in SUBSET M!Pid
    BY <1>2 DEF M!infer_project_id, M!Pid, M!Dir
  <1>4. ids \in [pids -> M!Project]
    <2> HIDE DEF pids
    <2> QED
      BY <1>3, ProjectsDiffer
  <1>5. MigrationTyped'
    <2>1. \A f \in todo' : M!infer_project_id(DirOf[f]) \in pids
      OBVIOUS
    <2> HIDE DEF pids, ids
    <2>2. mapping' \in [todo' -> M!Project]
      BY <1>1, <1>4, <2>1
    <2>3. M!TypeOK'
      BY <1>1, <1>2, MigrationAssumption DEF MigrationInv, MigrationTyped, M!TypeOK
    <2> QED
      BY <1>1, <2>2, <2>3 DEF MigrationTyped
  <1>6. Held'
    BY <1>1 DEF Held
  <1>7. M!LostOnlySo'
    BY <1>1 DEF MigrationInv, M!LostOnlySo, M!Kept
  <1>8. Undisturbed'
    <2> SUFFICES ASSUME ~broken PROVE Undisturbed'
      BY <1>1 DEF Undisturbed
    <2>1. (\A c \in DOMAIN cell : cell[c] \in M!File => c[1] = Home(cell[c])) /\ (repo = M!File \/ repo = {})
      BY <1>1 DEF MigrationInv, Undisturbed
    <2>2. CASE repo = {}
      BY <1>1, <1>2, <2>1, <2>2 DEF Undisturbed
    <2>3. CASE repo = M!File
      <3>1. \A f \in M!File : M!Planned(f) /\ M!infer_project_id(DirOf[f]) = Claims[DirOf[f]]
        BY <2>3, MigrationAssumption DEF M!Planned, M!infer_project_id, M!Dir
      <3>2. todo' = M!File
        BY <1>1, <3>1
      <3>3. pids = {Claims[DirOf[g]] : g \in M!File}
        BY <3>1, <3>2
      <3>4. \A f \in todo' : mapping'[f] = Home(f)
        BY <1>1, <3>1, <3>2, <3>3 DEF Home
      <3> QED
        BY <1>1, <2>1, <2>3, <3>2, <3>4 DEF Undisturbed
    <2> QED
      BY <2>1, <2>2, <2>3
  <1> QED
    BY <1>5, <1>6, <1>7, <1>8 DEF MigrationInv

LEMMA MigrationBacksUp == ASSUME MigrationInv, M!safe_move PROVE MigrationInv'
  <1>1. /\ mpc = "move" /\ repo' = repo /\ cell' = cell /\ todo' = todo /\ mapping' = mapping /\ ts' = ts
        /\ mruns' = mruns /\ broken' = broken /\ faults' = faults
    BY DEF M!safe_move, M!plan
  <1>2. M!f1' = M!f1 /\ M!dest' = M!dest
    BY <1>1, SameDest
  <1>3. M!dest \in M!Cell /\ M!f1 \in todo
    BY <1>1, Moving
  <1>4. Undisturbed'
    <2>1. mpc' # "idle" /\ mpc' # "rewrite"
      BY DEF M!safe_move
    <2> QED
      BY <1>1, <2>1 DEF MigrationInv, Undisturbed
  <1>5. CASE M!dest \in DOMAIN cell /\ M!backup /\ mpc' = "unlink"
    <2>1. bak' = M!Put(bak, <<M!dest, ts>>, cell[M!dest])
      BY <1>5 DEF M!backup
    <2>2. /\ DOMAIN bak' = DOMAIN bak \cup {<<M!dest, ts>>} /\ bak'[<<M!dest, ts>>] = cell[M!dest]
          /\ \A b \in DOMAIN bak \ {<<M!dest, ts>>} : bak'[b] = bak[b]
      BY <2>1 DEF M!Put
    <2>3. lossy \subseteq lossy' /\ lossy' \subseteq M!Content
      BY <1>5 DEF M!backup, MigrationInv, MigrationTyped, M!TypeOK
    <2>4. cell[M!dest] \in M!Content \cup {M!Torn}
      BY <1>5 DEF MigrationInv, MigrationTyped, M!TypeOK
    <2>5. M!TypeOK'
      <3>1. \A b \in DOMAIN bak' : bak'[b] \in M!Content \cup {M!Torn}
        BY <2>2, <2>4 DEF MigrationInv, MigrationTyped, M!TypeOK
      <3> QED
        BY <1>1, <1>5, <2>3, <3>1 DEF MigrationInv, MigrationTyped, M!TypeOK
    <2>6. MigrationTyped'
      BY <1>1, <1>5, <2>5 DEF MigrationInv, MigrationTyped
    <2>7. Held'
      BY <1>1, <1>2, <1>5, <2>2 DEF Held
    <2>8. M!LostOnlySo'
      <3> SUFFICES ASSUME NEW x \in M!Content, x \notin lossy' PROVE M!Kept(x)'
        BY DEF M!LostOnlySo
      <3>1. M!Kept(x)
        BY <1>1, <2>3 DEF MigrationInv, M!LostOnlySo
      <3>2. CASE \E b \in DOMAIN bak : bak[b] = x
        <4>1. PICK b \in DOMAIN bak : bak[b] = x
          BY <3>2
        <4>2. b # <<M!dest, ts>>
          BY <1>5, <4>1 DEF M!backup
        <4>3. b \in DOMAIN bak' /\ bak'[b] = x
          BY <2>2, <4>1, <4>2
        <4> QED
          BY <4>3 DEF M!Kept
      <3> QED
        BY <1>1, <3>1, <3>2 DEF M!Kept
    <2> QED
      BY <1>4, <2>6, <2>7, <2>8 DEF MigrationInv
  <1>6. CASE M!dest \notin DOMAIN cell /\ mpc' = "rename" /\ bak' = bak /\ lossy' = lossy
    <2>1. MigrationTyped'
      BY <1>1, <1>6 DEF MigrationInv, MigrationTyped, M!TypeOK
    <2>2. Held'
      BY <1>1, <1>2, <1>6 DEF Held
    <2>3. M!LostOnlySo'
      BY <1>1, <1>6 DEF MigrationInv, M!LostOnlySo, M!Kept
    <2> QED
      BY <1>4, <2>1, <2>2, <2>3 DEF MigrationInv
  <1> QED
    BY <1>5, <1>6 DEF M!safe_move

LEMMA MigrationUnlinks == ASSUME MigrationInv, M!unlink PROVE MigrationInv'
  <1>1. /\ mpc = "unlink" /\ mpc' = "rename" /\ cell' = M!Drop(cell, M!dest)
        /\ repo' = repo /\ bak' = bak /\ todo' = todo /\ mapping' = mapping /\ ts' = ts /\ lossy' = lossy
        /\ mruns' = mruns /\ broken' = broken /\ faults' = faults
    BY DEF M!unlink, M!plan
  <1>2. M!f1' = M!f1 /\ M!dest' = M!dest
    BY <1>1, SameDest
  <1>3. DOMAIN cell' = DOMAIN cell \ {M!dest} /\ \A c \in DOMAIN cell' : c \in DOMAIN cell /\ cell'[c] = cell[c]
    BY <1>1 DEF M!Drop
  <1>4. MigrationTyped'
    BY <1>1, <1>3 DEF MigrationInv, MigrationTyped, M!TypeOK
  <1>5. Held'
    BY <1>1, <1>2, <1>3 DEF Held
  <1>6. M!LostOnlySo'
    <2> SUFFICES ASSUME NEW x \in M!Content, x \notin lossy' PROVE M!Kept(x)'
      BY DEF M!LostOnlySo
    <2>1. M!Kept(x)
      BY <1>1 DEF MigrationInv, M!LostOnlySo
    <2>2. CASE \E c \in DOMAIN cell : cell[c] = x
      <3>1. PICK c \in DOMAIN cell : cell[c] = x
        BY <2>2
      <3>2. CASE c = M!dest
        <4>1. <<M!dest, ts>> \in DOMAIN bak' /\ bak'[<<M!dest, ts>>] = x
          BY <1>1, <3>1, <3>2 DEF MigrationInv, Held
        <4> QED
          BY <4>1 DEF M!Kept
      <3>3. CASE c # M!dest
        <4>1. c \in DOMAIN cell' /\ cell'[c] = x
          BY <1>3, <3>1, <3>3
        <4> QED
          BY <4>1 DEF M!Kept
      <3> QED
        BY <3>2, <3>3
    <2> QED
      BY <1>1, <2>1, <2>2 DEF M!Kept
  <1>7. Undisturbed'
    BY <1>1, <1>3 DEF MigrationInv, Undisturbed
  <1> QED
    BY <1>4, <1>5, <1>6, <1>7 DEF MigrationInv

LEMMA MigrationRenames == ASSUME MigrationInv, M!rename PROVE MigrationInv'
  <1>1. /\ mpc = "rename" /\ repo' = repo \ {M!f1} /\ bak' = bak /\ mapping' = mapping /\ ts' = ts
        /\ lossy' = lossy /\ mruns' = mruns /\ broken' = broken /\ faults' = faults
    BY DEF M!rename, M!plan
  <1>2. M!f1 \in todo /\ M!f1 \in M!File /\ M!dest \in M!Cell /\ M!dest[1] = mapping[M!f1]
    BY <1>1, Moving
  <1>3. M!dest \notin DOMAIN cell
    BY <1>1 DEF MigrationInv, Held
  <1>4. M!f1 \in M!Content
    BY <1>2 DEF M!Content
  <1>5. CASE cell' = M!Put(cell, M!dest, M!f1) /\ M!Next1
    <2>1. /\ DOMAIN cell' = DOMAIN cell \cup {M!dest} /\ cell'[M!dest] = M!f1
          /\ \A c \in DOMAIN cell : cell'[c] = cell[c]
      BY <1>3, <1>5 DEF M!Put
    <2>2. todo' = todo \ {M!f1} /\ mpc' = IF todo' = {} THEN "idle" ELSE "move"
      BY <1>5 DEF M!Next1
    <2>3. MigrationTyped'
      BY <1>1, <1>2, <1>4, <2>1, <2>2 DEF MigrationInv, MigrationTyped, M!TypeOK
    <2>4. Held'
      BY <2>2 DEF Held
    <2>5. M!LostOnlySo'
      <3> SUFFICES ASSUME NEW x \in M!Content, x \notin lossy' PROVE M!Kept(x)'
        BY DEF M!LostOnlySo
      <3>1. M!Kept(x)
        BY <1>1 DEF MigrationInv, M!LostOnlySo
      <3> QED
        BY <1>1, <2>1, <3>1 DEF M!Kept
    <2>6. Undisturbed'
      <3> SUFFICES ASSUME ~broken PROVE Undisturbed'
        BY <1>1 DEF Undisturbed
      <3>1. /\ \A c \in DOMAIN cell : cell[c] \in M!File => c[1] = Home(cell[c])
            /\ (\A f \in todo : mapping[f] = Home(f)) /\ repo = todo
        BY <1>1 DEF MigrationInv, Undisturbed
      <3>2. \A c \in DOMAIN cell' : cell'[c] \in M!File => c[1] = Home(cell'[c])
        BY <1>2, <2>1, <3>1
      <3>3. repo' = todo' /\ \A f \in todo' : mapping'[f] = Home(f)
        BY <1>1, <2>2, <3>1
      <3> QED
        BY <2>2, <3>2, <3>3 DEF Undisturbed
    <2> QED
      BY <2>3, <2>4, <2>5, <2>6 DEF MigrationInv
  <1>6. CASE cell' = M!Put(cell, M!dest, M!Torn) /\ mpc' = "rewrite" /\ todo' = todo
    <2>1. /\ DOMAIN cell' = DOMAIN cell \cup {M!dest} /\ cell'[M!dest] = M!Torn
          /\ \A c \in DOMAIN cell : cell'[c] = cell[c]
      BY <1>3, <1>6 DEF M!Put
    <2>2. M!f1' = M!f1 /\ M!dest' = M!dest
      BY <1>1, <1>6, SameDest
    <2>3. MigrationTyped'
      BY <1>1, <1>2, <1>6, <2>1 DEF MigrationInv, MigrationTyped, M!TypeOK
    <2>4. Held'
      BY <1>6, <2>1, <2>2 DEF Held
    <2>5. M!LostOnlySo'
      <3> SUFFICES ASSUME NEW x \in M!Content, x \notin lossy', x # M!f1 PROVE M!Kept(x)'
        BY <1>6, <2>2 DEF M!LostOnlySo
      <3>1. M!Kept(x)
        BY <1>1 DEF MigrationInv, M!LostOnlySo
      <3> QED
        BY <1>1, <2>1, <3>1 DEF M!Kept
    <2>6. Undisturbed'
      <3>1. M!Torn \notin M!File
        BY MigrationAssumption DEF M!Content
      <3> QED
        BY <1>1, <1>6, <2>1, <2>2, <3>1 DEF MigrationInv, Undisturbed
    <2> QED
      BY <2>3, <2>4, <2>5, <2>6 DEF MigrationInv
  <1> QED
    BY <1>5, <1>6 DEF M!rename

LEMMA MigrationRewrites == ASSUME MigrationInv, M!rewrite PROVE MigrationInv'
  <1>1. /\ mpc = "rewrite" /\ repo' = repo /\ bak' = bak /\ mapping' = mapping /\ ts' = ts
        /\ mruns' = mruns /\ broken' = broken /\ faults' = faults
        /\ todo' = todo \ {M!f1} /\ mpc' = IF todo' = {} THEN "idle" ELSE "move"
    BY DEF M!rewrite, M!plan, M!Next1
  <1>2. M!f1 \in todo /\ M!f1 \in M!File /\ M!dest[1] = mapping[M!f1]
    BY <1>1, Moving
  <1>3. M!dest \in DOMAIN cell /\ cell[M!dest] = M!Torn
    BY <1>1 DEF MigrationInv, Held
  <1>4. M!f1 \in M!Content /\ M!Torn \notin M!Content
    BY <1>2, MigrationAssumption DEF M!Content
  <1>5. /\ DOMAIN cell' = DOMAIN cell /\ \A c \in DOMAIN cell \ {M!dest} : cell'[c] = cell[c]
        /\ cell'[M!dest] \in {M!f1, M!Torn}
        /\ lossy' \in {lossy, lossy \cup {M!f1}} /\ (cell'[M!dest] = M!f1 \/ M!f1 \in lossy')
    <2>1. CASE lossy' = lossy \cup {M!f1} /\ cell' = cell
      BY <1>3, <2>1
    <2>2. CASE cell' = [cell EXCEPT ![M!dest] = M!f1] /\ lossy' = lossy
      BY <1>3, <2>2
    <2> QED
      BY <2>1, <2>2 DEF M!rewrite
  <1>6. MigrationTyped'
    <2>1. M!TypeOK'
      <3>1. DOMAIN cell' \subseteq M!Cell /\ \A c \in DOMAIN cell' : cell'[c] \in M!Content \cup {M!Torn}
        BY <1>4, <1>5 DEF MigrationInv, MigrationTyped, M!TypeOK
      <3>2. lossy' \subseteq M!Content /\ todo' \subseteq M!File
        BY <1>1, <1>4, <1>5 DEF MigrationInv, MigrationTyped, M!TypeOK
      <3> QED
        BY <1>1, <3>1, <3>2 DEF MigrationInv, MigrationTyped, M!TypeOK
    <2> QED
      BY <1>1, <2>1 DEF MigrationInv, MigrationTyped
  <1>7. Held'
    BY <1>1 DEF Held
  <1>8. M!LostOnlySo'
    <2> SUFFICES ASSUME NEW x \in M!Content, x \notin lossy' PROVE M!Kept(x)'
      BY DEF M!LostOnlySo
    <2>1. M!Kept(x) \/ x = M!f1
      BY <1>5 DEF MigrationInv, M!LostOnlySo
    <2>2. CASE x = M!f1
      BY <1>3, <1>5, <2>2 DEF M!Kept
    <2>3. CASE \E c \in DOMAIN cell : cell[c] = x
      <3>1. PICK c \in DOMAIN cell : cell[c] = x
        BY <2>3
      <3>2. c \in DOMAIN cell' /\ cell'[c] = x
        BY <1>3, <1>4, <1>5, <3>1
      <3> QED
        BY <3>2 DEF M!Kept
    <2> QED
      BY <1>1, <2>1, <2>2, <2>3 DEF M!Kept
  <1>9. Undisturbed'
    <2> SUFFICES ASSUME ~broken PROVE Undisturbed'
      BY <1>1 DEF Undisturbed
    <2>1. /\ \A c \in DOMAIN cell : cell[c] \in M!File => c[1] = Home(cell[c])
          /\ (\A f \in todo : mapping[f] = Home(f)) /\ repo = todo \ {M!f1}
      BY <1>1 DEF MigrationInv, Undisturbed
    <2>2. \A c \in DOMAIN cell' : cell'[c] \in M!File => c[1] = Home(cell'[c])
      <3> SUFFICES ASSUME NEW c \in DOMAIN cell', cell'[c] \in M!File PROVE c[1] = Home(cell'[c])
        OBVIOUS
      <3>1. CASE c = M!dest
        <4>1. M!Torn \notin M!File
          BY <1>4 DEF M!Content
        <4> QED
          BY <1>2, <1>5, <2>1, <3>1, <4>1
      <3>2. CASE c # M!dest
        BY <1>5, <2>1, <3>2
      <3> QED
        BY <3>1, <3>2
    <2> QED
      BY <1>1, <2>1, <2>2 DEF Undisturbed
  <1> QED
    BY <1>6, <1>7, <1>8, <1>9 DEF MigrationInv

LEMMA MigrationFails == ASSUME MigrationInv, M!MoveFails PROVE MigrationInv'
  <1>1. /\ mpc # "idle" /\ faults < MaxFaults /\ faults' = faults + 1 /\ broken' = TRUE
        /\ lossy' = IF mpc = "rewrite" THEN lossy \cup {M!f1} ELSE lossy
        /\ repo' = repo /\ cell' = cell /\ bak' = bak /\ mapping' = mapping /\ mruns' = mruns
    BY DEF M!MoveFails, M!plan
  <1>2. M!f1 \in todo /\ M!f1 \in M!Content
    BY <1>1, Moving DEF M!Content
  <1>3. todo' \in {todo \ {M!f1}, {}} /\ mpc' = IF todo' = {} THEN "idle" ELSE "move"
    BY DEF M!MoveFails, M!Next1
  <1>4. MigrationTyped'
    <2>1. faults' \in 0 .. MaxFaults
      BY <1>1, MigrationAssumption DEF MigrationInv, MigrationTyped, M!TypeOK
    <2>2. lossy' \subseteq M!Content /\ todo' \subseteq todo
      BY <1>1, <1>2, <1>3 DEF MigrationInv, MigrationTyped, M!TypeOK
    <2>3. M!TypeOK'
      BY <1>1, <1>3, <2>1, <2>2 DEF MigrationInv, MigrationTyped, M!TypeOK
    <2> QED
      BY <1>1, <1>3, <2>2, <2>3 DEF MigrationInv, MigrationTyped
  <1>5. Held'
    BY <1>3 DEF Held
  <1>6. M!LostOnlySo'
    BY <1>1 DEF MigrationInv, M!LostOnlySo, M!Kept
  <1>7. Undisturbed'
    BY <1>1 DEF Undisturbed
  <1> QED
    BY <1>4, <1>5, <1>6, <1>7 DEF MigrationInv

LEMMA MigrationNext == ASSUME MigrationInv, [M!Next]_M!vars PROVE MigrationInv'
  <1>1. CASE UNCHANGED M!vars
    <2>1. /\ repo' = repo /\ cell' = cell /\ bak' = bak /\ mpc' = mpc /\ todo' = todo /\ mapping' = mapping
          /\ ts' = ts /\ lossy' = lossy /\ broken' = broken /\ mruns' = mruns /\ faults' = faults
      BY <1>1 DEF M!vars
    <2>2. M!f1' = M!f1 /\ M!dest' = M!dest
      BY <2>1, SameDest
    <2>3. MigrationTyped'
      BY <2>1 DEF MigrationInv, MigrationTyped, M!TypeOK
    <2>4. Held' /\ Undisturbed' /\ M!LostOnlySo'
      BY <2>1, <2>2 DEF MigrationInv, Held, Undisturbed, M!LostOnlySo, M!Kept
    <2> QED
      BY <2>3, <2>4 DEF MigrationInv
  <1> QED
    BY <1>1, MigrationPlans, MigrationBacksUp, MigrationUnlinks, MigrationRenames, MigrationRewrites,
       MigrationFails DEF M!Next

\* The migration's plan, its moves and the workspace keep their types.
THEOREM MigrationIsTyped == M!Spec => []M!TypeOK
  <1>1. MigrationInv => M!TypeOK
    BY DEF MigrationInv, MigrationTyped
  <1> QED
    BY <1>1, MigrationInit, MigrationNext, PTL DEF M!Spec

\* A migration loses a file only by a second backup of one cell in one run or by a
\* rewrite, and it keeps the projects apart unless a run broke: for any repository and
\* workspace, any number of runs and of failures.
THEOREM FilesAreKept == M!Spec => []MigrationKeepsFiles
  <1>1. ASSUME MigrationInv PROVE MigrationKeepsFiles
    <2>1. M!ProjectsApart
      <3> SUFFICES ASSUME ~broken, NEW c \in DOMAIN cell, NEW d \in DOMAIN cell,
                          cell[c] \in M!File, cell[d] \in M!File, c[1] = d[1]
                   PROVE  Claims[DirOf[cell[c]]] = Claims[DirOf[cell[d]]]
        BY DEF M!ProjectsApart
      <3>1. Home(cell[c]) = Home(cell[d])
        BY <1>1 DEF MigrationInv, Undisturbed
      <3> QED
        BY <3>1, HomesDiffer
    <2> QED
      BY <1>1, <2>1 DEF MigrationInv, MigrationKeepsFiles, M!MigrationKeepsFiles
  <1> QED
    BY <1>1, MigrationInit, MigrationNext, PTL DEF M!Spec
==============================================================================
