---------------------------- MODULE PlannerProofs ----------------------------
(***************************************************************************)
(* Proofs about the parts of Planner, for any threads, work items,         *)
(* comments, requests, policies and bounds.                                *)
(*                                                                         *)
(* The store of proposals: a call that no other has overtaken holds the    *)
(* proposal as it is wherever it holds a copy that it will use; a run that *)
(* makes tasks has seen that it may, and a discussion that the proposal is *)
(* open (Fresh).  A proposal that is there never goes away (Sane), and no  *)
(* copy of it has seen a comment that was not answered (CommentInv).       *)
(***************************************************************************)
EXTENDS Planner, Integers, Sequences, TLAPS

Linking == {"ensure", "ensure_put", "github", "link_put"}
Making == {"find", "create", "mark", "mark_put"}
Holding == {"upsert_put", "ensure_put", "link_put", "mark_put", "apply_put", "seen_put", "decide_put",
            "materialize", "comments", "reply"}

\* A discussion that will reply to a comment.
Replying(t) == pc[t] \in {"apply", "apply_put", "reply"} \/ (pc[t] \in Linking /\ call[t].then = "reply")

Sane(t) ==
    /\ pc[t] \notin {"idle", "upsert_put"} => row.status # "absent"
    /\ pc[t] \in Holding \ {"upsert_put"} => call[t].doc.status # "absent"
    /\ pc[t] \in Linking => call[t].then \in Reader
    /\ pc[t] = "upsert_put" => call[t].then = "materialize"
    /\ pc[t] \in {"apply", "apply_put"} => call[t].then = "reply"
    /\ pc[t] = "decide_put" => call[t].action \in Decision
    /\ Replying(t) => call[t].latest # 0

Discussing(t) == pc[t] \in {"comments", "apply", "apply_put"} \/ (pc[t] \in Linking /\ call[t].then = "comments")

Fresh(t) ==
    /\ pc[t] \in Holding => call[t].doc = row
    /\ pc[t] \in Making => due /\ Permitted(row.status)
    /\ Discussing(t) => row.status \in Discussed
    /\ pc[t] = "create" => IF call[t].flag THEN tasks[call[t].item] # 0 ELSE tasks[call[t].item] = 0

PropInv == TypeOK /\ \A t \in Thread : Sane(t) /\ (~overtaken[t] => Fresh(t))

\* What an idle call holds.
LEMMA Nothing == NoProposal \in Proposal /\ NoCall \in Call
  <1>1. 0 \in 0 .. MaxComments /\ 1 \in 1 .. Items
    BY ProposalsAssumption
  <1>2. NoProposal \in Proposal
    BY <1>1 DEF NoProposal, Proposal, Status
  <1> QED
    BY <1>1, <1>2 DEF NoCall, Call, Label, Action

LEMMA PropInit ==
    ASSUME Init
    PROVE  PropInv
  <1>1. NoProposal \in Proposal /\ NoCall \in Call
    BY Nothing
  <1>2. TypeOK
    <2>1. comments \in Seq(Asks) /\ Len(comments) <= MaxComments
      BY ProposalsAssumption DEF Init
    <2>2. tasks \in [1 .. Items -> Nat]
      BY DEF Init
    <2>3. runs \in 0 .. MaxRuns /\ decisions \in 0 .. MaxDecisions /\ faults \in 0 .. MaxFaults
      BY ProposalsAssumption DEF Init
    <2> QED
      BY <1>1, <2>1, <2>2, <2>3 DEF Init, TypeOK, Label
  <1>3. \A t \in Thread : pc[t] = "idle"
    BY DEF Init
  <1>4. \A t \in Thread : Sane(t) /\ Fresh(t)
    BY <1>3 DEF Sane, Replying, Fresh, Discussing, Linking, Making, Holding
  <1> QED
    BY <1>2, <1>4 DEF PropInv

\* A step of one call that leaves the proposal and the tasks alone.
LEMMA PrivateStep ==
    ASSUME PropInv, NEW t \in Thread, NEW l \in Label, NEW c \in Call,
           pc' = [pc EXCEPT ![t] = l], call' = [call EXCEPT ![t] = c],
           UNCHANGED <<row, due, tasks>>, overtaken' \in [Thread -> BOOLEAN],
           \A u \in Thread \ {t} : overtaken'[u] = overtaken[u],
           TypeOK', Sane(t)', ~overtaken'[t] => Fresh(t)'
    PROVE  PropInv'
  <1>1. ASSUME NEW u \in Thread \ {t} PROVE Sane(u)' /\ (~overtaken'[u] => Fresh(u)')
    <2>1. pc'[u] = pc[u] /\ call'[u] = call[u] /\ overtaken'[u] = overtaken[u]
      BY DEF PropInv, TypeOK
    <2>2. Sane(u) /\ (~overtaken[u] => Fresh(u))
      BY DEF PropInv
    <2>3. Sane(u)'
      BY <2>1, <2>2 DEF Sane, Replying
    <2>4. Fresh(u) => Fresh(u)'
      BY <2>1 DEF Fresh, Discussing, Permitted
    <2> QED
      BY <2>1, <2>2, <2>3, <2>4
  <1> QED
    BY <1>1 DEF PropInv

\* The whole document is written.
LEMMA WriteStep ==
    ASSUME PropInv, NEW t \in Thread, NEW new \in Proposal, new.status # "absent",
           NEW l \in {"idle", "ensure", "github", "materialize", "comments", "reply"}, Write(t, new, l),
           l \in {"ensure", "github"} => call[t].then \in Reader,
           ~overtaken[t] /\ (l = "comments" \/ (l \in {"ensure", "github"} /\ call[t].then = "comments"))
             => new.status \in Discussed,
           l = "reply" \/ (l \in {"ensure", "github"} /\ call[t].then = "reply") => call[t].latest # 0
    PROVE  PropInv'
  <1> DEFINE d == IF l \in Reader THEN new ELSE NoProposal
             c == IF l = "idle" THEN NoCall ELSE [call[t] EXCEPT !.flag = FALSE, !.doc = d]
             b == new # row
  <1>1. /\ row' = new /\ pc' = [pc EXCEPT ![t] = l] /\ call' = [call EXCEPT ![t] = c]
        /\ UNCHANGED <<due, comments, replies, tasks, runs, decisions, faults>>
    BY DEF Write, Goto, world, counters
  <1>2. overtaken' = [u \in Thread |-> overtaken[u] \/ (b /\ u # t /\ pc[u] # "idle")]
    BY DEF Write, Overtake
  <1>3. d \in Proposal /\ NoCall \in Call
    BY Nothing
  <1>4. call[t] \in Call
    BY DEF PropInv, TypeOK
  <1>5. c \in Call
    BY <1>3, <1>4 DEF Call
  <1>6. /\ l # "idle" => c.then = call[t].then /\ c.latest = call[t].latest
        /\ l \in Reader => c.doc = new
    BY <1>4 DEF Call, Reader
  <1>7. b \in BOOLEAN /\ (~b => row' = row)
    BY <1>1
  <1> HIDE DEF b, c, d
  <1>8. overtaken' \in [Thread -> BOOLEAN]
    BY <1>2, <1>7
  <1>9. TypeOK'
    BY <1>1, <1>5, <1>8 DEF PropInv, TypeOK, Label
  <1>10. /\ pc'[t] = l /\ call'[t] = c /\ (overtaken'[t] <=> overtaken[t])
         /\ \A u \in Thread \ {t} : pc'[u] = pc[u] /\ call'[u] = call[u]
    BY <1>1, <1>2 DEF PropInv, TypeOK
  <1>11. ASSUME NEW u \in Thread \ {t} PROVE Sane(u)' /\ (~overtaken'[u] => Fresh(u)')
    <2>1. Sane(u) /\ (~overtaken[u] => Fresh(u))
      BY DEF PropInv
    <2>2. Sane(u)'
      BY <1>1, <1>10, <2>1 DEF Sane, Replying
    <2>3. CASE pc[u] = "idle"
      BY <1>10, <2>2, <2>3 DEF Fresh, Discussing, Linking, Making, Holding
    <2>4. CASE pc[u] # "idle" /\ ~overtaken'[u]
      <3>1. ~b /\ ~overtaken[u]
        BY <1>2, <2>4
      <3>2. row' = row /\ Fresh(u)
        BY <1>7, <2>1, <3>1
      <3> QED
        BY <1>1, <1>10, <2>2, <3>2 DEF Fresh, Discussing, Permitted
    <2> QED
      BY <2>2, <2>3, <2>4
  <1>12. Sane(t)'
    BY <1>1, <1>6, <1>10 DEF Sane, Replying, Linking, Holding, Reader
  <1>13. ~overtaken'[t] => Fresh(t)'
    BY <1>1, <1>6, <1>10 DEF Fresh, Discussing, Linking, Making, Holding, Reader
  <1> QED
    BY <1>9, <1>11, <1>12, <1>13 DEF PropInv

\* The proposal is loaded.
LEMMA LoadStep ==
    ASSUME PropInv, NEW t \in Thread, NEW f, NEW l, Load(t, f, l),
           <<f, l>> \in {<<"ensure", "ensure_put">>, <<"mark", "mark_put">>, <<"apply", "apply_put">>,
                         <<"seen", "seen_put">>}
    PROVE  PropInv'
  <1> DEFINE c == [call[t] EXCEPT !.doc = row]
  <1>1. /\ pc[t] = f /\ pc' = [pc EXCEPT ![t] = l] /\ call' = [call EXCEPT ![t] = c]
        /\ UNCHANGED <<row, due, comments, replies, tasks, overtaken, runs, decisions, faults>>
    BY DEF Load, Goto, world, counters
  <1>2. call[t] \in Call /\ row \in Proposal /\ l \in Label
    BY DEF PropInv, TypeOK, Label
  <1>3. c \in Call /\ c.then = call[t].then /\ c.latest = call[t].latest /\ c.doc = row
    BY <1>2 DEF Call
  <1> HIDE DEF c
  <1>4. TypeOK'
    BY <1>1, <1>2, <1>3 DEF PropInv, TypeOK
  <1>5. pc'[t] = l /\ call'[t] = c /\ Sane(t) /\ (~overtaken[t] => Fresh(t))
    BY <1>1 DEF PropInv, TypeOK
  <1>6. Sane(t)'
    BY <1>1, <1>3, <1>5 DEF Sane, Replying, Linking, Holding
  <1>7. ~overtaken'[t] => Fresh(t)'
    BY <1>1, <1>3, <1>5 DEF Fresh, Discussing, Linking, Making, Holding, Permitted
  <1>8. overtaken' \in [Thread -> BOOLEAN] /\ \A u \in Thread \ {t} : overtaken'[u] = overtaken[u]
    BY <1>1 DEF PropInv, TypeOK
  <1> QED
    BY <1>1, <1>2, <1>3, <1>4, <1>6, <1>7, <1>8, PrivateStep

\* A call begins.
LEMMA BeginStep ==
    ASSUME PropInv, NEW t \in Thread, NEW l \in {"upsert_put", "ensure", "decide_put"}, NEW c \in Call,
           Begin(t, l, c), c.doc = row, runs' \in 0 .. MaxRuns, decisions' \in 0 .. MaxDecisions, faults' = faults,
           l # "upsert_put" => row.status # "absent",
           l = "upsert_put" => c.then = "materialize",
           l = "ensure" => c.then = "comments" /\ row.status \in Discussed,
           l = "decide_put" => c.action \in Decision
    PROVE  PropInv'
  <1>1. /\ pc' = [pc EXCEPT ![t] = l] /\ call' = [call EXCEPT ![t] = c]
        /\ overtaken' = [overtaken EXCEPT ![t] = FALSE]
        /\ UNCHANGED <<row, due, comments, replies, tasks>>
    BY DEF Begin, Goto, world
  <1>2. l \in Label
    BY DEF Label
  <1>3. overtaken' \in [Thread -> BOOLEAN] /\ \A u \in Thread \ {t} : overtaken'[u] = overtaken[u]
    BY <1>1 DEF PropInv, TypeOK
  <1>4. TypeOK'
    BY <1>1, <1>2, <1>3 DEF PropInv, TypeOK
  <1>5. pc'[t] = l /\ call'[t] = c
    BY <1>1 DEF PropInv, TypeOK
  <1>6. Sane(t)'
    BY <1>1, <1>5 DEF Sane, Replying, Linking, Holding, Reader
  <1>7. Fresh(t)'
    BY <1>1, <1>5 DEF Fresh, Discussing, Linking, Making, Holding
  <1> QED
    BY <1>1, <1>2, <1>3, <1>4, <1>6, <1>7, PrivateStep

\* Anything else a call does, apart from making a task.
LEMMA ProceedStep ==
    ASSUME PropInv, NEW t \in Thread, NEW l \in Label, NEW c \in Call, pc[t] # "idle",
           Proceed(t, l, c), UNCHANGED <<due, comments, tasks, overtaken, runs, decisions>>,
           replies' \subseteq 1 .. MaxComments, faults' \in 0 .. MaxFaults,
           \/ l = "idle"
           \/ l = "find" /\ (~overtaken[t] => due /\ Permitted(row.status)) /\ row.status # "absent"
           \/ l = "create" /\ pc[t] = "find" /\ (IF c.flag THEN tasks[c.item] # 0 ELSE tasks[c.item] = 0)
           \/ l = "apply" /\ pc[t] = "comments" /\ c.then = "reply" /\ c.latest # 0
           \/ l = "seen" /\ pc[t] = "reply"
    PROVE  PropInv'
  <1> DEFINE e == IF l = "idle" THEN NoCall ELSE c
  <1>1. pc' = [pc EXCEPT ![t] = l] /\ call' = [call EXCEPT ![t] = e] /\ row' = row
    BY DEF Proceed, Goto
  <1>2. e \in Call
    BY Nothing
  <1>3. l # "idle" => e = c
    OBVIOUS
  <1> HIDE DEF e
  <1>4. TypeOK'
    BY <1>1, <1>2 DEF PropInv, TypeOK
  <1>5. pc'[t] = l /\ call'[t] = e /\ overtaken'[t] = overtaken[t] /\ Sane(t) /\ (~overtaken[t] => Fresh(t))
    BY <1>1 DEF PropInv, TypeOK
  <1>6. Sane(t)'
    BY <1>1, <1>3, <1>5 DEF Sane, Replying, Linking, Holding
  <1>7. ~overtaken'[t] => Fresh(t)'
    <2>1. CASE l \in {"idle", "seen"}
      BY <1>5, <2>1 DEF Fresh, Discussing, Linking, Making, Holding
    <2>2. CASE l = "find"
      BY <1>1, <1>5, <2>2 DEF Fresh, Discussing, Linking, Making, Holding, Permitted
    <2>3. CASE l = "create"
      <3>1. ~overtaken[t] => due /\ Permitted(row.status)
        BY <1>5, <2>3 DEF Fresh, Making
      <3>2. ~overtaken[t] => due' /\ Permitted(row.status)'
        BY <1>1, <3>1 DEF Permitted
      <3>3. IF e.flag THEN tasks'[e.item] # 0 ELSE tasks'[e.item] = 0
        BY <1>3, <2>3
      <3> QED
        BY <1>5, <2>3, <3>2, <3>3 DEF Fresh, Discussing, Linking, Making, Holding
    <2>4. CASE l = "apply"
      BY <1>1, <1>3, <1>5, <2>4 DEF Fresh, Discussing, Linking, Making, Holding
    <2> QED
      BY <2>1, <2>2, <2>3, <2>4
  <1>8. overtaken' \in [Thread -> BOOLEAN] /\ \A u \in Thread \ {t} : overtaken'[u] = overtaken[u]
    BY DEF PropInv, TypeOK
  <1> QED
    BY <1>1, <1>2, <1>4, <1>6, <1>7, <1>8, PrivateStep

\* GitHub has answered, or not.
LEMMA IssueStep ==
    ASSUME PropInv, NEW t \in Thread, ensure_issue(t)
    PROVE  PropInv'
  <1> DEFINE c == [call[t] EXCEPT !.doc = row, !.flag = faults' = faults]
  <1>1. /\ pc[t] = "github" /\ pc' = [pc EXCEPT ![t] = "link_put"] /\ call' = [call EXCEPT ![t] = c]
        /\ UNCHANGED <<row, due, comments, replies, tasks, overtaken, runs, decisions>>
    BY DEF ensure_issue, Goto, world
  <1>2. faults' \in 0 .. MaxFaults
    BY ProposalsAssumption DEF ensure_issue, PropInv, TypeOK
  <1>3. call[t] \in Call /\ row \in Proposal /\ "link_put" \in Label
    BY DEF PropInv, TypeOK, Label
  <1>4. c \in Call /\ c.then = call[t].then /\ c.latest = call[t].latest /\ c.doc = row
    BY <1>3 DEF Call
  <1> HIDE DEF c
  <1>5. TypeOK'
    BY <1>1, <1>2, <1>3, <1>4 DEF PropInv, TypeOK
  <1>6. pc'[t] = "link_put" /\ call'[t] = c /\ Sane(t) /\ (~overtaken[t] => Fresh(t))
    BY <1>1 DEF PropInv, TypeOK
  <1>7. Sane(t)'
    BY <1>1, <1>4, <1>6 DEF Sane, Replying, Linking, Holding
  <1>8. ~overtaken'[t] => Fresh(t)'
    BY <1>1, <1>4, <1>6 DEF Fresh, Discussing, Linking, Making, Holding, Permitted
  <1>9. overtaken' \in [Thread -> BOOLEAN] /\ \A u \in Thread \ {t} : overtaken'[u] = overtaken[u]
    BY <1>1 DEF PropInv, TypeOK
  <1> QED
    BY <1>1, <1>3, <1>4, <1>5, <1>7, <1>8, <1>9, PrivateStep

\* A task is made, or was there, or the making fails.
LEMMA TaskStep ==
    ASSUME PropInv, NEW t \in Thread, ensure_task_record(t)
    PROVE  PropInv'
  <1> DEFINE i == call[t].item
             n == IF call[t].flag THEN tasks[i] ELSE tasks[i] + 1
             b == tasks' # tasks
  <1>1. PICK l \in {"find", "mark", "idle"}, c \in Call :
          /\ pc' = [pc EXCEPT ![t] = l] /\ call' = [call EXCEPT ![t] = c] /\ row' = row
          /\ tasks' = tasks \/ tasks' = [tasks EXCEPT ![i] = n]
          /\ faults' \in 0 .. MaxFaults
    <2>1. call[t] \in Call /\ i \in 1 .. Items /\ Items \in Nat
      BY ProposalsAssumption DEF PropInv, TypeOK, Call
    <2>2. i < Items => [NoCall EXCEPT !.item = i + 1] \in Call
      <3>1. i < Items => i + 1 \in 1 .. Items
        BY <2>1
      <3> QED
        BY <3>1, Nothing DEF Call
    <2>3. faults \in 0 .. MaxFaults /\ MaxFaults \in Nat
      BY ProposalsAssumption DEF PropInv, TypeOK
    <2>4. CASE /\ tasks' = [tasks EXCEPT ![i] = n] /\ faults' = faults
               /\ IF i < Items THEN Proceed(t, "find", [NoCall EXCEPT !.item = i + 1])
                              ELSE Proceed(t, "mark", NoCall)
      BY <2>2, <2>3, <2>4, Nothing DEF Proceed, Goto
    <2>5. CASE tasks' = tasks /\ faults < MaxFaults /\ faults' = faults + 1 /\ Proceed(t, "idle", NoCall)
      <3>1. faults' \in 0 .. MaxFaults
        BY <2>3, <2>5
      <3> QED
        BY <2>5, <3>1, Nothing DEF Proceed, Goto
    <2> QED
      BY <2>4, <2>5 DEF ensure_task_record
  <1>2. /\ pc[t] = "create" /\ UNCHANGED <<due, comments, replies, runs, decisions>>
        /\ overtaken' = [u \in Thread |-> overtaken[u] \/ (b /\ u # t /\ pc[u] # "idle")]
    BY DEF ensure_task_record, Overtake
  <1>3. tasks' \in [1 .. Items -> Nat]
    <2>1. i \in 1 .. Items /\ tasks \in [1 .. Items -> Nat]
      BY DEF PropInv, TypeOK, Call
    <2>2. n \in Nat
      BY <2>1
    <2> QED
      BY <1>1, <2>1, <2>2
  <1>4. b \in BOOLEAN /\ (~b => tasks' = tasks)
    OBVIOUS
  <1> HIDE DEF b, i, n
  <1>5. overtaken' \in [Thread -> BOOLEAN]
    BY <1>2, <1>4
  <1>6. TypeOK'
    BY <1>1, <1>2, <1>3, <1>5 DEF PropInv, TypeOK, Label
  <1>7. /\ pc'[t] = l /\ (overtaken'[t] <=> overtaken[t])
        /\ \A u \in Thread \ {t} : pc'[u] = pc[u] /\ call'[u] = call[u]
    BY <1>1, <1>2 DEF PropInv, TypeOK
  <1>8. ASSUME NEW u \in Thread \ {t} PROVE Sane(u)' /\ (~overtaken'[u] => Fresh(u)')
    <2>1. Sane(u) /\ (~overtaken[u] => Fresh(u))
      BY DEF PropInv
    <2>2. Sane(u)'
      BY <1>1, <1>7, <2>1 DEF Sane, Replying
    <2>3. CASE pc[u] = "idle"
      BY <1>7, <2>2, <2>3 DEF Fresh, Discussing, Linking, Making, Holding
    <2>4. CASE pc[u] # "idle" /\ ~overtaken'[u]
      <3>1. ~b /\ ~overtaken[u]
        BY <1>2, <2>4
      <3>2. tasks' = tasks /\ Fresh(u)
        BY <1>4, <2>1, <3>1
      <3> QED
        BY <1>1, <1>2, <1>7, <2>2, <3>2 DEF Fresh, Discussing, Permitted
    <2> QED
      BY <2>2, <2>3, <2>4
  <1>9. Sane(t) /\ (~overtaken[t] => Fresh(t))
    BY DEF PropInv
  <1>10. Sane(t)'
    BY <1>1, <1>2, <1>7, <1>9 DEF Sane, Replying, Linking, Holding
  <1>11. ~overtaken'[t] => Fresh(t)'
    BY <1>1, <1>2, <1>7, <1>9 DEF Fresh, Discussing, Linking, Making, Holding, Permitted
  <1> QED
    BY <1>6, <1>8, <1>10, <1>11 DEF PropInv

\* The writes.
LEMMA Writes ==
    ASSUME PropInv, NEW t \in Thread,
           \/ ensure_write(t) \/ link_write(t) \/ upsert_proposal(t) \/ mark_proposal_materialized(t)
           \/ apply_write(t) \/ seen_write(t) \/ decide_write(t)
    PROVE  PropInv'
  <1> DEFINE c == call[t]
  <1>1. c \in Call /\ c.doc \in Proposal /\ Sane(t) /\ (~overtaken[t] => Fresh(t))
    BY DEF PropInv, TypeOK, Call
  <1>2. ASSUME NEW new, NEW l, Write(t, new, l),
               new \in Proposal, new.status # "absent",
               l \in {"idle", "ensure", "github", "materialize", "comments", "reply"},
               l \in {"ensure", "github"} => c.then \in Reader,
               ~overtaken[t] /\ (l = "comments" \/ (l \in {"ensure", "github"} /\ c.then = "comments"))
                 => new.status \in Discussed,
               l = "reply" \/ (l \in {"ensure", "github"} /\ c.then = "reply") => c.latest # 0
        PROVE  PropInv'
    BY <1>2, WriteStep
  <1>3. ASSUME NEW s \in Status PROVE [c.doc EXCEPT !.status = s] \in Proposal /\ [c.doc EXCEPT !.status = s].status = s
    BY <1>1, <1>3 DEF Proposal
  <1>4. CASE ensure_write(t)
    <2>1. pc[t] = "ensure_put" /\ Write(t, c.doc, "github")
      BY <1>4 DEF ensure_write
    <2>2. c.doc.status # "absent" /\ c.then \in Reader /\ (c.then = "reply" => c.latest # 0)
      BY <1>1, <2>1 DEF Sane, Replying, Holding, Linking
    <2>3. ~overtaken[t] /\ c.then = "comments" => c.doc.status \in Discussed
      BY <1>1, <2>1 DEF Fresh, Holding, Linking, Discussing
    <2> QED
      BY <1>1, <1>2, <2>1, <2>2, <2>3
  <1>5. CASE link_write(t)
    <2> DEFINE new == [c.doc EXCEPT !.issue = @ \/ c.flag]
    <2>1. pc[t] = "link_put" /\ Write(t, new, c.then)
      BY <1>5 DEF link_write
    <2>2. c.doc.status # "absent" /\ c.then \in Reader /\ (c.then = "reply" => c.latest # 0)
      BY <1>1, <2>1 DEF Sane, Replying, Holding, Linking
    <2>3. new \in Proposal /\ new.status = c.doc.status
      BY <1>1 DEF Proposal, Call
    <2>4. ~overtaken[t] /\ c.then = "comments" => new.status \in Discussed
      BY <1>1, <2>1, <2>3 DEF Fresh, Holding, Linking, Discussing
    <2> HIDE DEF new
    <2> QED
      BY <1>2, <2>1, <2>2, <2>3, <2>4 DEF Reader
  <1>6. CASE upsert_proposal(t)
    <2> DEFINE s == IF c.doc.status # "absent" THEN c.doc.status
                    ELSE IF Confirm THEN "PENDING_CONFIRMATION" ELSE "COLLECTING"
               l == IF Confirm THEN "ensure" ELSE "materialize"
               new == [c.doc EXCEPT !.status = s]
    <2>1. pc[t] = "upsert_put" /\ Write(t, new, l)
      BY <1>6 DEF upsert_proposal
    <2>2. s \in Status /\ s # "absent"
      BY <1>1 DEF Proposal, Status
    <2>3. new \in Proposal /\ new.status = s
      BY <1>3, <2>2
    <2>4. c.then = "materialize" /\ l \in {"ensure", "materialize"}
      BY <1>1, <2>1 DEF Sane, Replying
    <2> HIDE DEF new, s, l
    <2> QED
      BY <1>2, <2>1, <2>2, <2>3, <2>4 DEF Reader
  <1>7. CASE mark_proposal_materialized(t)
    <2>1. Write(t, [c.doc EXCEPT !.status = "MATERIALIZED"], "idle") /\ "MATERIALIZED" \in Status
      BY <1>7 DEF mark_proposal_materialized, Status
    <2> QED
      BY <1>2, <1>3, <2>1
  <1>8. CASE apply_write(t)
    <2> DEFINE s == IF c.action \in Decision THEN Decided[c.action] ELSE "PENDING_CONFIRMATION"
               new == [c.doc EXCEPT !.status = s]
    <2>1. pc[t] = "apply_put" /\ Write(t, new, "ensure")
      BY <1>8 DEF apply_write
    <2>2. s \in Status /\ s # "absent"
      BY DEF Decision, Decided, Status
    <2>3. new \in Proposal /\ new.status = s
      BY <1>3, <2>2
    <2>4. c.then = "reply" /\ c.latest # 0
      BY <1>1, <2>1 DEF Sane, Replying
    <2> HIDE DEF new, s
    <2> QED
      BY <1>2, <2>1, <2>2, <2>3, <2>4 DEF Reader
  <1>9. CASE seen_write(t)
    <2> DEFINE new == [c.doc EXCEPT !.cursor = c.latest]
    <2>1. pc[t] = "seen_put" /\ Write(t, new, "idle")
      BY <1>9 DEF seen_write
    <2>2. new \in Proposal /\ new.status = c.doc.status
      BY <1>1 DEF Proposal, Call
    <2>3. c.doc.status # "absent"
      BY <1>1, <2>1 DEF Sane, Replying, Holding
    <2> HIDE DEF new
    <2> QED
      BY <1>2, <2>1, <2>2, <2>3
  <1>10. CASE decide_write(t)
    <2> DEFINE s == Decided[c.action]
    <2>1. pc[t] = "decide_put" /\ Write(t, [c.doc EXCEPT !.status = s], "idle")
      BY <1>10 DEF decide_write
    <2>2. s \in Status /\ s # "absent"
      BY <1>1, <2>1 DEF Sane, Replying, Decision, Decided, Status
    <2> HIDE DEF s
    <2> QED
      BY <1>2, <1>3, <2>1, <2>2
  <1> QED
    BY <1>4, <1>5, <1>6, <1>7, <1>8, <1>9, <1>10

\* The other steps of a call.
LEMMA Proceeds ==
    ASSUME PropInv, NEW t \in Thread,
           materialize(t) \/ find_existing_task(t) \/ read_comments(t) \/ reply(t)
    PROVE  PropInv'
  <1>1. /\ call[t] \in Call /\ call[t].doc \in Proposal /\ Sane(t) /\ (~overtaken[t] => Fresh(t))
        /\ replies \subseteq 1 .. MaxComments /\ faults \in 0 .. MaxFaults
    BY DEF PropInv, TypeOK, Call
  <1>2. CASE materialize(t)
    <2>1. /\ pc[t] = "materialize" /\ UNCHANGED <<world, overtaken, counters>>
          /\ \/ due /\ should_materialize(call[t].doc.status) /\ Proceed(t, "find", NoCall)
             \/ Proceed(t, "idle", NoCall)
      BY <1>2 DEF materialize
    <2>2. row.status # "absent" /\ (~overtaken[t] => call[t].doc = row)
      BY <1>1, <2>1 DEF Sane, Replying, Fresh, Holding
    <2>3. row \in Proposal
      BY DEF PropInv, TypeOK
    <2>4. due /\ should_materialize(call[t].doc.status) /\ ~overtaken[t] => due /\ Permitted(row.status)
      BY <2>2, <2>3 DEF should_materialize, Permitted, Proposal, Status
    <2>5. "find" \in Label /\ "idle" \in Label
      BY DEF Label
    <2> QED
      BY <1>1, <2>1, <2>2, <2>4, <2>5, Nothing, ProceedStep DEF world, counters
  <1>3. CASE find_existing_task(t)
    <2> DEFINE b == tasks[call[t].item] > 0
               c == [call[t] EXCEPT !.flag = b]
    <2>1. /\ pc[t] = "find" /\ Proceed(t, "create", c) /\ UNCHANGED <<world, overtaken, counters>>
      BY <1>3 DEF find_existing_task
    <2>3. b \in BOOLEAN /\ (IF b THEN tasks[call[t].item] # 0 ELSE tasks[call[t].item] = 0)
      <3>1. tasks[call[t].item] \in Nat
        BY <1>1 DEF PropInv, TypeOK, Call
      <3> QED
        BY <3>1
    <2> HIDE DEF b
    <2>2. c \in Call /\ c.item = call[t].item /\ c.flag = b /\ "create" \in Label
      BY <1>1, <2>3 DEF Call, Label
    <2> HIDE DEF c
    <2>4. IF c.flag THEN tasks[c.item] # 0 ELSE tasks[c.item] = 0
      BY <2>2, <2>3
    <2> QED
      BY <1>1, <2>1, <2>2, <2>4, ProceedStep DEF world, counters
  <1>4. CASE read_comments(t)
    <2> DEFINE latest == Len(comments)
    <2>1. /\ pc[t] = "comments" /\ UNCHANGED <<world, overtaken, counters>>
          /\ \/ Proceed(t, "idle", NoCall)
             \/ /\ call[t].doc.cursor + 1 .. latest # {}
                /\ \E a \in Action : Proceed(t, "apply",
                         [NoCall EXCEPT !.action = a, !.latest = latest, !.then = "reply"])
      BY <1>4 DEF read_comments, action_of, Action, Decision
    <2>2. latest \in 0 .. MaxComments
      <3>1. comments \in Seq(Asks) /\ Len(comments) <= MaxComments /\ Len(comments) \in Nat
        BY DEF PropInv, TypeOK
      <3> QED
        BY <3>1, ProposalsAssumption
    <2>5. call[t].doc.cursor + 1 .. latest # {} => latest # 0
      BY <1>1, <2>2 DEF Proposal
    <2> HIDE DEF latest
    <2>3. CASE Proceed(t, "idle", NoCall)
      BY <1>1, <2>1, <2>3, Nothing, ProceedStep DEF world, counters, Label
    <2>4. CASE latest # 0 /\ \E a \in Action : Proceed(t, "apply", [NoCall EXCEPT !.action = a, !.latest = latest, !.then = "reply"])
      <3>1. PICK a \in Action : Proceed(t, "apply", [NoCall EXCEPT !.action = a, !.latest = latest, !.then = "reply"])
        BY <2>4
      <3> DEFINE c == [NoCall EXCEPT !.action = a, !.latest = latest, !.then = "reply"]
      <3>2. c \in Call /\ c.then = "reply" /\ c.latest # 0
        BY <2>2, <2>4, Nothing DEF Call, Label
      <3>3. Proceed(t, "apply", c)
        BY <3>1
      <3> HIDE DEF c
      <3> QED
        BY <1>1, <2>1, <3>2, <3>3, ProceedStep DEF world, counters, Label
    <2> QED
      BY <2>1, <2>3, <2>4, <2>5
  <1>5. CASE reply(t)
    <2> DEFINE c == [NoCall EXCEPT !.latest = call[t].latest]
    <2>1. /\ pc[t] = "reply" /\ UNCHANGED <<due, comments, tasks, overtaken, runs, decisions>>
          /\ \/ Proceed(t, "idle", NoCall) /\ UNCHANGED replies /\ (UNCHANGED faults \/ (faults < MaxFaults /\ faults' = faults + 1))
             \/ /\ call[t].doc.issue /\ Proceed(t, "seen", c) /\ UNCHANGED faults
                /\ replies' = replies \cup {call[t].latest}
      BY <1>5 DEF reply
    <2>2. call[t].latest \in 1 .. MaxComments
      <3>1. call[t].latest \in 0 .. MaxComments /\ call[t].latest # 0
        BY <1>1, <2>1 DEF Sane, Replying, Call
      <3> QED
        BY <3>1, ProposalsAssumption
    <2>3. c \in Call
      BY <1>1, Nothing DEF Call
    <2> HIDE DEF c
    <2>4. CASE Proceed(t, "idle", NoCall) /\ UNCHANGED replies /\ (UNCHANGED faults \/ (faults < MaxFaults /\ faults' = faults + 1))
      <3>1. faults' \in 0 .. MaxFaults
        BY <1>1, <2>4, ProposalsAssumption
      <3> QED
        BY <1>1, <2>1, <2>4, <3>1, Nothing, ProceedStep DEF Label
    <2>5. CASE Proceed(t, "seen", c) /\ UNCHANGED faults /\ replies' = replies \cup {call[t].latest}
      <3>1. replies' \subseteq 1 .. MaxComments
        BY <1>1, <2>2, <2>5
      <3> QED
        BY <1>1, <2>1, <2>3, <2>5, <3>1, ProceedStep DEF Label
    <2> QED
      BY <2>1, <2>4, <2>5
  <1> QED
    BY <1>2, <1>3, <1>4, <1>5

\* The calls that begin.
LEMMA Begins ==
    ASSUME PropInv, NEW t \in Thread, collect(t) \/ claim(t) \/ decide_load(t)
    PROVE  PropInv'
  <1>1. /\ row \in Proposal /\ runs \in 0 .. MaxRuns /\ decisions \in 0 .. MaxDecisions
        /\ MaxRuns \in Nat /\ MaxDecisions \in Nat
    BY ProposalsAssumption DEF PropInv, TypeOK
  <1>2. ASSUME NEW l \in Label, NEW a \in Action
        PROVE  /\ [Loaded EXCEPT !.then = l] \in Call /\ [Loaded EXCEPT !.action = a] \in Call
               /\ [Loaded EXCEPT !.then = l].then = l /\ [Loaded EXCEPT !.then = l].doc = row
               /\ [Loaded EXCEPT !.action = a].action = a /\ [Loaded EXCEPT !.action = a].doc = row
    BY <1>1, Nothing DEF Loaded, Call
  <1>3. CASE collect(t)
    <2> DEFINE c == [Loaded EXCEPT !.then = "materialize"]
    <2>1. Begin(t, "upsert_put", c) /\ UNCHANGED <<decisions, faults>> /\ runs' \in 0 .. MaxRuns
      BY <1>1, <1>3 DEF collect
    <2>2. c \in Call /\ c.then = "materialize" /\ c.doc = row
      BY <1>2 DEF Label, Action
    <2> HIDE DEF c
    <2> QED
      BY <1>1, <2>1, <2>2, BeginStep
  <1>4. CASE claim(t)
    <2> DEFINE c == [Loaded EXCEPT !.then = "comments"]
    <2>1. Begin(t, "ensure", c) /\ UNCHANGED counters /\ row.status \in Discussed
      BY <1>4 DEF claim
    <2>2. c \in Call /\ c.then = "comments" /\ c.doc = row
      BY <1>2 DEF Label, Action
    <2>3. row.status # "absent"
      BY <2>1 DEF Discussed
    <2> HIDE DEF c
    <2> QED
      BY <1>1, <2>1, <2>2, <2>3, BeginStep DEF counters
  <1>5. CASE decide_load(t)
    <2>1. PICK a \in Decision : Begin(t, "decide_put", [Loaded EXCEPT !.action = a])
      BY <1>5 DEF decide_load
    <2> DEFINE c == [Loaded EXCEPT !.action = a]
    <2>2. /\ Begin(t, "decide_put", c) /\ UNCHANGED <<runs, faults>> /\ decisions' \in 0 .. MaxDecisions
          /\ row.status # "absent"
      BY <1>1, <1>5, <2>1 DEF decide_load
    <2>3. c \in Call /\ c.action = a /\ c.doc = row
      BY <1>2 DEF Label, Action
    <2> HIDE DEF c
    <2> QED
      BY <1>1, <2>2, <2>3, BeginStep
  <1> QED
    BY <1>3, <1>4, <1>5

LEMMA PropNext ==
    ASSUME PropInv, [Next]_vars
    PROVE  PropInv'
  <1>1. ASSUME NEW t \in Thread, Step(t) PROVE PropInv'
    <2>1. CASE ensure_load(t) \/ mark_load(t) \/ apply_load(t) \/ seen_load(t)
      BY <2>1, LoadStep DEF ensure_load, mark_load, apply_load, seen_load
    <2> QED
      BY <1>1, <2>1, IssueStep, TaskStep, Writes, Proceeds DEF Step
  <1>2. ASSUME NEW t \in Thread, collect(t) \/ claim(t) \/ decide_load(t) PROVE PropInv'
    BY <1>2, Begins
  <1>3. CASE Comment
    <2>1. /\ UNCHANGED <<row, due, replies, tasks, pc, call, overtaken, runs, decisions, faults>>
          /\ \E a \in Asks : comments' = Append(comments, a)
          /\ Len(comments) < MaxComments
      BY <1>3 DEF Comment, counters
    <2>2. comments' \in Seq(Asks) /\ Len(comments') <= MaxComments
      BY <2>1, ProposalsAssumption DEF PropInv, TypeOK
    <2>3. TypeOK'
      BY <2>1, <2>2 DEF PropInv, TypeOK
    <2>4. ASSUME NEW t \in Thread PROVE Sane(t)' /\ (~overtaken'[t] => Fresh(t)')
      <3>1. Sane(t) /\ (~overtaken[t] => Fresh(t))
        BY DEF PropInv
      <3> QED
        BY <2>1, <3>1 DEF Sane, Replying, Fresh, Discussing, Permitted
    <2> QED
      BY <2>3, <2>4 DEF PropInv
  <1>4. CASE CooldownEnds
    <2>1. due' = TRUE /\ UNCHANGED <<row, comments, replies, tasks, pc, call, overtaken, runs, decisions, faults>>
      BY <1>4 DEF CooldownEnds, counters
    <2>2. TypeOK'
      BY <2>1 DEF PropInv, TypeOK
    <2>3. ASSUME NEW t \in Thread PROVE Sane(t)' /\ (~overtaken'[t] => Fresh(t)')
      <3>1. Sane(t) /\ (~overtaken[t] => Fresh(t))
        BY DEF PropInv
      <3> QED
        BY <2>1, <3>1 DEF Sane, Replying, Fresh, Discussing, Permitted
    <2> QED
      BY <2>2, <2>3 DEF PropInv
  <1>5. CASE Crash
    <2>1. /\ pc' = [t \in Thread |-> "idle"] /\ call' = [t \in Thread |-> NoCall]
          /\ overtaken' = [t \in Thread |-> FALSE]
          /\ UNCHANGED <<row, due, comments, replies, tasks, runs, decisions>>
      BY <1>5 DEF Crash, world
    <2>2. faults' \in 0 .. MaxFaults
      BY <1>5, ProposalsAssumption DEF Crash, PropInv, TypeOK
    <2>3. TypeOK'
      BY <2>1, <2>2, Nothing DEF PropInv, TypeOK, Label
    <2>4. ASSUME NEW t \in Thread PROVE Sane(t)' /\ Fresh(t)'
      BY <2>1 DEF Sane, Replying, Fresh, Discussing, Linking, Making, Holding
    <2> QED
      BY <2>3, <2>4 DEF PropInv
  <1>6. CASE UNCHANGED vars
    <2>1. TypeOK'
      BY <1>6 DEF vars, PropInv, TypeOK
    <2>2. ASSUME NEW t \in Thread PROVE Sane(t)' /\ (~overtaken'[t] => Fresh(t)')
      <3>1. Sane(t) /\ (~overtaken[t] => Fresh(t))
        BY DEF PropInv
      <3> QED
        BY <1>6, <3>1 DEF vars, Sane, Replying, Fresh, Discussing, Permitted
    <2> QED
      BY <2>1, <2>2 DEF PropInv
  <1> QED
    BY <1>1, <1>2, <1>3, <1>4, <1>5, <1>6 DEF Next

\* The store, the issue and the calls keep their types.
THEOREM TypeCorrect == Spec => []TypeOK
  <1>1. PropInv => TypeOK
    BY DEF PropInv
  <1> QED
    BY <1>1, PropInit, PropNext, PTL DEF Spec

------------------------------------------------------------------------------
(* Tasks.                                                                  *)

\* Only a run that makes tasks changes them, and only its own.
LEMMA WhoMakes ==
    ASSUME PropInv, [Next]_vars, tasks' # tasks
    PROVE  \E t \in Thread : /\ ensure_task_record(t) /\ pc[t] = "create" /\ pc'[t] # "create"
                             /\ row' = row /\ due' = due
                             /\ tasks' = [tasks EXCEPT ![call[t].item] = IF call[t].flag THEN @ ELSE @ + 1]
  <1>1. PICK t \in Thread : ensure_task_record(t)
    <2>1. ASSUME NEW t \in Thread, Step(t), ~ensure_task_record(t) PROVE tasks' = tasks
      BY <2>1 DEF Step, ensure_load, ensure_write, ensure_issue, link_write, upsert_proposal, materialize,
           find_existing_task, mark_load, mark_proposal_materialized, read_comments, apply_load,
           apply_write, reply, seen_load, seen_write, decide_write, Load, Write, world
    <2>2. ASSUME NEW t \in Thread, collect(t) \/ claim(t) \/ decide_load(t) PROVE tasks' = tasks
      BY <2>2 DEF collect, claim, decide_load, Begin, world
    <2>3. Comment \/ CooldownEnds \/ Crash \/ UNCHANGED vars => tasks' = tasks
      BY DEF Comment, CooldownEnds, Crash, vars, world
    <2> QED
      BY <2>1, <2>2, <2>3 DEF Next
  <1>2. /\ pc[t] = "create" /\ due' = due
        /\ tasks' = [tasks EXCEPT ![call[t].item] = IF call[t].flag THEN @ ELSE @ + 1]
        /\ \E l \in {"find", "mark", "idle"} : pc' = [pc EXCEPT ![t] = l] /\ row' = row
    BY <1>1 DEF ensure_task_record, Proceed, Goto
  <1>3. pc'[t] # "create"
    BY <1>2 DEF PropInv, TypeOK
  <1> QED
    BY <1>1, <1>2, <1>3

\* Whatever planners, discussions, decisions and stops overlap: a task is made only
\* while its proposal may be worked on, unless its run was overtaken.
THEOREM WorkIsPermitted == Spec => OnlyPermittedWork
  <1>1. PropInv /\ [Next]_vars =>
          [tasks' # tasks =>
             \/ due /\ Permitted(row.status)
             \/ \E t \in Thread : pc[t] = "create" /\ pc'[t] # "create" /\ overtaken[t]]_vars
    <2> SUFFICES ASSUME PropInv, [Next]_vars, tasks' # tasks
                 PROVE  \/ due /\ Permitted(row.status)
                        \/ \E t \in Thread : pc[t] = "create" /\ pc'[t] # "create" /\ overtaken[t]
      OBVIOUS
    <2>1. PICK t \in Thread : pc[t] = "create" /\ pc'[t] # "create"
      BY WhoMakes
    <2>2. ~overtaken[t] => due /\ Permitted(row.status)
      BY <2>1 DEF PropInv, Fresh, Making
    <2> QED
      BY <2>1, <2>2
  <1> QED
    BY <1>1, PropInit, PropNext, PTL DEF Spec, OnlyPermittedWork

\* A work item gets a second task only from a run that was overtaken, however often
\* its proposal is collected and wherever a run has ended.
THEOREM NoDuplicates == Spec => NoDuplicateTask
  <1>1. PropInv /\ [Next]_vars =>
          [\A i \in 1 .. Items : tasks'[i] > 1 /\ tasks'[i] # tasks[i] =>
             \E t \in Thread : pc[t] = "create" /\ pc'[t] # "create" /\ overtaken[t]]_vars
    <2> SUFFICES ASSUME PropInv, [Next]_vars, NEW i \in 1 .. Items, tasks'[i] > 1, tasks'[i] # tasks[i]
                 PROVE  \E t \in Thread : pc[t] = "create" /\ pc'[t] # "create" /\ overtaken[t]
      OBVIOUS
    <2>1. PICK t \in Thread :
            /\ pc[t] = "create" /\ pc'[t] # "create"
            /\ tasks' = [tasks EXCEPT ![call[t].item] = IF call[t].flag THEN @ ELSE @ + 1]
      BY WhoMakes
    <2>2. tasks \in [1 .. Items -> Nat]
      BY DEF PropInv, TypeOK
    <2>3. i = call[t].item /\ ~call[t].flag /\ tasks[i] # 0
      BY <2>1, <2>2
    <2>4. ~overtaken[t] => IF call[t].flag THEN tasks[call[t].item] # 0 ELSE tasks[call[t].item] = 0
      BY <2>1 DEF PropInv, Fresh
    <2> QED
      BY <2>1, <2>3, <2>4
  <1> QED
    BY <1>1, PropInit, PropNext, PTL DEF Spec, NoDuplicateTask

------------------------------------------------------------------------------
(* The rejection.                                                          *)

\* A rejected proposal stays rejected against every call but a decision over the
\* API, unless the call was overtaken since it began.
THEOREM RejectionIsKept == Spec => RejectionStands
  <1>1. PropInv /\ [Next]_vars =>
          [row.status = "REJECTED" /\ row'.status # "REJECTED" =>
             \E t \in Thread :
                /\ pc'[t] # pc[t]
                /\ pc[t] = "decide_put" \/ overtaken[t]]_vars
    <2> SUFFICES ASSUME PropInv, [Next]_vars, row.status = "REJECTED", row'.status # "REJECTED"
                 PROVE  \E t \in Thread : pc'[t] # pc[t] /\ (pc[t] = "decide_put" \/ overtaken[t])
      OBVIOUS
    <2>1. row \in Proposal /\ row' # row
      BY DEF PropInv, TypeOK
    <2>2. PICK t \in Thread :
            \/ ensure_write(t) \/ link_write(t) \/ upsert_proposal(t) \/ mark_proposal_materialized(t)
            \/ apply_write(t) \/ seen_write(t) \/ decide_write(t)
      <3>1. ASSUME NEW t \in Thread, Step(t) PROVE
              \/ row' = row
              \/ ensure_write(t) \/ link_write(t) \/ upsert_proposal(t) \/ mark_proposal_materialized(t)
              \/ apply_write(t) \/ seen_write(t) \/ decide_write(t)
        BY <3>1 DEF Step, ensure_load, ensure_issue, materialize, find_existing_task, ensure_task_record,
             mark_load, read_comments, apply_load, reply, seen_load, Load, Proceed
      <3>2. ASSUME NEW t \in Thread, collect(t) \/ claim(t) \/ decide_load(t) PROVE row' = row
        BY <3>2 DEF collect, claim, decide_load, Begin
      <3>3. Comment \/ CooldownEnds \/ Crash \/ UNCHANGED vars => row' = row
        BY DEF Comment, CooldownEnds, Crash, vars
      <3> QED
        BY <2>1, <3>1, <3>2, <3>3 DEF Next
    <2>3. call[t] \in Call /\ call[t].doc \in Proposal /\ Sane(t) /\ (~overtaken[t] => Fresh(t))
      BY DEF PropInv, TypeOK, Call
    <2>4. pc'[t] # pc[t]
      <3>1. \E l \in {"idle", "ensure", "github", "materialize", "comments", "reply"} : pc' = [pc EXCEPT ![t] = l]
        <4>1. link_write(t) => call[t].then \in Reader
          BY <2>3 DEF link_write, Sane, Linking
        <4> QED
          BY <2>2, <4>1 DEF ensure_write, link_write, upsert_proposal, mark_proposal_materialized, apply_write,
               seen_write, decide_write, Write, Goto, Reader
      <3>2. pc[t] \in Holding \ Reader
        BY <2>2 DEF ensure_write, link_write, upsert_proposal, mark_proposal_materialized, apply_write,
             seen_write, decide_write, Holding, Reader
      <3> QED
        BY <3>1, <3>2 DEF PropInv, TypeOK, Holding, Reader
    <2>5. ASSUME ~overtaken[t] PROVE decide_write(t)
      <3>1. Fresh(t)
        BY <2>3, <2>5
      <3>2. ASSUME NEW new, NEW l, Write(t, new, l), new.status = row.status PROVE FALSE
        BY <3>2 DEF Write
      <3>3. ~ensure_write(t)
        BY <3>1, <3>2 DEF ensure_write, Fresh, Holding
      <3>4. ~link_write(t)
        BY <2>3, <3>1, <3>2 DEF link_write, Fresh, Holding, Proposal
      <3>5. ~seen_write(t)
        BY <2>3, <3>1, <3>2 DEF seen_write, Fresh, Holding, Proposal
      <3>6. ~upsert_proposal(t)
        BY <2>3, <3>1, <3>2 DEF upsert_proposal, Fresh, Holding, Proposal
      <3>7. ~mark_proposal_materialized(t)
        BY <3>1 DEF mark_proposal_materialized, Fresh, Making, Permitted
      <3>8. ~apply_write(t)
        BY <3>1 DEF apply_write, Fresh, Discussing, Discussed
      <3> QED
        BY <2>2, <3>3, <3>4, <3>5, <3>6, <3>7, <3>8
    <2> QED
      BY <2>4, <2>5 DEF decide_write
  <1> QED
    BY <1>1, PropInit, PropNext, PTL DEF Spec, RejectionStands

------------------------------------------------------------------------------
(* Comments.  The cursor, and every copy of it that a call may write back, *)
(* is a comment that a reply names (Answered): replies are never taken     *)
(* back, so a copy that is out of date puts the cursor back, never ahead.  *)

Answered(n) == n = 0 \/ n \in replies

SeenIsAnswered == Answered(row.cursor) /\ row.cursor <= Len(comments)

CommentInv ==
    /\ Answered(row.cursor)
    /\ \A n \in replies : n <= Len(comments)
    /\ \A t \in Thread :
         /\ Answered(call[t].doc.cursor) /\ call[t].latest <= Len(comments)
         /\ pc[t] \in {"seen", "seen_put"} => call[t].latest \in replies

LEMMA CommentInit ==
    ASSUME Init
    PROVE  CommentInv
  BY DEF Init, CommentInv, Answered, NoProposal, NoCall

\* A step of one call that brings no new comment.
LEMMA OneCall ==
    ASSUME PropInv, CommentInv, NEW t \in Thread, NEW l \in Label, NEW c \in Call,
           pc' = [pc EXCEPT ![t] = l], call' = [call EXCEPT ![t] = c],
           comments' = comments, replies \subseteq replies', \A n \in replies' : n <= Len(comments),
           row'.cursor = 0 \/ row'.cursor \in replies', c.doc.cursor = 0 \/ c.doc.cursor \in replies',
           c.latest <= Len(comments), l \in {"seen", "seen_put"} => c.latest \in replies'
    PROVE  CommentInv'
  <1>1. pc'[t] = l /\ call'[t] = c
    BY DEF PropInv, TypeOK
  <1>2. \A u \in Thread \ {t} : pc'[u] = pc[u] /\ call'[u] = call[u]
    BY DEF PropInv, TypeOK
  <1>3. ASSUME NEW u \in Thread
        PROVE  /\ Answered(call[u].doc.cursor)' /\ (call[u].latest <= Len(comments))'
               /\ pc'[u] \in {"seen", "seen_put"} => call'[u].latest \in replies'
    <2>1. CASE u = t
      BY <1>1, <2>1 DEF Answered
    <2>2. CASE u # t
      BY <1>2, <2>2 DEF CommentInv, Answered
    <2> QED
      BY <2>1, <2>2
  <1> QED
    BY <1>3 DEF CommentInv, Answered

\* The whole document is written back.
LEMMA CommentWrite ==
    ASSUME PropInv, CommentInv, NEW t \in Thread, NEW new \in Proposal,
           NEW l \in Label \ {"seen", "seen_put"}, Write(t, new, l), new.cursor = 0 \/ new.cursor \in replies
    PROVE  CommentInv'
  <1> DEFINE d == IF l \in Reader THEN new ELSE NoProposal
             c == IF l = "idle" THEN NoCall ELSE [call[t] EXCEPT !.flag = FALSE, !.doc = d]
  <1>1. /\ row' = new /\ pc' = [pc EXCEPT ![t] = l] /\ call' = [call EXCEPT ![t] = c]
        /\ UNCHANGED <<comments, replies>>
    BY DEF Write, Goto, world
  <1>2. d \in Proposal /\ NoCall \in Call /\ (d.cursor = 0 \/ d.cursor \in replies)
    BY Nothing DEF NoProposal
  <1>3. c \in Call /\ c.doc = (IF l = "idle" THEN NoProposal ELSE d) /\ c.latest = (IF l = "idle" THEN 0 ELSE call[t].latest)
    <2>1. call[t] \in Call
      BY DEF PropInv, TypeOK
    <2> HIDE DEF d
    <2> QED
      BY <1>2, <2>1 DEF Call, NoCall
  <1>4. c.latest <= Len(comments) /\ (c.doc.cursor = 0 \/ c.doc.cursor \in replies)
    <2>1. call[t].latest <= Len(comments) /\ Len(comments) \in Nat
      BY DEF CommentInv, PropInv, TypeOK
    <2> HIDE DEF c, d
    <2> QED
      BY <1>2, <1>3, <2>1 DEF NoProposal
  <1>5. \A n \in replies : n <= Len(comments)
    BY DEF CommentInv
  <1> HIDE DEF c, d
  <1> QED
    BY <1>1, <1>3, <1>4, <1>5, OneCall

\* A call loads the document.
LEMMA CommentLoad ==
    ASSUME PropInv, CommentInv, NEW t \in Thread,
           ensure_load(t) \/ mark_load(t) \/ apply_load(t) \/ seen_load(t) \/ ensure_issue(t)
    PROVE  CommentInv'
  <1>1. PICK from \in {"ensure", "mark", "apply", "seen", "github"}, c \in Call :
          /\ pc[t] = from
          /\ pc' = [pc EXCEPT ![t] = CASE from = "ensure" -> "ensure_put" [] from = "mark" -> "mark_put"
                                       [] from = "apply" -> "apply_put" [] from = "seen" -> "seen_put"
                                       [] from = "github" -> "link_put"]
          /\ call' = [call EXCEPT ![t] = c] /\ c.doc = row /\ c.latest = call[t].latest
          /\ UNCHANGED <<row, comments, replies>>
    <2>1. call[t] \in Call /\ row \in Proposal
      BY DEF PropInv, TypeOK
    <2>2. ASSUME NEW b \in BOOLEAN PROVE [call[t] EXCEPT !.doc = row, !.flag = b] \in Call
      BY <2>1 DEF Call
    <2>3. [call[t] EXCEPT !.doc = row] \in Call
      BY <2>1 DEF Call
    <2>4. CASE ensure_load(t)
      BY <2>1, <2>3, <2>4 DEF ensure_load, Load, Goto, world, Call
    <2>5. CASE mark_load(t)
      BY <2>1, <2>3, <2>5 DEF mark_load, Load, Goto, world, Call
    <2>6. CASE apply_load(t)
      BY <2>1, <2>3, <2>6 DEF apply_load, Load, Goto, world, Call
    <2>7. CASE seen_load(t)
      BY <2>1, <2>3, <2>7 DEF seen_load, Load, Goto, world, Call
    <2>8. CASE ensure_issue(t)
      <3> DEFINE b == faults' = faults
      <3>1. /\ pc[t] = "github" /\ pc' = [pc EXCEPT ![t] = "link_put"]
            /\ call' = [call EXCEPT ![t].doc = row, ![t].flag = b] /\ UNCHANGED <<row, comments, replies>>
        BY <2>8 DEF ensure_issue, Goto, world
      <3>2. b \in BOOLEAN
        OBVIOUS
      <3> HIDE DEF b
      <3>3. call' = [call EXCEPT ![t] = [call[t] EXCEPT !.doc = row, !.flag = b]]
        BY <3>1 DEF PropInv, TypeOK
      <3>4. [call[t] EXCEPT !.doc = row, !.flag = b].doc = row /\ [call[t] EXCEPT !.doc = row, !.flag = b].latest = call[t].latest
        BY <2>1 DEF Call
      <3> QED
        BY <2>2, <3>1, <3>2, <3>3, <3>4
    <2> QED
      BY <2>4, <2>5, <2>6, <2>7, <2>8
  <1>2. /\ row.cursor = 0 \/ row.cursor \in replies
        /\ call[t].latest <= Len(comments) /\ (from = "seen" => call[t].latest \in replies)
        /\ \A n \in replies : n <= Len(comments)
    BY <1>1 DEF CommentInv, Answered
  <1>3. PICK l \in Label : pc' = [pc EXCEPT ![t] = l] /\ (l \in {"seen", "seen_put"} => from = "seen")
    BY <1>1 DEF Label
  <1> QED
    BY <1>1, <1>2, <1>3, OneCall

\* Calls begin, and go on to their next step.
LEMMA CommentProceed ==
    ASSUME PropInv, CommentInv, NEW t \in Thread,
           \/ materialize(t) \/ find_existing_task(t) \/ ensure_task_record(t) \/ read_comments(t) \/ reply(t)
           \/ collect(t) \/ claim(t) \/ decide_load(t)
    PROVE  CommentInv'
  <1>0. /\ call[t] \in Call /\ row \in Proposal /\ NoCall \in Call /\ Len(comments) \in Nat
        /\ Len(comments) \in 0 .. MaxComments
    BY Nothing DEF PropInv, TypeOK
  <1>1. PICK l \in Label, c \in Call :
          /\ pc' = [pc EXCEPT ![t] = l] /\ call' = [call EXCEPT ![t] = c] /\ UNCHANGED <<row, comments>>
          /\ c.doc \in {NoProposal, row, call[t].doc} /\ c.latest \in {0, call[t].latest, Len(comments)}
          /\ \/ replies' = replies /\ l \notin {"seen", "seen_put"}
             \/ replies' = replies \cup {call[t].latest} /\ (l = "seen" => c.latest = call[t].latest) /\ l # "seen_put"
    <2>1. CASE materialize(t)
      BY <1>0, <2>1 DEF materialize, Proceed, Goto, world, NoCall, Label
    <2>2. CASE find_existing_task(t)
      <3>1. (tasks[call[t].item] > 0) \in BOOLEAN
        OBVIOUS
      <3>2. ASSUME NEW b \in BOOLEAN PROVE [call[t] EXCEPT !.flag = b] \in Call
        BY <1>0 DEF Call
      <3> QED
        BY <1>0, <2>2, <3>1, <3>2 DEF find_existing_task, Proceed, Goto, world, Label, Call
    <2>3. CASE ensure_task_record(t)
      <3>1. call[t].item \in 1 .. Items /\ Items \in Nat
        BY <1>0, ProposalsAssumption DEF Call
      <3>2. call[t].item < Items => [NoCall EXCEPT !.item = call[t].item + 1] \in Call
        BY <1>0, <3>1 DEF Call
      <3> QED
        BY <1>0, <2>3, <3>2 DEF ensure_task_record, Proceed, Goto, NoCall, Label
    <2>4. CASE read_comments(t)
      <3>1. ASSUME NEW a \in Action
            PROVE  [NoCall EXCEPT !.action = a, !.latest = Len(comments), !.then = "reply"] \in Call
        BY <1>0 DEF Call, Label
      <3>2. ASSUME NEW asked, NEW a \in action_of(asked) PROVE a \in Action
        BY <3>2 DEF action_of, Action, Decision
      <3> QED
        BY <1>0, <2>4, <3>1, <3>2 DEF read_comments, Proceed, Goto, world, NoCall, Label
    <2>5. CASE reply(t)
      <3>1. [NoCall EXCEPT !.latest = call[t].latest] \in Call
        BY <1>0 DEF Call
      <3> QED
        BY <1>0, <2>5, <3>1 DEF reply, Proceed, Goto, NoCall, Label
    <2>6. CASE collect(t) \/ claim(t)
      <3>1. ASSUME NEW then \in Label PROVE [Loaded EXCEPT !.then = then] \in Call
        BY <1>0 DEF Call, Loaded
      <3> QED
        BY <1>0, <2>6, <3>1 DEF collect, claim, Begin, Goto, world, Loaded, NoCall, Label
    <2>7. CASE decide_load(t)
      <3>1. ASSUME NEW a \in Decision PROVE [Loaded EXCEPT !.action = a] \in Call
        BY <1>0 DEF Call, Loaded, Action
      <3> QED
        BY <1>0, <2>7, <3>1 DEF decide_load, Begin, Goto, world, Loaded, NoCall, Label
    <2> QED
      BY <2>1, <2>2, <2>3, <2>4, <2>5, <2>6, <2>7
  <1>2. /\ row.cursor = 0 \/ row.cursor \in replies
        /\ call[t].doc.cursor = 0 \/ call[t].doc.cursor \in replies
        /\ call[t].latest <= Len(comments) /\ \A n \in replies : n <= Len(comments)
    BY DEF CommentInv, Answered
  <1>3. replies \subseteq replies' /\ \A n \in replies' : n <= Len(comments)
    BY <1>1, <1>2
  <1>4. (c.doc.cursor = 0 \/ c.doc.cursor \in replies') /\ c.latest <= Len(comments)
    BY <1>0, <1>1, <1>2, <1>3 DEF NoProposal
  <1>5. l \in {"seen", "seen_put"} => c.latest \in replies'
    BY <1>1
  <1> QED
    BY <1>1, <1>2, <1>3, <1>4, <1>5, OneCall

LEMMA CommentWrites ==
    ASSUME PropInv, CommentInv, NEW t \in Thread,
           \/ ensure_write(t) \/ link_write(t) \/ upsert_proposal(t) \/ mark_proposal_materialized(t)
           \/ apply_write(t) \/ seen_write(t) \/ decide_write(t)
    PROVE  CommentInv'
  <1>1. /\ call[t] \in Call /\ call[t].doc \in Proposal /\ call[t].latest \in 0 .. MaxComments
        /\ call[t].doc.cursor = 0 \/ call[t].doc.cursor \in replies
    BY DEF PropInv, TypeOK, Call, CommentInv, Answered
  <1>2. PICK new \in Proposal, l \in Label \ {"seen", "seen_put"} :
          Write(t, new, l) /\ new.cursor \in {call[t].doc.cursor} \cup (IF pc[t] = "seen_put" THEN {call[t].latest} ELSE {})
    <2>1. ASSUME NEW s \in Status PROVE [call[t].doc EXCEPT !.status = s] \in Proposal /\ [call[t].doc EXCEPT !.status = s].cursor = call[t].doc.cursor
      BY <1>1 DEF Proposal
    <2>2. ASSUME NEW b \in BOOLEAN PROVE [call[t].doc EXCEPT !.issue = b] \in Proposal /\ [call[t].doc EXCEPT !.issue = b].cursor = call[t].doc.cursor
      BY <1>1 DEF Proposal
    <2>3. CASE ensure_write(t)
      BY <1>1, <2>3 DEF ensure_write, Label
    <2>4. CASE link_write(t)
      <3>1. Sane(t) /\ pc[t] = "link_put" /\ Write(t, [call[t].doc EXCEPT !.issue = @ \/ call[t].flag], call[t].then)
        BY <2>4 DEF link_write, PropInv
      <3>2. call[t].then \in Label \ {"seen", "seen_put"}
        BY <3>1 DEF Sane, Linking, Reader, Label
      <3>3. (call[t].doc.issue \/ call[t].flag) \in BOOLEAN
        OBVIOUS
      <3> QED
        BY <2>2, <3>1, <3>2, <3>3
    <2>5. CASE upsert_proposal(t)
      BY <1>1, <2>1, <2>5 DEF upsert_proposal, Label, Status, Proposal
    <2>6. CASE mark_proposal_materialized(t)
      BY <1>1, <2>1, <2>6 DEF mark_proposal_materialized, Label, Status
    <2>7. CASE apply_write(t)
      <3>1. (IF call[t].action \in Decision THEN Decided[call[t].action] ELSE "PENDING_CONFIRMATION") \in Status
        BY DEF Decision, Decided, Status
      <3> QED
        BY <2>1, <2>7, <3>1 DEF apply_write, Label
    <2>8. CASE seen_write(t)
      <3>1. [call[t].doc EXCEPT !.cursor = call[t].latest] \in Proposal
        BY <1>1 DEF Proposal
      <3> QED
        BY <1>1, <2>8, <3>1 DEF seen_write, Label, Proposal
    <2>9. CASE decide_write(t)
      <3>1. Decided[call[t].action] \in Status
        BY <2>9 DEF decide_write, PropInv, Sane, Decision, Decided, Status
      <3> QED
        BY <2>1, <2>9, <3>1 DEF decide_write, Label
    <2> QED
      BY <2>3, <2>4, <2>5, <2>6, <2>7, <2>8, <2>9
  <1>3. pc[t] = "seen_put" => call[t].latest \in replies
    BY DEF CommentInv
  <1>4. new.cursor = 0 \/ new.cursor \in replies
    BY <1>1, <1>2, <1>3
  <1> QED
    BY <1>2, <1>4, CommentWrite

LEMMA CommentNext ==
    ASSUME PropInv, CommentInv, [Next]_vars
    PROVE  CommentInv'
  <1>1. CASE Comment
    <2>1. UNCHANGED <<row, replies, pc, call>> /\ \E a \in Asks : comments' = Append(comments, a)
      BY <1>1 DEF Comment
    <2>2. Len(comments') = Len(comments) + 1 /\ Len(comments) \in Nat
      BY <2>1 DEF PropInv, TypeOK
    <2>3. \A n \in replies : n \in Nat
      BY ProposalsAssumption DEF PropInv, TypeOK
    <2>4. \A t \in Thread : call[t].latest \in Nat
      BY ProposalsAssumption DEF PropInv, TypeOK, Call
    <2>5. \A n : n \in Nat /\ n <= Len(comments) => n <= Len(comments')
      BY <2>2
    <2> HIDE DEF Answered
    <2> QED
      BY <2>1, <2>3, <2>4, <2>5 DEF CommentInv, Answered
  <1>2. CASE CooldownEnds
    BY <1>2 DEF CooldownEnds, CommentInv, Answered
  <1>3. CASE Crash
    BY <1>3 DEF Crash, world, CommentInv, Answered, NoCall, NoProposal, PropInv, TypeOK
  <1>4. CASE UNCHANGED vars
    BY <1>4 DEF vars, CommentInv, Answered
  <1> QED
    BY <1>1, <1>2, <1>3, <1>4, CommentLoad, CommentProceed, CommentWrites DEF Next, Step

\* Whatever planners, discussions and decisions overlap and write old copies back, and
\* wherever a call fails or the process stops: the cursor stands on a comment that a
\* reply names, and never in front of one that is still to be written.
THEOREM SeenWasAnswered == Spec => []SeenIsAnswered
  <1>1. PropInv /\ CommentInv => SeenIsAnswered
    <2> SUFFICES ASSUME PropInv, CommentInv PROVE SeenIsAnswered
      OBVIOUS
    <2>1. Len(comments) \in Nat
      BY DEF PropInv, TypeOK
    <2>2. Answered(row.cursor) /\ \A n \in replies : n <= Len(comments)
      BY DEF CommentInv
    <2> QED
      BY <2>1, <2>2 DEF SeenIsAnswered, Answered
  <1>2. Init => PropInv /\ CommentInv
    BY PropInit, CommentInit
  <1>3. PropInv /\ CommentInv /\ [Next]_vars => (PropInv /\ CommentInv)'
    BY PropNext, CommentNext
  <1> QED
    BY <1>1, <1>2, <1>3, PTL DEF Spec

------------------------------------------------------------------------------
(* The target's state document (TeamWorkflow).  A call that no other has   *)
(* overtaken holds the document as it is but for the key it will write     *)
(* (DocSeen), and the bug lane as it is, or a streak counted from it       *)
(* (LaneSeen).  What a lane update writes is no absent key (LaneWritten),  *)
(* so that a streak set back to 0 wins over the document it is merged      *)
(* with.                                                                   *)

Piping == {"policy_load", "policy_merge", "policy_put", "prepare", "collect", "tasks"}
LaneLabel == {"lane_load", "lane_merge", "lane_put"}
Recording == {"report", "history_load", "history_put"}

CallSane(t) ==
    /\ Len(wcall[t].payload.history) <= Keep
    /\ wpc[t] \in Recording \/ wpc[t] \in LaneLabel \/ (wpc[t] \in Piping /\ t \in Request) => wcall[t].run # 0
    /\ wpc[t] \in LaneLabel => W!NotesBugs(t)

LaneWritten(t) ==
    wpc[t] \in {"lane_merge", "lane_put"} =>
      /\ wcall[t].payload.lane.status # "absent" /\ wcall[t].payload.lane.streak <= Threshold
      /\ wcall[t].bugs => wcall[t].payload.lane.status = "active" /\ wcall[t].payload.lane.streak = 0

LaneSeen(t) ==
    /\ wpc[t] \in {"tasks", "lane_load"} /\ W!NotesBugs(t) => wcall[t].lane = doc.lane
    /\ wpc[t] \in {"lane_merge", "lane_put"} /\ ~wcall[t].bugs =>
         /\ wcall[t].payload.lane.streak <= doc.lane.streak + 1
         /\ wcall[t].payload.lane.status = "dormant" => doc.lane.streak + 1 >= Threshold

DocSeen(t) ==
    wpc[t] \in W!HasDoc =>
      /\ wpc[t] \notin {"policy_merge", "policy_put"} => wcall[t].payload.since = doc.since
      /\ wpc[t] \notin {"lane_merge", "lane_put"} => wcall[t].payload.lane = doc.lane
      /\ wpc[t] # "last_put" => wcall[t].payload.last = doc.last
      /\ wpc[t] # "history_put" => wcall[t].payload.history = doc.history

LaneEarned ==
    ~crossed =>
      /\ doc.lane.streak <= quiet.any
      /\ doc.lane.status = "dormant" => quiet.any >= Threshold

Held(t) ==
    /\ CallSane(t) /\ LaneWritten(t)
    /\ "lane" \notin stale[t] => LaneSeen(t)
    /\ "doc" \notin stale[t] => DocSeen(t)

DocInv == W!TypeOK /\ LaneEarned /\ \A t \in W!Caller : Held(t)

LEMMA NoDocTyped ==
    /\ W!NoLane \in W!LaneDoc /\ W!NoDoc \in W!Doc /\ Len(W!NoDoc.history) <= Keep
    /\ W!NoCall \in W!Call /\ W!NoCall.payload = W!NoDoc
  <1>1. W!NoLane \in W!LaneDoc
    BY TeamWorkflowAssumption DEF W!NoLane, W!LaneDoc, W!NoHead
  <1>2. W!NoDoc \in W!Doc /\ Len(W!NoDoc.history) <= Keep
    BY <1>1, TeamWorkflowAssumption DEF W!NoDoc, W!Doc, W!Absent
  <1>3. W!NoCall \in W!Call
    BY <1>1, <1>2, TeamWorkflowAssumption DEF W!NoCall, W!Call, W!Never, W!NoHead
  <1> QED
    BY <1>1, <1>2, <1>3 DEF W!NoCall

\* What the document becomes when a payload is merged into it, key by key.
LEMMA Merged ==
    ASSUME NEW p \in W!Doc, NEW d \in W!Doc, Len(p.history) <= Keep, Len(d.history) <= Keep
    PROVE  /\ W!Merge(p, d) \in W!Doc
           /\ Len(W!Merge(p, d).history) <= Keep
           /\ W!Merge(p, d).since \in {p.since, d.since}
           /\ W!Merge(p, d).lane = IF p.lane = W!NoLane THEN d.lane ELSE p.lane
           /\ W!Merge(p, d).last \in {p.last, d.last}
           /\ W!Merge(p, d).history \in {p.history, d.history}
  <1> DEFINE m == W!Merge(p, d)
  <1>1. DOMAIN p = {"since", "lane", "last", "history"}
    BY DEF W!Doc
  <1>2. /\ m.since = IF p.since = W!NoDoc.since THEN d.since ELSE p.since
        /\ m.lane = IF p.lane = W!NoDoc.lane THEN d.lane ELSE p.lane
        /\ m.last = IF p.last = W!NoDoc.last THEN d.last ELSE p.last
        /\ m.history = IF p.history = W!NoDoc.history THEN d.history ELSE p.history
    BY <1>1 DEF W!Merge
  <1>3. m = [since |-> m.since, lane |-> m.lane, last |-> m.last, history |-> m.history]
    BY <1>1 DEF W!Merge
  <1>4. /\ m.since \in {p.since, d.since} /\ m.last \in {p.last, d.last}
        /\ m.history \in {p.history, d.history} /\ m.lane \in {p.lane, d.lane}
    BY <1>2
  <1>5. m \in W!Doc
    BY <1>3, <1>4 DEF W!Doc
  <1>6. W!NoDoc.lane = W!NoLane
    BY DEF W!NoDoc
  <1> QED
    BY <1>2, <1>4, <1>5, <1>6

LEMMA DocInit ==
    ASSUME W!Init
    PROVE  DocInv
  <1>1. W!TypeOK
    <2>1. doc \in W!Doc /\ Len(doc.history) <= Keep
      BY NoDocTyped DEF W!Init
    <2>2. wcall \in [W!Caller -> W!Call]
      BY NoDocTyped DEF W!Init
    <2>3. quiet \in [head : 0 .. MaxHead, same : 0 .. Threshold, any : 0 .. Threshold]
      BY TeamWorkflowAssumption DEF W!Init, W!NoHead
    <2>4. now \in 1 .. MaxTime /\ scan \in 0 .. MaxHead /\ wruns \in 0 .. MaxTeamRuns /\ wfaults \in 0 .. MaxTeamFaults
      BY TeamWorkflowAssumption DEF W!Init
    <2>5. wpc \in [W!Caller -> W!Label] /\ stale \in [W!Caller -> SUBSET {"doc", "lane"}]
      BY DEF W!Init, W!Label
    <2> QED
      BY <2>1, <2>2, <2>3, <2>4, <2>5 DEF W!Init, W!TypeOK
  <1>2. LaneEarned
    BY DEF W!Init, W!NoDoc, W!NoLane, LaneEarned
  <1>3. ASSUME NEW t \in W!Caller PROVE Held(t)
    BY <1>3, NoDocTyped DEF W!Init, Held, CallSane, LaneWritten, LaneSeen, DocSeen, Piping, LaneLabel,
       Recording, W!HasDoc
  <1> QED
    BY <1>1, <1>2, <1>3 DEF DocInv

\* The types of what a step of one call leaves alone.
WorldTyped ==
    /\ now \in 1 .. MaxTime /\ scan \in 0 .. MaxHead /\ reports \subseteq 1 .. MaxTeamRuns
    /\ wruns \in 0 .. MaxTeamRuns /\ wfaults \in 0 .. MaxTeamFaults

\* A step of one call that leaves the document alone.
LEMMA PrivateCallStep ==
    ASSUME DocInv, NEW t \in W!Caller, NEW l \in W!Label, NEW c \in W!Call, NEW s \in SUBSET {"doc", "lane"},
           wpc' = [wpc EXCEPT ![t] = l], wcall' = [wcall EXCEPT ![t] = c],
           stale' = [stale EXCEPT ![t] = s],
           UNCHANGED <<doc, quiet, crossed>>, WorldTyped',
           Held(t)'
    PROVE  DocInv'
  <1>1. ASSUME NEW u \in W!Caller \ {t} PROVE Held(u)'
    <2>1. wpc'[u] = wpc[u] /\ wcall'[u] = wcall[u] /\ stale'[u] = stale[u]
      BY DEF DocInv, W!TypeOK
    <2>2. Held(u)
      BY DEF DocInv
    <2> QED
      BY <2>1, <2>2 DEF Held, CallSane, LaneWritten, LaneSeen, DocSeen, W!NotesBugs
  <1>2. W!TypeOK'
    <2>1. wpc' \in [W!Caller -> W!Label] /\ wcall' \in [W!Caller -> W!Call]
      BY DEF DocInv, W!TypeOK
    <2>2. stale' \in [W!Caller -> SUBSET {"doc", "lane"}]
      BY DEF DocInv, W!TypeOK
    <2> QED
      BY <2>1, <2>2 DEF DocInv, W!TypeOK, WorldTyped
  <1>3. LaneEarned'
    BY DEF DocInv, LaneEarned
  <1> QED
    BY <1>1, <1>2, <1>3 DEF DocInv

\* A call that writes the document: what it writes is of the right type, and
\* earns the lane's state.
LEMMA PutStep ==
    ASSUME DocInv, NEW t \in W!Caller, NEW needs \in SUBSET {"doc", "lane"}, NEW l \in W!Label, NEW c \in W!Call,
           W!Put(t, needs, l, c),
           c.payload = W!NoDoc, wpc[t] \in W!HasDoc,
           l \notin W!HasDoc, l \notin LaneLabel, l # "tasks",
           l \in Recording \/ (l \in Piping /\ t \in Request) => c.run # 0,
           quiet' \in [head : 0 .. MaxHead, same : 0 .. Threshold, any : 0 .. Threshold],
           LaneEarned'
    PROVE  DocInv'
  <1>1. /\ wpc' = [wpc EXCEPT ![t] = l] /\ wcall' = [wcall EXCEPT ![t] = c]
        /\ doc' = wcall[t].payload
        /\ UNCHANGED <<now, scan, reports, wruns, wfaults>>
    BY DEF W!Put, W!Goto, W!world
  <1>2. wpc'[t] = l /\ wcall'[t] = c
    BY <1>1 DEF DocInv, W!TypeOK
  <1>3. /\ wpc' \in [W!Caller -> W!Label] /\ wcall' \in [W!Caller -> W!Call]
        /\ doc' \in W!Doc /\ Len(doc'.history) <= Keep
    BY <1>1 DEF DocInv, W!TypeOK, Held, CallSane, W!Call
  <1>4. crossed' \in BOOLEAN
    BY DEF W!Put, DocInv, W!TypeOK
  <1>5. ASSUME NEW u \in W!Caller \ {t}
        PROVE  /\ wpc'[u] = wpc[u] /\ wcall'[u] = wcall[u]
               /\ stale'[u] \in SUBSET {"doc", "lane"}
               /\ "doc" \notin stale'[u] => "doc" \notin stale[u] /\ (wpc[u] \in W!HasDoc => doc' = doc)
               /\ "lane" \notin stale'[u] => "lane" \notin stale[u] /\ (wpc[u] \in W!HasLane => doc'.lane = doc.lane)
    <2>1. wpc'[u] = wpc[u] /\ wcall'[u] = wcall[u]
      BY <1>1 DEF DocInv, W!TypeOK
    <2>2. stale'[u] = stale[u] \cup (IF wpc[u] \in W!HasDoc /\ doc' # doc THEN {"doc"} ELSE {})
                               \cup (IF wpc[u] \in W!HasLane /\ doc'.lane # doc.lane THEN {"lane"} ELSE {})
      BY DEF W!Put
    <2>3. stale[u] \in SUBSET {"doc", "lane"}
      BY DEF DocInv, W!TypeOK
    <2> QED
      BY <2>1, <2>2, <2>3
  <1>6. stale' \in [W!Caller -> SUBSET {"doc", "lane"}]
    <2>1. stale'[t] = stale[t] \ needs
      BY DEF W!Put
    <2>2. \A u \in W!Caller : stale'[u] \in SUBSET {"doc", "lane"}
      BY <1>5, <2>1 DEF DocInv, W!TypeOK
    <2>3. stale' = [u \in W!Caller |-> stale'[u]]
      BY DEF W!Put
    <2> QED
      BY <2>2, <2>3
  <1>7. W!TypeOK'
    BY <1>1, <1>3, <1>4, <1>6 DEF DocInv, W!TypeOK
  <1>8. Held(t)'
    BY <1>2, NoDocTyped DEF Held, CallSane, LaneWritten, LaneSeen, DocSeen, LaneLabel, W!HasDoc
  <1>9. ASSUME NEW u \in W!Caller \ {t} PROVE Held(u)'
    <2>1. Held(u)
      BY DEF DocInv
    <2>2. CallSane(u)' /\ LaneWritten(u)'
      BY <1>5, <2>1 DEF Held, CallSane, LaneWritten, W!NotesBugs
    <2>3. "doc" \notin stale'[u] => DocSeen(u)'
      BY <1>5, <2>1 DEF Held, DocSeen
    <2>4. "lane" \notin stale'[u] => LaneSeen(u)'
      BY <1>5, <2>1 DEF Held, LaneSeen, W!HasLane, W!NotesBugs
    <2> QED
      BY <2>2, <2>3, <2>4 DEF Held
  <1> QED
    BY <1>7, <1>8, <1>9 DEF DocInv

\* Loads, and the merge of a payload into the document.

LEMMA DocLoadStep ==
    ASSUME DocInv, NEW t \in W!Caller, NEW p \in W!Doc, Len(p.history) <= Keep,
           \/ /\ W!Load(t, "policy_load", "policy_merge", p)
              /\ p.lane = doc.lane /\ p.last = doc.last /\ p.history = doc.history
           \/ /\ W!Load(t, "last_load", "last_put", p)
              /\ p.since = doc.since /\ p.lane = doc.lane /\ p.history = doc.history
           \/ /\ W!Load(t, "history_load", "history_put", p)
              /\ p.since = doc.since /\ p.lane = doc.lane /\ p.last = doc.last
    PROVE  DocInv'
  <1> DEFINE c == [wcall[t] EXCEPT !.payload = p]
             s == stale[t] \ {"doc"}
  <1>1. wcall[t] \in W!Call /\ stale[t] \in SUBSET {"doc", "lane"} /\ Held(t)
    BY DEF DocInv, W!TypeOK
  <1>2. c \in W!Call /\ c.payload = p /\ c.run = wcall[t].run
    BY <1>1 DEF W!Call
  <1>3. PICK l \in {"policy_merge", "last_put", "history_put"} :
          /\ wpc' = [wpc EXCEPT ![t] = l] /\ wcall' = [wcall EXCEPT ![t] = c] /\ stale' = [stale EXCEPT ![t] = s]
          /\ UNCHANGED <<doc, now, scan, reports, crossed, quiet, wruns, wfaults>>
          /\ l = "policy_merge" => /\ wpc[t] = "policy_load"
                                   /\ p.lane = doc.lane /\ p.last = doc.last /\ p.history = doc.history
          /\ l = "last_put" => p.since = doc.since /\ p.lane = doc.lane /\ p.history = doc.history
          /\ l = "history_put" => /\ wpc[t] = "history_load"
                                  /\ p.since = doc.since /\ p.lane = doc.lane /\ p.last = doc.last
    BY DEF W!Load, W!Goto, W!world
  <1>4. wpc'[t] = l /\ wcall'[t] = c /\ doc' = doc
    BY <1>3 DEF DocInv, W!TypeOK
  <1>5. CallSane(t)' /\ LaneWritten(t)' /\ LaneSeen(t)'
    BY <1>1, <1>2, <1>3, <1>4 DEF Held, CallSane, LaneWritten, LaneSeen, Piping, LaneLabel, Recording
  <1>6. DocSeen(t)'
    BY <1>2, <1>3, <1>4 DEF DocSeen
  <1>7. Held(t)'
    BY <1>5, <1>6 DEF Held
  <1>8. WorldTyped'
    BY <1>3 DEF WorldTyped, DocInv, W!TypeOK
  <1>9. l \in W!Label /\ s \in SUBSET {"doc", "lane"}
    BY <1>1 DEF W!Label
  <1> QED
    BY <1>2, <1>3, <1>7, <1>8, <1>9, PrivateCallStep

LEMMA DocTyped ==
    ASSUME DocInv
    PROVE  /\ doc \in W!Doc /\ Len(doc.history) <= Keep /\ doc.history \in Seq(1 .. MaxTeamRuns)
           /\ doc.lane \in W!LaneDoc
           /\ \A t \in W!Caller : /\ wcall[t] \in W!Call /\ wcall[t].payload \in W!Doc
                                  /\ Len(wcall[t].payload.history) <= Keep
                                  /\ stale[t] \in SUBSET {"doc", "lane"}
                                  /\ wpc[t] \in W!Label
                                  /\ Held(t)
  BY DEF DocInv, W!TypeOK, W!Doc, W!Call, Held, CallSane

LEMMA PolicyLoad ==
    ASSUME DocInv, NEW t \in W!Caller, W!policy_load(t)
    PROVE  DocInv'
  <1> DEFINE p == [doc EXCEPT !.since = wcall[t].since]
  <1>1. wcall[t].since \in 0 .. MaxTime
    BY DocTyped DEF W!Call
  <1>2. p \in W!Doc /\ p.lane = doc.lane /\ p.last = doc.last /\ p.history = doc.history
    BY <1>1, DocTyped DEF W!Doc
  <1>3. W!Load(t, "policy_load", "policy_merge", p)
    BY DEF W!policy_load
  <1> HIDE DEF p
  <1> QED
    BY <1>2, <1>3, DocTyped, DocLoadStep

LEMMA LastLoad ==
    ASSUME DocInv, NEW t \in W!Caller, W!last_load(t)
    PROVE  DocInv'
  <1> DEFINE p == [doc EXCEPT !.last = wcall[t].run]
  <1>1. wcall[t].run \in 0 .. MaxTeamRuns
    BY DocTyped DEF W!Call
  <1>2. p \in W!Doc /\ p.since = doc.since /\ p.lane = doc.lane /\ p.history = doc.history
    BY <1>1, DocTyped DEF W!Doc
  <1>3. W!Load(t, "last_load", "last_put", p)
    BY DEF W!last_load
  <1> HIDE DEF p
  <1> QED
    BY <1>2, <1>3, DocTyped, DocLoadStep

LEMMA RowsKept ==
    ASSUME NEW h \in Seq(1 .. MaxTeamRuns), Len(h) <= Keep, NEW r \in 1 .. MaxTeamRuns
    PROVE  /\ W!Rows(Append(h, r)) \in Seq(1 .. MaxTeamRuns)
           /\ Len(W!Rows(Append(h, r))) <= Keep
  <1>1. Append(h, r) \in Seq(1 .. MaxTeamRuns) /\ Len(Append(h, r)) = Len(h) + 1 /\ Len(h) \in Nat
    OBVIOUS
  <1>2. CASE Len(h) + 1 > Keep
    <2>1. Append(h, r) # <<>>
      BY <1>1
    <2>2. Tail(Append(h, r)) \in Seq(1 .. MaxTeamRuns) /\ Len(Tail(Append(h, r))) = Len(Append(h, r)) - 1
      BY <1>1, <2>1
    <2> QED
      BY <1>1, <1>2, <2>2, TeamWorkflowAssumption DEF W!Rows
  <1>3. CASE Len(h) + 1 <= Keep
    <2>1. ~(Len(Append(h, r)) > Keep)
      BY <1>1, <1>3, TeamWorkflowAssumption
    <2>2. W!Rows(Append(h, r)) = Append(h, r)
      BY <2>1 DEF W!Rows
    <2> QED
      BY <1>1, <1>3, <2>2
  <1> QED
    BY <1>1, <1>2, <1>3, TeamWorkflowAssumption

LEMMA HistoryLoad ==
    ASSUME DocInv, NEW t \in W!Caller, W!history_load(t)
    PROVE  DocInv'
  <1> DEFINE h == W!Rows(Append(doc.history, wcall[t].run))
             p == [doc EXCEPT !.history = h]
  <1>1. W!Load(t, "history_load", "history_put", p)
    BY DEF W!history_load
  <1>2. wcall[t].run \in 1 .. MaxTeamRuns
    <2>1. wcall[t].run # 0
      BY <1>1, DocTyped DEF W!Load, Held, CallSane, Recording
    <2> QED
      BY <2>1, DocTyped, TeamWorkflowAssumption DEF W!Call
  <1>3. h \in Seq(1 .. MaxTeamRuns) /\ Len(h) <= Keep
    BY <1>2, DocTyped, RowsKept
  <1> HIDE DEF h
  <1>4. p \in W!Doc /\ p.since = doc.since /\ p.lane = doc.lane /\ p.last = doc.last /\ p.history = h
    BY <1>3, DocTyped DEF W!Doc
  <1> HIDE DEF p
  <1> QED
    BY <1>1, <1>3, <1>4, DocLoadStep

LEMMA MergeStep ==
    ASSUME DocInv, NEW t \in W!Caller, W!policy_merge(t) \/ W!lane_merge(t)
    PROVE  DocInv'
  <1> DEFINE m == W!Merge(wcall[t].payload, doc)
             c == [wcall[t] EXCEPT !.payload = m]
  <1>1. /\ m \in W!Doc /\ Len(m.history) <= Keep
        /\ m.since \in {wcall[t].payload.since, doc.since}
        /\ m.lane = IF wcall[t].payload.lane = W!NoLane THEN doc.lane ELSE wcall[t].payload.lane
        /\ m.last \in {wcall[t].payload.last, doc.last}
        /\ m.history \in {wcall[t].payload.history, doc.history}
    BY DocTyped, Merged
  <1>2. PICK l \in {"policy_put", "lane_put"} :
          /\ wpc' = [wpc EXCEPT ![t] = l] /\ wcall' = [wcall EXCEPT ![t] = c] /\ stale' = [stale EXCEPT ![t] = stale[t]]
          /\ UNCHANGED <<doc, now, scan, reports, crossed, quiet, wruns, wfaults>>
          /\ l = "policy_put" => wpc[t] = "policy_merge"
          /\ l = "lane_put" => wpc[t] = "lane_merge"
    BY DocTyped DEF W!policy_merge, W!lane_merge, W!save_target_state, W!Goto, W!world, DocInv, W!TypeOK
  <1> HIDE DEF m
  <1>3. c \in W!Call /\ c.payload = m /\ c.run = wcall[t].run /\ c.bugs = wcall[t].bugs
    BY <1>1, DocTyped DEF W!Call
  <1> HIDE DEF c
  <1>4. wpc'[t] = l /\ wcall'[t] = c /\ doc' = doc /\ stale'[t] = stale[t]
    BY <1>2 DEF DocInv, W!TypeOK
  <1>5. CallSane(t)'
    BY <1>1, <1>2, <1>3, <1>4, DocTyped DEF Held, CallSane, Piping, LaneLabel, Recording, W!NotesBugs
  <1>6. wpc[t] = "lane_merge" => m.lane = wcall[t].payload.lane
    BY <1>1, DocTyped DEF Held, LaneWritten, W!NoLane
  <1>7. LaneWritten(t)'
    BY <1>2, <1>3, <1>4, <1>6, DocTyped DEF Held, LaneWritten
  <1>8. "lane" \notin stale[t] => LaneSeen(t)'
    BY <1>2, <1>3, <1>4, <1>6, DocTyped DEF Held, LaneSeen
  <1>9. "doc" \notin stale[t] => DocSeen(t)'
    BY <1>1, <1>2, <1>3, <1>4, DocTyped DEF Held, DocSeen, W!HasDoc
  <1>10. Held(t)'
    BY <1>4, <1>5, <1>7, <1>8, <1>9 DEF Held
  <1>11. WorldTyped'
    BY <1>2 DEF WorldTyped, DocInv, W!TypeOK
  <1>12. l \in W!Label
    BY DEF W!Label
  <1> QED
    BY <1>2, <1>3, <1>10, <1>11, <1>12, DocTyped, PrivateCallStep

\* The steps that begin a call.

LEMMA PolicyTyped ==
    ASSUME DocInv, NEW forced \in BOOLEAN
    PROVE  /\ W!evaluate_run_policy(doc.since, forced).allowed \in BOOLEAN
           /\ W!evaluate_run_policy(doc.since, forced).since \in 0 .. MaxTime
  <1>1. now \in 0 .. MaxTime
    BY DEF DocInv, W!TypeOK
  <1>2. doc.since \in {W!Absent} \cup 0 .. MaxTime
    BY DocTyped DEF W!Doc
  <1>3. W!Active(doc.since) \in 0 .. MaxTime
    BY <1>1, <1>2 DEF W!Active
  <1>4. W!Never \in 0 .. MaxTime
    BY TeamWorkflowAssumption DEF W!Never
  <1> QED
    BY <1>1, <1>3, <1>4 DEF W!evaluate_run_policy

LEMMA EvaluateStep ==
    ASSUME DocInv, NEW t \in W!Caller, NEW r \in 0 .. MaxTeamRuns, NEW forced \in BOOLEAN,
           W!Evaluate(t, r, forced), t \in Request => r # 0, wruns' \in 0 .. MaxTeamRuns
    PROVE  DocInv'
  <1> DEFINE policy == W!evaluate_run_policy(doc.since, forced)
             c == [W!NoCall EXCEPT !.run = r, !.forced = forced, !.allowed = policy.allowed, !.since = policy.since]
  <1>1. policy.allowed \in BOOLEAN /\ policy.since \in 0 .. MaxTime
    BY PolicyTyped
  <1>2. /\ wpc' = [wpc EXCEPT ![t] = "policy_load"] /\ wcall' = [wcall EXCEPT ![t] = c]
        /\ stale' = [stale EXCEPT ![t] = {}]
        /\ UNCHANGED <<doc, now, scan, reports, crossed, quiet, wfaults>>
    BY DEF W!Evaluate, W!Goto, W!world
  <1> HIDE DEF policy
  <1>3. c \in W!Call /\ c.payload = W!NoDoc /\ c.run = r
    BY <1>1, NoDocTyped DEF W!Call
  <1> HIDE DEF c
  <1>4. wpc'[t] = "policy_load" /\ wcall'[t] = c
    BY <1>2 DEF DocInv, W!TypeOK
  <1>5. Held(t)'
    BY <1>3, <1>4, NoDocTyped DEF Held, CallSane, LaneWritten, LaneSeen, DocSeen, Piping, LaneLabel, Recording, W!HasDoc
  <1>6. WorldTyped'
    BY <1>2 DEF WorldTyped, DocInv, W!TypeOK
  <1>7. "policy_load" \in W!Label
    BY DEF W!Label
  <1> QED
    BY <1>2, <1>3, <1>5, <1>6, <1>7, PrivateCallStep

LEMMA TeamRunStep ==
    ASSUME DocInv, NEW t \in Request, W!run_team_iteration(t)
    PROVE  DocInv'
  <1>1. PICK forced \in BOOLEAN : W!Evaluate(t, wruns', forced)
    BY DEF W!run_team_iteration
  <1>2. wruns' \in 0 .. MaxTeamRuns /\ wruns' # 0
    BY TeamWorkflowAssumption DEF W!run_team_iteration, DocInv, W!TypeOK
  <1>3. t \in W!Caller
    BY DEF W!Caller
  <1> QED
    BY <1>1, <1>2, <1>3, EvaluateStep

LEMMA LoopRunStep ==
    ASSUME DocInv, NEW t \in Loop, W!run_workflow_iteration(t)
    PROVE  DocInv'
  <1>1. W!Evaluate(t, 0, FALSE) /\ wruns' = wruns
    BY DEF W!run_workflow_iteration
  <1>2. 0 \in 0 .. MaxTeamRuns /\ wruns' \in 0 .. MaxTeamRuns
    BY <1>1, TeamWorkflowAssumption DEF DocInv, W!TypeOK
  <1>3. t \in W!Caller /\ t \notin Request
    BY TeamWorkflowAssumption DEF W!Caller
  <1> QED
    BY <1>1, <1>2, <1>3, EvaluateStep

LEMMA SkippedStep ==
    ASSUME DocInv, NEW t \in Request, W!run_team_iteration_skipped(t)
    PROVE  DocInv'
  <1>1. t \in W!Caller
    BY DEF W!Caller
  <1>2. /\ wpc' = [wpc EXCEPT ![t] = "last_load"] /\ wcall' = [wcall EXCEPT ![t] = W!NoCall]
        /\ stale' = [stale EXCEPT ![t] = {}]
        /\ UNCHANGED <<doc, now, scan, reports, crossed, quiet, wfaults>>
    BY DEF W!run_team_iteration_skipped, W!Goto, W!world
  <1>3. wpc'[t] = "last_load" /\ wcall'[t] = W!NoCall
    BY <1>1, <1>2 DEF DocInv, W!TypeOK
  <1>4. Held(t)'
    BY <1>3, NoDocTyped DEF Held, CallSane, LaneWritten, LaneSeen, DocSeen, Piping, LaneLabel, Recording, W!HasDoc
  <1>5. WorldTyped'
    BY <1>2, TeamWorkflowAssumption DEF W!run_team_iteration_skipped, WorldTyped, DocInv, W!TypeOK
  <1>6. "last_load" \in W!Label
    BY DEF W!Label
  <1> QED
    BY <1>1, <1>2, <1>4, <1>5, <1>6, NoDocTyped, PrivateCallStep

\* The pipeline.

LEMMA FailsStep ==
    ASSUME DocInv, NEW t \in W!Caller, W!run_workflow_fails(t)
    PROVE  DocInv'
  <1> DEFINE c == [W!NoCall EXCEPT !.run = wcall[t].run]
             l == W!AfterPipeline(t)
  <1>1. /\ wpc' = [wpc EXCEPT ![t] = l] /\ wcall' = [wcall EXCEPT ![t] = c] /\ stale' = [stale EXCEPT ![t] = {}]
        /\ UNCHANGED <<doc, now, scan, reports, crossed, quiet, wruns>>
        /\ wpc[t] \in Piping
    BY DEF W!run_workflow_fails, W!Goto, W!world, Piping
  <1>2. c \in W!Call /\ c.payload = W!NoDoc /\ c.run = wcall[t].run
    BY NoDocTyped, DocTyped DEF W!Call
  <1>3. l \in {"report", "idle"} /\ (l = "report" => t \in Request) /\ l \in W!Label
    BY DEF W!AfterPipeline, W!Label
  <1> HIDE DEF c, l
  <1>4. wpc'[t] = l /\ wcall'[t] = c
    BY <1>1 DEF DocInv, W!TypeOK
  <1>5. Held(t)'
    BY <1>1, <1>2, <1>3, <1>4, NoDocTyped, DocTyped
    DEF Held, CallSane, LaneWritten, LaneSeen, DocSeen, Piping, LaneLabel, Recording, W!HasDoc
  <1>6. WorldTyped'
    BY <1>1, TeamWorkflowAssumption DEF W!run_workflow_fails, WorldTyped, DocInv, W!TypeOK
  <1> QED
    BY <1>1, <1>2, <1>3, <1>5, <1>6, PrivateCallStep

LEMMA PrepareStep ==
    ASSUME DocInv, NEW t \in W!Caller, W!prepare_discovery_repo(t)
    PROVE  DocInv'
  <1>1. /\ wpc' = [wpc EXCEPT ![t] = "collect"] /\ wcall' = [wcall EXCEPT ![t] = wcall[t]]
        /\ stale' = [stale EXCEPT ![t] = stale[t]]
        /\ UNCHANGED <<doc, crossed, quiet>>
        /\ wpc[t] = "prepare"
    BY DEF W!prepare_discovery_repo, W!Goto, DocInv, W!TypeOK
  <1>2. wpc'[t] = "collect" /\ wcall'[t] = wcall[t]
    BY <1>1 DEF DocInv, W!TypeOK
  <1>3. Held(t)'
    BY <1>1, <1>2, DocTyped
    DEF Held, CallSane, LaneWritten, LaneSeen, DocSeen, Piping, LaneLabel, Recording, W!HasDoc
  <1>4. WorldTyped'
    BY TeamWorkflowAssumption DEF W!prepare_discovery_repo, WorldTyped, DocInv, W!TypeOK
  <1>5. "collect" \in W!Label
    BY DEF W!Label
  <1> QED
    BY <1>1, <1>3, <1>4, <1>5, DocTyped, PrivateCallStep

LEMMA CollectStep ==
    ASSUME DocInv, NEW t \in W!Caller, W!collect_context(t)
    PROVE  DocInv'
  <1>1. PICK unresolved \in BOOLEAN :
          wcall' = [wcall EXCEPT ![t] = IF W!NotesBugs(t) THEN W!bug_scan_policy(wcall[t], unresolved) ELSE wcall[t]]
    BY DEF W!collect_context
  <1> DEFINE c == IF W!NotesBugs(t) THEN W!bug_scan_policy(wcall[t], unresolved) ELSE wcall[t]
             s == stale[t] \ {"lane"}
  <1>2. /\ wpc' = [wpc EXCEPT ![t] = "tasks"] /\ stale' = [stale EXCEPT ![t] = s]
        /\ UNCHANGED <<doc, now, scan, reports, crossed, quiet, wruns, wfaults>>
        /\ wpc[t] = "collect"
    BY DEF W!collect_context, W!Goto, W!world
  <1>3. c \in W!Call /\ c.payload = wcall[t].payload /\ c.run = wcall[t].run /\ (W!NotesBugs(t) => c.lane = doc.lane)
    <2>1. W!collect_repo_context \in 0 .. MaxHead
      BY TeamWorkflowAssumption DEF W!collect_repo_context, W!Detached, W!NoHead
    <2>2. scan \in 0 .. MaxHead
      BY DEF DocInv, W!TypeOK
    <2> QED
      BY <2>1, <2>2, DocTyped DEF W!bug_scan_policy, W!Call
  <1>4. wcall' = [wcall EXCEPT ![t] = c]
    BY <1>1
  <1> HIDE DEF c
  <1>5. wpc'[t] = "tasks" /\ wcall'[t] = c /\ doc' = doc
    BY <1>2, <1>4 DEF DocInv, W!TypeOK
  <1>6. Held(t)'
    BY <1>2, <1>3, <1>5, DocTyped
    DEF Held, CallSane, LaneWritten, LaneSeen, DocSeen, Piping, LaneLabel, Recording, W!HasDoc, W!NotesBugs
  <1>7. WorldTyped'
    BY <1>2 DEF WorldTyped, DocInv, W!TypeOK
  <1>8. "tasks" \in W!Label /\ s \in SUBSET {"doc", "lane"}
    BY DocTyped DEF W!Label
  <1> QED
    BY <1>2, <1>3, <1>4, <1>6, <1>7, <1>8, PrivateCallStep

LEMMA RunWorkflowStep ==
    ASSUME DocInv, NEW t \in W!Caller, W!run_workflow(t)
    PROVE  DocInv'
  <1>1. PICK c \in W!Call, l \in {"lane_load", "report", "idle"} :
          /\ wpc' = [wpc EXCEPT ![t] = l] /\ wcall' = [wcall EXCEPT ![t] = c]
          /\ c.run = wcall[t].run /\ c.payload = wcall[t].payload /\ c.lane = wcall[t].lane
          /\ l = "lane_load" => W!NotesBugs(t)
          /\ l = "report" => t \in Request
    <2>1. CASE W!NotesBugs(t)
      <3>1. PICK found \in BOOLEAN : wcall' = [wcall EXCEPT ![t].bugs = @ \/ found]
        BY <2>1 DEF W!run_workflow
      <3>2. wpc' = [wpc EXCEPT ![t] = "lane_load"]
        BY <2>1 DEF W!run_workflow, W!Goto
      <3> DEFINE c == [wcall[t] EXCEPT !.bugs = wcall[t].bugs \/ found]
      <3>3. wcall' = [wcall EXCEPT ![t] = c]
        BY <3>1
      <3>4. c \in W!Call /\ c.run = wcall[t].run /\ c.payload = wcall[t].payload /\ c.lane = wcall[t].lane
        BY DocTyped DEF W!Call
      <3> HIDE DEF c
      <3> QED
        BY <2>1, <3>2, <3>3, <3>4
    <2>2. CASE ~W!NotesBugs(t)
      <3>1. wpc' = [wpc EXCEPT ![t] = W!AfterPipeline(t)] /\ wcall' = [wcall EXCEPT ![t] = wcall[t]]
        BY <2>2 DEF W!run_workflow, W!Goto, DocInv, W!TypeOK
      <3>2. W!AfterPipeline(t) \in {"report", "idle"} /\ (W!AfterPipeline(t) = "report" => t \in Request)
        BY DEF W!AfterPipeline
      <3> QED
        BY <3>1, <3>2, DocTyped
    <2> QED
      BY <2>1, <2>2
  <1>2. /\ stale' = [stale EXCEPT ![t] = stale[t]]
        /\ UNCHANGED <<doc, now, scan, reports, crossed, quiet, wruns, wfaults>>
        /\ wpc[t] = "tasks"
    BY DEF W!run_workflow, W!world, DocInv, W!TypeOK
  <1>3. wpc'[t] = l /\ wcall'[t] = c /\ doc' = doc /\ stale'[t] = stale[t]
    BY <1>1, <1>2 DEF DocInv, W!TypeOK
  <1>4. W!NotesBugs(t)' = W!NotesBugs(t) /\ (W!NotesBugs(t) => t \in Request)
    BY DEF W!NotesBugs
  <1>5. CallSane(t)' /\ LaneWritten(t)' /\ DocSeen(t)'
    BY <1>1, <1>2, <1>3, <1>4, DocTyped
    DEF Held, CallSane, LaneWritten, DocSeen, Piping, LaneLabel, Recording, W!HasDoc
  <1>6. "lane" \notin stale[t] => LaneSeen(t)'
    BY <1>1, <1>2, <1>3, <1>4, DocTyped DEF Held, LaneSeen
  <1>7. Held(t)'
    BY <1>3, <1>5, <1>6 DEF Held
  <1>8. WorldTyped'
    BY <1>2 DEF WorldTyped, DocInv, W!TypeOK
  <1>9. l \in W!Label
    BY DEF W!Label
  <1> QED
    BY <1>1, <1>2, <1>7, <1>8, <1>9, DocTyped, PrivateCallStep

LEMMA ReportStep ==
    ASSUME DocInv, NEW t \in W!Caller, W!save_report(t)
    PROVE  DocInv'
  <1>1. /\ wpc' = [wpc EXCEPT ![t] = "last_load"] /\ wcall' = [wcall EXCEPT ![t] = wcall[t]]
        /\ stale' = [stale EXCEPT ![t] = stale[t]]
        /\ UNCHANGED <<doc, now, scan, crossed, quiet, wruns, wfaults>>
        /\ wpc[t] = "report"
    BY DEF W!save_report, W!Goto, W!world, DocInv, W!TypeOK
  <1>2. wpc'[t] = "last_load" /\ wcall'[t] = wcall[t]
    BY <1>1 DEF DocInv, W!TypeOK
  <1>3. Held(t)'
    BY <1>1, <1>2, DocTyped
    DEF Held, CallSane, LaneWritten, LaneSeen, DocSeen, Piping, LaneLabel, Recording, W!HasDoc
  <1>4. wcall[t].run \in 1 .. MaxTeamRuns
    BY <1>1, DocTyped, TeamWorkflowAssumption DEF Held, CallSane, Recording, W!Call
  <1>5. WorldTyped'
    BY <1>1, <1>4 DEF W!save_report, WorldTyped, DocInv, W!TypeOK
  <1>6. "last_load" \in W!Label
    BY DEF W!Label
  <1> QED
    BY <1>1, <1>3, <1>5, <1>6, DocTyped, PrivateCallStep

LEMMA LaneLoadStep ==
    ASSUME DocInv, NEW t \in W!Caller, W!lane_load(t)
    PROVE  DocInv'
  <1> DEFINE streak == W!Streak(wcall[t])
             lane == [status |-> IF Threshold > 0 /\ streak >= Threshold THEN "dormant" ELSE "active",
                      streak |-> W!UpTo(Threshold, streak),
                      head   |-> wcall[t].head]
             p == [doc EXCEPT !.lane = lane]
             c == [W!NoCall EXCEPT !.run = wcall[t].run, !.seen = wcall[t].seen, !.bugs = wcall[t].bugs,
                     !.payload = p]
             s == stale[t] \ {"doc"}
  <1>1. /\ wpc' = [wpc EXCEPT ![t] = "lane_merge"] /\ wcall' = [wcall EXCEPT ![t] = c]
        /\ stale' = [stale EXCEPT ![t] = s]
        /\ UNCHANGED <<doc, now, scan, reports, crossed, quiet, wruns, wfaults>>
        /\ wpc[t] = "lane_load"
    BY DEF W!lane_load, W!Goto, W!world
  <1>2. wcall[t].lane \in W!LaneDoc /\ wcall[t].head \in 0 .. MaxHead
    BY DocTyped DEF W!Call
  <1>3. streak \in Nat /\ (wcall[t].bugs => streak = 0) /\ streak <= wcall[t].lane.streak + 1
    BY <1>2 DEF W!Streak, W!LaneDoc
  <1> HIDE DEF streak
  <1>4. /\ lane \in W!LaneDoc /\ lane.status # "absent"
        /\ lane.streak <= Threshold /\ lane.streak <= wcall[t].lane.streak + 1
        /\ wcall[t].bugs => lane.status = "active" /\ lane.streak = 0
        /\ lane.status = "dormant" => wcall[t].lane.streak + 1 >= Threshold
    <2>1. W!UpTo(Threshold, streak) \in Nat /\ W!UpTo(Threshold, streak) <= Threshold /\ W!UpTo(Threshold, streak) <= streak
      BY <1>3, TeamWorkflowAssumption DEF W!UpTo
    <2>2. wcall[t].lane.streak \in Nat
      BY <1>2 DEF W!LaneDoc
    <2>3. lane \in W!LaneDoc
      BY <1>2, <2>1 DEF W!LaneDoc
    <2>4. wcall[t].bugs => lane.status = "active" /\ lane.streak = 0
      BY <1>3, <2>1, TeamWorkflowAssumption
    <2>5. lane.status = "dormant" => wcall[t].lane.streak + 1 >= Threshold
      BY <1>3, <2>2, TeamWorkflowAssumption
    <2> QED
      BY <1>3, <2>1, <2>2, <2>3, <2>4, <2>5, TeamWorkflowAssumption
  <1> HIDE DEF lane
  <1>5. /\ p \in W!Doc /\ Len(p.history) <= Keep
        /\ p.since = doc.since /\ p.lane = lane /\ p.last = doc.last /\ p.history = doc.history
    BY <1>4, DocTyped DEF W!Doc
  <1> HIDE DEF p
  <1>6. c \in W!Call /\ c.payload = p /\ c.run = wcall[t].run /\ c.bugs = wcall[t].bugs
    BY <1>5, DocTyped, NoDocTyped DEF W!Call
  <1> HIDE DEF c
  <1>7. wpc'[t] = "lane_merge" /\ wcall'[t] = c /\ doc' = doc /\ stale'[t] = s
    BY <1>1 DEF DocInv, W!TypeOK
  <1>8. CallSane(t)' /\ LaneWritten(t)'
    BY <1>1, <1>4, <1>5, <1>6, <1>7, DocTyped
    DEF Held, CallSane, LaneWritten, Piping, LaneLabel, Recording, W!NotesBugs
  <1>9. "lane" \notin s => LaneSeen(t)'
    <2>1. ASSUME "lane" \notin s PROVE wcall[t].lane = doc.lane
      BY <1>1, <2>1, DocTyped DEF Held, LaneSeen, CallSane, LaneLabel
    <2> QED
      BY <1>4, <1>5, <1>6, <1>7, <2>1 DEF LaneSeen
  <1>10. DocSeen(t)'
    BY <1>5, <1>6, <1>7 DEF DocSeen
  <1>11. Held(t)'
    BY <1>7, <1>8, <1>9, <1>10 DEF Held
  <1>12. WorldTyped'
    BY <1>1 DEF WorldTyped, DocInv, W!TypeOK
  <1>13. "lane_merge" \in W!Label /\ s \in SUBSET {"doc", "lane"}
    BY DocTyped DEF W!Label
  <1> QED
    BY <1>1, <1>6, <1>11, <1>12, <1>13, PrivateCallStep

\* Writes of the document.

LEMMA LaneCrossed ==
    ASSUME DocInv, NEW t \in W!Caller, NEW needs \in SUBSET {"doc", "lane"}, NEW l, NEW c,
           W!Put(t, needs, l, c), ~crossed'
    PROVE  /\ ~crossed /\ doc' = wcall[t].payload
           /\ doc'.lane = doc.lane \/ (\A n \in needs : n \notin stale[t])
  BY DEF W!Put

\* A write of another key keeps the lane it has loaded.
LEMMA LaneKeptByPut ==
    ASSUME DocInv, NEW t \in W!Caller, NEW l, NEW c, W!Put(t, {"doc"}, l, c),
           wpc[t] \in {"policy_put", "last_put", "history_put"}, quiet' = quiet
    PROVE  LaneEarned'
  <1> SUFFICES ASSUME ~crossed' PROVE ~crossed /\ doc'.lane = doc.lane
    BY DEF LaneEarned, DocInv
  <1>1. ~crossed /\ doc' = wcall[t].payload /\ (doc'.lane = doc.lane \/ "doc" \notin stale[t])
    BY LaneCrossed
  <1>2. "doc" \notin stale[t] => wcall[t].payload.lane = doc.lane
    BY DocTyped DEF Held, DocSeen, W!HasDoc
  <1> QED
    BY <1>1, <1>2

LEMMA PolicyPut ==
    ASSUME DocInv, NEW t \in W!Caller, W!update_workflow_runtime_state(t)
    PROVE  DocInv'
  <1> DEFINE c == [W!NoCall EXCEPT !.run = wcall[t].run]
  <1>1. PICK enabled \in BOOLEAN :
          W!Put(t, {"doc"}, IF wcall[t].allowed /\ enabled THEN "prepare" ELSE W!AfterPipeline(t), c)
    BY DEF W!update_workflow_runtime_state
  <1> DEFINE l == IF wcall[t].allowed /\ enabled THEN "prepare" ELSE W!AfterPipeline(t)
  <1>2. wpc[t] = "policy_put" /\ quiet' = quiet
    BY DEF W!update_workflow_runtime_state
  <1>3. c \in W!Call /\ c.payload = W!NoDoc /\ c.run = wcall[t].run
    BY NoDocTyped, DocTyped DEF W!Call
  <1>4. l \in {"prepare", "report", "idle"} /\ l \in W!Label /\ (l = "report" => t \in Request)
    BY DEF W!AfterPipeline, W!Label
  <1>5. W!Put(t, {"doc"}, l, c)
    BY <1>1
  <1> HIDE DEF c, l
  <1>6. LaneEarned'
    BY <1>2, <1>5, LaneKeptByPut
  <1>7. t \in Request => wcall[t].run # 0
    BY <1>2, DocTyped DEF Held, CallSane, Piping
  <1>8. /\ l \notin W!HasDoc /\ l \notin LaneLabel /\ l # "tasks" /\ wpc[t] \in W!HasDoc
        /\ l \in Recording \/ (l \in Piping /\ t \in Request) => c.run # 0
    BY <1>2, <1>3, <1>4, <1>7 DEF W!HasDoc, LaneLabel, Recording, Piping
  <1>9. quiet' \in [head : 0 .. MaxHead, same : 0 .. Threshold, any : 0 .. Threshold]
    BY <1>2 DEF DocInv, W!TypeOK
  <1> QED
    BY <1>3, <1>4, <1>5, <1>6, <1>8, <1>9, PutStep

LEMMA LastPut ==
    ASSUME DocInv, NEW t \in W!Caller, W!merge_target_last_run(t)
    PROVE  DocInv'
  <1> DEFINE c == [W!NoCall EXCEPT !.run = wcall[t].run]
             l == IF wcall[t].run = 0 THEN "idle" ELSE "history_load"
  <1>1. W!Put(t, {"doc"}, l, c) /\ wpc[t] = "last_put" /\ quiet' = quiet
    BY DEF W!merge_target_last_run
  <1>2. c \in W!Call /\ c.payload = W!NoDoc /\ c.run = wcall[t].run
    BY NoDocTyped, DocTyped DEF W!Call
  <1>3. /\ l \in W!Label /\ l \notin W!HasDoc /\ l \notin LaneLabel /\ l # "tasks" /\ l \notin Piping
        /\ wpc[t] \in W!HasDoc
        /\ l \in Recording => wcall[t].run # 0
    BY <1>1 DEF W!Label, W!HasDoc, LaneLabel, Recording, Piping
  <1> HIDE DEF c, l
  <1>4. LaneEarned'
    BY <1>1, LaneKeptByPut
  <1>5. quiet' \in [head : 0 .. MaxHead, same : 0 .. Threshold, any : 0 .. Threshold]
    BY <1>1 DEF DocInv, W!TypeOK
  <1> QED
    BY <1>1, <1>2, <1>3, <1>4, <1>5, PutStep

LEMMA HistoryPut ==
    ASSUME DocInv, NEW t \in W!Caller, W!append_target_history(t)
    PROVE  DocInv'
  <1>1. W!Put(t, {"doc"}, "idle", W!NoCall) /\ wpc[t] = "history_put" /\ quiet' = quiet
    BY DEF W!append_target_history
  <1>2. LaneEarned'
    BY <1>1, LaneKeptByPut
  <1>3. quiet' \in [head : 0 .. MaxHead, same : 0 .. Threshold, any : 0 .. Threshold]
    BY <1>1 DEF DocInv, W!TypeOK
  <1>4. /\ "idle" \in W!Label /\ "idle" \notin W!HasDoc /\ "idle" \notin LaneLabel
        /\ "idle" \notin Piping /\ "idle" \notin Recording /\ wpc[t] \in W!HasDoc
    BY <1>1 DEF W!Label, W!HasDoc, LaneLabel, Recording, Piping
  <1> QED
    BY <1>1, <1>2, <1>3, <1>4, NoDocTyped, PutStep

\* A lane update: the state it writes is earned.
LEMMA LanePut ==
    ASSUME DocInv, NEW t \in W!Caller, W!update_bug_lane_state(t)
    PROVE  DocInv'
  <1> DEFINE c == [W!NoCall EXCEPT !.run = wcall[t].run]
             p == wcall[t].payload
  <1>1. W!Put(t, {"doc", "lane"}, "report", c) /\ wpc[t] = "lane_put"
    BY DEF W!update_bug_lane_state
  <1>2. /\ quiet \in [head : 0 .. MaxHead, same : 0 .. Threshold, any : 0 .. Threshold]
        /\ wcall[t].seen \in 0 .. MaxHead /\ wcall[t].bugs \in BOOLEAN /\ wcall[t].run # 0
        /\ doc.lane.streak \in Nat /\ p.lane.streak \in Nat
        /\ t \in Request
    BY <1>1, DocTyped DEF DocInv, W!TypeOK, W!Call, W!Doc, W!LaneDoc, Held, CallSane, LaneLabel, W!NotesBugs
  <1>3. \A n \in Nat : W!UpTo(Threshold, n) \in 0 .. Threshold
    BY TeamWorkflowAssumption DEF W!UpTo
  <1>4. /\ quiet'.any = IF wcall[t].bugs THEN 0 ELSE W!UpTo(Threshold, quiet.any + 1)
        /\ quiet' \in [head : 0 .. MaxHead, same : 0 .. Threshold, any : 0 .. Threshold]
    <2>1. CASE wcall[t].bugs
      <3>1. quiet' = [head |-> wcall[t].seen, same |-> 0, any |-> 0]
        BY <2>1 DEF W!update_bug_lane_state
      <3> QED
        BY <1>2, <2>1, <3>1, TeamWorkflowAssumption
    <2>2. CASE ~wcall[t].bugs
      <3> DEFINE same == IF wcall[t].seen = quiet.head THEN W!UpTo(Threshold, quiet.same + 1) ELSE W!UpTo(Threshold, 1)
                 any == W!UpTo(Threshold, quiet.any + 1)
      <3>1. quiet' = [head |-> wcall[t].seen, same |-> same, any |-> any]
        BY <2>2 DEF W!update_bug_lane_state
      <3>2. quiet.same + 1 \in Nat /\ quiet.any + 1 \in Nat /\ 1 \in Nat
        BY <1>2
      <3>3. same \in 0 .. Threshold /\ any \in 0 .. Threshold
        BY <1>3, <3>2
      <3> HIDE DEF same
      <3> QED
        BY <1>2, <2>2, <3>1, <3>3
    <2> QED
      BY <1>2, <2>1, <2>2
  <1>5. LaneEarned'
    <2> SUFFICES ASSUME ~crossed'
                 PROVE  doc'.lane.streak <= quiet'.any /\ (doc'.lane.status = "dormant" => quiet'.any >= Threshold)
      BY DEF LaneEarned
    <2>1. ~crossed /\ doc' = p /\ (doc'.lane = doc.lane \/ "lane" \notin stale[t])
      BY <1>1, LaneCrossed
    <2>2. LaneWritten(t) /\ ("lane" \notin stale[t] => LaneSeen(t))
      BY DocTyped DEF Held
    <2>3. doc.lane.streak <= quiet.any /\ (doc.lane.status = "dormant" => quiet.any >= Threshold)
      BY <2>1 DEF DocInv, LaneEarned
    <2>4. CASE wcall[t].bugs
      BY <1>1, <1>4, <2>1, <2>2, <2>4 DEF LaneWritten
    <2>5. CASE ~wcall[t].bugs
      <3>1. quiet.any \in 0 .. Threshold
        BY <1>2
      <3>2. quiet'.any = IF quiet.any + 1 < Threshold THEN quiet.any + 1 ELSE Threshold
        BY <1>4, <2>5 DEF W!UpTo
      <3>3. p.lane.streak <= Threshold
        BY <1>1, <2>2 DEF LaneWritten
      <3>4. CASE doc'.lane = doc.lane
        <4>1. quiet.any <= quiet'.any /\ (quiet.any >= Threshold => quiet'.any >= Threshold)
          BY <3>1, <3>2, TeamWorkflowAssumption
        <4>2. quiet'.any \in Nat /\ quiet.any \in Nat
          BY <3>1, <3>2, TeamWorkflowAssumption
        <4> QED
          BY <1>2, <2>3, <3>4, <4>1, <4>2
      <3>5. CASE "lane" \notin stale[t]
        <4>1. p.lane.streak <= doc.lane.streak + 1 /\ (p.lane.status = "dormant" => doc.lane.streak + 1 >= Threshold)
          BY <1>1, <2>2, <2>5, <3>5 DEF LaneSeen
        <4> QED
          BY <1>2, <2>1, <2>3, <3>1, <3>2, <3>3, <4>1, TeamWorkflowAssumption
      <3> QED
        BY <2>1, <3>4, <3>5
    <2> QED
      BY <1>2, <2>4, <2>5
  <1>6. c \in W!Call /\ c.payload = W!NoDoc /\ c.run = wcall[t].run
    BY NoDocTyped, DocTyped DEF W!Call
  <1> HIDE DEF c, p
  <1>7. /\ "report" \in W!Label /\ "report" \notin W!HasDoc /\ "report" \notin LaneLabel
        /\ wpc[t] \in W!HasDoc
    BY <1>1 DEF W!Label, W!HasDoc, LaneLabel
  <1>8. "report" \in Recording \/ ("report" \in Piping /\ t \in Request) => c.run # 0
    BY <1>2, <1>6
  <1> QED
    BY <1>1, <1>4, <1>5, <1>6, <1>7, <1>8, PutStep

LEMMA DocNext ==
    ASSUME DocInv, [W!Next]_W!vars
    PROVE  DocInv'
  <1>1. ASSUME NEW t \in W!Caller, W!Step(t) PROVE DocInv'
    BY <1>1, PolicyLoad, MergeStep, PolicyPut, FailsStep, PrepareStep, CollectStep, RunWorkflowStep, LaneLoadStep,
       LanePut, ReportStep, LastLoad, LastPut, HistoryLoad, HistoryPut DEF W!Step
  <1>2. ASSUME NEW t \in Request, W!run_team_iteration(t) \/ W!run_team_iteration_skipped(t) PROVE DocInv'
    BY <1>2, TeamRunStep, SkippedStep
  <1>3. ASSUME NEW t \in Loop, W!run_workflow_iteration(t) PROVE DocInv'
    BY <1>3, LoopRunStep
  <1>4. CASE W!Tick
    <2>1. UNCHANGED <<doc, scan, reports, wpc, wcall, stale, crossed, quiet, wruns, wfaults>> /\ now' \in 1 .. MaxTime
      BY <1>4, TeamWorkflowAssumption DEF W!Tick, DocInv, W!TypeOK
    <2>2. W!TypeOK'
      BY <2>1 DEF DocInv, W!TypeOK
    <2> QED
      BY <2>1, <2>2 DEF DocInv, LaneEarned, Held, CallSane, LaneWritten, LaneSeen, DocSeen, W!NotesBugs
  <1>5. CASE W!Crash
    <2>1. /\ wpc' = [t \in W!Caller |-> "idle"] /\ wcall' = [t \in W!Caller |-> W!NoCall]
          /\ stale' = [t \in W!Caller |-> {}]
          /\ UNCHANGED <<doc, now, scan, reports, crossed, quiet, wruns>>
          /\ wfaults' \in 0 .. MaxTeamFaults
      BY <1>5, TeamWorkflowAssumption DEF W!Crash, W!world, DocInv, W!TypeOK
    <2>2. "idle" \in W!Label
      BY DEF W!Label
    <2>3. W!TypeOK'
      BY <2>1, <2>2, NoDocTyped DEF DocInv, W!TypeOK
    <2>4. LaneEarned'
      BY <2>1 DEF DocInv, LaneEarned
    <2>5. ASSUME NEW t \in W!Caller PROVE Held(t)'
      BY <2>1, NoDocTyped DEF Held, CallSane, LaneWritten, LaneSeen, DocSeen, Piping, LaneLabel, Recording, W!HasDoc
    <2> QED
      BY <2>3, <2>4, <2>5 DEF DocInv
  <1>6. CASE UNCHANGED W!vars
    BY <1>6 DEF W!vars, DocInv, W!TypeOK, LaneEarned, Held, CallSane, LaneWritten, LaneSeen, DocSeen, W!NotesBugs
  <1> QED
    BY <1>1, <1>2, <1>3, <1>4, <1>5, <1>6 DEF W!Next

\* A step that moves a call which nothing has overtaken changes the key it
\* writes and no other.
LEMMA NothingDropped ==
    ASSUME DocInv, [W!Next]_W!vars
    PROVE  W!NothingForgotten
  <1> SUFFICES ASSUME NEW t \in W!Caller, wpc'[t] # wpc[t], "doc" \notin stale[t],
                      NEW k \in DOMAIN doc, doc'[k] # doc[k]
               PROVE  <<wpc[t], k>> \in W!Writes
    BY DEF W!NothingForgotten
  <1>1. PICK u \in W!Caller :
          \/ W!update_workflow_runtime_state(u) \/ W!update_bug_lane_state(u)
          \/ W!merge_target_last_run(u) \/ W!append_target_history(u)
    <2>1. ASSUME NEW u \in W!Caller, W!Step(u), doc' # doc
          PROVE  \/ W!update_workflow_runtime_state(u) \/ W!update_bug_lane_state(u)
                 \/ W!merge_target_last_run(u) \/ W!append_target_history(u)
      BY <2>1 DEF W!Step, W!policy_load, W!policy_merge, W!run_workflow_fails, W!prepare_discovery_repo,
         W!collect_context, W!run_workflow, W!lane_load, W!lane_merge, W!save_report, W!last_load, W!history_load,
         W!Load, W!save_target_state
    <2>2. \A u \in Request : W!run_team_iteration(u) \/ W!run_team_iteration_skipped(u) => doc' = doc
      BY DEF W!run_team_iteration, W!run_team_iteration_skipped, W!Evaluate
    <2>3. \A u \in Loop : W!run_workflow_iteration(u) => doc' = doc
      BY DEF W!run_workflow_iteration, W!Evaluate
    <2>4. W!Tick \/ W!Crash \/ UNCHANGED W!vars => doc' = doc
      BY DEF W!Tick, W!Crash, W!vars
    <2> QED
      BY <2>1, <2>2, <2>3, <2>4 DEF W!Next
  <1>2. wpc[u] \in {"policy_put", "lane_put", "last_put", "history_put"} /\ doc' = wcall[u].payload
        /\ \E l : wpc' = [wpc EXCEPT ![u] = l]
    BY <1>1 DEF W!update_workflow_runtime_state, W!update_bug_lane_state, W!merge_target_last_run,
       W!append_target_history, W!Put, W!Goto
  <1>3. t = u
    BY <1>2 DEF DocInv, W!TypeOK
  <1>4. DocSeen(t) /\ wpc[t] \in W!HasDoc
    BY <1>2, <1>3, DocTyped DEF Held, W!HasDoc
  <1>5. k \in {"since", "lane", "last", "history"}
    BY DocTyped DEF W!Doc
  <1> QED
    BY <1>2, <1>3, <1>4, <1>5 DEF DocSeen, W!Writes

\* TeamWorkflow: the state document, its calls and the lane keep their types.
THEOREM DocumentTyped == W!Spec => []W!TypeOK
  <1>1. DocInv => W!TypeOK
    BY DEF DocInv
  <1> QED
    BY <1>1, DocInit, DocNext, PTL DEF W!Spec

\* TeamWorkflow: the bug lane sleeps only after quiet scans in a row (unless a
\* write crossed another), and an update of the state document changes one key.
THEOREM LaneKept == W!Spec => LaneStateKept
  <1>1. DocInv /\ [W!Next]_W!vars => [W!DormantMeansQuiet' /\ W!NothingForgotten]_W!vars
    <2> SUFFICES ASSUME DocInv, [W!Next]_W!vars PROVE W!DormantMeansQuiet' /\ W!NothingForgotten
      OBVIOUS
    <2>1. DocInv'
      BY DocNext
    <2>2. W!DormantMeansQuiet'
      BY <2>1 DEF DocInv, LaneEarned, W!DormantMeansQuiet
    <2> QED
      BY <2>2, NothingDropped
  <1> QED
    BY <1>1, DocInit, DocNext, PTL DEF W!Spec, LaneStateKept, W!LaneStateKept
==============================================================================
