--------------------------- MODULE ServicesProofs ----------------------------
(***************************************************************************)
(* Proofs about DeliveryStudio, for any clients, texts and commits, and    *)
(* about the OpenClaw reporter, the issues of tasks, the feed of events    *)
(* (Services) and the inspection of a repository (Inspection).             *)
(***************************************************************************)
EXTENDS DeliveryStudio, Services, Integers, Sequences, FiniteSets, FiniteSetTheorems,
        WellFoundedInduction, TLAPS

LEMMA Records ==
    /\ \A stage \in Stage : Unreadable(stage) \in Request
    /\ NoCall \in Call
    /\ \A base \in Request, doc \in Request, text \in Text \cup {NoText},
          head \in Commit \cup {NoText}, link \in BOOLEAN :
          [base |-> base, doc |-> doc, text |-> text, head |-> head, link |-> link] \in Call
<1>1. \A stage \in Stage : Unreadable(stage) \in Request
  BY DEF Unreadable, Request
<1>2. NoCall \in Call
  BY <1>1 DEF NoCall, Call, Stage
<1> QED BY <1>1, <1>2 DEF Call

\* The requests that the handlers save.
LEMMA Edits ==
    ASSUME NEW r \in Request
    PROVE  /\ [r EXCEPT !.stage = "Awaiting Approval"] \in Request
           /\ \A option \in Text :
                 [r EXCEPT !.stage = "Locked", !.spec_approved = TRUE, !.option = option] \in Request
           /\ \A gate \in {"Passed", "Blocked"} :
                 [r EXCEPT !.review_gate = gate,
                    !.stage = IF gate = "Blocked" THEN "Changes Requested" ELSE "CI Running"]
                   \in Request
BY DEF Request, Stage, Locked

LEMMA Begun ==
    ASSUME TypeOK, NEW c \in Client, NEW next \in {"draft", "record", "save"},
           NEW doc \in Request, NEW text \in Text \cup {NoText},
           NEW head \in Commit \cup {NoText}, NEW link \in BOOLEAN,
           Begin(c, next, doc, text, head, link)
    PROVE  TypeOK'
<1>1. [base |-> request, doc |-> doc, text |-> text, head |-> head, link |-> link] \in Call
  BY Records DEF TypeOK
<1> QED BY <1>1 DEF TypeOK, Begin

LEMMA TypeInvariant == TypeOK /\ [Next]_vars => TypeOK'
<1> SUFFICES ASSUME TypeOK, [Next]_vars PROVE TypeOK'
  OBVIOUS
<1>1. ASSUME NEW c \in Client, create_request(c) PROVE TypeOK'
  BY <1>1, Begun, Records DEF create_request, NewRequest, Stage
<1>2. ASSUME NEW c \in Client, mark_awaiting_approval(c) PROVE TypeOK'
  BY <1>2, Begun, Edits DEF mark_awaiting_approval, TypeOK
<1>3. ASSUME NEW c \in Client, approve_request(c) PROVE TypeOK'
  BY <1>3, Begun, Edits DEF approve_request, TypeOK
<1>4. ASSUME NEW c \in Client, finalize_review(c) PROVE TypeOK'
  <2>1. \A verdicts : evaluate_review_gate(verdicts) \in {"Passed", "Blocked"}
    BY DEF evaluate_review_gate
  <2> QED BY <1>4, <2>1, Begun, Edits DEF finalize_review, TypeOK
<1>5. ASSUME NEW c \in Client, WriteDraft(c) PROVE TypeOK'
  BY <1>5 DEF WriteDraft, TypeOK, Call
<1>6. ASSUME NEW c \in Client, WriteRecord(c) PROVE TypeOK'
  BY <1>6 DEF WriteRecord, TypeOK, Call
<1>7. ASSUME NEW c \in Client, Truncate(c) PROVE TypeOK'
  <2>1. Unreadable("empty") \in Request
    BY Records DEF Stage
  <2> QED BY <1>7, <2>1 DEF Truncate, TypeOK
<1>8. ASSUME NEW c \in Client, WriteRequest(c) PROVE TypeOK'
  <2>1. call[c] \in Call /\ call[c].doc \in Request /\ Unreadable("garbled") \in Request
    BY Records DEF TypeOK, Call, Stage
  <2>2. request' \in Request
    BY <1>8, <2>1 DEF WriteRequest
  <2>3. call' \in [Client -> Call]
    <3>1. CASE call[c].link
      <4>1. [call[c] EXCEPT !.base = call[c].doc, !.doc.linked = TRUE, !.link = FALSE] \in Call
        BY <2>1 DEF Call, Request
      <4>2. call' = [call EXCEPT ![c] = [@ EXCEPT !.base = call[c].doc, !.doc.linked = TRUE, !.link = FALSE]]
        BY <1>8, <3>1, <2>1 DEF WriteRequest, TypeOK, Call
      <4> QED BY <4>1, <4>2 DEF TypeOK
    <3>2. CASE ~call[c].link
      BY <1>8, <3>2, Records DEF WriteRequest, Return, TypeOK
    <3> QED BY <3>1, <3>2
  <2>4. pc' \in [Client -> {"idle", "draft", "record", "save", "write", "post"}]
    BY <1>8 DEF WriteRequest, Return, TypeOK
  <2> QED BY <1>8, <2>2, <2>3, <2>4 DEF WriteRequest, TypeOK
<1>9. ASSUME NEW c \in Client, PostChecks(c) PROVE TypeOK'
  BY <1>9, Records DEF PostChecks, Return, TypeOK
<1>10. CASE Crash
  BY <1>10, Records, StudioAssumption DEF Crash, TypeOK
<1>11. CASE UNCHANGED vars
  BY <1>11 DEF vars, TypeOK
<1> QED BY <1>1, <1>2, <1>3, <1>4, <1>5, <1>6, <1>7, <1>8, <1>9, <1>10, <1>11 DEF Next

LEMMA InitType == Init => TypeOK
<1> SUFFICES ASSUME Init PROVE TypeOK
  OBVIOUS
<1>1. request \in Request /\ call \in [Client -> Call]
  BY Records DEF Init, Stage
<1>2. 0 \in 0 .. MaxCrashes
  BY StudioAssumption
<1> QED BY <1>1, <1>2 DEF Init, TypeOK

\* The request, its artifacts, checks and calls keep their types.
THEOREM TypeCorrect == Spec => []TypeOK
BY InitType, TypeInvariant, PTL DEF Spec

------------------------------------------------------------------------------
(* The approval.                                                           *)

\* What a request says of itself.
Sound(r) ==
    /\ r.stage \in Locked => r.spec_approved /\ r.option # NoText
    /\ r.review_gate = "Passed" => r.stage = "CI Running"

\* The artifacts that a stage needs.
Backed(stage) ==
    /\ stage \in Locked => record # NoText
    /\ stage \in Locked \cup {"Awaiting Approval"} => draft # NoText

\* What a call that has loaded the request, and one that is about to save it, know.
CallSound(c) ==
    /\ pc[c] # "idle" => Sound(call[c].doc)
    /\ pc[c] = "draft" =>
          /\ call[c].base.stage = "Discussing" /\ call[c].doc.stage = "Awaiting Approval"
          /\ call[c].text # NoText
    /\ pc[c] = "record" =>
          /\ call[c].base.stage = "Awaiting Approval" /\ call[c].doc.stage = "Locked"
          /\ call[c].text # NoText /\ draft # NoText
    /\ pc[c] \in {"save", "write"} => Backed(call[c].doc.stage)
    /\ pc[c] \in {"draft", "record", "save", "write"} =>
          call[c].base.stage \notin {"empty", "garbled", "CI Running"}
    /\ pc[c] # "idle" /\ call[c].link => call[c].doc.stage = "Discussing"
StudioInv == TypeOK /\ Sound(request) /\ Backed(request.stage) /\ \A c \in Client : CallSound(c)

\* The requests that the handlers save are sound if the request they loaded is.
LEMMA SoundEdits ==
    ASSUME NEW r \in Request, Sound(r)
    PROVE  /\ r.stage \notin Locked => Sound([r EXCEPT !.stage = "Awaiting Approval"])
           /\ \A option \in Text :
                 r.stage \notin Locked =>
                    Sound([r EXCEPT !.stage = "Locked", !.spec_approved = TRUE, !.option = option])
           /\ \A gate \in {"Passed", "Blocked"} :
                 r.stage \in Locked =>
                    Sound([r EXCEPT !.review_gate = gate,
                             !.stage = IF gate = "Blocked" THEN "Changes Requested" ELSE "CI Running"])
<1>1. r.stage \notin Locked => Sound([r EXCEPT !.stage = "Awaiting Approval"])
  BY DEF Sound, Locked, Request
<1>2. \A option \in Text :
         r.stage \notin Locked =>
            Sound([r EXCEPT !.stage = "Locked", !.spec_approved = TRUE, !.option = option])
  BY StudioAssumption DEF Sound, Locked, Request
<1>3. ASSUME NEW gate \in {"Passed", "Blocked"}, r.stage \in Locked
      PROVE  Sound([r EXCEPT !.review_gate = gate,
                      !.stage = IF gate = "Blocked" THEN "Changes Requested" ELSE "CI Running"])
  BY <1>3 DEF Sound, Locked, Request
<1> QED BY <1>1, <1>2, <1>3

\* The step of another call does not disturb what a call knows.
LEMMA Undisturbed ==
    ASSUME NEW c \in Client, CallSound(c), pc'[c] = pc[c], call'[c] = call[c],
           draft' = draft \/ draft' # NoText, record' = record \/ record' # NoText
    PROVE  CallSound(c)'
BY DEF CallSound, Sound, Backed

LEMMA IdleSound ==
    ASSUME NEW c \in Client, pc'[c] = "idle" PROVE CallSound(c)'
BY DEF CallSound

\* A handler that has loaded the request.
LEMMA BegunSound ==
    ASSUME StudioInv, NEW c \in Client, NEW next \in {"draft", "record", "save"},
           NEW doc \in Request, NEW text, NEW head, NEW link \in BOOLEAN,
           Begin(c, next, doc, text, head, link),
           Sound(doc),
           request.stage \notin {"empty", "garbled", "CI Running"},
           next = "draft" => /\ request.stage = "Discussing" /\ doc.stage = "Awaiting Approval"
                             /\ text # NoText,
           next = "record" => /\ request.stage = "Awaiting Approval" /\ doc.stage = "Locked"
                              /\ text # NoText,
           next = "save" => Backed(doc.stage),
           link => doc.stage = "Discussing"
    PROVE  Sound(request)' /\ Backed(request.stage)' /\ \A d \in Client : CallSound(d)'
<1>1. UNCHANGED <<request, draft, record>>
  BY DEF Begin
<1>2. Sound(request)' /\ Backed(request.stage)'
  BY <1>1 DEF StudioInv, Sound, Backed
<1>3. /\ pc'[c] = next
      /\ call'[c] = [base |-> request, doc |-> doc, text |-> text, head |-> head, link |-> link]
  BY DEF Begin, StudioInv, TypeOK
<1>4. /\ call'[c].base = request /\ call'[c].doc = doc /\ call'[c].text = text
      /\ call'[c].link = link
  <2> DEFINE new == [base |-> request, doc |-> doc, text |-> text, head |-> head, link |-> link]
  <2>1. new.base = request /\ new.doc = doc /\ new.text = text
    OBVIOUS
  <2>2. new.link = link
    BY Zenon
  <2>3. call'[c] = new
    BY <1>3
  <2> QED BY <2>1, <2>2, <2>3
<1>5. request.stage = "Awaiting Approval" => draft # NoText
  BY DEF StudioInv, Backed
<1>6. CallSound(c)'
  BY <1>1, <1>3, <1>4, <1>5 DEF CallSound, Sound, Backed
<1>7. ASSUME NEW d \in Client, d # c PROVE CallSound(d)'
  <2>1. pc'[d] = pc[d] /\ call'[d] = call[d]
    BY <1>7 DEF Begin, StudioInv, TypeOK
  <2> QED BY <1>1, <2>1, Undisturbed DEF StudioInv
<1> QED BY <1>2, <1>6, <1>7

LEMMA StudioInvariant == StudioInv /\ [Next]_vars => StudioInv'
<1> SUFFICES ASSUME StudioInv, [Next]_vars
             PROVE Sound(request)' /\ Backed(request.stage)' /\ \A d \in Client : CallSound(d)'
  BY TypeInvariant DEF StudioInv
<1>0. /\ TypeOK /\ Sound(request) /\ Backed(request.stage) /\ request \in Request
      /\ \A d \in Client : CallSound(d)
  BY DEF StudioInv, TypeOK
<1> DEFINE Goal == Sound(request)' /\ Backed(request.stage)' /\ \A d \in Client : CallSound(d)'
<1>1. ASSUME NEW c \in Client, create_request(c) PROVE Goal
  <2>1. Sound(NewRequest) /\ Backed(NewRequest.stage) /\ NewRequest.stage = "Discussing"
    BY DEF Sound, Backed, NewRequest, Unreadable, Locked
  <2>2. NewRequest \in Request
    BY Records DEF NewRequest, Stage
  <2> QED BY <1>1, <2>1, <2>2, BegunSound DEF create_request
<1>2. ASSUME NEW c \in Client, mark_awaiting_approval(c) PROVE Goal
  <2>1. request.stage = "Discussing"
    BY <1>2 DEF mark_awaiting_approval, Proposable
  <2>2. PICK proposal \in Text :
           Begin(c, "draft", [request EXCEPT !.stage = "Awaiting Approval"], proposal, NoText, FALSE)
    BY <1>2 DEF mark_awaiting_approval
  <2>3. Sound([request EXCEPT !.stage = "Awaiting Approval"])
    BY <1>0, <2>1, SoundEdits DEF Locked
  <2>4. /\ [request EXCEPT !.stage = "Awaiting Approval"] \in Request
        /\ [request EXCEPT !.stage = "Awaiting Approval"].stage = "Awaiting Approval"
    BY <1>0, Edits DEF Request
  <2> QED BY <2>1, <2>2, <2>3, <2>4, BegunSound, StudioAssumption
<1>3. ASSUME NEW c \in Client, approve_request(c) PROVE Goal
  <2>1. request.stage = "Awaiting Approval"
    BY <1>3 DEF approve_request
  <2>2. PICK option \in Text :
           Begin(c, "record",
                 [request EXCEPT !.stage = "Locked", !.spec_approved = TRUE, !.option = option],
                 option, NoText, FALSE)
    BY <1>3 DEF approve_request
  <2> DEFINE doc == [request EXCEPT !.stage = "Locked", !.spec_approved = TRUE, !.option = option]
  <2>3. Sound(doc)
    BY <1>0, <2>1, SoundEdits DEF Locked
  <2>4. doc \in Request /\ doc.stage = "Locked"
    BY <1>0, Edits DEF Request
  <2> HIDE DEF doc
  <2>5. Begin(c, "record", doc, option, NoText, FALSE)
    BY <2>2 DEF doc
  <2> QED BY <2>1, <2>3, <2>4, <2>5, BegunSound, StudioAssumption
<1>4. ASSUME NEW c \in Client, finalize_review(c) PROVE Goal
  <2>1. request.stage \in {"Locked", "Changes Requested"}
    BY <1>4 DEF finalize_review, Reviewable
  <2>2. PICK gate \in {"Passed", "Blocked"}, head \in Commit \cup {NoText} :
           Begin(c, "save",
                 [request EXCEPT !.review_gate = gate,
                    !.stage = IF gate = "Blocked" THEN "Changes Requested" ELSE "CI Running"],
                 NoText, head, FALSE)
    BY <1>4 DEF finalize_review, evaluate_review_gate
  <2> DEFINE doc == [request EXCEPT !.review_gate = gate,
                       !.stage = IF gate = "Blocked" THEN "Changes Requested" ELSE "CI Running"]
  <2>3. Sound(doc)
    BY <1>0, <2>1, SoundEdits DEF Locked
  <2>4. doc \in Request /\ doc.stage \in Locked
    BY <1>0, Edits DEF Request, Locked
  <2>5. Backed(doc.stage)
    BY <1>0, <2>1, <2>4 DEF Backed, Locked
  <2> HIDE DEF doc
  <2>6. Begin(c, "save", doc, NoText, head, FALSE)
    BY <2>2 DEF doc
  <2> QED BY <2>1, <2>3, <2>4, <2>5, <2>6, BegunSound
<1>5. ASSUME NEW c \in Client, WriteDraft(c) PROVE Goal
  <2>1. UNCHANGED <<request, record, call>> /\ draft' # NoText
    BY <1>0, <1>5 DEF WriteDraft, CallSound
  <2>2. pc'[c] = "save" /\ \A d \in Client \ {c} : pc'[d] = pc[d]
    BY <1>0, <1>5 DEF WriteDraft, TypeOK
  <2>3. Sound(request)' /\ Backed(request.stage)'
    BY <1>0, <2>1 DEF Sound, Backed
  <2>4. CallSound(c)'
    BY <1>0, <1>5, <2>1, <2>2 DEF WriteDraft, CallSound, Sound, Backed, Locked
  <2> QED BY <1>0, <2>1, <2>2, <2>3, <2>4, Undisturbed
<1>6. ASSUME NEW c \in Client, WriteRecord(c) PROVE Goal
  <2>1. UNCHANGED <<request, draft, call>> /\ record' # NoText
    BY <1>0, <1>6 DEF WriteRecord, CallSound
  <2>2. pc'[c] = "save" /\ \A d \in Client \ {c} : pc'[d] = pc[d]
    BY <1>0, <1>6 DEF WriteRecord, TypeOK
  <2>3. Sound(request)' /\ Backed(request.stage)'
    BY <1>0, <2>1 DEF Sound, Backed
  <2>4. CallSound(c)'
    BY <1>0, <1>6, <2>1, <2>2 DEF WriteRecord, CallSound, Sound, Backed, Locked
  <2> QED BY <1>0, <2>1, <2>2, <2>3, <2>4, Undisturbed
<1>7. ASSUME NEW c \in Client, Truncate(c) PROVE Goal
  <2>1. UNCHANGED <<draft, record, call>> /\ request' = Unreadable("empty")
    BY <1>7 DEF Truncate
  <2>2. pc'[c] = "write" /\ \A d \in Client \ {c} : pc'[d] = pc[d]
    BY <1>0, <1>7 DEF Truncate, TypeOK
  <2>3. Sound(request)' /\ Backed(request.stage)'
    BY <2>1 DEF Sound, Backed, Unreadable, Locked
  <2>4. CallSound(c)'
    BY <1>0, <1>7, <2>1, <2>2 DEF Truncate, CallSound, Sound, Backed
  <2> QED BY <1>0, <2>1, <2>2, <2>3, <2>4, Undisturbed
<1>8. ASSUME NEW c \in Client, WriteRequest(c) PROVE Goal
  <2>1. UNCHANGED <<draft, record>> /\ request' \in {call[c].doc, Unreadable("garbled")}
    BY <1>8 DEF WriteRequest
  <2>2. \A d \in Client \ {c} : pc'[d] = pc[d] /\ call'[d] = call[d]
    BY <1>0, <1>8 DEF WriteRequest, Return, TypeOK
  <2>3. Sound(call[c].doc) /\ Backed(call[c].doc.stage) /\ call[c] \in Call
    BY <1>0, <1>8 DEF WriteRequest, CallSound, TypeOK
  <2>4. Sound(Unreadable("garbled")) /\ Backed("garbled") /\ Unreadable("garbled").stage = "garbled"
    BY DEF Sound, Backed, Unreadable, Locked
  <2>5. Sound(request)' /\ Backed(request.stage)'
    BY <2>1, <2>3, <2>4 DEF Sound, Backed
  <2>6. CallSound(c)'
    <3>1. CASE call[c].link
      <4>1. call'[c] = [call[c] EXCEPT !.base = call[c].doc, !.doc.linked = TRUE, !.link = FALSE]
        BY <1>0, <1>8, <3>1, <2>3 DEF WriteRequest, TypeOK, Call
      <4>2. pc'[c] = "save"
        BY <1>0, <1>8, <3>1 DEF WriteRequest, TypeOK
      <4>3. call[c].doc.stage = "Discussing" /\ call[c].doc \in Request
        BY <1>0, <1>8, <3>1, <2>3 DEF WriteRequest, CallSound, Call
      <4>4. /\ call'[c].base = call[c].doc /\ ~call'[c].link
            /\ call'[c].doc = [call[c].doc EXCEPT !.linked = TRUE]
        BY <4>1, <2>3 DEF Call
      <4>5. call'[c].doc.stage = "Discussing" /\ Sound(call'[c].doc)
        BY <4>3, <4>4, <2>3 DEF Request, Sound
      <4> QED BY <4>2, <4>3, <4>4, <4>5 DEF CallSound, Sound, Backed, Locked
    <3>2. CASE ~call[c].link /\ call[c].head \in Commit
      BY <1>0, <1>8, <3>2 DEF WriteRequest, TypeOK, CallSound, Sound
    <3>3. CASE ~call[c].link /\ call[c].head \notin Commit
      BY <1>0, <1>8, <3>3, IdleSound DEF WriteRequest, Return, TypeOK
    <3> QED BY <3>1, <3>2, <3>3
  <2> QED BY <1>0, <2>1, <2>2, <2>5, <2>6, Undisturbed
<1>9. ASSUME NEW c \in Client, PostChecks(c) PROVE Goal
  <2>1. UNCHANGED <<request, draft, record>> /\ pc'[c] = "idle"
    BY <1>0, <1>9 DEF PostChecks, Return, TypeOK
  <2>2. \A d \in Client \ {c} : pc'[d] = pc[d] /\ call'[d] = call[d]
    BY <1>0, <1>9 DEF PostChecks, Return, TypeOK
  <2>3. Sound(request)' /\ Backed(request.stage)'
    BY <1>0, <2>1 DEF Sound, Backed
  <2> QED BY <1>0, <2>1, <2>2, <2>3, IdleSound, Undisturbed
<1>10. CASE Crash
  BY <1>0, <1>10, IdleSound DEF Crash, Sound, Backed
<1>11. CASE UNCHANGED vars
  <2>1. Sound(request)' /\ Backed(request.stage)'
    BY <1>0, <1>11 DEF vars, Sound, Backed
  <2> QED BY <1>0, <1>11, <2>1, Undisturbed DEF vars
<1> QED BY <1>1, <1>2, <1>3, <1>4, <1>5, <1>6, <1>7, <1>8, <1>9, <1>10, <1>11 DEF Next

LEMMA InitStudio == Init => StudioInv
BY InitType DEF Init, StudioInv, Sound, Backed, CallSound, Unreadable, Locked

\* Whatever calls overlap and wherever one dies, a request that is locked or
\* beyond was approved, and its artifacts exist.
THEOREM Approved == Spec => []LockedIsApproved
<1>1. StudioInv => LockedIsApproved
  BY DEF StudioInv, Sound, Backed, LockedIsApproved
<1> QED BY <1>1, InitStudio, StudioInvariant, PTL DEF Spec

\* From the lock on the proposal, the record and the option stay as they are,
\* unless calls have raced.
THEOREM Frozen == Spec => LockFreezes
<1>1. StudioInv /\ [Next]_vars =>
        [request.stage \in Locked =>
           \/ raced'
           \/ /\ draft' = draft /\ record' = record
              /\ request'.stage # "empty" => request'.option = request.option]_vars
  <2> SUFFICES ASSUME StudioInv, Next, request.stage \in Locked, ~raced'
               PROVE  /\ draft' = draft /\ record' = record
                      /\ request'.stage # "empty" => request'.option = request.option
    OBVIOUS
  <2>1. ASSUME NEW c \in Client, WriteDraft(c) \/ WriteRecord(c) PROVE FALSE
    BY <2>1 DEF WriteDraft, WriteRecord, Stale, StudioInv, CallSound, Locked
  <2>2. ASSUME NEW c \in Client, Truncate(c)
        PROVE  draft' = draft /\ record' = record /\ request'.stage = "empty"
    BY <2>2 DEF Truncate, Unreadable
  <2>3. ASSUME NEW c \in Client, WriteRequest(c) PROVE FALSE
    BY <2>3 DEF WriteRequest, Locked
  <2>4. ASSUME NEW c \in Client,
               \/ create_request(c) \/ mark_awaiting_approval(c) \/ approve_request(c)
               \/ finalize_review(c) \/ PostChecks(c) \/ Crash
        PROVE  UNCHANGED <<draft, record, request>>
    BY <2>4 DEF create_request, mark_awaiting_approval, approve_request, finalize_review,
                Begin, PostChecks, Crash
  <2> QED BY <2>1, <2>2, <2>3, <2>4 DEF Next, Crash
<1> QED BY <1>1, InitStudio, StudioInvariant, PTL DEF Spec, LockFreezes

------------------------------------------------------------------------------
(* The gate.                                                               *)

\* Until calls race, one call at a time is inside a save, and one that is to
\* post a passed gate has just saved it.
Orderly(c) ==
    /\ pc[c] = "write" => request.stage = "empty" /\ \A d \in Client : pc[d] = "write" => d = c
    /\ pc[c] = "post" /\ call[c].doc.review_gate = "Passed" => request.stage = "CI Running"
Green == \A h \in Commit : gateCheck[h] = "success" => request.stage = "CI Running"
GateInv == StudioInv /\ (raced \/ (Green /\ \A c \in Client : Orderly(c)))

LEMMA GateInvariant == GateInv /\ [Next]_vars => GateInv'
<1> SUFFICES ASSUME GateInv, [Next]_vars, ~raced' PROVE Green' /\ \A d \in Client : Orderly(d)'
  BY StudioInvariant DEF GateInv
<1>1. ~raced
  BY DEF Next, create_request, mark_awaiting_approval, approve_request, finalize_review, Begin,
         WriteDraft, WriteRecord, Truncate, WriteRequest, PostChecks, Crash, vars
<1>2. Green /\ (\A d \in Client : Orderly(d) /\ CallSound(d)) /\ TypeOK
  BY <1>1 DEF GateInv, StudioInv
<1> DEFINE Goal == Green' /\ \A d \in Client : Orderly(d)'
<1>3. ASSUME NEW c \in Client,
             \/ create_request(c) \/ mark_awaiting_approval(c) \/ approve_request(c)
             \/ finalize_review(c)
      PROVE  Goal
  <2>1. /\ UNCHANGED <<request, gateCheck>> /\ pc'[c] \in {"draft", "record", "save"}
        /\ \A d \in Client \ {c} : pc'[d] = pc[d] /\ call'[d] = call[d]
    BY <1>2, <1>3 DEF create_request, mark_awaiting_approval, approve_request, finalize_review,
                      Begin, TypeOK
  <2> QED BY <1>2, <2>1 DEF Green, Orderly
<1>4. ASSUME NEW c \in Client, WriteDraft(c) \/ WriteRecord(c) PROVE Goal
  <2>1. /\ UNCHANGED <<request, gateCheck, call>> /\ pc'[c] = "save"
        /\ \A d \in Client \ {c} : pc'[d] = pc[d]
    BY <1>2, <1>4 DEF WriteDraft, WriteRecord, TypeOK
  <2> QED BY <1>2, <2>1 DEF Green, Orderly
<1>5. ASSUME NEW c \in Client, Truncate(c) PROVE Goal
  <2>1. /\ UNCHANGED <<gateCheck, call>> /\ pc'[c] = "write"
        /\ \A d \in Client \ {c} : pc'[d] = pc[d]
    BY <1>2, <1>5 DEF Truncate, TypeOK
  <2>2. request.stage \notin {"empty", "CI Running"} /\ request'.stage = "empty"
    BY <1>2, <1>5 DEF Truncate, Stale, CallSound, Unreadable
  <2> QED BY <1>2, <2>1, <2>2 DEF Green, Orderly
<1>6. ASSUME NEW c \in Client, WriteRequest(c) PROVE Goal
  <2>1. /\ pc[c] = "write" /\ request.stage = "empty" /\ request' = call[c].doc
        /\ UNCHANGED gateCheck
    BY <1>6 DEF WriteRequest
  <2>2. /\ pc'[c] \in {"save", "post", "idle"}
        /\ pc'[c] = "post" => call'[c] = call[c]
        /\ \A d \in Client \ {c} : pc'[d] = pc[d] /\ call'[d] = call[d]
    BY <1>2, <1>6 DEF WriteRequest, Return, TypeOK
  <2>3. \A d \in Client \ {c} : pc[d] # "write"
    BY <1>2, <2>1 DEF Orderly
  <2>4. call[c].doc.review_gate = "Passed" => request'.stage = "CI Running"
    BY <1>2, <2>1 DEF CallSound, Sound
  <2> QED BY <1>2, <2>1, <2>2, <2>3, <2>4 DEF Green, Orderly
<1>7. ASSUME NEW c \in Client, PostChecks(c) PROVE Goal
  <2>1. /\ UNCHANGED request /\ pc[c] = "post" /\ pc'[c] = "idle"
        /\ \A d \in Client \ {c} : pc'[d] = pc[d] /\ call'[d] = call[d]
    BY <1>2, <1>7 DEF PostChecks, Return, TypeOK
  <2>2. Green'
    <3> SUFFICES ASSUME NEW h \in Commit, gateCheck'[h] = "success" PROVE request.stage = "CI Running"
      BY <2>1 DEF Green
    <3>1. gateCheck[h] = "success" \/ call[c].doc.review_gate = "Passed"
      BY <1>2, <1>7 DEF PostChecks, TypeOK
    <3> QED BY <1>2, <2>1, <3>1 DEF Green, Orderly
  <2> QED BY <1>2, <2>1, <2>2 DEF Orderly
<1>8. CASE Crash
  BY <1>2, <1>8 DEF Crash, Green, Orderly
<1>9. CASE UNCHANGED vars
  BY <1>2, <1>9 DEF vars, Green, Orderly
<1> QED BY <1>3, <1>4, <1>5, <1>6, <1>7, <1>8, <1>9 DEF Next

\* The check that lets a commit be merged is green only while the request's
\* gate is passed, unless calls have raced.
THEOREM MergeGate == Spec => []GreenMeansPassed
<1>1. Init => GateInv
  BY InitStudio DEF Init, GateInv, Green, Orderly
<1>2. GateInv => GreenMeansPassed
  BY DEF GateInv, Green, GreenMeansPassed
<1> QED BY <1>1, <1>2, GateInvariant, PTL DEF Spec

------------------------------------------------------------------------------
(* EventReporter.  A sweep starts at a cursor, goes on one event at a time *)
(* and stores where it stands: the events up to where it stands have been  *)
(* handled (Handled).  An event that was sent and not disturbed is behind  *)
(* the cursor or behind a sweep under way, and every sweep under way will  *)
(* store a cursor behind it (Settled).  A sweep that no other has crossed  *)
(* is the only one, and stands at the cursor or in front of it (Uncrossed).*)

ReporterType ==
    /\ last \in Nat /\ added \in 0 .. MaxEvents /\ sweeps \in 0 .. MaxSweeps /\ rfaults \in 0 .. MaxFaults
    /\ last <= added + rfaults
    /\ cursor \in Nat /\ cursor <= last
    /\ rpc \in [R!Sweeper -> {"idle", "list", "report"}]
    /\ at \in [R!Sweeper -> Nat] /\ upto \in [R!Sweeper -> Nat]
    /\ handled \subseteq 1 .. last /\ sent \subseteq handled /\ again \subseteq sent /\ disturbed \subseteq sent
    /\ crossed \subseteq R!Sweeper

Bounded(s) ==
    /\ at[s] <= last
    /\ rpc[s] = "report" => at[s] <= upto[s] /\ upto[s] <= last
    /\ rpc[s] # "report" => upto[s] = 0

Handled == 1 .. cursor \subseteq handled /\ \A s \in R!Sweeper : 1 .. at[s] \subseteq handled

Ends(s, e) ==
    /\ rpc[s] = "list" => e <= at[s] + Limit
    /\ rpc[s] = "report" => e <= upto[s]

Settled(e) ==
    /\ e <= cursor + Limit
    /\ \A s \in R!Sweeper : Ends(s, e)
    /\ e <= cursor \/ \E s \in R!Sweeper : rpc[s] # "idle" /\ e <= at[s]

Uncrossed(s) ==
    rpc[s] # "idle" /\ s \notin crossed =>
      /\ \A u \in R!Sweeper : rpc[u] # "idle" => u = s
      /\ cursor <= at[s]
      /\ rpc[s] = "list" => at[s] = cursor
      /\ rpc[s] = "report" => upto[s] <= cursor + Limit

EInv ==
    /\ ReporterType /\ Handled /\ R!SentOnce
    /\ \A s \in R!Sweeper : Bounded(s) /\ Uncrossed(s)
    /\ \A e \in sent \ disturbed : Settled(e)

\* What a page of the log comes to.
LEMMA LesserOf ==
    ASSUME NEW m \in Nat, NEW n \in Nat
    PROVE  R!Min({m, n}) \in Nat /\ R!Min({m, n}) <= m /\ R!Min({m, n}) <= n
                /\ (R!Min({m, n}) = m \/ R!Min({m, n}) = n)
  <1>1. \E x \in {m, n} : \A y \in {m, n} : x <= y
    OBVIOUS
  <1>2. R!Min({m, n}) \in {m, n} /\ \A y \in {m, n} : R!Min({m, n}) <= y
    BY <1>1, Zenon DEF R!Min
  <1> QED
    BY <1>2

LEMMA ReporterInit == R!Init => EInv
  <1> SUFFICES ASSUME R!Init PROVE EInv
    OBVIOUS
  <1>1. ReporterType
    BY ReporterAssumption, IssuesAssumption DEF R!Init, ReporterType
  <1> QED
    BY <1>1 DEF R!Init, EInv, Handled, R!SentOnce, Bounded, Uncrossed, Settled

\* A sweep begins at the cursor.
LEMMA SweepBegins ==
    ASSUME EInv, NEW s \in R!Sweeper, R!load_state(s), UNCHANGED <<last, added, rfaults>>,
           sweeps' \in 0 .. MaxSweeps
    PROVE  EInv'
  <1>0. ReporterType /\ Handled /\ \A u \in R!Sweeper : Bounded(u) /\ Uncrossed(u)
    BY DEF EInv
  <1>1. /\ rpc[s] = "idle" /\ rpc' = [rpc EXCEPT ![s] = "list"] /\ at' = [at EXCEPT ![s] = cursor]
        /\ crossed' = IF R!Active = {} THEN {} ELSE R!Sweeper
        /\ UNCHANGED <<cursor, upto, handled, sent, again, disturbed>>
    BY DEF R!load_state, R!history
  <1>2. ReporterType'
    BY <1>0, <1>1 DEF ReporterType
  <1>3. \A u \in R!Sweeper : u # s => rpc'[u] = rpc[u] /\ at'[u] = at[u] /\ upto'[u] = upto[u]
    BY <1>0, <1>1 DEF ReporterType
  <1>4. rpc'[s] = "list" /\ at'[s] = cursor /\ upto'[s] = upto[s]
    BY <1>0, <1>1 DEF ReporterType
  <1>5. Handled'
    BY <1>0, <1>1, <1>3, <1>4 DEF Handled
  <1>6. \A u \in R!Sweeper : Bounded(u)'
    BY <1>0, <1>1, <1>3, <1>4 DEF Bounded, ReporterType
  <1>7. ASSUME NEW u \in R!Sweeper PROVE Uncrossed(u)'
    <2>1. CASE R!Active = {}
      <3>1. \A v \in R!Sweeper : v # s => rpc'[v] = "idle"
        BY <1>3, <2>1 DEF R!Active
      <3> QED
        BY <1>0, <1>1, <1>4, <3>1 DEF Uncrossed, ReporterType
    <2>2. CASE R!Active # {}
      BY <1>1, <2>2 DEF Uncrossed
    <2> QED
      BY <2>1, <2>2
  <1>8. ASSUME NEW e \in sent' \ disturbed' PROVE Settled(e)'
    <2>1. Settled(e) /\ e \in Nat
      BY <1>0, <1>1 DEF EInv, ReporterType
    <2>2. \A u \in R!Sweeper : Ends(u, e)'
      BY <1>1, <1>3, <1>4, <2>1 DEF Settled, Ends
    <2> QED
      BY <1>1, <1>3, <2>1, <2>2 DEF Settled
  <1>9. R!SentOnce'
    BY <1>1 DEF EInv, R!SentOnce
  <1> QED
    BY <1>2, <1>5, <1>6, <1>7, <1>8, <1>9 DEF EInv

\* A sweep lists a page of the log.
LEMMA SweepLists ==
    ASSUME EInv, NEW s \in R!Sweeper, R!list_events(s)
    PROVE  EInv'
  <1> DEFINE n == R!Min({last, at[s] + Limit})
  <1>0. ReporterType /\ Handled /\ \A u \in R!Sweeper : Bounded(u) /\ Uncrossed(u)
    BY DEF EInv
  <1>1. n \in Nat /\ n <= last /\ n <= at[s] + Limit /\ (n = last \/ n = at[s] + Limit)
    BY <1>0, LesserOf, ReporterAssumption DEF ReporterType
  <1>2. /\ rpc[s] = "list" /\ rpc' = [rpc EXCEPT ![s] = "report"] /\ upto' = [upto EXCEPT ![s] = n]
        /\ UNCHANGED <<cursor, at, crossed, handled, sent, again, disturbed, last, added, sweeps, rfaults>>
    BY DEF R!list_events, R!history, R!outside
  <1> HIDE DEF n
  <1>3. ReporterType'
    BY <1>0, <1>1, <1>2 DEF ReporterType
  <1>4. \A u \in R!Sweeper : u # s => rpc'[u] = rpc[u] /\ upto'[u] = upto[u]
    BY <1>0, <1>2 DEF ReporterType
  <1>5. rpc'[s] = "report" /\ upto'[s] = n
    BY <1>0, <1>2 DEF ReporterType
  <1>6. at[s] \in Nat /\ at[s] <= last /\ at[s] <= n
    BY <1>0, <1>1, ReporterAssumption DEF ReporterType, Bounded
  <1>7. \A u \in R!Sweeper : Bounded(u)'
    BY <1>0, <1>1, <1>2, <1>4, <1>5, <1>6 DEF Bounded
  <1>8. ASSUME NEW u \in R!Sweeper PROVE Uncrossed(u)'
    <2>1. rpc'[u] # "idle" <=> rpc[u] # "idle"
      BY <1>2, <1>4, <1>5
    <2>2. \A v \in R!Sweeper : rpc'[v] # "idle" => rpc[v] # "idle"
      BY <1>2, <1>4, <1>5
    <2> QED
      BY <1>0, <1>1, <1>2, <1>4, <1>5, <1>6, <2>1, <2>2 DEF Uncrossed
  <1>9. ASSUME NEW e \in sent' \ disturbed' PROVE Settled(e)'
    <2>1. Settled(e) /\ e \in Nat /\ e <= last
      BY <1>0, <1>2 DEF EInv, ReporterType
    <2>2. ASSUME NEW u \in R!Sweeper PROVE Ends(u, e)'
      BY <1>1, <1>2, <1>4, <1>5, <2>1 DEF Settled, Ends
    <2>3. \A u \in R!Sweeper : rpc[u] # "idle" => rpc'[u] # "idle"
      BY <1>2, <1>4, <1>5
    <2> QED
      BY <1>2, <2>1, <2>2, <2>3 DEF Settled
  <1>10. Handled' /\ R!SentOnce'
    BY <1>0, <1>2 DEF EInv, Handled, R!SentOnce
  <1> QED
    BY <1>3, <1>7, <1>8, <1>9, <1>10 DEF EInv

\* A sweep reports its next event.
LEMMA SweepReports ==
    ASSUME EInv, NEW s \in R!Sweeper, R!report_event(s)
    PROVE  EInv'
  <1> DEFINE next == at[s] + 1
  <1>0. ReporterType /\ Handled /\ \A u \in R!Sweeper : Bounded(u) /\ Uncrossed(u)
    BY DEF EInv
  <1>1. /\ rpc[s] = "report" /\ at[s] < upto[s]
        /\ at' = [at EXCEPT ![s] = next] /\ handled' = handled \cup {next}
        /\ UNCHANGED <<cursor, rpc, upto, crossed, last, added, sweeps, rfaults>>
    BY DEF R!report_event, R!outside
  <1>2. \/ UNCHANGED <<sent, again, disturbed>>
        \/ /\ sent' = sent \cup {next} /\ again' = again \cup ({next} \cap sent)
           /\ disturbed' = IF s \in crossed THEN disturbed \cup {next} ELSE disturbed
    BY DEF R!report_event
  <1>3. at[s] \in Nat /\ next \in 1 .. last /\ next <= upto[s]
    BY <1>0, <1>1 DEF ReporterType, Bounded
  <1>4. \A u \in R!Sweeper : u # s => at'[u] = at[u]
    BY <1>0, <1>1 DEF ReporterType
  <1>5. at'[s] = next
    BY <1>0, <1>1 DEF ReporterType
  <1>6. ReporterType'
    <2>1. at' \in [R!Sweeper -> Nat]
      BY <1>0, <1>1, <1>3 DEF ReporterType
    <2>2. handled' \subseteq 1 .. last' /\ sent' \subseteq handled' /\ again' \subseteq sent' /\ disturbed' \subseteq sent'
      <3> HIDE DEF next
      <3> QED
        BY <1>0, <1>1, <1>2, <1>3 DEF ReporterType
    <2> QED
      BY <1>0, <1>1, <2>1, <2>2 DEF ReporterType
  <1>7. Handled'
    <2>1. 1 .. next \subseteq handled'
      BY <1>0, <1>1, <1>3 DEF Handled
    <2> QED
      BY <1>0, <1>1, <1>4, <1>5, <2>1 DEF Handled
  <1>8. \A u \in R!Sweeper : Bounded(u)' /\ Uncrossed(u)'
    BY <1>0, <1>1, <1>3, <1>4, <1>5 DEF Bounded, Uncrossed, ReporterType
  <1>9. ASSUME NEW e \in sent \ disturbed PROVE Settled(e)'
    <2>1. Settled(e) /\ e \in Nat
      BY <1>0 DEF EInv, ReporterType
    <2>2. \A u \in R!Sweeper : Ends(u, e)'
      <3> TAKE u \in R!Sweeper
      <3>1. Ends(u, e)
        BY <2>1 DEF Settled
      <3> QED
        BY <1>1, <1>4, <3>1 DEF Ends
    <2>3. ASSUME NEW u \in R!Sweeper, rpc[u] # "idle", e <= at[u]
          PROVE  \E v \in R!Sweeper : rpc'[v] # "idle" /\ e <= at'[v]
      <3>1. e <= at'[u]
        BY <1>3, <1>4, <1>5, <2>1, <2>3
      <3> QED
        BY <1>1, <2>3, <3>1
    <2> QED
      BY <1>1, <2>1, <2>2, <2>3 DEF Settled
  \* Of a sweep nobody has crossed: what was sent and not disturbed it has passed.
  <1>10. ASSUME s \notin crossed PROVE next \notin sent \ disturbed
    <2>1. ASSUME NEW e \in sent \ disturbed PROVE e <= at[s]
      <3>1. /\ e <= cursor \/ \E u \in R!Sweeper : rpc[u] # "idle" /\ e <= at[u]
            /\ e \in Nat
        BY <1>0 DEF EInv, Settled, ReporterType
      <3>2. cursor <= at[s] /\ \A u \in R!Sweeper : rpc[u] # "idle" => u = s
        BY <1>0, <1>1, <1>10 DEF Uncrossed
      <3> QED
        BY <1>0, <1>3, <3>1, <3>2 DEF ReporterType
    <2> QED
      BY <1>3, <2>1
  <1>11. ASSUME NEW e, e = next, s \notin crossed PROVE Settled(e)'
    <2>1. \A u \in R!Sweeper : rpc[u] # "idle" => u = s
      BY <1>0, <1>1, <1>11 DEF Uncrossed
    <2>2. upto[s] <= cursor + Limit /\ cursor \in Nat /\ upto[s] \in Nat
      BY <1>0, <1>1, <1>11 DEF Uncrossed, ReporterType
    <2>3. e <= cursor + Limit
      BY <1>3, <1>11, <2>2, ReporterAssumption
    <2> HIDE DEF next
    <2>4. ASSUME NEW u \in R!Sweeper PROVE Ends(u, e)'
      <3>1. rpc'[u] = rpc[u] /\ upto'[u] = upto[u] /\ rpc[s] = "report" /\ e <= upto[s]
        BY <1>1, <1>3, <1>11
      <3>2. CASE u = s
        BY <3>1, <3>2 DEF Ends
      <3>3. CASE u # s
        <4>1. rpc'[u] = "idle"
          BY <2>1, <3>1, <3>3
        <4> QED
          BY <4>1 DEF Ends
      <3> QED
        BY <3>2, <3>3
    <2>5. rpc'[s] # "idle" /\ e <= at'[s]
      BY <1>1, <1>3, <1>5, <1>11
    <2>6. e <= cursor' + Limit
      BY <1>1, <2>3
    <2> QED
      BY <2>4, <2>5, <2>6, Zenon DEF Settled
  <1>12. \A e \in sent' \ disturbed' : Settled(e)'
    <2> HIDE DEF next
    <2> SUFFICES ASSUME NEW e \in sent' \ disturbed' PROVE Settled(e)'
      OBVIOUS
    <2>1. e \in sent \ disturbed \/ (e = next /\ s \notin crossed)
      BY <1>2
    <2>2. CASE e \in sent \ disturbed
      BY <1>9, <2>2
    <2>3. CASE e = next /\ s \notin crossed
      BY <1>11, <2>3, Zenon
    <2> QED
      BY <2>1, <2>2, <2>3
  <1>13. R!SentOnce'
    <2>1. again \subseteq disturbed
      BY DEF EInv, R!SentOnce
    <2> HIDE DEF next
    <2> QED
      BY <1>2, <1>10, <2>1 DEF R!SentOnce
  <1> QED
    BY <1>6, <1>7, <1>8, <1>12, <1>13 DEF EInv

\* A sweep stores where it stands.
LEMMA SweepSaves ==
    ASSUME EInv, NEW s \in R!Sweeper, R!save_state(s)
    PROVE  EInv'
  <1>0. ReporterType /\ Handled /\ \A u \in R!Sweeper : Bounded(u) /\ Uncrossed(u)
    BY DEF EInv
  <1>1. /\ rpc[s] = "report" /\ at[s] = upto[s] /\ cursor' = upto[s]
        /\ rpc' = [rpc EXCEPT ![s] = "idle"] /\ at' = [at EXCEPT ![s] = 0] /\ upto' = [upto EXCEPT ![s] = 0]
        /\ crossed' = crossed \ {s}
        /\ UNCHANGED <<handled, sent, again, disturbed, last, added, sweeps, rfaults>>
    BY DEF R!save_state, R!Return, R!history, R!outside
  <1>2. upto[s] \in Nat /\ upto[s] <= last /\ 1 .. upto[s] \subseteq handled
    BY <1>0, <1>1 DEF ReporterType, Bounded, Handled
  <1>3. \A u \in R!Sweeper : u # s => rpc'[u] = rpc[u] /\ at'[u] = at[u] /\ upto'[u] = upto[u]
    BY <1>0, <1>1 DEF ReporterType
  <1>4. rpc'[s] = "idle" /\ at'[s] = 0 /\ upto'[s] = 0
    BY <1>0, <1>1 DEF ReporterType
  <1>5. ReporterType'
    BY <1>0, <1>1, <1>2 DEF ReporterType
  <1>6. Handled'
    BY <1>0, <1>1, <1>2, <1>3, <1>4 DEF Handled
  <1>7. \A u \in R!Sweeper : Bounded(u)'
    BY <1>0, <1>1, <1>3, <1>4, <1>5 DEF Bounded, ReporterType
  <1>8. ASSUME NEW u \in R!Sweeper PROVE Uncrossed(u)'
    BY <1>0, <1>1, <1>3, <1>4 DEF Uncrossed
  <1>9. ASSUME NEW e \in sent' \ disturbed' PROVE Settled(e)'
    <2>1. Settled(e) /\ e \in Nat
      BY <1>0, <1>1 DEF EInv, ReporterType
    <2>2. e <= cursor'
      BY <1>1, <2>1 DEF Settled, Ends
    <2>3. \A u \in R!Sweeper : Ends(u, e)'
      BY <1>3, <1>4, <2>1 DEF Settled, Ends
    <2>4. e <= cursor' + Limit
      BY <1>1, <1>2, <2>1, <2>2, ReporterAssumption
    <2> QED
      BY <2>2, <2>3, <2>4 DEF Settled
  <1>10. R!SentOnce'
    BY <1>1 DEF EInv, R!SentOnce
  <1> QED
    BY <1>5, <1>6, <1>7, <1>8, <1>9, <1>10 DEF EInv

\* A sweep fails: what it sent behind the cursor is disturbed.
LEMMA SweepFails ==
    ASSUME EInv, NEW s \in R!Sweeper, R!sweep_fails(s)
    PROVE  EInv'
  <1>0. ReporterType /\ Handled /\ \A u \in R!Sweeper : Bounded(u) /\ Uncrossed(u)
    BY DEF EInv
  <1>1. /\ rpc[s] # "idle" /\ rfaults < MaxFaults /\ rfaults' = rfaults + 1
        /\ last' \in {last, last + 1}
        /\ disturbed' = disturbed \cup (sent \cap (cursor + 1 .. at[s]))
        /\ rpc' = [rpc EXCEPT ![s] = "idle"] /\ at' = [at EXCEPT ![s] = 0] /\ upto' = [upto EXCEPT ![s] = 0]
        /\ crossed' = crossed \ {s}
        /\ UNCHANGED <<cursor, handled, sent, again, added, sweeps>>
    BY DEF R!sweep_fails, R!Return
  <1>2. \A u \in R!Sweeper : u # s => rpc'[u] = rpc[u] /\ at'[u] = at[u] /\ upto'[u] = upto[u]
    BY <1>0, <1>1 DEF ReporterType
  <1>3. rpc'[s] = "idle" /\ at'[s] = 0 /\ upto'[s] = 0
    BY <1>0, <1>1 DEF ReporterType
  <1>4. ReporterType'
    <2>0. /\ rfaults \in Nat /\ MaxFaults \in Nat /\ MaxEvents \in Nat /\ added \in Nat /\ last \in Nat
          /\ last <= added + rfaults /\ cursor \in Nat /\ cursor <= last
      BY <1>0, IssuesAssumption, ReporterAssumption DEF ReporterType
    <2>1. rfaults' \in 0 .. MaxFaults /\ last' \in Nat /\ last' <= added + rfaults' /\ last <= last' /\ cursor <= last'
      BY <1>1, <2>0
    <2>2. handled' \subseteq 1 .. last' /\ disturbed' \subseteq sent'
      <3>1. 1 .. last \subseteq 1 .. last'
        BY <2>0, <2>1
      <3>2. handled \subseteq 1 .. last /\ disturbed \subseteq sent
        BY <1>0 DEF ReporterType
      <3> QED
        BY <1>1, <3>1, <3>2
    <2> QED
      BY <1>0, <1>1, <2>1, <2>2 DEF ReporterType
  <1>5. Handled'
    BY <1>0, <1>1, <1>2, <1>3 DEF Handled
  <1>6. \A u \in R!Sweeper : Bounded(u)'
    BY <1>0, <1>1, <1>2, <1>3 DEF Bounded, ReporterType
  <1>7. ASSUME NEW u \in R!Sweeper PROVE Uncrossed(u)'
    BY <1>0, <1>1, <1>2, <1>3 DEF Uncrossed
  <1>8. ASSUME NEW e \in sent' \ disturbed' PROVE Settled(e)'
    <2>1. Settled(e) /\ e \in Nat /\ cursor \in Nat /\ at[s] \in Nat /\ ~(e \in cursor + 1 .. at[s])
      BY <1>0, <1>1 DEF EInv, ReporterType
    <2>2. \A u \in R!Sweeper : Ends(u, e)'
      BY <1>2, <1>3, <2>1 DEF Settled, Ends
    <2>3. e <= cursor \/ ~(e <= at[s])
      BY <2>1
    <2> QED
      BY <1>1, <1>2, <2>1, <2>2, <2>3 DEF Settled
  <1>9. R!SentOnce'
    BY <1>1 DEF EInv, R!SentOnce
  <1> QED
    BY <1>4, <1>5, <1>6, <1>7, <1>8, <1>9 DEF EInv

\* The log grows, or the process stops.
LEMMA ReporterNext == EInv /\ [R!Next]_(R!vars) => EInv'
  <1> SUFFICES ASSUME EInv, [R!Next]_(R!vars) PROVE EInv'
    OBVIOUS
  <1>0. ReporterType /\ Handled /\ R!SentOnce /\ \A u \in R!Sweeper : Bounded(u) /\ Uncrossed(u)
    BY DEF EInv
  <1>1. CASE R!loop
    <2>1. Loop \in R!Sweeper /\ R!load_state(Loop) /\ UNCHANGED <<last, added, sweeps, rfaults>>
      BY <1>1 DEF R!loop, R!outside, R!Sweeper
    <2> QED
      BY <1>0, <2>1, SweepBegins DEF ReporterType
  <1>2. ASSUME NEW s \in Api, R!v1_openclaw_sweep(s) PROVE EInv'
    <2>1. /\ s \in R!Sweeper /\ R!load_state(s) /\ UNCHANGED <<last, added, rfaults>>
          /\ sweeps' \in 0 .. MaxSweeps
      BY <1>0, <1>2, ReporterAssumption DEF R!v1_openclaw_sweep, R!Sweeper, ReporterType
    <2> QED
      BY <2>1, SweepBegins
  <1>3. CASE R!add_event
    <2>1. /\ added' \in 0 .. MaxEvents /\ added' = added + 1 /\ last' = last + 1
          /\ UNCHANGED <<cursor, rpc, at, upto, crossed, handled, sent, again, disturbed, sweeps, rfaults>>
      BY <1>0, <1>3, ReporterAssumption DEF R!add_event, R!history, ReporterType
    <2>2. ReporterType'
      <3>1. last' \in Nat /\ last' <= added' + rfaults' /\ cursor <= last' /\ last <= last'
        BY <1>0, <2>1 DEF ReporterType
      <3>2. handled' \subseteq 1 .. last'
        BY <1>0, <2>1 DEF ReporterType
      <3> QED
        BY <1>0, <2>1, <3>1, <3>2 DEF ReporterType
    <2>3. \A u \in R!Sweeper : Bounded(u)'
      BY <1>0, <2>1 DEF Bounded, ReporterType
    <2> QED
      BY <1>0, <2>1, <2>2, <2>3 DEF EInv, Handled, R!SentOnce, Uncrossed, Settled, Ends
  <1>4. CASE R!Crash
    <2>1. /\ rfaults < MaxFaults /\ rfaults' = rfaults + 1
          /\ rpc' = [u \in R!Sweeper |-> "idle"]
          /\ at' = [u \in R!Sweeper |-> 0] /\ upto' = [u \in R!Sweeper |-> 0] /\ crossed' = {}
          /\ disturbed' = disturbed \cup {e \in sent : e > cursor}
          /\ UNCHANGED <<last, added, cursor, handled, sent, again, sweeps>>
      BY <1>4 DEF R!Crash
    <2>2. ReporterType'
      <3>0. /\ rfaults \in Nat /\ MaxFaults \in Nat /\ MaxEvents \in Nat /\ added \in Nat /\ last \in Nat
            /\ last <= added + rfaults
        BY <1>0, IssuesAssumption, ReporterAssumption DEF ReporterType
      <3>1. rfaults' \in 0 .. MaxFaults /\ last' <= added' + rfaults'
        BY <2>1, <3>0
      <3>2. rpc' \in [R!Sweeper -> {"idle", "list", "report"}] /\ at' \in [R!Sweeper -> Nat] /\ upto' \in [R!Sweeper -> Nat]
        BY <2>1
      <3>3. disturbed' \subseteq sent' /\ crossed' \subseteq R!Sweeper
        BY <1>0, <2>1 DEF ReporterType
      <3> QED
        BY <1>0, <2>1, <3>1, <3>2, <3>3 DEF ReporterType
    <2>3. Handled' /\ R!SentOnce' /\ \A u \in R!Sweeper : Bounded(u)' /\ Uncrossed(u)'
      BY <1>0, <2>1, <2>2 DEF Handled, R!SentOnce, Bounded, Uncrossed, ReporterType
    <2>4. ASSUME NEW e \in sent' \ disturbed' PROVE Settled(e)'
      <3>1. e \in Nat /\ cursor \in Nat /\ e <= cursor /\ e <= cursor + Limit
        BY <1>0, <2>1, <2>4, ReporterAssumption DEF ReporterType
      <3> QED
        BY <2>1, <3>1 DEF Settled, Ends
    <2> QED
      BY <2>2, <2>3, <2>4 DEF EInv
  <1>5. CASE UNCHANGED R!vars
    <2>1. UNCHANGED <<last, added, cursor, rpc, at, upto, handled, sent, again, crossed, disturbed, sweeps, rfaults>>
      BY <1>5 DEF R!vars
    <2> QED
      BY <1>0, <2>1 DEF EInv, ReporterType, Handled, R!SentOnce, Bounded, Uncrossed, Settled, Ends
  <1> QED
    BY <1>1, <1>2, <1>3, <1>4, <1>5, SweepLists, SweepReports, SweepSaves, SweepFails DEF R!Next, R!Step

\* The log, the cursor and the sweeps keep their types.
THEOREM ReporterTyped == R!Spec => []R!TypeOK
  <1>1. EInv => R!TypeOK
    <2> SUFFICES ASSUME EInv PROVE R!TypeOK
      OBVIOUS
    <2>1. ReporterType /\ \A s \in R!Sweeper : Bounded(s)
      BY DEF EInv
    <2>2. last \in R!Position /\ 1 .. last \subseteq R!Event
      BY <2>1, IssuesAssumption, ReporterAssumption DEF ReporterType, R!Position, R!Event
    <2>3. cursor \in 0 .. last /\ handled \subseteq R!Event /\ disturbed \subseteq R!Event
      BY <2>1, <2>2 DEF ReporterType
    <2>4. ASSUME NEW s \in R!Sweeper PROVE at[s] \in R!Position /\ upto[s] \in R!Position
      BY <2>1, <2>2, IssuesAssumption, ReporterAssumption DEF ReporterType, Bounded, R!Position
    <2>5. at \in [R!Sweeper -> R!Position] /\ upto \in [R!Sweeper -> R!Position]
      BY <2>1, <2>4 DEF ReporterType
    <2> QED
      BY <2>1, <2>2, <2>3, <2>5 DEF R!TypeOK, ReporterType
  <1> QED
    BY <1>1, ReporterInit, ReporterNext, PTL DEF R!Spec

\* However many sweeps overlap, fail or stop, and however many events one of them takes:
\* the stored cursor never passes an event that no sweep has looked at, and an event is
\* sent again only if a sweep that another had crossed, or one that failed or stopped
\* before it stored its cursor, sent it.
THEOREM ReportsAreKept == R!Spec => []ReportsHold
  <1>1. EInv => ReportsHold
    BY DEF EInv, Handled, ReportsHold, R!NothingSkipped
  <1> QED
    BY <1>1, ReporterInit, ReporterNext, PTL DEF R!Spec

\* The stored cursor goes back only where a sweep that another one crossed stores its own:
\* sweeps that do not meet make progress, whatever fails.
CursorAdvances ==
    [][cursor' < cursor => \E s \in crossed : rpc[s] = "report" /\ rpc'[s] = "idle"]_(R!vars)

THEOREM CursorOnlyAdvances == R!Spec => CursorAdvances
  <1>1. EInv /\ [R!Next]_(R!vars) =>
          [cursor' < cursor => \E s \in crossed : rpc[s] = "report" /\ rpc'[s] = "idle"]_(R!vars)
    <2> SUFFICES ASSUME EInv, R!Next, cursor' < cursor
                 PROVE  \E s \in crossed : rpc[s] = "report" /\ rpc'[s] = "idle"
      OBVIOUS
    <2>0. cursor \in Nat /\ ~(cursor < cursor)
      BY DEF EInv, ReporterType
    <2>1. PICK s \in R!Sweeper : R!save_state(s)
      BY <2>0 DEF R!Next, R!Step, R!list_events, R!report_event, R!sweep_fails, R!loop, R!v1_openclaw_sweep,
           R!load_state, R!add_event, R!Crash
    <2>2. /\ rpc[s] = "report" /\ at[s] = upto[s] /\ cursor' = upto[s] /\ rpc' = [rpc EXCEPT ![s] = "idle"]
      BY <2>1 DEF R!save_state, R!Return
    <2>3. rpc'[s] = "idle" /\ upto[s] \in Nat
      BY <2>2 DEF EInv, ReporterType
    <2>4. s \notin crossed => cursor <= at[s]
      BY <2>2 DEF EInv, Uncrossed
    <2> QED
      BY <2>0, <2>2, <2>3, <2>4
  <1> QED
    BY <1>1, ReporterInit, ReporterNext, PTL DEF R!Spec, CursorAdvances

------------------------------------------------------------------------------
(* Issues.  Whoever is about to create an issue, unless creations of its   *)
(* subject were doubled, is the only one and there is none yet (Single).   *)
(* A thread is alone with counts that are those of the records, once       *)
(* nobody has still to count; other counts have left the milestone behind  *)
(* (Counting).                                                             *)

Uncounted(q) == ipc[q] \in {"comment", "count"}

AtMostOne(a) ==
    \A m, n \in DOMAIN issues : issues[m].about = a /\ issues[n].about = a => m = n

Creates(p, a) == ipc[p] = "create" /\ icall[p].about = a

Single ==
    /\ \A a \in I!Subject \ doubled :
          /\ AtMostOne(a)
          /\ \A p \in Thread : Creates(p, a) =>
                /\ \A n \in DOMAIN issues : issues[n].about # a
                /\ \A q \in Thread : Creates(q, a) => q = p
    /\ \A p \in Thread : ipc[p] = "patch" =>
          icall[p].found \in DOMAIN issues /\ issues[icall[p].found].about = icall[p].about

Counting ==
    /\ \A p \in alone :
          /\ I!Counted(p)
          /\ \A q \in Thread : I!Counted(q) => q = p
          /\ (\A q \in Thread : ~Uncounted(q)) => icall[p].counts = I!milestone_task_summary
    /\ \A p \in Thread : I!Counted(p) => p \in alone \/ behind
    /\ ~behind /\ (\A q \in Thread : ~I!Syncing(q)) => row.counts = I!milestone_task_summary
    /\ row.state = I!milestone_state_from_metrics(row.counts)

IssuesInv == I!TypeOK /\ Single /\ Counting

LEMMA SameCardinality == \A S : I!Cardinality(S) = Cardinality(S)
  BY DEF I!Cardinality, Cardinality

\* Counts never pass the number of tasks.
LEMMA Summary == I!milestone_task_summary \in I!Counts
  <1> DEFINE counted == {t \in Task : irecord[t].status # "absent"}
             blocked == {t \in counted : irecord[t].status = "blocked"}
             done == {t \in counted : irecord[t].status = "closed"}
  <1>1. \A S \in SUBSET Task : Cardinality(S) \in 0 .. Cardinality(Task)
    <2> SUFFICES ASSUME NEW S \in SUBSET Task PROVE Cardinality(S) \in 0 .. Cardinality(Task)
      OBVIOUS
    <2>1. IsFiniteSet(S) /\ Cardinality(S) <= Cardinality(Task)
      BY IssuesAssumption, FS_Subset
    <2>2. Cardinality(S) \in Nat /\ Cardinality(Task) \in Nat
      BY <2>1, IssuesAssumption, FS_CardinalityType
    <2> QED
      BY <2>1, <2>2
  <1>2. counted \in SUBSET Task /\ blocked \in SUBSET Task /\ done \in SUBSET Task
    OBVIOUS
  <1> HIDE DEF counted, blocked, done
  <1>3. /\ Cardinality(counted) \in 0 .. Cardinality(Task) /\ Cardinality(blocked) \in 0 .. Cardinality(Task)
        /\ Cardinality(done) \in 0 .. Cardinality(Task)
    BY <1>1, <1>2
  <1>4. I!milestone_task_summary =
          [total |-> Cardinality(counted), blocked |-> Cardinality(blocked), done |-> Cardinality(done)]
    BY SameCardinality DEF I!milestone_task_summary, counted, blocked, done
  <1> QED
    BY <1>3, <1>4, SameCardinality DEF I!Counts

LEMMA SummaryStays == ASSUME irecord' = irecord PROVE I!milestone_task_summary' = I!milestone_task_summary
  BY DEF I!milestone_task_summary

\* A release candidate has no task that is not done.
LEMMA CandidateDone ==
    ASSUME I!milestone_state_from_metrics(I!milestone_task_summary) = "release-candidate", NEW t \in Task
    PROVE  irecord[t].status \in {"absent", "closed"}
  <1> DEFINE counted == {u \in Task : irecord[u].status # "absent"}
             done == {u \in counted : irecord[u].status = "closed"}
             c == I!milestone_task_summary
  <1>1. c.total = Cardinality(counted) /\ c.done = Cardinality(done)
    BY SameCardinality DEF I!milestone_task_summary
  <1>2. c.total \in Nat /\ c.done \in Nat /\ c.done >= c.total
    <2>1. c \in I!Counts
      BY Summary
    <2>2. c.total \in Nat /\ c.done \in Nat /\ c.blocked \in Nat
      <3>1. Cardinality(Task) \in Nat
        BY IssuesAssumption, FS_CardinalityType
      <3> QED
        BY <2>1, <3>1, SameCardinality DEF I!Counts
    <2> HIDE DEF c
    <2>3. I!milestone_state_from_metrics(c) = "release-candidate"
      BY DEF c
    <2> QED
      BY <2>2, <2>3 DEF I!milestone_state_from_metrics
  <1>3. IsFiniteSet(counted)
    <2>1. counted \subseteq Task
      OBVIOUS
    <2> QED
      BY <2>1, IssuesAssumption, FS_Subset
  <1>4. done = counted
    <2>1. done \subseteq counted
      OBVIOUS
    <2>2. Cardinality(done) >= Cardinality(counted)
      BY <1>1, <1>2
    <2> HIDE DEF done, counted
    <2>3. Cardinality(done) <= Cardinality(counted) /\ (Cardinality(counted) = Cardinality(done) => done = counted)
      BY <1>3, <2>1, FS_Subset
    <2>4. Cardinality(done) \in Nat /\ Cardinality(counted) \in Nat
      BY <1>1, <1>2
    <2>5. Cardinality(counted) = Cardinality(done)
      BY <2>2, <2>3, <2>4
    <2> QED
      BY <2>3, <2>5
  <1> QED
    BY <1>4

LEMMA Empty ==
    /\ I!NoRecord \in I!Record /\ I!NoCounts \in I!Counts /\ I!NoCall \in I!Call
    /\ I!NoCall.about = I!Release /\ 0 \in I!Number
  <1>1. 0 \in I!Number
    BY IssuesAssumption DEF I!Number
  <1>2. 0 \in 0 .. Cardinality(Task)
    BY IssuesAssumption, FS_CardinalityType
  <1>3. I!NoRecord \in I!Record
    BY <1>1 DEF I!NoRecord, I!Record
  <1>4. I!NoCounts \in I!Counts
    BY <1>2, SameCardinality DEF I!NoCounts, I!Counts
  <1>5. I!Release \in I!Subject
    BY DEF I!Subject
  <1>6. I!NoCall \in I!Call
    BY <1>1, <1>3, <1>4, <1>5 DEF I!NoCall, I!Call
  <1> QED
    BY <1>1, <1>3, <1>4, <1>6 DEF I!NoCall

LEMMA IssuesInit == I!Init => IssuesInv
  <1> SUFFICES ASSUME I!Init PROVE IssuesInv
    OBVIOUS
  <1>1. /\ irecord = [t \in Task |-> I!NoRecord] /\ issues = <<>>
        /\ row = [state |-> "draft", counts |-> I!NoCounts]
        /\ ipc = [p \in Thread |-> "idle"] /\ icall = [p \in Thread |-> I!NoCall]
        /\ alone = {} /\ behind = FALSE /\ doubled = {} /\ updates = 0 /\ ifaults = 0
    BY DEF I!Init
  <1>2. I!TypeOK
    <2>1. issues \in Seq(I!Issue) /\ Len(issues) <= MaxIssues
      BY <1>1, IssuesAssumption
    <2>2. row \in I!Row
      BY <1>1, Empty DEF I!Row, I!MilestoneState
    <2>3. irecord \in [Task -> I!Record]
      BY <1>1, Empty
    <2>4. ipc \in [Thread -> I!Label] /\ icall \in [Thread -> I!Call]
      BY <1>1, Empty DEF I!Label
    <2>5. updates \in 0 .. MaxUpdates /\ ifaults \in 0 .. MaxFaults
      BY <1>1, IssuesAssumption
    <2> QED
      BY <1>1, <2>1, <2>2, <2>3, <2>4, <2>5 DEF I!TypeOK
  <1>3. Single
    BY <1>1 DEF Single, AtMostOne, Creates
  <1>4. Counting
    <2>1. {t \in Task : irecord[t].status # "absent"} = {}
      BY <1>1 DEF I!NoRecord
    <2>2. I!milestone_task_summary = I!NoCounts
      <3> DEFINE counted == {t \in Task : irecord[t].status # "absent"}
      <3>1. counted = {} /\ {t \in counted : irecord[t].status = "blocked"} = {}
            /\ {t \in counted : irecord[t].status = "closed"} = {}
        BY <2>1
      <3>2. Cardinality({}) = 0
        BY FS_EmptySet
      <3> HIDE DEF counted
      <3>3. I!milestone_task_summary = [total |-> 0, blocked |-> 0, done |-> 0]
        BY <3>1, <3>2, SameCardinality DEF I!milestone_task_summary, counted
      <3> QED
        BY <3>3 DEF I!NoCounts
    <2>3. row.state = "draft" /\ row.counts = I!NoCounts /\ I!NoCounts.total = 0
      BY <1>1 DEF I!NoCounts
    <2>4. row.state = I!milestone_state_from_metrics(row.counts)
      BY <2>3 DEF I!milestone_state_from_metrics
    <2>5. \A q \in Thread : ~I!Counted(q)
      BY <1>1 DEF I!Counted
    <2> QED
      BY <1>1, <2>2, <2>3, <2>4, <2>5 DEF Counting
  <1> QED
    BY <1>2, <1>3, <1>4 DEF IssuesInv

\* What was to be shown follows.
LEMMA IssuesHold == IssuesInv => IssuesInStep
  <1> SUFFICES ASSUME IssuesInv PROVE IssuesInStep
    OBVIOUS
  <1>1. ASSUME NEW a \in I!Subject, a \notin doubled
        PROVE  Cardinality({n \in DOMAIN issues : issues[n].about = a}) <= 1
    <2> DEFINE S == {n \in DOMAIN issues : issues[n].about = a}
    <2>1. \A m, n \in S : m = n
      BY <1>1 DEF IssuesInv, Single, AtMostOne
    <2>2. CASE S = {}
      BY <2>2, FS_EmptySet
    <2>3. ASSUME NEW m \in S PROVE Cardinality(S) <= 1
      <3>1. S = {m}
        BY <2>1, <2>3
      <3> HIDE DEF S
      <3>2. Cardinality({m}) = 1
        BY FS_Singleton
      <3> QED
        BY <3>1, <3>2
    <2> QED
      BY <2>2, <2>3
  <1>2. I!OneIssuePerSubject
    BY <1>1, SameCardinality DEF I!OneIssuePerSubject
  <1>3. I!MilestoneInStep
    <2> SUFFICES ASSUME ~behind, \A q \in Thread : ~I!Syncing(q)
                 PROVE  /\ row.counts = I!milestone_task_summary
                        /\ row.state = "release-candidate" =>
                              \A t \in Task : irecord[t].status \in {"absent", "closed"}
      BY DEF I!MilestoneInStep
    <2>1. /\ row.counts = I!milestone_task_summary
          /\ row.state = I!milestone_state_from_metrics(I!milestone_task_summary)
      BY DEF IssuesInv, Counting
    <2> QED
      BY <2>1, CandidateDone
  <1> QED
    BY <1>2, <1>3 DEF IssuesInStep

------------------------------------------------------------------------------
(* A thread moves on; the others stay where they are.                      *)

LEMMA Moves ==
    ASSUME I!TypeOK, NEW p \in Thread, NEW l \in I!Label, NEW c \in I!Call, I!Goto(p, l), I!Set(p, c)
    PROVE  /\ ipc' \in [Thread -> I!Label] /\ icall' \in [Thread -> I!Call]
           /\ ipc'[p] = l /\ icall'[p] = c
           /\ \A q \in Thread \ {p} : ipc'[q] = ipc[q] /\ icall'[q] = icall[q]
  BY DEF I!TypeOK, I!Goto, I!Set

\* A call with another number found, or another record.
LEMMA Fields ==
    ASSUME NEW c \in I!Call
    PROVE  /\ \A n \in I!Number :
                 LET d == [c EXCEPT !.found = n] IN
                 /\ d \in I!Call /\ d.found = n /\ d.about = c.about /\ d.then = c.then /\ d.counts = c.counts
           /\ \A r \in I!Record : LET d == [c EXCEPT !.record = r] IN d \in I!Call
           /\ c.about \in I!Subject /\ c.task \in I!Subject /\ c.found \in I!Number /\ c.record \in I!Record
           /\ c.then \in {"save", "upsert", "close"} /\ c.counts \in I!Counts
           /\ c.status \in {"todo", "blocked", "closed"}
  BY DEF I!Call

LEMMA RecordFields ==
    ASSUME NEW r \in I!Record
    PROVE  /\ \A s \in {"todo", "blocked", "closed"} : [r EXCEPT !.status = s] \in I!Record
           /\ \A n \in I!Number : [status |-> "todo", link |-> n] \in I!Record
           /\ r.link \in I!Number
  BY DEF I!Record

\* Issues keep their subjects, nobody comes to create one, and who comes to update
\* one has found its own.
LEMMA StaysSingle ==
    ASSUME I!TypeOK, Single, NEW p \in Thread, NEW l \in I!Label, NEW c \in I!Call, I!Goto(p, l), I!Set(p, c),
           l # "create",
           l = "patch" => c.found \in DOMAIN issues /\ issues[c.found].about = c.about,
           DOMAIN issues' = DOMAIN issues, \A n \in DOMAIN issues : issues'[n].about = issues[n].about,
           doubled \subseteq doubled'
    PROVE  Single'
  <1>1. ASSUME NEW q \in Thread, NEW a, Creates(q, a)' PROVE Creates(q, a)
    <2>1. q # p
      BY <1>1, Moves DEF Creates
    <2> QED
      BY <1>1, <2>1, Moves DEF Creates
  <1>2. ASSUME NEW a \in I!Subject \ doubled'
        PROVE  /\ AtMostOne(a)'
               /\ \A q \in Thread : Creates(q, a)' =>
                     /\ \A n \in DOMAIN issues' : issues'[n].about # a
                     /\ \A r \in Thread : Creates(r, a)' => r = q
    <2>1. /\ AtMostOne(a)
          /\ \A q \in Thread : Creates(q, a) =>
                /\ \A n \in DOMAIN issues : issues[n].about # a
                /\ \A r \in Thread : Creates(r, a) => r = q
      BY DEF Single
    <2>2. AtMostOne(a)'
      BY <2>1 DEF AtMostOne
    <2> QED
      BY <1>1, <2>1, <2>2
  <1>3. ASSUME NEW q \in Thread, ipc'[q] = "patch"
        PROVE  icall'[q].found \in DOMAIN issues' /\ issues'[icall'[q].found].about = icall'[q].about
    <2>1. CASE q = p
      BY <1>3, <2>1, Moves
    <2>2. CASE q # p
      BY <1>3, <2>2, Moves DEF Single
    <2> QED
      BY <2>1, <2>2
  <1> QED
    BY <1>2, <1>3 DEF Single

\* What counts of thread q is the same before and after.
Same(q) ==
    /\ I!Counted(q)' <=> I!Counted(q)
    /\ Uncounted(q)' <=> Uncounted(q)
    /\ I!Counted(q) => icall'[q].counts = icall[q].counts

LEMMA OthersSame ==
    ASSUME I!TypeOK, NEW p \in Thread, NEW l \in I!Label, NEW c \in I!Call, I!Goto(p, l), I!Set(p, c)
    PROVE  \A q \in Thread \ {p} : Same(q)
  BY Moves DEF Same, I!Counted, Uncounted

LEMMA SyncingIs == \A q : I!Syncing(q) <=> Uncounted(q) \/ I!Counted(q)
  BY DEF I!Syncing, Uncounted

LEMMA SyncingIsNext == \A q : I!Syncing(q)' <=> Uncounted(q)' \/ I!Counted(q)'
  BY DEF I!Syncing, Uncounted, I!Counted

\* Nothing of the counting changes.
LEMMA StaysCounting ==
    ASSUME I!TypeOK, Counting, \A q \in Thread : Same(q),
           irecord' = irecord, row' = row, alone' = alone, behind' = behind
    PROVE  Counting'
  <1>1. alone \subseteq Thread /\ I!milestone_task_summary' = I!milestone_task_summary
    BY SummaryStays DEF I!TypeOK
  <1>2. ASSUME NEW p \in alone
        PROVE  /\ I!Counted(p)' /\ \A q \in Thread : I!Counted(q)' => q = p
               /\ (\A q \in Thread : ~Uncounted(q)') => icall'[p].counts = I!milestone_task_summary'
    BY <1>1 DEF Counting, Same
  <1>3. \A p \in Thread : I!Counted(p)' => p \in alone' \/ behind'
    BY DEF Counting, Same
  <1>4. ~behind' /\ (\A q \in Thread : ~I!Syncing(q)') => row'.counts = I!milestone_task_summary'
    BY <1>1, SyncingIs, SyncingIsNext DEF Counting, Same
  <1>5. row'.state = I!milestone_state_from_metrics(row'.counts)
    BY DEF Counting
  <1>6. (row.state = I!milestone_state_from_metrics(row.counts))'
    BY <1>5 DEF I!milestone_state_from_metrics
  <1> QED
    BY <1>2, <1>3, <1>4, <1>6 DEF Counting

\* A thread leaves before it has counted: what it has changed stays behind.
LEMMA LeavesCounting ==
    ASSUME I!TypeOK, Counting, NEW p \in Thread, \A q \in Thread \ {p} : Same(q),
           ~I!Counted(p)', ~Uncounted(p)', I!Unsynced(p), irecord' = irecord, row' = row
    PROVE  Counting'
  <1>1. alone \subseteq Thread /\ I!milestone_task_summary' = I!milestone_task_summary
    BY SummaryStays DEF I!TypeOK
  <1>2. (row.state = I!milestone_state_from_metrics(row.counts))'
    BY DEF Counting, I!milestone_state_from_metrics
  <1>3. ASSUME I!Syncing(p) PROVE Counting'
    <2>1. alone' = {} /\ behind'
      BY <1>3 DEF I!Unsynced
    <2> QED
      BY <2>1, <1>2 DEF Counting
  <1>4. ASSUME ~I!Syncing(p) PROVE Counting'
    <2>1. alone' = alone /\ (behind' <=> behind)
      <3>1. p \notin alone
        BY <1>4, SyncingIs DEF Counting
      <3> QED
        BY <3>1, <1>4 DEF I!Unsynced
    <2>2. ~I!Counted(p) /\ ~Uncounted(p)
      BY <1>4, SyncingIs
    <2>3. ASSUME NEW q \in alone
          PROVE  /\ I!Counted(q)' /\ \A r \in Thread : I!Counted(r)' => r = q
                 /\ (\A r \in Thread : ~Uncounted(r)') => icall'[q].counts = I!milestone_task_summary'
      BY <1>1, <2>2 DEF Counting, Same
    <2>4. \A q \in Thread : I!Counted(q)' => q \in alone' \/ behind'
      BY <2>1 DEF Counting, Same
    <2>5. ~behind' /\ (\A q \in Thread : ~I!Syncing(q)') => row'.counts = I!milestone_task_summary'
      BY <1>1, <2>1, <2>2, SyncingIs, SyncingIsNext DEF Counting, Same
    <2> QED
      BY <1>2, <2>1, <2>3, <2>4, <2>5 DEF Counting
  <1> QED
    BY <1>3, <1>4

\* A thread changes a record, and has yet to count.
LEMMA RecordCounting ==
    ASSUME I!TypeOK, Counting, NEW p \in Thread, \A q \in Thread \ {p} : Same(q),
           ~I!Counted(p), ~I!Counted(p)', Uncounted(p)', row' = row, alone' = alone, behind' = behind
    PROVE  Counting'
  <1>1. alone \subseteq Thread
    BY DEF I!TypeOK
  <1>2. (row.state = I!milestone_state_from_metrics(row.counts))'
    BY DEF Counting, I!milestone_state_from_metrics
  <1>3. ASSUME NEW q \in alone PROVE I!Counted(q)' /\ \A r \in Thread : I!Counted(r)' => r = q
    BY <1>1 DEF Counting, Same
  <1>4. \A q \in Thread : I!Counted(q)' => q \in alone' \/ behind'
    BY DEF Counting, Same
  <1>5. I!Syncing(p)'
    BY SyncingIsNext
  <1> QED
    BY <1>2, <1>3, <1>4, <1>5 DEF Counting

------------------------------------------------------------------------------
(* The actions.                                                            *)

LEMMA SearchStep ==
    ASSUME IssuesInv, NEW p \in Thread, I!search_issue_by_marker(p)
    PROVE  IssuesInv'
  <1> DEFINE c == icall[p]
             a == icall[p].about
             d(n) == [icall[p] EXCEPT !.found = n]
  <1>1. I!TypeOK /\ Single /\ Counting /\ c \in I!Call /\ ipc[p] = "search"
    BY DEF IssuesInv, I!TypeOK, I!search_issue_by_marker
  <1>2. UNCHANGED <<irecord, issues, row, alone, behind, updates>>
    BY DEF I!search_issue_by_marker
  <1>3. \/ /\ \E n \in I!Marked(a) : I!Set(p, d(n))
           /\ I!Goto(p, "patch") /\ UNCHANGED <<doubled, ifaults>>
        \/ /\ I!Set(p, d(0)) /\ I!Goto(p, "create") /\ ifaults' \in {ifaults, ifaults + 1}
           /\ ifaults' # ifaults => ifaults < MaxFaults
           /\ \/ I!Marked(a) = {} /\ doubled' =
                    IF \E q \in Thread \ {p} : ipc[q] = "create" /\ icall[q].about = a
                    THEN doubled \cup {a} ELSE doubled
              \/ doubled' = doubled \cup {a}
    BY DEF I!search_issue_by_marker
  <1>4. \A n \in I!Marked(a) : n \in I!Number /\ n \in DOMAIN issues /\ issues[n].about = a
    <2>1. DOMAIN issues = 1 .. Len(issues) /\ Len(issues) \in Nat /\ Len(issues) <= MaxIssues
      BY <1>1 DEF I!TypeOK
    <2> QED
      BY <2>1, IssuesAssumption DEF I!Marked, I!Number
  <1>5. "patch" \in I!Label /\ "create" \in I!Label /\ a \in I!Subject
    BY <1>1, Fields DEF I!Label
  <1>6. \A n \in I!Number : d(n) \in I!Call /\ d(n).found = n /\ d(n).about = a /\ d(n).then = c.then
                            /\ d(n).counts = c.counts
    BY <1>1, Fields
  <1> HIDE DEF d
  <1>7. ASSUME NEW n \in I!Number, NEW l \in {"patch", "create"}, I!Set(p, d(n)), I!Goto(p, l)
        PROVE  Counting' /\ ipc' \in [Thread -> I!Label] /\ icall' \in [Thread -> I!Call]
    <2>1. l \in I!Label /\ d(n) \in I!Call
      BY <1>5, <1>6
    <2>2. ipc'[p] = l /\ icall'[p] = d(n) /\ ipc' \in [Thread -> I!Label] /\ icall' \in [Thread -> I!Call]
      BY <1>1, <1>7, <2>1, Moves
    <2>3. Same(p)
      BY <1>1, <1>6, <2>2 DEF Same, I!Counted, Uncounted
    <2>4. \A q \in Thread : Same(q)
      BY <1>1, <1>7, <2>1, <2>3, OthersSame
    <2> QED
      BY <1>1, <1>2, <2>2, <2>4, StaysCounting
  <1>8. CASE /\ \E n \in I!Marked(a) : I!Set(p, d(n))
             /\ I!Goto(p, "patch") /\ UNCHANGED <<doubled, ifaults>>
    <2>1. PICK n \in I!Marked(a) : I!Set(p, d(n))
      BY <1>8
    <2>2. Single'
      BY <1>1, <1>2, <1>4, <1>5, <1>6, <1>8, <2>1, StaysSingle
    <2>3. Counting' /\ ipc' \in [Thread -> I!Label] /\ icall' \in [Thread -> I!Call]
      BY <1>4, <1>7, <1>8, <2>1
    <2>4. I!TypeOK'
      BY <1>1, <1>2, <1>8, <2>3 DEF I!TypeOK
    <2> QED
      BY <2>2, <2>3, <2>4 DEF IssuesInv
  <1>9. CASE /\ I!Set(p, d(0)) /\ I!Goto(p, "create") /\ ifaults' \in {ifaults, ifaults + 1}
             /\ ifaults' # ifaults => ifaults < MaxFaults
             /\ \/ I!Marked(a) = {} /\ doubled' =
                      IF \E q \in Thread \ {p} : ipc[q] = "create" /\ icall[q].about = a
                      THEN doubled \cup {a} ELSE doubled
                \/ doubled' = doubled \cup {a}
    <2>1. 0 \in I!Number
      BY Empty
    <2>2. /\ ipc'[p] = "create" /\ icall'[p] = d(0)
          /\ \A q \in Thread \ {p} : ipc'[q] = ipc[q] /\ icall'[q] = icall[q]
      BY <1>1, <1>5, <1>6, <1>9, <2>1, Moves
    <2>3. doubled \subseteq doubled' /\ doubled' \subseteq doubled \cup {a}
      BY <1>9
    <2>4. a \notin doubled' =>
            /\ \A n \in DOMAIN issues : issues[n].about # a
            /\ \A q \in Thread \ {p} : ~Creates(q, a)
      BY <1>9 DEF I!Marked, Creates
    <2>5. ASSUME NEW b \in I!Subject \ doubled'
          PROVE  /\ AtMostOne(b)'
                 /\ \A q \in Thread : Creates(q, b)' =>
                       /\ \A n \in DOMAIN issues' : issues'[n].about # b
                       /\ \A r \in Thread : Creates(r, b)' => r = q
      <3>1. /\ AtMostOne(b)
            /\ \A q \in Thread : Creates(q, b) =>
                  /\ \A n \in DOMAIN issues : issues[n].about # b
                  /\ \A r \in Thread : Creates(r, b) => r = q
        BY <1>1, <2>3 DEF Single
      <3>2. \A q \in Thread \ {p} : Creates(q, b)' <=> Creates(q, b)
        BY <2>2 DEF Creates
      <3>3. Creates(p, b)' <=> b = a
        BY <1>6, <2>1, <2>2 DEF Creates
      <3>4. AtMostOne(b)'
        BY <3>1, <1>2 DEF AtMostOne
      <3>5. CASE b = a
        <4>1. \A q \in Thread \ {p} : ~Creates(q, b)'
          BY <2>4, <2>5, <3>2, <3>5
        <4> QED
          BY <1>2, <2>4, <2>5, <3>4, <3>5, <4>1
      <3>6. CASE b # a
        BY <1>2, <3>1, <3>2, <3>3, <3>4, <3>6
      <3> QED
        BY <3>5, <3>6
    <2>6. ASSUME NEW q \in Thread, ipc'[q] = "patch"
          PROVE  icall'[q].found \in DOMAIN issues' /\ issues'[icall'[q].found].about = icall'[q].about
      BY <1>1, <1>2, <2>2, <2>6 DEF Single
    <2>7. Single'
      BY <2>5, <2>6 DEF Single
    <2>8. Counting' /\ ipc' \in [Thread -> I!Label] /\ icall' \in [Thread -> I!Call]
      BY <1>7, <1>9, <2>1
    <2>9. ifaults' \in 0 .. MaxFaults /\ doubled' \subseteq I!Subject
      BY <1>1, <1>5, <1>9, <2>3, IssuesAssumption DEF I!TypeOK
    <2>10. I!TypeOK'
      BY <1>1, <1>2, <2>8, <2>9 DEF I!TypeOK
    <2> QED
      BY <2>7, <2>8, <2>10 DEF IssuesInv
  <1> QED
    BY <1>3, <1>8, <1>9

LEMMA CreateStep ==
    ASSUME IssuesInv, NEW p \in Thread, I!create_issue(p)
    PROVE  IssuesInv'
  <1> DEFINE c == icall[p]
             a == icall[p].about
             d(n) == [icall[p] EXCEPT !.found = n]
             more(n) == [i \in 1 .. n |-> I!NewIssue(a)]
  <1>1. I!TypeOK /\ Single /\ Counting /\ c \in I!Call /\ ipc[p] = "create"
    BY DEF IssuesInv, I!TypeOK, I!create_issue
  <1>2. UNCHANGED <<irecord, row, alone, behind, updates>> /\ I!Goto(p, "patch")
    BY DEF I!create_issue
  <1>3. PICK n \in 1 .. 2 :
          /\ n = 1 \/ ifaults < MaxFaults
          /\ Len(issues) + n <= MaxIssues
          /\ ifaults' = ifaults + n - 1
          /\ issues' = issues \o more(n)
          /\ doubled' = IF n = 2 THEN doubled \cup {a} ELSE doubled
          /\ I!Set(p, d(Len(issues) + n))
    BY DEF I!create_issue
  <1>4. a \in I!Subject /\ "patch" \in I!Label
    BY <1>1, Fields DEF I!Label
  <1>5. I!NewIssue(a) \in I!Issue /\ I!NewIssue(a).about = a
    BY <1>4 DEF I!NewIssue, I!Issue
  <1>6. issues \in Seq(I!Issue) /\ Len(issues) \in Nat /\ more(n) \in Seq(I!Issue) /\ Len(more(n)) = n
    BY <1>1, <1>5 DEF I!TypeOK
  <1>7. /\ issues' \in Seq(I!Issue) /\ Len(issues') = Len(issues) + n
        /\ \A m \in 1 .. Len(issues) : issues'[m] = issues[m]
        /\ \A m \in Len(issues) + 1 .. Len(issues) + n : issues'[m] = I!NewIssue(a)
        /\ DOMAIN issues = 1 .. Len(issues) /\ DOMAIN issues' = 1 .. (Len(issues) + n)
    BY <1>3, <1>6
  <1>8. Len(issues) + n \in I!Number /\ Len(issues) + n \in DOMAIN issues' /\ issues'[Len(issues) + n].about = a
    BY <1>3, <1>5, <1>6, <1>7, IssuesAssumption DEF I!Number
  <1>9. d(Len(issues) + n) \in I!Call /\ d(Len(issues) + n).found = Len(issues) + n
        /\ d(Len(issues) + n).about = a /\ d(Len(issues) + n).then = c.then /\ d(Len(issues) + n).counts = c.counts
    BY <1>1, <1>8, Fields
  <1> DEFINE e == d(Len(issues) + n)
  <1>10. e \in I!Call /\ e.found = Len(issues) + n /\ e.about = a /\ e.then = c.then /\ e.counts = c.counts
         /\ I!Set(p, e)
    BY <1>3, <1>9
  <1> HIDE DEF e, d, more
  <1>11. /\ ipc'[p] = "patch" /\ icall'[p] = e /\ ipc' \in [Thread -> I!Label] /\ icall' \in [Thread -> I!Call]
         /\ \A q \in Thread \ {p} : ipc'[q] = ipc[q] /\ icall'[q] = icall[q]
    BY <1>1, <1>2, <1>4, <1>10, Moves
  <1>12. Counting'
    <2>1. Same(p)
      BY <1>1, <1>10, <1>11 DEF Same, I!Counted, Uncounted
    <2>2. \A q \in Thread : Same(q)
      BY <1>1, <1>2, <1>4, <1>10, <2>1, OthersSame
    <2> QED
      BY <1>1, <1>2, <2>2, StaysCounting
  <1>13. ASSUME NEW b \in I!Subject \ doubled'
         PROVE  /\ AtMostOne(b)'
                /\ \A q \in Thread : Creates(q, b)' =>
                      /\ \A m \in DOMAIN issues' : issues'[m].about # b
                      /\ \A r \in Thread : Creates(r, b)' => r = q
    <2>1. b \notin doubled /\ (b = a => n = 1)
      BY <1>3
    <2>2. /\ AtMostOne(b)
          /\ \A q \in Thread : Creates(q, b) =>
                /\ \A m \in DOMAIN issues : issues[m].about # b
                /\ \A r \in Thread : Creates(r, b) => r = q
      BY <1>1, <2>1 DEF Single
    <2>3. ~Creates(p, b)' /\ \A q \in Thread \ {p} : Creates(q, b)' <=> Creates(q, b)
      BY <1>11 DEF Creates
    <2>4. CASE b = a
      <3>1. Creates(p, b)
        BY <1>1, <2>4 DEF Creates
      <3>2. \A q \in Thread : ~Creates(q, b)'
        BY <2>2, <2>3, <3>1
      <3>3. \A m \in DOMAIN issues : issues[m].about # b
        BY <2>2, <3>1
      <3>4. ASSUME NEW m \in DOMAIN issues', issues'[m].about = b PROVE m = Len(issues) + 1
        <4>1. m \in 1 .. Len(issues) => issues[m].about = b
          BY <1>7, <3>4
        <4>2. m \notin 1 .. Len(issues)
          BY <1>7, <3>3, <4>1
        <4> QED
          BY <1>6, <1>7, <2>1, <2>4, <3>4, <4>2
      <3> QED
        BY <3>2, <3>4 DEF AtMostOne
    <2>5. CASE b # a
      <3>1. ASSUME NEW m \in DOMAIN issues', issues'[m].about = b PROVE m \in DOMAIN issues /\ issues[m].about = b
        <4>1. m \notin Len(issues) + 1 .. Len(issues) + n
          BY <1>5, <1>7, <2>5, <3>1
        <4>2. m \in 1 .. Len(issues)
          BY <1>6, <1>7, <3>1, <4>1
        <4> QED
          BY <1>7, <3>1, <4>2
      <3>2. AtMostOne(b)'
        BY <2>2, <3>1 DEF AtMostOne
      <3> QED
        BY <2>2, <2>3, <3>1, <3>2
    <2> QED
      BY <2>4, <2>5
  <1>14. ASSUME NEW q \in Thread, ipc'[q] = "patch"
         PROVE  icall'[q].found \in DOMAIN issues' /\ issues'[icall'[q].found].about = icall'[q].about
    <2>1. CASE q = p
      BY <1>8, <1>10, <1>11, <2>1
    <2>2. CASE q # p
      <3>1. icall[q].found \in DOMAIN issues /\ issues[icall[q].found].about = icall[q].about /\ icall'[q] = icall[q]
        BY <1>1, <1>11, <1>14, <2>2 DEF Single
      <3>2. icall[q].found \in 1 .. Len(issues)
        BY <1>7, <3>1
      <3>3. issues'[icall[q].found] = issues[icall[q].found] /\ icall[q].found \in DOMAIN issues'
        BY <1>3, <1>6, <1>7, <3>2
      <3> QED
        BY <3>1, <3>3
    <2> QED
      BY <2>1, <2>2
  <1>15. Single'
    BY <1>13, <1>14 DEF Single
  <1>16. I!TypeOK'
    <2>1. ifaults' \in 0 .. MaxFaults /\ doubled' \subseteq I!Subject /\ Len(issues') <= MaxIssues
      BY <1>1, <1>3, <1>4, <1>7, IssuesAssumption DEF I!TypeOK
    <2> QED
      BY <1>1, <1>2, <1>7, <1>11, <2>1 DEF I!TypeOK
  <1> QED
    BY <1>12, <1>15, <1>16 DEF IssuesInv

\* Steps that change no issue and write nothing but the number of faults and updates.
LEMMA QuietStep ==
    ASSUME IssuesInv, NEW p \in Thread, NEW l \in I!Label, NEW c \in I!Call, I!Goto(p, l), I!Set(p, c),
           l \notin {"create", "patch"}, Same(p),
           UNCHANGED <<irecord, row, alone, behind, doubled>>,
           DOMAIN issues' = DOMAIN issues, \A n \in DOMAIN issues : issues'[n].about = issues[n].about,
           issues' \in Seq(I!Issue), Len(issues') = Len(issues),
           updates' \in 0 .. MaxUpdates, ifaults' \in 0 .. MaxFaults
    PROVE  IssuesInv'
  <1>1. I!TypeOK /\ Single /\ Counting
    BY DEF IssuesInv
  <1>2. Single'
    BY <1>1, StaysSingle
  <1>3. ipc' \in [Thread -> I!Label] /\ icall' \in [Thread -> I!Call]
    BY <1>1, Moves
  <1>4. \A q \in Thread : Same(q)
    BY <1>1, OthersSame
  <1>5. Counting'
    BY <1>1, <1>4, StaysCounting
  <1>6. I!TypeOK'
    BY <1>1, <1>3 DEF I!TypeOK
  <1> QED
    BY <1>2, <1>5, <1>6 DEF IssuesInv

LEMMA UpdateStep ==
    ASSUME IssuesInv, NEW p \in Thread, I!update_issue(p)
    PROVE  IssuesInv'
  <1> DEFINE c == icall[p]
             d == [icall[p] EXCEPT !.found = icall[p].found]
             l == IF c.then = "close" /\ c.found = 0 THEN "again" ELSE c.then
  <1>1. I!TypeOK /\ Single /\ Counting /\ c \in I!Call /\ ipc[p] = "patch"
    BY DEF IssuesInv, I!TypeOK, I!update_issue
  <1>2. /\ issues' = [issues EXCEPT ![c.found] = I!NewIssue(c.about)]
        /\ I!Goto(p, l) /\ I!Set(p, d)
        /\ UNCHANGED <<irecord, row, alone, behind, doubled, updates, ifaults>>
    BY DEF I!update_issue, I!Ensured, I!history
  <1>3. d \in I!Call /\ d.then = c.then /\ d.counts = c.counts /\ c.then \in {"save", "upsert", "close"}
        /\ c.about \in I!Subject
    BY <1>1, Fields
  <1>4. l \in {"save", "upsert", "close", "again"} /\ (l = "upsert" <=> c.then = "upsert") /\ l \in I!Label
    BY <1>3 DEF I!Label
  <1>5. /\ DOMAIN issues' = DOMAIN issues /\ \A n \in DOMAIN issues : issues'[n].about = issues[n].about
        /\ issues' \in Seq(I!Issue) /\ Len(issues') = Len(issues)
    <2>1. I!NewIssue(c.about) \in I!Issue /\ I!NewIssue(c.about).about = c.about
      BY <1>3 DEF I!NewIssue, I!Issue
    <2>2. c.found \in DOMAIN issues /\ issues[c.found].about = c.about /\ issues \in Seq(I!Issue)
      BY <1>1 DEF Single, I!TypeOK
    <2> QED
      BY <1>2, <2>1, <2>2
  <1> HIDE DEF d, l
  <1>6. ipc'[p] = l /\ icall'[p] = d
    BY <1>1, <1>2, <1>3, <1>4, Moves
  <1>7. Same(p)
    BY <1>1, <1>3, <1>4, <1>6 DEF Same, I!Counted, Uncounted
  <1> QED
    BY <1>1, <1>2, <1>3, <1>4, <1>5, <1>7, QuietStep DEF I!TypeOK

\* A call ends, or goes to its end, without having counted.
LEMMA LeaveStep ==
    ASSUME IssuesInv, NEW p \in Thread, NEW l \in {"close", "idle"}, NEW c \in I!Call, I!Goto(p, l), I!Set(p, c),
           I!Unsynced(p), UNCHANGED <<irecord, issues, row, doubled, updates>>, ifaults' \in 0 .. MaxFaults
    PROVE  IssuesInv'
  <1>1. I!TypeOK /\ Single /\ Counting
    BY DEF IssuesInv
  <1>2. l \in I!Label /\ l \notin {"create", "patch"}
    BY DEF I!Label
  <1>3. Single'
    BY <1>1, <1>2, StaysSingle
  <1>4. ipc' \in [Thread -> I!Label] /\ icall' \in [Thread -> I!Call] /\ ipc'[p] = l
    BY <1>1, <1>2, Moves
  <1>5. ~I!Counted(p)' /\ ~Uncounted(p)'
    BY <1>4 DEF I!Counted, Uncounted
  <1>6. \A q \in Thread \ {p} : Same(q)
    BY <1>1, <1>2, OthersSame
  <1>7. Counting'
    BY <1>1, <1>5, <1>6, LeavesCounting
  <1>8. alone' \subseteq Thread /\ behind' \in BOOLEAN
    BY <1>1 DEF I!Unsynced, I!TypeOK
  <1>9. I!TypeOK'
    BY <1>1, <1>4, <1>8 DEF I!TypeOK
  <1> QED
    BY <1>3, <1>7, <1>9 DEF IssuesInv

LEMMA Idles ==
    ASSUME IssuesInv
    PROVE  /\ DOMAIN issues = DOMAIN issues /\ issues \in Seq(I!Issue)
           /\ updates \in 0 .. MaxUpdates /\ ifaults \in 0 .. MaxFaults
           /\ ifaults < MaxFaults => ifaults + 1 \in 0 .. MaxFaults
           /\ updates < MaxUpdates => updates + 1 \in 0 .. MaxUpdates
           /\ \A p \in Thread : icall[p] \in I!Call /\ I!TypeOK
           /\ \A t \in Task : irecord[t] \in I!Record
           /\ I!TypeOK /\ Single /\ Counting
  BY IssuesAssumption DEF IssuesInv, I!TypeOK

LEMMA FailStep ==
    ASSUME IssuesInv, NEW p \in Thread, I!ensure_fails(p)
    PROVE  IssuesInv'
  <1> DEFINE c == icall[p]
             d == [icall[p] EXCEPT !.found = 0]
             l == IF c.then = "close" THEN "again" ELSE c.then
  <1>1. /\ ipc[p] \in {"search", "create", "patch"} /\ ifaults < MaxFaults /\ ifaults' = ifaults + 1
        /\ UNCHANGED <<irecord, issues, row, doubled, updates>>
    BY DEF I!ensure_fails
  <1>2. \/ I!Goto(p, l) /\ I!Set(p, d) /\ UNCHANGED <<alone, behind>>
        \/ I!Goto(p, "close") /\ icall' = icall /\ I!Unsynced(p)
    BY DEF I!ensure_fails, I!Ensured
  <1>3. c \in I!Call /\ d \in I!Call /\ d.then = c.then /\ d.counts = c.counts
        /\ c.then \in {"save", "upsert", "close"}
    BY Idles, Fields, Empty
  <1>4. l \in {"save", "upsert", "again"} /\ (l = "upsert" <=> c.then = "upsert") /\ l \in I!Label
    BY <1>3 DEF I!Label
  <1>5. ifaults' \in 0 .. MaxFaults
    BY <1>1, Idles
  <1> HIDE DEF d, l
  <1>6. ASSUME I!Goto(p, l), I!Set(p, d), UNCHANGED <<alone, behind>> PROVE IssuesInv'
    <2>1. ipc'[p] = l /\ icall'[p] = d
      BY <1>3, <1>4, <1>6, Idles, Moves
    <2>2. Same(p)
      BY <1>1, <1>3, <1>4, <2>1 DEF Same, I!Counted, Uncounted
    <2> QED
      BY <1>1, <1>3, <1>4, <1>5, <1>6, <2>2, Idles, QuietStep
  <1>7. ASSUME I!Goto(p, "close"), icall' = icall, I!Unsynced(p) PROVE IssuesInv'
    <2>1. I!Set(p, c)
      BY <1>7, Idles DEF I!Set, I!TypeOK
    <2> HIDE DEF c
    <2> QED
      BY <1>1, <1>3, <1>5, <1>7, <2>1, LeaveStep
  <1> QED
    BY <1>2, <1>6, <1>7

\* The counts are taken: whoever had counted before is no longer alone.
LEMMA CountStep ==
    ASSUME IssuesInv, NEW p \in Thread, I!sync_milestone_count(p)
    PROVE  IssuesInv'
  <1> DEFINE d == [icall[p] EXCEPT !.counts = I!milestone_task_summary,
                                   !.about = I!Release, !.then = "upsert", !.found = 0]
             others == {q \in Thread \ {p} : I!Counted(q)}
  <1>1. /\ ipc[p] = "count" /\ I!Set(p, d) /\ I!Goto(p, "search")
        /\ alone' = IF others = {} THEN alone \cup {p} ELSE alone \ others
        /\ behind' = (behind \/ others # {})
        /\ UNCHANGED <<irecord, issues, row, doubled, updates, ifaults>>
    BY DEF I!sync_milestone_count
  <1>2. d \in I!Call /\ d.counts = I!milestone_task_summary /\ d.then = "upsert"
    BY Idles, Summary, Empty DEF I!Call, I!Subject
  <1>3. "search" \in I!Label
    BY DEF I!Label
  <1>4. I!TypeOK /\ Single /\ Counting /\ alone \subseteq Thread
    BY Idles DEF I!TypeOK
  <1> HIDE DEF d
  <1>5. Single'
    BY <1>1, <1>2, <1>3, <1>4, StaysSingle
  <1>6. ipc'[p] = "search" /\ icall'[p] = d /\ ipc' \in [Thread -> I!Label] /\ icall' \in [Thread -> I!Call]
    BY <1>1, <1>2, <1>3, <1>4, Moves
  <1>7. \A q \in Thread \ {p} : Same(q)
    BY <1>1, <1>2, <1>3, <1>4, OthersSame
  <1>8. I!Counted(p)' /\ I!Syncing(p)' /\ ~I!Counted(p)
    BY <1>1, <1>2, <1>6 DEF I!Counted, I!Syncing
  <1>9. icall'[p].counts = I!milestone_task_summary' /\ (row.state = I!milestone_state_from_metrics(row.counts))'
    BY <1>1, <1>2, <1>4, <1>6, SummaryStays DEF Counting, I!milestone_state_from_metrics
  <1>10. Counting'
    <2>1. \A q \in alone : q \in others
      BY <1>4, <1>8 DEF Counting
    <2>2. CASE others = {}
      <3>1. alone' = {p}
        BY <1>1, <2>1, <2>2
      <3>2. \A q \in Thread : I!Counted(q)' => q = p
        BY <1>7, <2>2 DEF Same
      <3> QED
        BY <1>8, <1>9, <3>1, <3>2 DEF Counting
    <2>3. CASE others # {}
      <3>1. alone' = {} /\ behind'
        BY <1>1, <2>1, <2>3
      <3> QED
        BY <1>9, <3>1 DEF Counting
    <2> QED
      BY <2>2, <2>3
  <1>11. I!TypeOK'
    <2>1. alone' \subseteq Thread /\ behind' \in BOOLEAN
      BY <1>1, <1>4 DEF I!TypeOK
    <2> QED
      BY <1>1, <1>4, <1>6, <2>1 DEF I!TypeOK
  <1> QED
    BY <1>5, <1>10, <1>11 DEF IssuesInv

\* The counts are written: those of a thread that was alone are those of the records.
LEMMA UpsertStep ==
    ASSUME IssuesInv, NEW p \in Thread, I!upsert_runtime_milestone(p)
    PROVE  IssuesInv'
  <1> DEFINE c == icall[p]
             d == [c EXCEPT !.about = c.task, !.then = "close", !.found = c.record.link, !.counts = I!NoCounts]
             l == IF c.record.link = 0 THEN "search" ELSE "close"
  <1>1. /\ ipc[p] = "upsert"
        /\ row' = [state |-> I!milestone_state_from_metrics(c.counts), counts |-> c.counts]
        /\ I!Set(p, d) /\ I!Goto(p, l)
        /\ behind' = (behind /\ p \notin alone) /\ alone' = alone \ {p}
        /\ UNCHANGED <<irecord, issues, doubled, updates, ifaults>>
    BY DEF I!upsert_runtime_milestone
  <1>2. I!TypeOK /\ Single /\ Counting /\ alone \subseteq Thread /\ c \in I!Call /\ c.counts \in I!Counts
    BY Idles, Fields DEF I!TypeOK
  <1>3. d \in I!Call /\ d.then = "close"
    BY <1>2, Fields, RecordFields, Empty DEF I!Call
  <1>4. l \in I!Label /\ l \in {"search", "close"}
    BY DEF I!Label
  <1> HIDE DEF d, l
  <1>5. Single'
    BY <1>1, <1>2, <1>3, <1>4, StaysSingle
  <1>6. ipc'[p] = l /\ icall'[p] = d /\ ipc' \in [Thread -> I!Label] /\ icall' \in [Thread -> I!Call]
    BY <1>1, <1>2, <1>3, <1>4, Moves
  <1>7. \A q \in Thread \ {p} : Same(q)
    BY <1>1, <1>2, <1>3, <1>4, OthersSame
  <1>8. I!Counted(p) /\ ~Uncounted(p) /\ ~I!Counted(p)' /\ ~Uncounted(p)'
    BY <1>1, <1>3, <1>4, <1>6 DEF I!Counted, Uncounted
  <1>9. (row.state = I!milestone_state_from_metrics(row.counts))'
    <2>1. row'.state = I!milestone_state_from_metrics(c.counts) /\ row'.counts = c.counts
      BY <1>1
    <2> QED
      BY <2>1 DEF I!milestone_state_from_metrics
  <1>10. Counting'
    <2>1. \A q \in alone : q = p
      BY <1>2, <1>8 DEF Counting
    <2>2. alone' = {}
      BY <1>1, <2>1
    <2>3. CASE p \in alone
      <3>1. \A q \in Thread : ~I!Counted(q)'
        BY <1>2, <1>7, <1>8, <2>3 DEF Counting, Same
      <3>2. ASSUME \A q \in Thread : ~Uncounted(q)' PROVE row'.counts = I!milestone_task_summary'
        <4>1. \A q \in Thread : ~Uncounted(q)
          BY <1>7, <1>8, <3>2 DEF Same
        <4>2. c.counts = I!milestone_task_summary
          BY <1>2, <2>3, <4>1 DEF Counting
        <4> QED
          BY <1>1, <4>2, SummaryStays
      <3> QED
        BY <1>9, <2>2, <3>1, <3>2, SyncingIsNext DEF Counting
    <2>4. CASE p \notin alone
      <3>1. behind'
        BY <1>1, <1>2, <1>8, <2>4 DEF Counting
      <3> QED
        BY <1>9, <2>2, <3>1 DEF Counting
    <2> QED
      BY <2>3, <2>4
  <1>11. I!TypeOK'
    <2>1. alone' \subseteq Thread /\ behind' \in BOOLEAN
      BY <1>1, <1>2 DEF I!TypeOK
    <2>2. row' \in I!Row
      <3>1. I!milestone_state_from_metrics(c.counts) \in I!MilestoneState
        BY DEF I!milestone_state_from_metrics, I!MilestoneState
      <3> QED
        BY <1>1, <1>2, <3>1 DEF I!Row
    <2> QED
      BY <1>1, <1>2, <1>6, <2>1, <2>2 DEF I!TypeOK
  <1> QED
    BY <1>5, <1>10, <1>11 DEF IssuesInv

\* A call begins, of a planner or of a delivery.
LEMMA BeginStep ==
    ASSUME IssuesInv, NEW p \in Thread, NEW t \in Task,
           I!materialize(p, t) \/ \E s \in {"blocked", "closed"} : I!load_record(p, t, s)
    PROVE  IssuesInv'
  <1>1. /\ ipc[p] = "idle" /\ updates < MaxUpdates /\ updates' = updates + 1
        /\ UNCHANGED <<irecord, issues, row, alone, behind, doubled, ifaults>>
    BY DEF I!materialize, I!load_record, I!history
  <1>2. updates' \in 0 .. MaxUpdates
    BY <1>1, Idles
  <1>3. t \in I!Subject
    BY DEF I!Subject
  <1>4. ASSUME NEW l \in {"search", "write"}, NEW c \in I!Call, c.then # "upsert", I!Goto(p, l), I!Set(p, c)
        PROVE  IssuesInv'
    <2>1. l \in I!Label /\ l \notin {"create", "patch"}
      BY DEF I!Label
    <2>2. ipc'[p] = l /\ icall'[p] = c
      BY <1>4, <2>1, Idles, Moves
    <2>3. Same(p)
      BY <1>1, <1>4, <2>2 DEF Same, I!Counted, Uncounted
    <2> QED
      BY <1>1, <1>2, <1>4, <2>1, <2>3, Idles, QuietStep
  <1>5. ASSUME I!materialize(p, t) PROVE IssuesInv'
    <2> DEFINE c == [I!NoCall EXCEPT !.task = t, !.about = t, !.then = "save"]
    <2>1. I!Set(p, c) /\ I!Goto(p, "search")
      BY <1>5 DEF I!materialize
    <2>2. c \in I!Call /\ c.then = "save"
      BY <1>3, Empty DEF I!Call
    <2> HIDE DEF c
    <2> QED
      BY <1>4, <2>1, <2>2
  <1>6. ASSUME NEW s \in {"blocked", "closed"}, I!load_record(p, t, s) PROVE IssuesInv'
    <2> DEFINE c == [I!NoCall EXCEPT !.task = t, !.status = s, !.record = irecord[t]]
    <2>1. I!Set(p, c) /\ I!Goto(p, "write")
      BY <1>6 DEF I!load_record
    <2>2. c \in I!Call /\ c.then = I!NoCall.then
      BY <1>3, Empty, Idles DEF I!Call
    <2>3. c.then # "upsert"
      BY <2>2 DEF I!NoCall
    <2> HIDE DEF c
    <2> QED
      BY <1>4, <2>1, <2>2, <2>3
  <1> QED
    BY <1>5, <1>6

\* A record is written: its thread has yet to count.
LEMMA RecordStep ==
    ASSUME IssuesInv, NEW p \in Thread, NEW new \in I!Record, NEW l \in {"count", "comment"},
           ipc[p] \in {"save", "write"},
           irecord' = [irecord EXCEPT ![icall[p].task] = new],
           I!Set(p, [icall[p] EXCEPT !.record = new]), I!Goto(p, l),
           UNCHANGED <<issues, row, alone, behind, doubled, updates, ifaults>>
    PROVE  IssuesInv'
  <1> DEFINE c == [icall[p] EXCEPT !.record = new]
  <1>1. c \in I!Call /\ I!Set(p, c)
    BY Idles, Fields
  <1>2. l \in I!Label /\ l \notin {"create", "patch"} /\ I!TypeOK /\ Single /\ Counting
    BY Idles DEF I!Label
  <1> HIDE DEF c
  <1>3. Single'
    BY <1>1, <1>2, StaysSingle
  <1>4. ipc'[p] = l /\ ipc' \in [Thread -> I!Label] /\ icall' \in [Thread -> I!Call]
    BY <1>1, <1>2, Moves
  <1>5. ~I!Counted(p) /\ ~I!Counted(p)' /\ Uncounted(p)'
    BY <1>4 DEF I!Counted, Uncounted
  <1>6. Counting'
    BY <1>1, <1>2, <1>5, OthersSame, RecordCounting
  <1>7. I!TypeOK'
    BY <1>2, <1>4 DEF I!TypeOK
  <1> QED
    BY <1>3, <1>6, <1>7 DEF IssuesInv

LEMMA WriteStep ==
    ASSUME IssuesInv, NEW p \in Thread, I!ensure_task_record(p) \/ I!update_task_state(p)
    PROVE  IssuesInv'
  <1> DEFINE new1 == [status |-> "todo", link |-> icall[p].found]
             new2 == [icall[p].record EXCEPT !.status = icall[p].status]
  <1>1. new1 \in I!Record /\ new2 \in I!Record
    BY Idles, Fields, RecordFields
  <1>2. ASSUME I!ensure_task_record(p) PROVE IssuesInv'
    <2>1. /\ ipc[p] = "save" /\ irecord' = [irecord EXCEPT ![icall[p].task] = new1]
          /\ I!Set(p, [icall[p] EXCEPT !.record = new1]) /\ I!Goto(p, "count")
          /\ UNCHANGED <<issues, row, alone, behind, doubled, updates, ifaults>>
      BY <1>2 DEF I!ensure_task_record, I!history
    <2> HIDE DEF new1, new2
    <2> QED
      BY <1>1, <2>1, RecordStep
  <1>3. ASSUME I!update_task_state(p) PROVE IssuesInv'
    <2>1. /\ ipc[p] = "write" /\ irecord' = [irecord EXCEPT ![icall[p].task] = new2]
          /\ I!Set(p, [icall[p] EXCEPT !.record = new2])
          /\ I!Goto(p, IF new2.link = 0 THEN "count" ELSE "comment")
          /\ UNCHANGED <<issues, row, alone, behind, doubled, updates, ifaults>>
      BY <1>3 DEF I!update_task_state, I!history
    <2> HIDE DEF new1, new2
    <2> QED
      BY <1>1, <2>1, RecordStep
  <1> QED
    BY <1>2, <1>3

LEMMA AgainStep ==
    ASSUME IssuesInv, NEW p \in Thread, I!write_again(p)
    PROVE  IssuesInv'
  <1>1. /\ ipc[p] = "again" /\ irecord' = [irecord EXCEPT ![icall[p].task] = icall[p].record]
        /\ behind' = (behind \/ irecord' # irecord)
        /\ alone' = IF irecord' # irecord THEN {} ELSE alone
        /\ I!Goto(p, "close") /\ icall' = icall
        /\ UNCHANGED <<issues, row, doubled, updates, ifaults>>
    BY DEF I!write_again
  <1>2. I!TypeOK /\ Single /\ Counting /\ icall[p] \in I!Call /\ icall[p].record \in I!Record /\ "close" \in I!Label
    BY Idles, Fields DEF I!Label
  <1>3. I!Set(p, icall[p])
    BY <1>1, <1>2 DEF I!Set, I!TypeOK
  <1>4. Single'
    BY <1>1, <1>2, <1>3, StaysSingle
  <1>5. ipc'[p] = "close" /\ icall'[p] = icall[p] /\ ipc' \in [Thread -> I!Label] /\ icall' \in [Thread -> I!Call]
    BY <1>1, <1>2, <1>3, Moves
  <1>6. Same(p)
    BY <1>1, <1>5 DEF Same, I!Counted, Uncounted
  <1>7. \A q \in Thread : Same(q)
    BY <1>1, <1>2, <1>3, <1>6, OthersSame
  <1>8. CASE irecord' = irecord
    <2>1. alone' = alone /\ behind' = behind
      BY <1>1, <1>2, <1>8 DEF I!TypeOK
    <2>2. Counting'
      BY <1>1, <1>2, <1>7, <1>8, <2>1, StaysCounting
    <2>3. I!TypeOK'
      BY <1>1, <1>2, <1>5, <1>8, <2>1 DEF I!TypeOK
    <2> QED
      BY <1>4, <2>2, <2>3 DEF IssuesInv
  <1>9. CASE irecord' # irecord
    <2>1. alone' = {} /\ behind' = TRUE
      BY <1>1, <1>9
    <2>2. (row.state = I!milestone_state_from_metrics(row.counts))'
      BY <1>1, <1>2 DEF Counting, I!milestone_state_from_metrics
    <2>3. Counting'
      BY <2>1, <2>2 DEF Counting
    <2>4. irecord' \in [Task -> I!Record]
      BY <1>1, <1>2 DEF I!TypeOK
    <2>5. I!TypeOK'
      BY <1>1, <1>2, <1>5, <2>1, <2>4 DEF I!TypeOK
    <2> QED
      BY <1>4, <2>3, <2>5 DEF IssuesInv
  <1> QED
    BY <1>8, <1>9

LEMMA CommentStep ==
    ASSUME IssuesInv, NEW p \in Thread, I!issue_comment(p)
    PROVE  IssuesInv'
  <1> DEFINE d == [icall[p] EXCEPT !.found = icall[p].record.link]
  <1>1. ipc[p] = "comment" /\ UNCHANGED <<irecord, issues, row, doubled, updates>>
    BY DEF I!issue_comment
  <1>2. icall[p] \in I!Call /\ d \in I!Call
    BY Idles, Fields, RecordFields
  <1>3. ASSUME I!Goto(p, "count"), UNCHANGED <<icall, alone, behind, ifaults>> PROVE IssuesInv'
    <2>1. I!Set(p, icall[p]) /\ "count" \in I!Label
      BY <1>3, Idles DEF I!Set, I!TypeOK, I!Label
    <2>2. ipc'[p] = "count" /\ icall'[p] = icall[p]
      BY <1>2, <1>3, <2>1, Idles, Moves
    <2>3. Same(p)
      BY <1>1, <2>2 DEF Same, I!Counted, Uncounted
    <2> QED
      BY <1>1, <1>2, <1>3, <2>1, <2>3, Idles, QuietStep
  <1>4. ASSUME ifaults < MaxFaults, ifaults' = ifaults + 1, I!Set(p, d), I!Goto(p, "close"), I!Unsynced(p)
        PROVE  IssuesInv'
    <2>1. ifaults' \in 0 .. MaxFaults
      BY <1>4, Idles
    <2> HIDE DEF d
    <2> QED
      BY <1>1, <1>2, <1>4, <2>1, LeaveStep
  <1> QED
    BY <1>3, <1>4 DEF I!issue_comment

LEMMA CloseStep ==
    ASSUME IssuesInv, NEW p \in Thread, I!close_issue_if_possible(p)
    PROVE  IssuesInv'
  <1> DEFINE n == icall[p].record.link
  <1>1. /\ ipc[p] = "close"
        /\ issues' = issues \/ issues' = [issues EXCEPT ![n].open = FALSE]
        /\ ifaults' = ifaults \/ (ifaults < MaxFaults /\ ifaults' = ifaults + 1)
        /\ I!Goto(p, "idle") /\ I!Set(p, I!NoCall)
        /\ UNCHANGED <<irecord, row, alone, behind, doubled, updates>>
    BY DEF I!close_issue_if_possible, I!history
  <1>2. "idle" \in I!Label
    BY DEF I!Label
  <1>3. ifaults' \in 0 .. MaxFaults
    BY <1>1, Idles
  <1>4. /\ DOMAIN issues' = DOMAIN issues /\ \A m \in DOMAIN issues : issues'[m].about = issues[m].about
        /\ issues' \in Seq(I!Issue) /\ Len(issues') = Len(issues)
    <2>1. issues \in Seq(I!Issue)
      BY Idles
    <2>2. CASE issues' = [issues EXCEPT ![n].open = FALSE]
      <3>1. DOMAIN issues = 1 .. Len(issues) /\ \A m \in DOMAIN issues : issues[m] \in I!Issue
        BY <2>1
      <3>2. \A m \in DOMAIN issues : [issues[m] EXCEPT !.open = FALSE] \in I!Issue
                                      /\ [issues[m] EXCEPT !.open = FALSE].about = issues[m].about
        BY <3>1 DEF I!Issue
      <3> DEFINE shut == [issues[n] EXCEPT !.open = FALSE]
      <3>3. issues' = [issues EXCEPT ![n] = shut] /\ (n \in DOMAIN issues => shut \in I!Issue /\ shut.about = issues[n].about)
        BY <2>2, <3>2
      <3> HIDE DEF shut
      <3>4. CASE n \in DOMAIN issues
        BY <2>1, <3>3, <3>4
      <3>5. CASE n \notin DOMAIN issues
        <4>1. issues' = issues
          BY <2>1, <3>1, <3>3, <3>5
        <4> QED
          BY <2>1, <4>1
      <3> QED
        BY <3>4, <3>5
    <2> QED
      BY <1>1, <2>1, <2>2
  <1>5. ipc'[p] = "idle" /\ icall'[p] = I!NoCall
    BY <1>1, <1>2, Idles, Empty, Moves
  <1>6. Same(p)
    BY <1>1, <1>5 DEF Same, I!Counted, Uncounted
  <1> QED
    BY <1>1, <1>2, <1>3, <1>4, <1>6, Idles, Empty, QuietStep

LEMMA StopStep ==
    ASSUME IssuesInv, NEW p \in Thread, I!Crash(p)
    PROVE  IssuesInv'
  <1>1. /\ I!Goto(p, "idle") /\ I!Set(p, I!NoCall) /\ I!Unsynced(p)
        /\ UNCHANGED <<irecord, issues, row, doubled, updates>>
    BY DEF I!Crash
  <1>2. ifaults' \in 0 .. MaxFaults
    BY Idles DEF I!Crash
  <1> QED
    BY <1>1, <1>2, Empty, LeaveStep

LEMMA IssuesNext == IssuesInv /\ [I!Next]_(I!vars) => IssuesInv'
  <1> SUFFICES ASSUME IssuesInv, [I!Next]_(I!vars) PROVE IssuesInv'
    OBVIOUS
  <1>1. ASSUME UNCHANGED I!vars PROVE IssuesInv'
    <2>1. UNCHANGED <<irecord, issues, row, ipc, icall, alone, behind, doubled, updates, ifaults>>
      BY <1>1 DEF I!vars
    <2>2. Single'
      BY <2>1 DEF IssuesInv, Single, AtMostOne, Creates
    <2>3. \A q \in Thread : Same(q)
      BY <2>1 DEF Same, I!Counted, Uncounted
    <2>4. Counting'
      BY <2>1, <2>3, Idles, StaysCounting
    <2>5. I!TypeOK'
      BY <2>1, Idles DEF I!TypeOK
    <2> QED
      BY <2>2, <2>4, <2>5 DEF IssuesInv
  <1>2. ASSUME NEW p \in Thread,
               \/ I!search_issue_by_marker(p) \/ I!create_issue(p) \/ I!update_issue(p) \/ I!ensure_fails(p)
               \/ I!sync_milestone_count(p) \/ I!upsert_runtime_milestone(p)
               \/ \E t \in Task : I!materialize(p, t)
               \/ I!ensure_task_record(p)
               \/ \E t \in Task, s \in {"blocked", "closed"} : I!load_record(p, t, s)
               \/ I!update_task_state(p) \/ I!write_again(p) \/ I!issue_comment(p)
               \/ I!close_issue_if_possible(p) \/ I!Crash(p)
        PROVE  IssuesInv'
    BY <1>2, SearchStep, CreateStep, UpdateStep, FailStep, CountStep, UpsertStep, BeginStep, WriteStep,
       AgainStep, CommentStep, CloseStep, StopStep
  <1> QED
    BY <1>1, <1>2 DEF I!Next

\* The records, the issues, the milestone and the calls keep their types, for any
\* planners, deliveries, tasks, faults and stops.
THEOREM IssuesTyped == I!Spec => []I!TypeOK
  <1>1. IssuesInv => I!TypeOK
    BY DEF IssuesInv
  <1> QED
    BY <1>1, IssuesInit, IssuesNext, PTL DEF I!Spec

\* A subject has one issue and the milestone counts its tasks as they are, for any
\* planners, deliveries, tasks, faults and stops, unless creations were doubled or syncs
\* have crossed.
THEOREM IssuesAgree == I!Spec => []IssuesInStep
  <1> QED
    BY IssuesInit, IssuesNext, IssuesHold, PTL DEF I!Spec

------------------------------------------------------------------------------
(* EventFeed.  A stream has sent what it is about up to its cursor: a      *)
(* query takes the rows behind the cursor, and the cursor stays behind     *)
(* what has no room (Told).                                              *)

\* A set of numbers has a least one.
LEMMA Least ==
    ASSUME NEW S \in SUBSET Nat, S # {}
    PROVE  \E x \in S : \A y \in S : x <= y
  <1> DEFINE Segments == {1 .. x : x \in S}
  <1>1. \A x \in S : 1 .. x \in FiniteSubsetsOf(Nat)
    <2> TAKE x \in S
    <2>1. x \in Nat /\ 1 \in Int /\ x \in Int
      OBVIOUS
    <2>2. IsFiniteSet(1 .. x)
      BY <2>1, FS_Interval
    <2>3. 1 .. x \subseteq Nat
      BY <2>1
    <2> QED
      BY <2>2, <2>3 DEF FiniteSubsetsOf
  <1>2. Segments \subseteq FiniteSubsetsOf(Nat) /\ Segments # {}
    BY <1>1
  <1>3. PICK J \in Segments : \A L \in Segments : ~ (<<L, J>> \in StrictSubsetOrdering(Nat))
    BY <1>2, FS_StrictSubsetOrderingWellFounded, WFMin
  <1>4. PICK x \in S : J = 1 .. x
    BY <1>3
  <1>5. ASSUME NEW y \in S, ~(x <= y) PROVE FALSE
    <2>1. x \in 1 .. x /\ x \notin 1 .. y /\ 1 .. y \subseteq 1 .. x
      BY <1>5
    <2>2. 1 .. y \in SUBSET Nat /\ 1 .. x \in SUBSET Nat
      OBVIOUS
    <2>3. 1 .. y # 1 .. x
      BY <2>1, Zenon
    <2>4. <<1 .. y, 1 .. x>> \in StrictSubsetOrdering(Nat)
      BY <2>1, <2>2, <2>3 DEF StrictSubsetOrdering
    <2> QED
      BY <1>3, <1>4, <2>4
  <1> QED
    BY <1>4, <1>5

LEMMA FeedCardinality == \A S : E!Cardinality(S) = Cardinality(S)
  BY DEF E!Cardinality, Cardinality


Told(c) ==
    /\ fcursor[c] <= Len(events) /\ known[c] <= Len(events) /\ taken[c] < Page
    /\ \A id \in E!Id : fsent[c][id] = IF id <= fcursor[c] /\ E!team_event_matches_run(c, id) THEN 1 ELSE 0
    /\ c \in Watcher \ cut /\ fpc[c] = "closed" => known[c] <= fcursor[c]

\* The files agree, or a request that is alone will make them agree.
OneSaver ==
    ~mixed =>
      /\ \A s, o \in Saver : logs[s].at # "idle" /\ logs[o].at # "idle" => s = o
      /\ \A s \in Saver : logs[s].at = "md" => json = logs[s].found
      /\ (\A s \in Saver : logs[s].at = "idle") => json = md

FeedInv == E!TypeOK /\ OneSaver /\ \A c \in E!Viewer : Told(c)

LEMMA FeedInit == E!Init => FeedInv
  <1> SUFFICES ASSUME E!Init PROVE FeedInv
    OBVIOUS
  <1>1. E!TypeOK
    <2>1. events \in Seq(BOOLEAN) /\ Len(events) = 0 /\ 0 \in E!Position
      BY FeedAssumption DEF E!Init, E!Position
    <2>2. fcursor \in [E!Viewer -> E!Position] /\ known \in [E!Viewer -> E!Position]
          /\ taken \in [E!Viewer -> 0 .. Page]
      BY <2>1, FeedAssumption DEF E!Init
    <2>3. fsent \in [E!Viewer -> [E!Id -> Nat]]
      BY DEF E!Init
    <2>4. logs \in [Saver -> [at : {"idle", "json", "md"}, found : E!Position]]
      BY <2>1 DEF E!Init
    <2>5. fpc \in [E!Viewer -> {"idle", "backlog", "row", "poll", "closed"}]
      BY DEF E!Init
    <2>6. ended \subseteq E!Viewer /\ cut \subseteq E!Viewer /\ due \subseteq {"cleanup", "chat"}
      BY DEF E!Init
    <2>7. frow \in E!RowState /\ phase \in {"new", "started", "working", "closing", "over"} /\ mixed \in BOOLEAN
      BY DEF E!Init, E!RowState
    <2>8. json \in E!Position /\ md \in E!Position /\ controls \in 0 .. MaxControls
      BY <2>1, FeedAssumption DEF E!Init
    <2> QED
      BY <2>1, <2>2, <2>3, <2>4, <2>5, <2>6, <2>7, <2>8 DEF E!TypeOK
  <1>2. OneSaver
    BY DEF E!Init, OneSaver
  <1>3. ASSUME NEW c \in E!Viewer PROVE Told(c)
    <2>1. fcursor[c] = 0 /\ known[c] = 0 /\ taken[c] = 0 /\ fpc[c] = "idle" /\ \A id \in E!Id : fsent[c][id] = 0
      BY DEF E!Init
    <2>2. Len(events) = 0 /\ \A id \in E!Id : ~(id <= 0)
      BY FeedAssumption DEF E!Init, E!Id
    <2> QED
      BY <2>1, <2>2, FeedAssumption DEF Told
  <1> QED
    BY <1>1, <1>2, <1>3 DEF FeedInv

\* The writers only add events.
LEMMA FeedWrite ==
    ASSUME FeedInv, E!Write
    PROVE  FeedInv'
  <1>1. /\ UNCHANGED <<fpc, fcursor, taken, ended, fsent, known, cut, logs, json, md, mixed>>
        /\ events' = events \/ \E mine \in BOOLEAN : Len(events) < MaxLog /\ events' = Append(events, mine)
    BY DEF E!Write, E!Start, E!RunEvent, E!cleanup_stale, E!Record, E!update_run_state, E!v1_chat, E!Announce,
       E!add_event, E!streams, E!files
  <1>2. /\ events \in Seq(BOOLEAN) /\ Len(events) \in Nat /\ Len(events) <= MaxLog
    BY FeedAssumption DEF FeedInv, E!TypeOK, E!Position
  <1>3. /\ events' \in Seq(BOOLEAN) /\ Len(events') \in 0 .. MaxLog /\ Len(events) <= Len(events')
        /\ \A id \in 1 .. Len(events) : events'[id] = events[id]
    BY <1>1, <1>2, FeedAssumption
  <1>4. frow' \in E!RowState /\ phase' \in {"new", "started", "working", "closing", "over"}
        /\ due' \subseteq {"cleanup", "chat"} /\ controls' \in 0 .. MaxControls
    <2>1. frow \in E!RowState /\ phase \in {"new", "started", "working", "closing", "over"}
          /\ due \subseteq {"cleanup", "chat"} /\ controls \in 0 .. MaxControls
      BY DEF FeedInv, E!TypeOK
    <2>2. CASE E!Start \/ E!RunEvent \/ E!cleanup_stale
      BY <2>1, <2>2 DEF E!RowState, E!Start, E!RunEvent, E!cleanup_stale
    <2>3. ASSUME NEW mine \in BOOLEAN, E!Record(mine) PROVE UNCHANGED <<frow, phase, due, controls>>
      BY <2>3 DEF E!Record
    <2>4. ASSUME NEW state \in {"DONE", "FAILED"}, E!update_run_state(state)
          PROVE  frow' \in E!RowState /\ phase' = "closing" /\ UNCHANGED <<due, controls>>
      BY <2>4 DEF E!update_run_state, E!RowState
    <2>5. ASSUME NEW state \in {"PAUSED", "RUNNING", "STOPPED"}, E!v1_chat(state)
          PROVE  /\ frow' \in E!RowState /\ due' = due \cup {"chat"} /\ phase' = phase
                 /\ controls' \in 0 .. MaxControls
      BY <2>1, <2>5, FeedAssumption DEF E!v1_chat, E!RowState
    <2>6. ASSUME NEW w \in due, E!Announce(w) PROVE UNCHANGED <<frow, phase, controls>> /\ due' \subseteq due
      BY <2>6 DEF E!Announce
    <2> QED
      BY <2>1, <2>2, <2>3, <2>4, <2>5, <2>6 DEF E!Write
  <1>5. E!TypeOK'
    BY <1>1, <1>3, <1>4 DEF FeedInv, E!TypeOK, E!Position
  <1>6. ASSUME NEW c \in E!Viewer PROVE Told(c)'
    <2>1. Told(c) /\ fcursor[c] \in Nat /\ known[c] \in Nat
      BY FeedAssumption DEF FeedInv, E!TypeOK, E!Position
    <2>2. ASSUME NEW id \in E!Id, id <= fcursor[c]
          PROVE  E!team_event_matches_run(c, id)' = E!team_event_matches_run(c, id)
      <3>1. id \in 1 .. Len(events)
        BY <1>2, <2>1, <2>2, FeedAssumption DEF Told, E!Id
      <3> QED
        BY <1>3, <3>1 DEF E!team_event_matches_run
    <2>3. \A id \in E!Id : fsent'[c][id] = IF id <= fcursor'[c] /\ E!team_event_matches_run(c, id)' THEN 1 ELSE 0
      BY <1>1, <2>1, <2>2 DEF Told
    <2>4. fcursor'[c] <= Len(events') /\ known'[c] <= Len(events')
      BY <1>1, <1>2, <1>3, <2>1 DEF Told
    <2> QED
      BY <1>1, <2>1, <2>3, <2>4 DEF Told
  <1>7. OneSaver'
    BY <1>1 DEF FeedInv, OneSaver
  <1> QED
    BY <1>5, <1>6, <1>7 DEF FeedInv

\* A step of one stream.
LEMMA FeedStream ==
    ASSUME FeedInv, NEW c \in E!Viewer,
           UNCHANGED <<events, frow, phase, due, logs, json, md, mixed, controls>>,
           fpc' \in [E!Viewer -> {"idle", "backlog", "row", "poll", "closed"}],
           fcursor' \in [E!Viewer -> E!Position], taken' \in [E!Viewer -> 0 .. Page], ended' \subseteq E!Viewer,
           fsent' \in [E!Viewer -> [E!Id -> Nat]], known' \in [E!Viewer -> E!Position], cut' \subseteq E!Viewer,
           Told(c)',
           \A u \in E!Viewer \ {c} :
             /\ fpc'[u] = fpc[u] /\ fcursor'[u] = fcursor[u] /\ taken'[u] = taken[u] /\ fsent'[u] = fsent[u]
             /\ known'[u] = known[u] /\ (u \in cut' <=> u \in cut)
    PROVE  FeedInv'
  <1>1. E!TypeOK'
    BY DEF FeedInv, E!TypeOK
  <1>2. ASSUME NEW u \in E!Viewer \ {c} PROVE Told(u)'
    BY DEF FeedInv, Told, E!team_event_matches_run
  <1>3. OneSaver'
    BY DEF FeedInv, OneSaver
  <1> QED
    BY <1>1, <1>2, <1>3 DEF FeedInv

LEMMA FeedRow ==
    ASSUME FeedInv, NEW c \in E!Viewer, E!Open(c) \/ E!ReadRow(c)
    PROVE  FeedInv'
  <1>1. PICK l \in {"backlog", "poll"}, n \in {0, Len(events)} :
          /\ fpc' = [fpc EXCEPT ![c] = l] /\ known' = [known EXCEPT ![c] = n]
          /\ ended' \in {ended \ {c}, ended \cup {c}}
          /\ UNCHANGED <<events, frow, phase, due, fcursor, taken, fsent, cut, logs, json, md, mixed, controls>>
    BY DEF E!Open, E!ReadRow, E!files
  <1>2. /\ Len(events) \in E!Position /\ 0 \in E!Position /\ Len(events) \in Nat
    BY FeedAssumption DEF FeedInv, E!TypeOK, E!Position
  <1>3. fpc'[c] = l /\ known'[c] = n
    BY <1>1 DEF FeedInv, E!TypeOK
  <1>4. Told(c)'
    BY <1>1, <1>2, <1>3 DEF FeedInv, Told, E!team_event_matches_run
  <1>5. /\ fpc' \in [E!Viewer -> {"idle", "backlog", "row", "poll", "closed"}]
        /\ known' \in [E!Viewer -> E!Position] /\ ended' \subseteq E!Viewer
    BY <1>1, <1>2 DEF FeedInv, E!TypeOK
  <1>6. \A u \in E!Viewer \ {c} : fpc'[u] = fpc[u] /\ known'[u] = known[u]
    BY <1>1 DEF FeedInv, E!TypeOK
  <1>7. /\ fcursor' \in [E!Viewer -> E!Position] /\ taken' \in [E!Viewer -> 0 .. Page]
        /\ fsent' \in [E!Viewer -> [E!Id -> Nat]] /\ cut' \subseteq E!Viewer
    BY <1>1 DEF FeedInv, E!TypeOK
  <1> QED
    BY <1>1, <1>4, <1>5, <1>6, <1>7, FeedStream

\* Where the cursor goes: behind the last hit that there was room for.
LEMMA Advanced ==
    ASSUME NEW k \in Nat, NEW top \in Nat, k <= top, NEW hits \in SUBSET (k + 1 .. top), NEW room \in Nat \ {0}
    PROVE  LET n == E!NoGap(k, top, hits, room) IN
           /\ n \in k .. top
           /\ Cardinality(hits) < room => n = top
  <1>1. CASE Cardinality(hits) < room
    BY <1>1, FeedCardinality DEF E!NoGap
  <1>2. CASE ~(Cardinality(hits) < room)
    <2>1. IsFiniteSet(hits) /\ \A n \in Nat : IsFiniteSet(E!UpTo(n, hits)) /\ Cardinality(E!UpTo(n, hits)) \in Nat
      <3>1. IsFiniteSet(k + 1 .. top)
        BY FS_Interval
      <3>2. \A n \in Nat : E!UpTo(n, hits) \subseteq hits
        BY DEF E!UpTo
      <3> QED
        BY <3>1, <3>2, FS_Subset, FS_CardinalityType
    <2>2. Cardinality(hits) \in Nat
      BY <2>1, FS_CardinalityType
    <2> DEFINE S == {n \in k .. top : Cardinality(E!UpTo(n, hits)) >= room}
    <2>3. top \in S
      <3>1. \A id \in hits : id <= top
        OBVIOUS
      <3>2. E!UpTo(top, hits) = hits
        BY <3>1 DEF E!UpTo
      <3> QED
        BY <1>2, <2>2, <3>2
    <2>4. S \in SUBSET Nat
      OBVIOUS
    <2> HIDE DEF S
    <2>5. PICK n \in S : \A m \in S : n <= m
      BY <2>3, <2>4, Least
    <2>6. n \in k .. top /\ Cardinality(E!UpTo(n, hits)) >= room
      BY DEF S
    <2>7. n # k
      <3>1. E!UpTo(k, hits) = {}
        <4>1. \A id \in hits : ~(id <= k)
          OBVIOUS
        <4> QED
          BY <4>1 DEF E!UpTo
      <3>2. Cardinality({}) = 0
        BY FS_EmptySet
      <3>3. Cardinality(E!UpTo(k, hits)) = 0
        BY <3>1, <3>2, Zenon
      <3>4. CASE n = k
        <4>1. Cardinality(E!UpTo(k, hits)) >= room
          BY <2>6, <3>4
        <4> QED
          BY <3>3, <4>1
      <3> QED
        BY <3>4
    <2>8. Cardinality(E!UpTo(n - 1, hits)) < room
      <3>1. n - 1 \in k .. top /\ ~(n <= n - 1) /\ n - 1 \in Nat
        BY <2>6, <2>7
      <3>2. n - 1 \notin S
        BY <2>5, <3>1
      <3> QED
        BY <2>1, <3>1, <3>2 DEF S
    <2>9. n \in k + 1 .. top
      BY <2>6, <2>7
    <2>10. E!NoGap(k, top, hits, room) =
             CHOOSE m \in k + 1 .. top : Cardinality(E!UpTo(m, hits)) >= room /\ Cardinality(E!UpTo(m - 1, hits)) < room
      BY <1>2, FeedCardinality DEF E!NoGap
    <2>11. E!NoGap(k, top, hits, room) \in k + 1 .. top
      BY <2>6, <2>8, <2>9, <2>10
    <2> QED
      BY <1>2, <2>11
  <1> QED
    BY <1>1, <1>2

LEMMA FeedPoll ==
    ASSUME FeedInv, NEW c \in E!Viewer, E!team_events_since(c)
    PROVE  FeedInv'
  <1> DEFINE k == fcursor[c]
             top == E!list_events(k)
             hits == {id \in k + 1 .. top : E!team_event_matches_run(c, id)}
             room == Page - taken[c]
             n == E!NoGap(k, top, hits, room)
             shown == E!Shown(k, top, hits, room)
             full == Cardinality(hits) >= room
             over == full \/ top - k < Batch
  <1>1. /\ k \in Nat /\ k <= Len(events) /\ Len(events) \in Nat /\ Len(events) <= MaxLog
        /\ taken[c] \in Nat /\ room \in Nat \ {0}
        /\ Told(c)
    BY FeedAssumption DEF FeedInv, E!TypeOK, E!Position, Told
  <1>2. /\ top \in Nat /\ k <= top /\ top <= Len(events)
        /\ top - k < Batch => top = Len(events)
    BY <1>1, FeedAssumption DEF E!list_events
  <1>3. n \in k .. top /\ (Cardinality(hits) < room => n = top)
    <2>1. hits \in SUBSET (k + 1 .. top)
      OBVIOUS
    <2> HIDE DEF hits, room, top, k
    <2> QED
      BY <1>1, <1>2, <2>1, Advanced
  <1>4. Cardinality(hits) \in Nat
    <2>1. hits \subseteq k + 1 .. top
      OBVIOUS
    <2> HIDE DEF hits, k, top
    <2>2. k + 1 \in Int /\ top \in Int
      BY <1>1, <1>2
    <2>3. IsFiniteSet(k + 1 .. top)
      BY <2>2, FS_Interval
    <2> QED
      BY <2>1, <2>3, FS_Subset, FS_CardinalityType
  <1>5. shown = {id \in hits : id <= n}
    BY DEF E!Shown, E!UpTo
  <1>6. /\ UNCHANGED <<events, frow, phase, due, ended, known, logs, json, md, mixed, controls>>
        /\ fpc[c] \in {"backlog", "poll"}
        /\ fcursor' = [fcursor EXCEPT ![c] = n]
        /\ fsent' = [fsent EXCEPT ![c] = [id \in E!Id |-> fsent[c][id] + (IF id \in shown THEN 1 ELSE 0)]]
        /\ taken' = [taken EXCEPT ![c] = IF over THEN 0 ELSE taken[c] + Cardinality(hits)]
        /\ cut' = IF full THEN cut \cup {c} ELSE cut \ {c}
    BY FeedCardinality DEF E!team_events_since, E!Advance, E!files
  <1>7. PICK l \in {"backlog", "poll", "row", "closed"} :
          fpc' = [fpc EXCEPT ![c] = l] /\ (l = "closed" => over)
    <2>1. fpc' = [fpc EXCEPT ![c] = CASE ~over \/ c \in Firehose -> fpc[c]
                                       [] over /\ c \in Watcher /\ fpc[c] = "poll" /\ c \in ended -> "closed"
                                       [] OTHER -> "row"]
      BY FeedCardinality DEF E!team_events_since
    <2>2. CASE ~over \/ c \in Firehose
      <3>1. fpc' = [fpc EXCEPT ![c] = fpc[c]]
        <4> HIDE DEF over
        <4>1. ~(over /\ c \in Watcher)
          BY <2>2, FeedAssumption
        <4> QED
          BY <2>1, <2>2, <4>1
      <3> QED
        BY <1>6, <3>1
    <2>3. CASE over /\ c \notin Firehose
      <3> HIDE DEF over
      <3> QED
        BY <2>1, <2>3
    <2> HIDE DEF over
    <2> QED
      BY <2>2, <2>3
  <1>8. c \in cut' <=> full
    <2> HIDE DEF full
    <2> QED
      BY <1>6
  <1>9. \A id \in E!Id : (id \in shown) <=> (id > k /\ id <= n /\ E!team_event_matches_run(c, id))
    BY <1>1, <1>2, <1>3, <1>5 DEF E!Id
  <1>10. \A id \in E!Id : fsent[c][id] = IF id <= k /\ E!team_event_matches_run(c, id) THEN 1 ELSE 0
    BY <1>1 DEF Told
  <1>11. over => full \/ (top = Len(events))
    BY <1>2
  <1>12. full \/ Cardinality(hits) < room
    BY <1>1, <1>4
  <1>13. (IF over THEN 0 ELSE taken[c] + Cardinality(hits)) \in 0 .. Page - 1
    BY <1>1, <1>4, FeedAssumption
  <1> HIDE DEF over, full, shown, hits, top, room, n
  <1>14. /\ fcursor'[c] = n /\ fpc'[c] = l /\ taken'[c] \in 0 .. Page - 1
         /\ fsent'[c] = [id \in E!Id |-> fsent[c][id] + (IF id \in shown THEN 1 ELSE 0)]
         /\ known'[c] = known[c] /\ events' = events
    BY <1>6, <1>7, <1>13 DEF FeedInv, E!TypeOK
  <1>15. ASSUME NEW id \in E!Id
         PROVE  fsent'[c][id] = IF id <= n /\ E!team_event_matches_run(c, id) THEN 1 ELSE 0
    <2>1. fsent'[c][id] = fsent[c][id] + (IF id \in shown THEN 1 ELSE 0)
      BY <1>14
    <2>2. id \in Int /\ n \in Int /\ k <= n
      BY <1>1, <1>2, <1>3 DEF E!Id
    <2>3. id <= k \/ id > k
      BY <1>1, <2>2
    <2> QED
      BY <1>1, <1>9, <1>10, <2>1, <2>2, <2>3
  <1>16. c \in Watcher \ cut' /\ fpc'[c] = "closed" => known'[c] <= fcursor'[c]
    <2> SUFFICES ASSUME c \notin cut', l = "closed" PROVE known[c] <= n
      BY <1>14
    <2>1. ~full /\ over
      BY <1>7, <1>8
    <2>2. n = Len(events)
      BY <1>3, <1>11, <1>12, <2>1
    <2> QED
      BY <1>1, <2>2 DEF Told
  <1>17. Told(c)'
    <2>1. n <= Len(events) /\ taken'[c] < Page
      BY <1>1, <1>2, <1>3, <1>14, FeedAssumption
    <2>2. E!team_event_matches_run(c, 0)' = E!team_event_matches_run(c, 0) /\ E!Id' = E!Id
      BY <1>14 DEF E!team_event_matches_run
    <2>3. \A id \in E!Id : fsent'[c][id] = IF id <= fcursor'[c] /\ E!team_event_matches_run(c, id)' THEN 1 ELSE 0
      BY <1>14, <1>15 DEF E!team_event_matches_run
    <2>4. fcursor'[c] <= Len(events') /\ known'[c] <= Len(events')
      BY <1>1, <1>14, <2>1 DEF Told
    <2> QED
      BY <1>16, <2>1, <2>3, <2>4 DEF Told
  <1>18. /\ fpc' \in [E!Viewer -> {"idle", "backlog", "row", "poll", "closed"}]
         /\ fcursor' \in [E!Viewer -> E!Position] /\ taken' \in [E!Viewer -> 0 .. Page]
         /\ known' \in [E!Viewer -> E!Position] /\ ended' \subseteq E!Viewer
    <2>1. n \in E!Position
      BY <1>1, <1>2, <1>3, FeedAssumption DEF E!Position
    <2>2. 0 .. Page - 1 \subseteq 0 .. Page
      BY FeedAssumption
    <2> QED
      BY <1>6, <1>7, <1>13, <2>1, <2>2 DEF FeedInv, E!TypeOK
  <1>19. fsent' \in [E!Viewer -> [E!Id -> Nat]]
    <2>1. fsent[c] \in [E!Id -> Nat]
      BY DEF FeedInv, E!TypeOK
    <2>2. [id \in E!Id |-> fsent[c][id] + (IF id \in shown THEN 1 ELSE 0)] \in [E!Id -> Nat]
      BY <2>1
    <2> QED
      BY <1>6, <2>2 DEF FeedInv, E!TypeOK
  <1>20. cut' \subseteq E!Viewer
    BY <1>6 DEF FeedInv, E!TypeOK
  <1>21. \A u \in E!Viewer \ {c} :
           /\ fpc'[u] = fpc[u] /\ fcursor'[u] = fcursor[u] /\ taken'[u] = taken[u] /\ fsent'[u] = fsent[u]
           /\ known'[u] = known[u] /\ (u \in cut' <=> u \in cut)
    BY <1>6, <1>7 DEF FeedInv, E!TypeOK
  <1> QED
    BY <1>6, <1>17, <1>18, <1>19, <1>20, <1>21, FeedStream

\* A step of one request for the logs.
LEMMA FeedSave ==
    ASSUME FeedInv, NEW s \in Saver, E!Save(s)
    PROVE  FeedInv'
  <1>1. UNCHANGED <<events, frow, phase, due, fpc, fcursor, taken, ended, fsent, known, cut, controls>>
    BY DEF E!Save, E!build_team_run_logs_payload, E!WriteJson, E!WriteMarkdown, E!streams
  <1>2. logs \in [Saver -> [at : {"idle", "json", "md"}, found : E!Position]]
        /\ json \in E!Position /\ md \in E!Position /\ mixed \in BOOLEAN
    BY DEF FeedInv, E!TypeOK
  <1>3. E!events_for_run \in E!Position
    <2> DEFINE m == Len(events)
    <2>0. m \in Nat /\ m <= MaxLog /\ m \in Int /\ 1 \in Int /\ m - 1 + 1 = m
      BY FeedAssumption DEF FeedInv, E!TypeOK, E!Position
    <2>1. IsFiniteSet(1 .. m) /\ Cardinality(1 .. m) = m /\ m \in Nat /\ m <= MaxLog
      <3> HIDE DEF m
      <3>1. IsFiniteSet(1 .. m) /\ Cardinality(1 .. m) = IF 1 > m THEN 0 ELSE m - 1 + 1
        BY <2>0, FS_Interval
      <3> QED
        BY <2>0, <3>1
    <2>2. {i \in 1 .. Len(events) : events[i]} \subseteq 1 .. Len(events)
      OBVIOUS
    <2>3. E!Mine \in Nat /\ E!Mine <= Len(events)
      BY <2>1, <2>2, FS_Subset, FS_CardinalityType, FeedCardinality DEF E!Mine
    <2> QED
      BY <2>1, <2>3, FeedAssumption DEF E!events_for_run, E!Position
  <1>4. CASE E!build_team_run_logs_payload(s)
    <2>1. /\ logs[s].at = "idle" /\ UNCHANGED <<json, md>>
          /\ logs' = [logs EXCEPT ![s] = [at |-> "json", found |-> E!events_for_run]]
          /\ mixed' = \E o \in Saver \ {s} : logs[o].at # "idle"
      BY <1>4 DEF E!build_team_run_logs_payload
    <2>2. logs' \in [Saver -> [at : {"idle", "json", "md"}, found : E!Position]] /\ mixed' \in BOOLEAN
      BY <1>2, <1>3, <2>1
    <2>3. OneSaver'
      <3> SUFFICES ASSUME ~mixed'
                   PROVE  /\ logs'[s].at = "json"
                          /\ \A o \in Saver \ {s} : logs'[o].at = "idle"
        BY DEF OneSaver
      <3> QED
        BY <1>2, <2>1
    <2> QED
      BY <1>1, <1>2, <2>1, <2>2, <2>3 DEF FeedInv, E!TypeOK, Told, E!team_event_matches_run
  <1>5. CASE E!WriteJson(s)
    <2>1. /\ logs[s].at = "json" /\ json' = logs[s].found /\ UNCHANGED <<md, mixed>>
          /\ logs' = [logs EXCEPT ![s].at = "md"]
      BY <1>5 DEF E!WriteJson
    <2>2. /\ logs' \in [Saver -> [at : {"idle", "json", "md"}, found : E!Position]] /\ json' \in E!Position
          /\ logs'[s].at = "md" /\ logs'[s].found = logs[s].found
          /\ \A o \in Saver \ {s} : logs'[o] = logs[o]
      BY <1>2, <2>1
    <2>3. OneSaver'
      BY <1>2, <2>1, <2>2 DEF FeedInv, OneSaver
    <2> QED
      BY <1>1, <1>2, <2>1, <2>2, <2>3 DEF FeedInv, E!TypeOK, Told, E!team_event_matches_run
  <1>6. CASE E!WriteMarkdown(s)
    <2>1. /\ logs[s].at = "md" /\ md' = logs[s].found /\ UNCHANGED <<json, mixed>>
          /\ logs' = [logs EXCEPT ![s] = [at |-> "idle", found |-> 0]]
      BY <1>6 DEF E!WriteMarkdown
    <2>2. /\ logs' \in [Saver -> [at : {"idle", "json", "md"}, found : E!Position]] /\ md' \in E!Position
          /\ logs'[s].at = "idle"
          /\ \A o \in Saver \ {s} : logs'[o] = logs[o]
      BY <1>2, <2>1, FeedAssumption DEF E!Position
    <2>3. OneSaver'
      BY <1>2, <2>1, <2>2 DEF FeedInv, OneSaver
    <2> QED
      BY <1>1, <1>2, <2>1, <2>2, <2>3 DEF FeedInv, E!TypeOK, Told, E!team_event_matches_run
  <1> QED
    BY <1>4, <1>5, <1>6 DEF E!Save

LEMMA FeedNext == FeedInv /\ [E!Next]_(E!vars) => FeedInv'
  <1> SUFFICES ASSUME FeedInv, [E!Next]_(E!vars) PROVE FeedInv'
    OBVIOUS
  <1>1. CASE E!Write
    BY <1>1, FeedWrite
  <1>2. ASSUME NEW c \in E!Viewer, E!Stream(c) PROVE FeedInv'
    BY <1>2, FeedRow, FeedPoll DEF E!Stream
  <1>3. ASSUME NEW s \in Saver, E!Save(s) PROVE FeedInv'
    BY <1>3, FeedSave
  <1>4. CASE UNCHANGED E!vars
    BY <1>4 DEF E!vars, E!streams, E!files, FeedInv, E!TypeOK, OneSaver, Told, E!team_event_matches_run
  <1> QED
    BY <1>1, <1>2, <1>3, <1>4 DEF E!Next

\* The events, the streams and the saved logs keep their types, for any clients, pages and
\* bounds.
THEOREM FeedTyped == E!Spec => []E!TypeOK
  <1>1. FeedInv => E!TypeOK
    BY DEF FeedInv
  <1> QED
    BY <1>1, FeedInit, FeedNext, PTL DEF E!Spec

\* Streams send what they are about up to their cursors, once, and one that ends has sent
\* what was recorded before the row that ended it was read; the two files of a run agree
\* when requests come one by one: for any clients, pages and bounds.
THEOREM WatchersAreTold == E!Spec => []WatchersTold
  <1>1. FeedInv => WatchersTold
    <2> SUFFICES ASSUME FeedInv PROVE WatchersTold
      OBVIOUS
    <2>1. E!NoneSkipped
      BY DEF FeedInv, Told, E!NoneSkipped
    <2>2. E!EndedKnowsAll
      BY DEF FeedInv, Told, E!EndedKnowsAll, E!Viewer
    <2>3. E!LogsAgree
      BY DEF FeedInv, OneSaver, E!LogsAgree
    <2> QED
      BY <2>1, <2>2, <2>3 DEF WatchersTold, E!WatchersTold
  <1> QED
    BY <1>1, FeedInit, FeedNext, PTL DEF E!Spec

------------------------------------------------------------------------------
(* Inspection (N), for any repository and limits.  The files of a module   *)
(* are packed in the order of their ranks; pack takes the last of a set    *)
(* and adds it to what is packed of the others, so what it does is shown   *)
(* of a smallest set for which it would fail.                              *)

\* The instance counts the elements of a set as this module does.
LEMMA InspectionCardinality == \A S : N!Cardinality(S) = Cardinality(S)
  BY DEF N!Cardinality, Cardinality

\* A file has one of the ranks that _module_file_sort_key gives.
LEMMA Ranks == \A f : N!Rank(f) \in 0 .. 6
  BY DEF N!Rank

\* The files are the first numbers.
LEMMA Files == N!File = 1 .. Len(Paths) /\ N!File \subseteq Nat /\ Len(Paths) \in Nat
  BY InspectionAssumption DEF N!File

\* There are finitely many files.
LEMMA FileFinite == IsFiniteSet(N!File)
  <1>1. 1 \in Int /\ Len(Paths) \in Int
    BY Files
  <1> QED
    BY <1>1, Files, FS_Interval

\* A set of files has a last one: the last of those of the greatest rank.
LEMMA LastFile ==
    ASSUME NEW S \in SUBSET N!File, S # {}
    PROVE  N!Last(S) \in S /\ \A g \in S \ {N!Last(S)} : N!Before(g, N!Last(S))
  <1> DEFINE Low == {6 - N!Rank(f) : f \in S}
  <1>1. Low \in SUBSET Nat /\ Low # {}
    BY Ranks
  <1>2. PICK n \in Low : \A m \in Low : n <= m
    BY <1>1, Least
  <1>3. PICK top \in S : n = 6 - N!Rank(top)
    BY <1>2
  <1>4. ASSUME NEW f \in S PROVE N!Rank(f) <= N!Rank(top)
    <2>1. n <= 6 - N!Rank(f)
      BY <1>2
    <2>2. N!Rank(f) \in 0 .. 6 /\ N!Rank(top) \in 0 .. 6
      BY Ranks
    <2> QED
      BY <1>3, <2>1, <2>2
  <1> DEFINE Top == {f \in S : N!Rank(f) = N!Rank(top)}
             Behind == {Len(Paths) - f : f \in Top}
  <1>5. Behind \in SUBSET Nat /\ Behind # {}
    BY Files
  <1>6. PICK k \in Behind : \A m \in Behind : k <= m
    BY <1>5, Least
  <1>7. PICK final \in Top : k = Len(Paths) - final
    BY <1>6
  <1>8. ASSUME NEW f \in Top PROVE f <= final
    <2>1. k <= Len(Paths) - f
      BY <1>6
    <2>2. f \in Nat /\ final \in Nat
      BY Files
    <2> QED
      BY <1>7, <2>1, <2>2, Files
  <1>9. ASSUME NEW g \in S \ {final} PROVE N!Before(g, final)
    <2>1. CASE N!Rank(g) = N!Rank(top)
      <3>1. g <= final /\ g # final /\ N!Rank(g) = N!Rank(final)
        BY <1>7, <1>8, <1>9, <2>1
      <3>2. g \in Nat /\ final \in Nat
        BY Files
      <3> QED
        BY <3>1, <3>2 DEF N!Before
    <2>2. CASE N!Rank(g) # N!Rank(top)
      <3>1. N!Rank(g) <= N!Rank(final) /\ N!Rank(g) # N!Rank(final)
        BY <1>4, <1>7, <1>9, <2>2
      <3>2. N!Rank(g) \in 0 .. 6 /\ N!Rank(final) \in 0 .. 6
        BY Ranks
      <3> QED
        BY <3>1, <3>2 DEF N!Before
    <2> QED
      BY <2>1, <2>2
  <1>10. final \in S /\ \A g \in S \ {final} : N!Before(g, final)
    BY <1>7, <1>9
  <1> QED
    BY <1>10, Zenon DEF N!Last

\* The last file of a set is the last of any part it is in.
LEMMA LastOfPart ==
    ASSUME NEW T \in SUBSET N!File, NEW S \in SUBSET T, N!Last(T) \in S
    PROVE  N!Last(S) = N!Last(T)
  <1>1. N!Last(T) \in T /\ \A g \in T \ {N!Last(T)} : N!Before(g, N!Last(T))
    BY LastFile
  <1>2. N!Last(S) \in S /\ \A g \in S \ {N!Last(S)} : N!Before(g, N!Last(S))
    BY LastFile
  <1>3. ASSUME N!Last(S) # N!Last(T) PROVE FALSE
    <2>1. N!Before(N!Last(S), N!Last(T)) /\ N!Before(N!Last(T), N!Last(S))
      BY <1>1, <1>2, <1>3
    <2>2. N!Last(S) \in Nat /\ N!Last(T) \in Nat
      BY <1>1, <1>2, Files
    <2> QED
      BY <2>1, <2>2, Ranks DEF N!Before
  <1> QED
    BY <1>3

\* What the files S come to if p is what smaller sets come to (pack).
FilledOne(p, S, len) ==
    IF S = {} THEN [files |-> {}, chars |-> 0, omitted |-> 0]
    ELSE N!fill(p[S \ {N!Last(S)}], N!Last(S), N!_module_file_text(len[N!Last(S)]))

\* p is what each set of the files comes to.
Fills(p, files, len) == p = [S \in SUBSET files |-> FilledOne(p, S, len)]

\* Every set of files can be packed: what is packed of the last one is added to what is
\* packed of the others.
LEMMA PackingExists ==
    ASSUME NEW len, NEW files \in SUBSET N!File
    PROVE  \E p : Fills(p, files, len)
  <1> DEFINE Without == {n \in Nat : \E T \in SUBSET files : Cardinality(T) = n /\ ~ \E p : Fills(p, T, len)}
  <1>1. IsFiniteSet(files)
    BY FileFinite, FS_Subset
  <1>2. ASSUME Without # {} PROVE FALSE
    <2>1. PICK n \in Without : \A m \in Without : n <= m
      BY <1>2, Least
    <2>2. PICK T \in SUBSET files : Cardinality(T) = n /\ ~ \E p : Fills(p, T, len)
      BY <2>1
    <2>3. CASE T = {}
      <3> DEFINE q == [S \in SUBSET {} |-> [files |-> {}, chars |-> 0, omitted |-> 0]]
      <3>1. q = [S \in SUBSET {} |-> FilledOne(q, S, len)]
        BY DEF FilledOne
      <3>2. Fills(q, T, len)
        BY <2>3, <3>1 DEF Fills
      <3> QED
        BY <2>2, <3>2
    <2>4. CASE T # {}
      <3> DEFINE l == N!Last(T)
                 rest == T \ {l}
      <3>1. l \in T /\ IsFiniteSet(T)
        BY <1>1, <2>4, LastFile, FS_Subset
      <3>2. Cardinality(rest) = n - 1 /\ n - 1 \in Nat
        <4>1. Cardinality(rest) = Cardinality(T) - 1 /\ IsFiniteSet(rest)
          BY <3>1, FS_RemoveElement
        <4>2. Cardinality(rest) \in Nat
          BY <4>1, FS_CardinalityType
        <4> QED
          BY <2>2, <4>1, <4>2
      <3>3. PICK p : Fills(p, rest, len)
        <4>1. n - 1 \notin Without
          BY <2>1, <3>2
        <4> QED
          BY <3>2, <4>1
      <3> HIDE DEF l, rest
      <3> DEFINE q == [S \in SUBSET T |->
                         IF l \in S THEN N!fill(p[S \ {l}], l, N!_module_file_text(len[l])) ELSE p[S]]
      <3>4. ASSUME NEW S \in SUBSET T PROVE q[S] = FilledOne(q, S, len)
        <4>1. CASE l \in S
          <5>1. N!Last(S) = l
            BY <4>1, LastOfPart DEF l
          <5>2. S \ {l} \in SUBSET T /\ l \notin S \ {l} /\ S # {}
            BY <4>1
          <5>3. q[S \ {l}] = p[S \ {l}]
            BY <5>2
          <5>4. q[S] = N!fill(p[S \ {l}], l, N!_module_file_text(len[l]))
            BY <4>1
          <5> QED
            BY <5>1, <5>2, <5>3, <5>4 DEF FilledOne
        <4>2. CASE l \notin S
          <5>1. S \in SUBSET rest
            BY <4>2 DEF rest
          <5>2. q[S] = p[S]
            BY <4>2
          <5>3. p[S] = FilledOne(p, S, len)
            BY <3>3, <5>1, Zenon DEF Fills
          <5>4. FilledOne(p, S, len) = FilledOne(q, S, len)
            <6>1. CASE S = {}
              BY <6>1 DEF FilledOne
            <6>2. CASE S # {}
              <7>1. S \ {N!Last(S)} \in SUBSET T /\ l \notin S \ {N!Last(S)}
                BY <4>2
              <7>2. q[S \ {N!Last(S)}] = p[S \ {N!Last(S)}]
                BY <7>1
              <7> QED
                BY <6>2, <7>2 DEF FilledOne
            <6> QED
              BY <6>1, <6>2
          <5> QED
            BY <5>2, <5>3, <5>4
        <4> QED
          BY <4>1, <4>2
      <3>5. q = [S \in SUBSET T |-> q[S]]
        OBVIOUS
      <3> HIDE DEF q
      <3>6. Fills(q, T, len)
        BY <3>4, <3>5, Zenon DEF Fills
      <3> QED
        BY <2>2, <3>6
    <2> QED
      BY <2>3, <2>4
  <1>3. Cardinality(files) \in Nat
    BY <1>1, FS_CardinalityType
  <1> QED
    BY <1>2, <1>3

\* What files come to: nothing is lost, it is not more than fits, and a file that was
\* omitted does not fit, now as then.
Good(S, a, len) ==
    /\ a \in [files : SUBSET S, chars : Nat, omitted : Nat]
    /\ S # {} => a.files # {}
    /\ a.files = {} => a.chars = 0
    /\ a.chars <= ChunkChars
    /\ Cardinality(a.files) + a.omitted = Cardinality(S)
    /\ \A f \in S \ a.files :
         /\ a.chars + N!_module_file_text(len[f]) > ChunkChars
         /\ \A g \in a.files : N!Before(f, g) => N!_module_file_text(len[g]) < N!_module_file_text(len[f])

\* What is read of one file fits in a chunk by itself.
LEMMA TextFits == \A n \in Nat : N!_module_file_text(n) \in Nat /\ N!_module_file_text(n) <= ChunkChars
  <1>1. (FileChars - 32) \div 2 \in Nat /\ 2 * ((FileChars - 32) \div 2) <= FileChars - 32
    BY InspectionAssumption
  <1> QED
    BY <1>1, InspectionAssumption DEF N!_module_file_text

\* Adding the last file, or omitting it, keeps that account.
LEMMA FillGood ==
    ASSUME NEW len, NEW S \in SUBSET N!File, S # {}, \A f \in S : len[f] \in Nat,
           NEW a, Good(S \ {N!Last(S)}, a, len)
    PROVE  Good(S, N!fill(a, N!Last(S), N!_module_file_text(len[N!Last(S)])), len)
  <1> DEFINE l == N!Last(S)
             t == N!_module_file_text(len[l])
             b == N!fill(a, l, t)
  <1>1. l \in S /\ \A g \in S \ {l} : N!Before(g, l)
    BY LastFile
  <1>2. t \in Nat /\ t <= ChunkChars
    BY <1>1, TextFits
  <1>3. IsFiniteSet(S) /\ IsFiniteSet(a.files)
    BY FileFinite, FS_Subset DEF Good
  <1>4. Cardinality(S) = Cardinality(S \ {l}) + 1
    <2>1. Cardinality(S \ {l}) = Cardinality(S) - 1 /\ Cardinality(S) \in Nat
      BY <1>1, <1>3, FS_RemoveElement, FS_CardinalityType
    <2> QED
      BY <2>1
  <1>5. l \notin a.files /\ a.files \subseteq S \ {l}
    BY DEF Good
  <1>6. Cardinality(a.files) \in Nat /\ Cardinality(a.files \cup {l}) = Cardinality(a.files) + 1
    BY <1>3, <1>5, FS_AddElement, FS_CardinalityType
  <1>7. \A f \in S : N!_module_file_text(len[f]) \in Nat
    BY TextFits
  <1> HIDE DEF l, t
  <1>8. ASSUME a.files # {} /\ a.chars + t > ChunkChars PROVE Good(S, b, len)
    <2>1. b = [a EXCEPT !.omitted = @ + 1]
      BY <1>8 DEF N!fill
    <2>2. /\ b \in [files : SUBSET S, chars : Nat, omitted : Nat]
          /\ b.files = a.files /\ b.chars = a.chars /\ b.omitted = a.omitted + 1
      BY <2>1 DEF Good, l
    <2> HIDE DEF b
    <2>3. Cardinality(b.files) + b.omitted = Cardinality(S)
      BY <1>4, <1>6, <2>2 DEF Good, l
    <2>4. ASSUME NEW f \in S \ b.files
          PROVE  /\ b.chars + N!_module_file_text(len[f]) > ChunkChars
                 /\ \A g \in b.files : N!Before(f, g) => N!_module_file_text(len[g]) < N!_module_file_text(len[f])
      <3>1. CASE f = l
        <4>1. \A g \in b.files : ~ N!Before(f, g)
          <5> TAKE g \in b.files
          <5>1. N!Before(g, l) /\ g \in Nat /\ l \in Nat
            BY <1>1, <1>5, <2>2, Files
          <5> QED
            BY <3>1, <5>1, Ranks DEF N!Before
        <4> QED
          BY <1>8, <2>2, <3>1, <4>1 DEF t
      <3>2. CASE f # l
        BY <2>2, <2>4, <3>2 DEF Good, l
      <3> QED
        BY <3>1, <3>2
    <2> QED
      <3>1. b.files # {} /\ b.chars <= ChunkChars
        BY <1>8, <2>2 DEF Good
      <3> QED
        BY <2>2, <2>3, <2>4, <3>1, Zenon DEF Good
  <1>9. ASSUME ~(a.files # {} /\ a.chars + t > ChunkChars) PROVE Good(S, b, len)
    <2>1. b = [a EXCEPT !.files = @ \cup {l}, !.chars = @ + t]
      BY <1>9, Zenon DEF N!fill
    <2>2. /\ b \in [files : SUBSET S, chars : Nat, omitted : Nat]
          /\ b.files = a.files \cup {l} /\ b.chars = a.chars + t /\ b.omitted = a.omitted
      <3>1. a \in [files : SUBSET (S \ {l}), chars : Nat, omitted : Nat]
        BY DEF Good, l
      <3>2. b = [files |-> a.files \cup {l}, chars |-> a.chars + t, omitted |-> a.omitted]
        BY <2>1, <3>1
      <3>3. a.files \cup {l} \in SUBSET S /\ a.chars + t \in Nat /\ a.omitted \in Nat
        BY <1>1, <1>2, <3>1
      <3> QED
        BY <3>2, <3>3
    <2> HIDE DEF b
    <2>3. b.chars <= ChunkChars
      BY <1>2, <1>9, <2>2, InspectionAssumption DEF Good
    <2>4. Cardinality(b.files) + b.omitted = Cardinality(S)
      BY <1>4, <1>6, <2>2 DEF Good, l
    <2>5. ASSUME NEW f \in S \ b.files
          PROVE  /\ b.chars + N!_module_file_text(len[f]) > ChunkChars
                 /\ \A g \in b.files : N!Before(f, g) => N!_module_file_text(len[g]) < N!_module_file_text(len[f])
      <3>1. f \in (S \ {l}) \ a.files
        BY <2>2, <2>5
      <3>2. a.files # {} /\ a.chars + t <= ChunkChars
        BY <1>2, <1>9, <3>1, InspectionAssumption DEF Good, l
      <3>3. a.chars + N!_module_file_text(len[f]) > ChunkChars /\ a.chars \in Nat
        BY <3>1 DEF Good, l
      <3>4. b.chars + N!_module_file_text(len[f]) > ChunkChars
        BY <1>2, <1>7, <2>2, <3>3, InspectionAssumption
      <3>5. ASSUME NEW g \in b.files, N!Before(f, g)
            PROVE  N!_module_file_text(len[g]) < N!_module_file_text(len[f])
        <4>1. CASE g = l
          BY <1>2, <1>7, <3>2, <3>3, <4>1, InspectionAssumption DEF t
        <4>2. CASE g # l
          BY <2>2, <3>1, <3>5, <4>2 DEF Good, l
        <4> QED
          BY <4>1, <4>2
      <3> QED
        BY <3>4, <3>5
    <2> QED
      <3>1. b.files # {}
        BY <2>2
      <3> QED
        BY <2>2, <2>3, <2>4, <2>5, <3>1, Zenon DEF Good
  <1> QED
    BY <1>8, <1>9 DEF l, t

\* So it holds of every set of files: of none smaller than the smallest without it.
LEMMA PackGood ==
    ASSUME NEW len, NEW files \in SUBSET N!File, \A f \in files : len[f] \in Nat
    PROVE  Good(files, N!pack(files, len), len)
  <1> DEFINE p == CHOOSE q : Fills(q, files, len)
             Bad == {n \in Nat : \E S \in SUBSET files : Cardinality(S) = n /\ ~Good(S, p[S], len)}
  <1>1. N!pack(files, len) = p[files]
    BY DEF N!pack, Fills, FilledOne
  <1>2. Fills(p, files, len)
    BY PackingExists
  <1> HIDE DEF p
  <1>3. ASSUME NEW S \in SUBSET files PROVE p[S] = FilledOne(p, S, len)
    BY <1>2, Zenon DEF Fills
  <1>4. IsFiniteSet(files)
    BY FileFinite, FS_Subset
  <1>5. ASSUME Bad # {} PROVE FALSE
    <2>1. PICK n \in Bad : \A m \in Bad : n <= m
      BY <1>5, Least
    <2>2. PICK S \in SUBSET files : Cardinality(S) = n /\ ~Good(S, p[S], len)
      BY <2>1
    <2>3. CASE S = {}
      <3>1. p[S] = [files |-> {}, chars |-> 0, omitted |-> 0]
        BY <1>3, <2>3 DEF FilledOne
      <3>2. Cardinality({}) = 0
        BY FS_EmptySet
      <3>3. Good(S, p[S], len)
        BY <2>3, <3>1, <3>2, InspectionAssumption DEF Good
      <3> QED
        BY <2>2, <3>3
    <2>4. CASE S # {}
      <3> DEFINE rest == S \ {N!Last(S)}
      <3>1. N!Last(S) \in S /\ IsFiniteSet(S)
        BY <1>4, <2>4, LastFile, FS_Subset
      <3>2. Cardinality(rest) = Cardinality(S) - 1 /\ Cardinality(rest) \in Nat
        <4>1. Cardinality(rest) = Cardinality(S) - 1 /\ IsFiniteSet(rest)
          BY <3>1, FS_RemoveElement
        <4> QED
          BY <4>1, FS_CardinalityType
      <3>3. Good(rest, p[rest], len)
        <4>1. n \in Nat /\ ~(n <= Cardinality(rest))
          BY <2>1, <2>2, <3>2
        <4>2. Cardinality(rest) \notin Bad
          BY <2>1, <4>1, Zenon
        <4> QED
          BY <3>2, <4>2
      <3>4. p[S] = N!fill(p[rest], N!Last(S), N!_module_file_text(len[N!Last(S)]))
        BY <1>3, <2>4 DEF FilledOne
      <3>5. Good(S, p[S], len)
        BY <2>4, <3>3, <3>4, FillGood
      <3> QED
        BY <2>2, <3>5
    <2> QED
      BY <2>3, <2>4
  <1>6. Cardinality(files) \in Nat
    BY <1>4, FS_CardinalityType
  <1> QED
    BY <1>1, <1>5, <1>6

\* Chunks of listed files are chunks, and account for the files of their modules.
LEMMA ChunksGood ==
    ASSUME NEW listed \in SUBSET N!File, NEW len \in [N!File -> Nat \cup {N!Gone}],
           NEW k \in N!_repository_module_chunks(listed, len)
    PROVE  /\ k \in N!Chunk
           /\ \E files \in SUBSET N!File :
                 /\ files = N!Texts(k.module, listed, len) /\ files # {}
                 /\ k.count = Cardinality(files)
                 /\ Good(files, [files |-> k.files, chars |-> k.chars, omitted |-> k.omitted], len)
  <1>1. PICK f \in listed :
          /\ Paths[f].ext \in N!TextExt /\ len[f] # N!Gone
          /\ LET files == N!Texts(N!_repository_chunk_label(f), listed, len)
             IN k = N!chunk(N!_repository_chunk_label(f), files, N!pack(files, len))
    BY DEF N!_repository_module_chunks
  <1> DEFINE m == N!_repository_chunk_label(f)
             files == N!Texts(m, listed, len)
             p == N!pack(files, len)
  <1>2. /\ files \in SUBSET N!File /\ f \in files
        /\ \A g \in files : len[g] \in Nat
    BY <1>1 DEF N!Texts
  <1>3. Good(files, p, len)
    BY <1>2, PackGood
  <1>4. m \in {N!_repository_chunk_label(g) : g \in N!File}
    BY <1>1
  <1>5. Cardinality(files) \in Nat
    BY <1>2, FileFinite, FS_Subset, FS_CardinalityType
  <1> HIDE DEF m, files, p
  <1>6. k = [module |-> m, count |-> Cardinality(files), files |-> p.files, chars |-> p.chars,
             omitted |-> p.omitted]
    BY <1>1, InspectionCardinality DEF m, files, p, N!chunk
  <1>7. p \in [files : SUBSET files, chars : Nat, omitted : Nat]
    BY <1>3 DEF Good
  <1>8. p = [files |-> k.files, chars |-> k.chars, omitted |-> k.omitted]
    BY <1>6, <1>7
  <1>9. k \in N!Chunk
    BY <1>2, <1>4, <1>5, <1>6, <1>7 DEF N!Chunk
  <1>10. k.module = m /\ k.count = Cardinality(files)
    BY <1>6
  <1> QED
    BY <1>2, <1>3, <1>8, <1>9, <1>10 DEF files

------------------------------------------------------------------------------
(* The commands: the first candidate, and the first of another family.     *)

\* A command is where Commands has it.
LEMMA CommandPlaces ==
    \A cmd \in N!Command : N!At(cmd) \in Nat /\ N!Commands[N!At(cmd)] = cmd
  <1>1. Len(N!Commands) \in Nat
    BY DEF N!Commands
  <1> QED
    BY <1>1 DEF N!Command, N!At

\* Of some commands one comes first.
LEMMA FirstCommand ==
    ASSUME NEW cmds \in SUBSET N!Command, cmds # {}
    PROVE  N!First(cmds) \in cmds /\ \A other \in cmds : N!At(N!First(cmds)) <= N!At(other)
  <1> DEFINE Places == {N!At(cmd) : cmd \in cmds}
  <1>1. Places \in SUBSET Nat /\ Places # {}
    BY CommandPlaces
  <1>2. PICK n \in Places : \A k \in Places : n <= k
    BY <1>1, Least
  <1>3. PICK cmd \in cmds : n = N!At(cmd)
    BY <1>2
  <1>4. \A other \in cmds : N!At(cmd) <= N!At(other)
    BY <1>2, <1>3
  <1> QED
    BY <1>4, Zenon DEF N!First

\* The commands sel are of different families; a candidate that is not one of them gave way
\* to one of its family or to two before it.
Covering(candidates, sel) ==
    LET run == {sel[i] : i \in 1 .. Len(sel)} IN
    /\ sel \in Seq(N!Command)
    /\ \A i, j \in 1 .. Len(sel) : i # j => N!Family(sel[i]) # N!Family(sel[j])
    /\ \A cmd \in candidates \ run :
          \/ \E other \in run : N!Family(other) = N!Family(cmd) /\ N!At(other) < N!At(cmd)
          \/ Cardinality({other \in run : N!At(other) < N!At(cmd)}) = 2

\* A set of two different elements has two.
LEMMA PairHasTwo ==
    ASSUME NEW a, NEW b, a # b
    PROVE  Cardinality({a, b}) = 2
  <1>1. Cardinality({a}) = 1 /\ IsFiniteSet({a})
    BY FS_Singleton
  <1>2. b \notin {a}
    OBVIOUS
  <1>3. Cardinality({a} \cup {b}) = Cardinality({a}) + 1
    BY <1>1, <1>2, FS_AddElement, Zenon
  <1>4. Cardinality({a} \cup {b}) = 1 + 1
    BY <1>1, <1>3, Zenon
  <1>5. {a} \cup {b} = {a, b}
    OBVIOUS
  <1>6. Cardinality({a, b}) = 1 + 1
    BY <1>4, <1>5, Zenon
  <1>7. 1 + 1 = 2
    OBVIOUS
  <1> QED
    BY <1>6, <1>7, Zenon

\* What _select_baseline_commands makes of any candidates covers them.
LEMMA Selection ==
    ASSUME NEW candidates \in SUBSET N!Command
    PROVE  Covering(candidates, N!_select_baseline_commands(candidates))
  <1> DEFINE one == N!First(candidates)
             rest == {cmd \in candidates : N!Family(cmd) # N!Family(one)}
             two == N!First(rest)
             sel == N!_select_baseline_commands(candidates)
             run == {sel[i] : i \in 1 .. Len(sel)}
  <1>1. ASSUME candidates = {} PROVE Covering(candidates, sel)
    <2>1. sel = <<>>
      BY <1>1 DEF N!_select_baseline_commands
    <2> HIDE DEF sel
    <2> QED
      BY <1>1, <2>1 DEF Covering
  <1>2. ASSUME candidates # {}
        PROVE  one \in candidates /\ \A cmd \in candidates : cmd # one => N!At(one) < N!At(cmd)
    <2>1. one \in candidates /\ \A cmd \in candidates : N!At(one) <= N!At(cmd)
      BY <1>2, FirstCommand
    <2> QED
      BY <2>1, CommandPlaces
  <1>3. ASSUME candidates # {}, rest = {} PROVE Covering(candidates, sel)
    <2>1. sel = <<one>>
      BY <1>3 DEF N!_select_baseline_commands
    <2>2. \A cmd \in candidates : N!Family(one) = N!Family(cmd)
      BY <1>3
    <2> HIDE DEF sel, one
    <2>3. run = {one}
      BY <2>1
    <2>4. sel \in Seq(N!Command) /\ Len(sel) = 1
      BY <1>2, <1>3, <2>1
    <2>5. \A cmd \in candidates \ run : N!Family(one) = N!Family(cmd) /\ N!At(one) < N!At(cmd)
      BY <1>2, <1>3, <2>2, <2>3
    <2> QED
      BY <2>3, <2>4, <2>5 DEF Covering
  <1>4. ASSUME candidates # {}, rest # {} PROVE Covering(candidates, sel)
    <2>1. sel = <<one, two>>
      BY <1>4 DEF N!_select_baseline_commands
    <2>2. two \in rest /\ \A cmd \in rest : cmd # two => N!At(two) < N!At(cmd)
      <3>1. two \in rest /\ \A cmd \in rest : N!At(two) <= N!At(cmd)
        BY <1>4, FirstCommand
      <3> QED
        BY <3>1, CommandPlaces
    <2>3. one # two /\ two \in candidates /\ N!Family(one) # N!Family(two)
      BY <2>2
    <2>4. N!At(one) \in Nat /\ N!At(two) \in Nat
      BY <1>2, <1>4, <2>3, CommandPlaces
    <2>5. \A cmd \in candidates \ rest : N!Family(cmd) = N!Family(one)
      OBVIOUS
    <2> HIDE DEF sel, one, two, rest
    <2>6. run = {one, two} /\ sel \in Seq(N!Command) /\ Len(sel) = 2
      BY <1>2, <1>4, <2>1, <2>3
    <2>7. \A i, j \in 1 .. Len(sel) : i # j => N!Family(sel[i]) # N!Family(sel[j])
      BY <2>1, <2>3, <2>6
    <2>8. ASSUME NEW cmd \in candidates \ run
          PROVE  \/ \E other \in run : N!Family(other) = N!Family(cmd) /\ N!At(other) < N!At(cmd)
                 \/ Cardinality({other \in run : N!At(other) < N!At(cmd)}) = 2
      <3>1. N!At(one) < N!At(cmd)
        BY <1>2, <1>4, <2>6, <2>8
      <3>2. CASE cmd \in rest
        <4>1. {other \in run : N!At(other) < N!At(cmd)} = {one, two}
          BY <2>2, <2>6, <2>8, <3>1, <3>2
        <4>2. Cardinality({one, two}) = 2
          BY <2>3, PairHasTwo
        <4> QED
          BY <4>1, <4>2
      <3>3. CASE cmd \notin rest
        BY <2>5, <2>6, <2>8, <3>1, <3>3
      <3> QED
        BY <3>2, <3>3
    <2> QED
      BY <2>6, <2>7, <2>8 DEF Covering
  <1> QED
    BY <1>1, <1>3, <1>4

\* The candidates are commands.
LEMMA Candidates ==
    ASSUME manifest \in Manifests, NEW listed
    PROVE  N!_discover_test_command_candidates(listed) \in SUBSET N!Command
  <1>1. "python -m unittest" \in N!Command /\ "pytest -q" \in N!Command
    <2>1. Len(N!Commands) = 8 /\ N!Commands[3] = "python -m unittest" /\ N!Commands[4] = "pytest -q"
      BY DEF N!Commands
    <2>2. 3 \in 1 .. 8 /\ 4 \in 1 .. 8
      OBVIOUS
    <2> QED
      BY <2>1, <2>2, Zenon DEF N!Command
  <1>2. manifest \ {"python"} \subseteq N!Command
    BY InspectionAssumption
  <1> QED
    BY <1>1, <1>2 DEF N!_discover_test_command_candidates

------------------------------------------------------------------------------
(* The runs.  Until its commands start, a run that no other has crossed    *)
(* has the worktree as its reset left it.                                  *)
Unspoilt(r) ==
    /\ npc[r] = "sync" => saw[r] = {}
    /\ npc[r] \in {"list", "read", "baseline"} => tree = ref[r]
    /\ npc[r] \in {"list", "read"} => dirty = FALSE
    /\ saw[r] \subseteq {<<ref[r], FALSE>>}

\* What r listed is there, and what it packed is what there is.
PackedAsRead(r) ==
    /\ npc[r] \in {"read", "baseline"} => \A f \in tracked[r] : N!Lengths[f] # N!Gone
    /\ npc[r] = "baseline" => chunks[r] = N!_repository_module_chunks(tracked[r], N!Lengths)

\* The commands that r is to run.
Selected(r) == N!_select_baseline_commands(N!_discover_test_command_candidates(tracked[r]))

\* r has run the first of the commands it selects, and in the end all of them.
RunInOrder(r) ==
    /\ npc[r] \in {"sync", "list", "read"} => baseline[r] = <<>>
    /\ npc[r] \in {"baseline", "scan"} =>
         /\ Len(baseline[r]) <= Len(Selected(r))
         /\ \A i \in 1 .. Len(baseline[r]) : baseline[r][i] = Selected(r)[i]
    /\ npc[r] = "scan" => Len(baseline[r]) = Len(Selected(r))

InspectionInv ==
    /\ N!TypeOK
    /\ \A r \in Inspector : npc[r] # "idle" => tree \in Scanned
    /\ \A r \in Inspector \ ncrossed : Unspoilt(r) /\ PackedAsRead(r)
    /\ \A r \in Inspector : RunInOrder(r)

LEMMA InspectionInit == N!Init => InspectionInv
  <1> SUFFICES ASSUME N!Init PROVE InspectionInv
    OBVIOUS
  <1>1. branch \in Scanned /\ tree \in Scanned \cup {N!None} /\ dirty \in BOOLEAN
    BY InspectionAssumption DEF N!Init
  <1>2. scans \in 0 .. MaxScans
    BY InspectionAssumption DEF N!Init
  <1>3. baseline \in [Inspector -> Seq(N!Command)]
    BY DEF N!Init
  <1>4. N!TypeOK
    BY <1>1, <1>2, <1>3, Zenon DEF N!Init, N!TypeOK
  <1>5. \A r \in Inspector : npc[r] = "idle" /\ saw[r] = {}
    BY DEF N!Init
  <1> QED
    BY <1>4, <1>5 DEF InspectionInv, Unspoilt, PackedAsRead, RunInOrder

\* Who uses the worktree while another run changes it is crossed.
LEMMA Crossing ==
    ASSUME NEW r \in Inspector, NEW q \in Inspector, q # r, N!Cross(r), q \notin ncrossed'
    PROVE  npc[q] \in {"idle", "done"} /\ q \notin ncrossed
  BY DEF N!Cross, N!Using

\* What a run keeps while others work.
Keeps(q) ==
    /\ npc'[q] = npc[q] /\ ref'[q] = ref[q] /\ tracked'[q] = tracked[q] /\ saw'[q] = saw[q]
    /\ chunks'[q] = chunks[q] /\ baseline'[q] = baseline[q]

\* A step of one run leaves the records of another alone, and the worktree unless it
\* crosses the other.
LEMMA OthersKeep ==
    ASSUME N!TypeOK, NEW r \in Inspector,
           \/ N!_prepare_discovery_repo(r) \/ N!sync(r) \/ N!sync_fails(r) \/ N!_git_ls_files(r)
           \/ N!read_files(r) \/ N!_run_repository_baseline_checks(r)
           \/ N!_structured_bug_scan_for_repo(r)
    PROVE  /\ content' = content /\ manifest' = manifest /\ branch' = branch
           /\ \A q \in Inspector \ {r} : Keeps(q)
           /\ \A q \in Inspector \ {r} : q \notin ncrossed' =>
                /\ q \notin ncrossed
                /\ npc[q] \notin {"idle", "done"} => tree' = tree /\ dirty' = dirty
  <1> USE DEF N!TypeOK, Keeps, N!Goto, N!results
  <1>1. CASE N!_prepare_discovery_repo(r)
    BY <1>1 DEF N!_prepare_discovery_repo, N!Using
  <1>2. CASE N!sync(r)
    BY <1>2, Crossing DEF N!sync
  <1>3. CASE N!sync_fails(r)
    BY <1>3 DEF N!sync_fails
  <1>4. CASE N!_git_ls_files(r)
    BY <1>4 DEF N!_git_ls_files, N!See
  <1>5. CASE N!read_files(r)
    BY <1>5 DEF N!read_files, N!See
  <1>6. CASE N!_run_repository_baseline_checks(r)
    BY <1>6, Crossing DEF N!_run_repository_baseline_checks
  <1>7. CASE N!_structured_bug_scan_for_repo(r)
    BY <1>7, Crossing DEF N!_structured_bug_scan_for_repo
  <1> QED
    BY <1>1, <1>2, <1>3, <1>4, <1>5, <1>6, <1>7

\* So what holds of another run still does.
LEMMA OthersStay ==
    ASSUME InspectionInv, NEW r \in Inspector, NEW q \in Inspector \ {r},
           content' = content, manifest' = manifest, Keeps(q),
           q \notin ncrossed' =>
             /\ q \notin ncrossed
             /\ npc[q] \notin {"idle", "done"} => tree' = tree /\ dirty' = dirty
    PROVE  /\ q \notin ncrossed' => Unspoilt(q)' /\ PackedAsRead(q)'
           /\ RunInOrder(q)'
  <1>1. N!_discover_test_command_candidates(tracked[q])' = N!_discover_test_command_candidates(tracked[q])
    BY DEF N!_discover_test_command_candidates, Keeps
  <1>2. Selected(q)' = Selected(q)
    BY <1>1 DEF Selected
  <1>3. RunInOrder(q) /\ RunInOrder(q)'
    BY <1>2 DEF InspectionInv, RunInOrder, Keeps
  <1>4. ASSUME q \notin ncrossed' PROVE Unspoilt(q)' /\ PackedAsRead(q)'
    <2>1. Unspoilt(q) /\ PackedAsRead(q)
      BY <1>4 DEF InspectionInv
    <2>2. CASE npc[q] \in {"idle", "done"}
      BY <2>1, <2>2 DEF Unspoilt, PackedAsRead, Keeps
    <2>3. CASE npc[q] \notin {"idle", "done"}
      <3>1. tree' = tree /\ dirty' = dirty
        BY <1>4, <2>3
      <3>2. N!Lengths' = N!Lengths
        BY <3>1 DEF N!Lengths
      <3> QED
        BY <2>1, <3>1, <3>2 DEF Unspoilt, PackedAsRead, Keeps
    <2> QED
      BY <2>2, <2>3
  <1> QED
    BY <1>3, <1>4

LEMMA InspectionTyped ==
    ASSUME InspectionInv, [N!Next]_N!vars
    PROVE  N!TypeOK' /\ \A r \in Inspector : (npc[r] # "idle" => tree \in Scanned)'
  <1> USE DEF InspectionInv, N!TypeOK, N!Goto, N!Using, N!results
  <1> DEFINE Sure == \A r \in Inspector : npc[r] # "idle" => tree \in Scanned
  <1>1. CASE N!advance
    BY <1>1 DEF N!advance
  <1>2. ASSUME NEW r \in Inspector, N!_prepare_discovery_repo(r) PROVE N!TypeOK' /\ Sure'
    <2>1. scans' \in 0 .. MaxScans
      BY <1>2, InspectionAssumption DEF N!_prepare_discovery_repo
    <2>2. dirty' \in BOOLEAN
      BY <1>2 DEF N!_prepare_discovery_repo
    <2>3. npc' \in [Inspector -> {"idle", "sync", "list", "read", "baseline", "scan", "done"}]
      BY <1>2 DEF N!_prepare_discovery_repo
    <2>4. saw' \in [Inspector -> SUBSET (Scanned \X BOOLEAN)] /\ ncrossed' \subseteq Inspector
      BY <1>2 DEF N!_prepare_discovery_repo
    <2>5. tracked' \in [Inspector -> SUBSET N!File] /\ chunks' \in [Inspector -> SUBSET N!Chunk]
      BY <1>2 DEF N!_prepare_discovery_repo
    <2>6. baseline' \in [Inspector -> Seq(N!Command)]
      BY <1>2 DEF N!_prepare_discovery_repo
    <2>7. /\ content' = content /\ manifest' = manifest /\ branch' = branch /\ ref' = ref
          /\ tree' = branch
      BY <1>2 DEF N!_prepare_discovery_repo
    <2>8. Sure'
      BY <2>7
    <2> QED
      BY <2>1, <2>2, <2>3, <2>4, <2>5, <2>6, <2>7, <2>8, Zenon
  <1>3. ASSUME NEW r \in Inspector, N!sync(r) PROVE N!TypeOK' /\ Sure'
    BY <1>3 DEF N!sync, N!reset_and_clean, N!Cross
  <1>4. ASSUME NEW r \in Inspector, N!sync_fails(r) PROVE N!TypeOK' /\ Sure'
    BY <1>4 DEF N!sync_fails
  <1>5. ASSUME NEW r \in Inspector, N!_git_ls_files(r) PROVE N!TypeOK' /\ Sure'
    <2>1. N!Listed(N!Lengths) \in SUBSET N!File
      BY DEF N!Listed
    <2>2. tracked' \in [Inspector -> SUBSET N!File]
      BY <1>5, <2>1 DEF N!_git_ls_files
    <2>3. saw' \in [Inspector -> SUBSET (Scanned \X BOOLEAN)]
      BY <1>5 DEF N!_git_ls_files, N!See
    <2>4. npc' \in [Inspector -> {"idle", "sync", "list", "read", "baseline", "scan", "done"}]
      BY <1>5 DEF N!_git_ls_files
    <2>5. UNCHANGED <<content, manifest, branch, tree, dirty, ref, chunks, baseline, ncrossed, scans>>
      BY <1>5 DEF N!_git_ls_files
    <2>6. Sure'
      BY <1>5, <2>5 DEF N!_git_ls_files
    <2> QED
      BY <2>2, <2>3, <2>4, <2>5, <2>6, Zenon
  <1>6. ASSUME NEW r \in Inspector, N!read_files(r) PROVE N!TypeOK' /\ Sure'
    <2>1. N!Lengths \in [N!File -> Nat \cup {N!Gone}]
      BY <1>6, InspectionAssumption DEF N!read_files, N!Lengths
    <2>2. N!_repository_module_chunks(tracked[r], N!Lengths) \in SUBSET N!Chunk
      BY <2>1, ChunksGood
    <2>3. chunks' \in [Inspector -> SUBSET N!Chunk]
      BY <1>6, <2>2 DEF N!read_files
    <2>4. saw' \in [Inspector -> SUBSET (Scanned \X BOOLEAN)]
      BY <1>6 DEF N!read_files, N!See
    <2>5. npc' \in [Inspector -> {"idle", "sync", "list", "read", "baseline", "scan", "done"}]
      BY <1>6 DEF N!read_files
    <2>6. UNCHANGED <<content, manifest, branch, tree, dirty, ref, tracked, baseline, ncrossed, scans>>
      BY <1>6 DEF N!read_files
    <2>7. Sure'
      BY <1>6, <2>6 DEF N!read_files
    <2> QED
      BY <2>3, <2>4, <2>5, <2>6, <2>7, Zenon
  <1>7. ASSUME NEW r \in Inspector, N!_run_repository_baseline_checks(r) PROVE N!TypeOK' /\ Sure'
    <2>1. Selected(r) \in Seq(N!Command)
      BY Candidates, Selection DEF Covering, Selected
    <2>2. baseline' \in [Inspector -> Seq(N!Command)]
      <3>1. CASE Len(baseline[r]) < Len(Selected(r))
        <4>1. baseline' = [baseline EXCEPT ![r] = Append(@, Selected(r)[Len(baseline[r]) + 1])]
          BY <1>7, <3>1 DEF N!_run_repository_baseline_checks, Selected
        <4>2. Selected(r)[Len(baseline[r]) + 1] \in N!Command
          BY <2>1, <3>1
        <4> HIDE DEF Selected
        <4> QED
          BY <4>1, <4>2
      <3>2. CASE ~(Len(baseline[r]) < Len(Selected(r)))
        BY <1>7, <3>2 DEF N!_run_repository_baseline_checks, Selected
      <3> QED
        BY <3>1, <3>2
    <2>3. /\ npc' \in [Inspector -> {"idle", "sync", "list", "read", "baseline", "scan", "done"}]
          /\ dirty' \in BOOLEAN /\ ncrossed' \subseteq Inspector
      BY <1>7 DEF N!_run_repository_baseline_checks, N!Cross
    <2>4. UNCHANGED <<content, manifest, branch, tree, ref, tracked, saw, chunks, scans>>
      BY <1>7 DEF N!_run_repository_baseline_checks
    <2>5. Sure'
      BY <1>7, <2>4 DEF N!_run_repository_baseline_checks
    <2> QED
      BY <2>2, <2>3, <2>4, <2>5, Zenon
  <1>8. ASSUME NEW r \in Inspector, N!_structured_bug_scan_for_repo(r) PROVE N!TypeOK' /\ Sure'
    BY <1>8 DEF N!_structured_bug_scan_for_repo, N!Cross
  <1>9. CASE UNCHANGED N!vars
    BY <1>9 DEF N!vars
  <1> QED
    BY <1>1, <1>2, <1>3, <1>4, <1>5, <1>6, <1>7, <1>8, <1>9 DEF N!Next

LEMMA InspectionNext == InspectionInv /\ [N!Next]_N!vars => InspectionInv'
  <1> SUFFICES ASSUME InspectionInv, [N!Next]_N!vars PROVE InspectionInv'
    OBVIOUS
  <1> DEFINE Own(r) == (r \notin ncrossed' => Unspoilt(r)' /\ PackedAsRead(r)') /\ RunInOrder(r)'
  <1> SUFFICES \A r \in Inspector : Own(r)
    BY InspectionTyped DEF InspectionInv
  <1>0. N!TypeOK /\ \A r \in Inspector : RunInOrder(r) /\ (r \notin ncrossed => Unspoilt(r) /\ PackedAsRead(r))
    BY DEF InspectionInv
  <1>1. CASE N!advance
    BY <1>0, <1>1 DEF N!advance, N!results, Unspoilt, PackedAsRead, RunInOrder, Selected,
       N!_discover_test_command_candidates, N!Lengths
  <1>2. CASE UNCHANGED N!vars
    BY <1>0, <1>2 DEF N!vars, N!results, Unspoilt, PackedAsRead, RunInOrder, Selected,
       N!_discover_test_command_candidates, N!Lengths
  <1>3. ASSUME NEW r \in Inspector,
               \/ N!_prepare_discovery_repo(r) \/ N!sync(r) \/ N!sync_fails(r) \/ N!_git_ls_files(r)
               \/ N!read_files(r) \/ N!_run_repository_baseline_checks(r)
               \/ N!_structured_bug_scan_for_repo(r)
        PROVE  \A q \in Inspector : Own(q)
    <2>1. \A q \in Inspector \ {r} : Own(q)
      BY <1>0, <1>3, OthersKeep, OthersStay
    <2> USE <1>0 DEF N!TypeOK, N!Goto, N!results
    <2>2. Own(r)
      <3>1. CASE N!_prepare_discovery_repo(r)
        BY <3>1 DEF N!_prepare_discovery_repo, Unspoilt, PackedAsRead, RunInOrder
      <3>2. CASE N!sync(r)
        BY <3>2 DEF N!sync, N!reset_and_clean, N!Cross, Unspoilt, PackedAsRead, RunInOrder
      <3>3. CASE N!sync_fails(r)
        BY <3>3 DEF N!sync_fails, Unspoilt, PackedAsRead, RunInOrder
      <3>4. CASE N!_git_ls_files(r)
        <4>1. r \notin ncrossed' => Unspoilt(r)'
          BY <3>4 DEF N!_git_ls_files, N!See, Unspoilt
        <4>2. N!Lengths' = N!Lengths /\ tracked'[r] = N!Listed(N!Lengths) /\ npc'[r] = "read"
          BY <3>4 DEF N!_git_ls_files, N!Lengths
        <4>3. PackedAsRead(r)'
          BY <4>2 DEF N!Listed, PackedAsRead
        <4>4. RunInOrder(r)'
          BY <3>4 DEF N!_git_ls_files, RunInOrder
        <4> QED
          BY <4>1, <4>3, <4>4
      <3>5. CASE N!read_files(r)
        <4>1. r \notin ncrossed' => Unspoilt(r)'
          BY <3>5 DEF N!read_files, N!See, Unspoilt
        <4>2. N!Lengths' = N!Lengths /\ tracked'[r] = tracked[r] /\ npc'[r] = "baseline"
              /\ npc[r] = "read" /\ ncrossed' = ncrossed
              /\ chunks'[r] = N!_repository_module_chunks(tracked[r], N!Lengths)
          BY <3>5 DEF N!read_files, N!Lengths
        <4>3. r \notin ncrossed' => PackedAsRead(r)'
          BY <4>2 DEF PackedAsRead
        <4>4. RunInOrder(r)'
          <5>1. baseline'[r] = <<>> /\ Len(Selected(r)') \in Nat
            <6>1. Selected(r) \in Seq(N!Command)
              BY Candidates, Selection DEF Covering, Selected
            <6>2. Selected(r)' = Selected(r)
              BY <3>5 DEF N!read_files, Selected, N!_discover_test_command_candidates
            <6> QED
              BY <3>5, <6>1, <6>2 DEF N!read_files, RunInOrder
          <5> QED
            BY <4>2, <5>1 DEF RunInOrder
        <4> QED
          BY <4>1, <4>3, <4>4
      <3>6. CASE N!_run_repository_baseline_checks(r)
        <4>1. r \notin ncrossed' => Unspoilt(r)' /\ PackedAsRead(r)'
          BY <3>6 DEF N!_run_repository_baseline_checks, N!Cross, N!Using, Unspoilt, PackedAsRead, N!Lengths
        <4>2. RunInOrder(r)'
          <5>1. Selected(r)' = Selected(r)
            BY <3>6 DEF N!_run_repository_baseline_checks, Selected, N!_discover_test_command_candidates
          <5>2. Selected(r) \in Seq(N!Command)
            BY Candidates, Selection DEF Covering, Selected
          <5>3. baseline[r] \in Seq(N!Command)
            OBVIOUS
          <5>4. CASE Len(baseline[r]) < Len(Selected(r))
            <6>1. baseline'[r] = Append(baseline[r], Selected(r)[Len(baseline[r]) + 1]) /\ npc' = npc
              BY <3>6, <5>4 DEF N!_run_repository_baseline_checks, Selected
            <6> QED
              BY <3>6, <5>1, <5>2, <5>3, <5>4, <6>1 DEF N!_run_repository_baseline_checks, RunInOrder
          <5>5. CASE ~(Len(baseline[r]) < Len(Selected(r)))
            <6>1. baseline' = baseline /\ npc'[r] = "scan"
              BY <3>6, <5>5 DEF N!_run_repository_baseline_checks, Selected
            <6> QED
              BY <3>6, <5>1, <5>2, <5>3, <5>5, <6>1 DEF N!_run_repository_baseline_checks, RunInOrder
          <5> QED
            BY <5>4, <5>5
        <4> QED
          BY <4>1, <4>2
      <3>7. CASE N!_structured_bug_scan_for_repo(r)
        BY <3>7 DEF N!_structured_bug_scan_for_repo, N!Cross, Unspoilt, PackedAsRead, RunInOrder
      <3> QED
        BY <1>3, <3>1, <3>2, <3>3, <3>4, <3>5, <3>6, <3>7
    <2> QED
      BY <2>1, <2>2
  <1> QED
    BY <1>1, <1>2, <1>3 DEF N!Next

\* A chunk accounts for the files of its module: the packing of what is in the worktree
\* does, and nothing has changed since.
LEMMA ChunksHold == InspectionInv => N!ChunksAccount
  <1> SUFFICES ASSUME InspectionInv, NEW r \in Inspector \ ncrossed, npc[r] = "baseline",
                      NEW k \in chunks[r]
               PROVE  /\ N!Cardinality(k.files) + k.omitted = k.count
                      /\ k.files # {} /\ k.chars <= ChunkChars
                      /\ \A f \in tracked[r] :
                           /\ N!_repository_chunk_label(f) = k.module
                           /\ Paths[f].ext \in N!TextExt /\ f \notin k.files
                           => \A g \in k.files : N!Rank(g) > N!Rank(f) =>
                                 N!_module_file_text(N!Lengths[g]) < N!_module_file_text(N!Lengths[f])
    BY DEF N!ChunksAccount
  <1>1. /\ PackedAsRead(r) /\ tracked[r] \in SUBSET N!File
        /\ N!Lengths \in [N!File -> Nat \cup {N!Gone}]
    BY InspectionAssumption DEF InspectionInv, N!TypeOK, N!Lengths
  <1>2. k \in N!_repository_module_chunks(tracked[r], N!Lengths)
    BY <1>1 DEF PackedAsRead
  <1>3. PICK files \in SUBSET N!File :
          /\ files = N!Texts(k.module, tracked[r], N!Lengths) /\ files # {}
          /\ k.count = Cardinality(files)
          /\ Good(files, [files |-> k.files, chars |-> k.chars, omitted |-> k.omitted], N!Lengths)
    BY <1>1, <1>2, ChunksGood
  <1>4. /\ k.files # {} /\ k.chars <= ChunkChars /\ Cardinality(k.files) + k.omitted = k.count
        /\ k.files \subseteq files
        /\ \A f \in files \ k.files, g \in k.files : N!Before(f, g) =>
              N!_module_file_text(N!Lengths[g]) < N!_module_file_text(N!Lengths[f])
    BY <1>3 DEF Good
  <1>5. ASSUME NEW f \in tracked[r], N!_repository_chunk_label(f) = k.module,
               Paths[f].ext \in N!TextExt, f \notin k.files, NEW g \in k.files,
               N!Rank(g) > N!Rank(f)
        PROVE  N!_module_file_text(N!Lengths[g]) < N!_module_file_text(N!Lengths[f])
    <2>1. f \in files
      BY <1>1, <1>3, <1>5 DEF N!Texts, PackedAsRead
    <2>2. N!Before(f, g)
      BY <1>5, Ranks DEF N!Before
    <2> QED
      BY <1>4, <1>5, <2>1, <2>2
  <1> QED
    BY <1>4, <1>5, InspectionCardinality

\* Who has run its commands has covered the candidates.
LEMMA CommandsHold == InspectionInv => N!BaselineCovers
  <1> SUFFICES ASSUME InspectionInv, NEW r \in Inspector, npc[r] = "scan"
               PROVE  LET run == {baseline[r][i] : i \in 1 .. Len(baseline[r])} IN
                      /\ \A i, j \in 1 .. Len(baseline[r]) :
                            i # j => N!Family(baseline[r][i]) # N!Family(baseline[r][j])
                      /\ \A cmd \in N!_discover_test_command_candidates(tracked[r]) \ run :
                           \/ \E other \in run : N!Family(other) = N!Family(cmd) /\ N!At(other) < N!At(cmd)
                           \/ N!Cardinality({other \in run : N!At(other) < N!At(cmd)}) = 2
    BY DEF N!BaselineCovers
  <1> DEFINE candidates == N!_discover_test_command_candidates(tracked[r])
             sel == Selected(r)
             run == {baseline[r][i] : i \in 1 .. Len(baseline[r])}
  <1>1. candidates \in SUBSET N!Command
    BY Candidates DEF InspectionInv, N!TypeOK
  <1>2. Covering(candidates, sel)
    BY <1>1, Selection DEF Selected
  <1>3. Len(baseline[r]) = Len(sel) /\ \A i \in 1 .. Len(sel) : baseline[r][i] = sel[i]
    BY DEF InspectionInv, RunInOrder
  <1> HIDE DEF candidates, sel
  <1>4. run = {sel[i] : i \in 1 .. Len(sel)}
    BY <1>3
  <1>5. \A i, j \in 1 .. Len(baseline[r]) :
           i # j => N!Family(baseline[r][i]) # N!Family(baseline[r][j])
    BY <1>2, <1>3 DEF Covering
  <1>6. \A cmd \in candidates \ run :
           \/ \E other \in run : N!Family(other) = N!Family(cmd) /\ N!At(other) < N!At(cmd)
           \/ N!Cardinality({other \in run : N!At(other) < N!At(cmd)}) = 2
    BY <1>2, <1>4, InspectionCardinality, Zenon DEF Covering
  <1> QED
    BY <1>5, <1>6, Zenon DEF candidates

\* The inspection keeps its types: what is listed are files, what is packed are chunks of
\* them, and what was run are commands of the table.
THEOREM InspectionTypeCorrect == N!Spec => []N!TypeOK
  <1>1. InspectionInv => N!TypeOK
    BY DEF InspectionInv
  <1> QED
    BY <1>1, InspectionInit, InspectionNext, PTL DEF N!Spec

\* Unless another run crossed it, an inspection has listed and read nothing but the commit
\* its reset put there, and each chunk of a module accounts for every text file of it: it
\* is not empty, not longer than the limit, and leaves out no file that a less important
\* one as long as it was kept before.  The commands it ran are of different families, and
\* another candidate gave way to one of its family or to two before it.  For any runs,
\* commits, repositories and limits.
THEOREM InspectionIsSound == N!Spec => []InspectionHolds
  <1>1. InspectionInv => InspectionHolds
    <2>1. InspectionInv => N!OneCommit
      BY DEF InspectionInv, Unspoilt, N!OneCommit
    <2> QED
      BY <2>1, ChunksHold, CommandsHold DEF InspectionHolds, N!InspectionHolds
  <1> QED
    BY <1>1, InspectionInit, InspectionNext, PTL DEF N!Spec
==============================================================================
