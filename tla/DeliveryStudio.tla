--------------------------- MODULE DeliveryStudio ----------------------------
(***************************************************************************)
(* A delivery request of domains/delivery_studio: created, discussed, put  *)
(* up for approval, locked, and reviewed until its gate is passed.         *)
(*                                                                         *)
(* The API's handlers run in threads.  Each loads the request's file,      *)
(* checks the stage, writes an artifact, and saves the file as a whole; no *)
(* lock is taken.  A step ends with the load, with each file opened for    *)
(* writing or written, and with the check runs posted.  A call that is     *)
(* refused (wrong stage, empty text, no reviewers) changes nothing.        *)
(*                                                                         *)
(* needs_you and blocked are left out: they follow from stage and gate.    *)
(***************************************************************************)
EXTENDS Integers

CONSTANTS
    Client,     \* handler threads
    Text,       \* proposals and options
    NoText,
    Commit,       \* commits that check runs are posted for
    MaxCrashes  \* bound: how often the control plane stops

ASSUME StudioAssumption == NoText \notin Text \cup Commit /\ MaxCrashes \in Nat

Locked == {"Locked", "Changes Requested", "CI Running"}
\* "absent": not created.  "empty", "garbled": a file that no load accepts.
Stage == {"absent", "empty", "garbled", "Discussing", "Awaiting Approval"} \cup Locked

Request ==
    [stage         : Stage,
     option        : Text \cup {NoText},  \* selected_option
     spec_approved : BOOLEAN,
     review_gate   : {"none", "Passed", "Blocked"},
     linked        : BOOLEAN]             \* change_request_of is set

\* A file whose content no handler accepts.
Unreadable(stage) == [stage |-> stage, option |-> NoText, spec_approved |-> FALSE,
                      review_gate |-> "none", linked |-> FALSE]
NewRequest == Unreadable("Discussing")

VARIABLES
    request,   \* request.yaml
    draft,     \* approval_draft.md
    record,    \* approval_record.md
    gateCheck, \* the last "panel-review/blocking-gate" check of each commit
    pc,        \* where each handler is
    call,      \* its local variables
    raced,     \* a call has written over a request that changed since it loaded it
    crashes

vars == <<request, draft, record, gateCheck, pc, call, raced, crashes>>

Call ==
    [base : Request,                   \* the request as loaded
     doc  : Request,                   \* the request to save
     text : Text \cup {NoText},
     head : Commit \cup {NoText},        \* where to post checks, if anywhere
     link : BOOLEAN]                   \* a second save will add change_request_of

NoCall == [base |-> Unreadable("absent"), doc |-> Unreadable("absent"), text |-> NoText,
           head |-> NoText, link |-> FALSE]

TypeOK ==
    /\ request \in Request
    /\ draft \in Text \cup {NoText} /\ record \in Text \cup {NoText}
    /\ gateCheck \in [Commit -> {"none", "success", "failure"}]
    /\ pc \in [Client -> {"idle", "draft", "record", "save", "write", "post"}]
    /\ call \in [Client -> Call]
    /\ raced \in BOOLEAN /\ crashes \in 0 .. MaxCrashes

Init ==
    /\ request = Unreadable("absent")
    /\ draft = NoText /\ record = NoText
    /\ gateCheck = [h \in Commit |-> "none"]
    /\ pc = [c \in Client |-> "idle"]
    /\ call = [c \in Client |-> NoCall]
    /\ raced = FALSE /\ crashes = 0

------------------------------------------------------------------------------
(* The handlers, up to their first write.                                  *)

\* A call has loaded the request and holds doc to save.
Begin(c, next, doc, text, head, link) ==
    /\ pc[c] = "idle"
    /\ pc' = [pc EXCEPT ![c] = next]
    /\ call' = [call EXCEPT ![c] = [base |-> request, doc |-> doc, text |-> text,
                                    head |-> head, link |-> link]]
    /\ UNCHANGED <<request, draft, record, gateCheck, raced, crashes>>

\* create_request, or create_change_request, which saves the child twice.
create_request(c) ==
    /\ request.stage = "absent"
    /\ \A d \in Client : pc[d] = "idle"  \* nobody else has its identifier
    /\ \E change \in BOOLEAN : Begin(c, "save", NewRequest, NoText, NoText, change)

\* Mutant: a locked request can be put up again.
Proposable_locked == {"Discussing", "Locked"}
Proposable == {"Discussing"}

mark_awaiting_approval(c) ==
    /\ request.stage \in Proposable
    /\ \E proposal \in Text :
          Begin(c, "draft", [request EXCEPT !.stage = "Awaiting Approval"],
                proposal, NoText, FALSE)

approve_request(c) ==
    /\ request.stage = "Awaiting Approval"
    /\ \E option \in Text :
          Begin(c, "record",
                [request EXCEPT !.stage = "Locked", !.spec_approved = TRUE, !.option = option],
                option, NoText, FALSE)

\* evaluate_review_gate: a veto blocks, and so does a reviewer that found the
\* tests incomplete.
Verdict == {"pass", "veto", "untested"}
evaluate_review_gate(verdicts) == IF verdicts = {"pass"} THEN "Passed" ELSE "Blocked"

\* Mutant: a request can be reviewed before it is locked.
Reviewable_unlocked == {"Discussing", "Locked", "Changes Requested"}

\* Mutant: a request whose gate is passed can be reviewed again.
Reviewable_again == Locked

Reviewable == {"Locked", "Changes Requested"}

finalize_review(c) ==
    /\ request.stage \in Reviewable
    /\ \E verdicts \in SUBSET Verdict \ {{}}, head \in Commit \cup {NoText} :
          LET gate == evaluate_review_gate(verdicts) IN
          Begin(c, "save",
                [request EXCEPT !.review_gate = gate,
                   !.stage = IF gate = "Blocked" THEN "Changes Requested" ELSE "CI Running"],
                NoText, head, FALSE)

------------------------------------------------------------------------------
(* Their writes.                                                           *)

Stale(c) == request # call[c].base

Return(c) ==
    /\ pc' = [pc EXCEPT ![c] = "idle"]
    /\ call' = [call EXCEPT ![c] = NoCall]

WriteDraft(c) ==
    /\ pc[c] = "draft"
    /\ draft' = call[c].text
    /\ raced' = (raced \/ Stale(c))
    /\ pc' = [pc EXCEPT ![c] = "save"]
    /\ UNCHANGED <<request, record, gateCheck, call, crashes>>

WriteRecord(c) ==
    /\ pc[c] = "record"
    /\ record' = call[c].text
    /\ raced' = (raced \/ Stale(c))
    /\ pc' = [pc EXCEPT ![c] = "save"]
    /\ UNCHANGED <<request, draft, gateCheck, call, crashes>>

\* write_text opens the file, which empties it, ...
Truncate(c) ==
    /\ pc[c] = "save"
    /\ request' = Unreadable("empty")
    /\ raced' = (raced \/ Stale(c))
    /\ pc' = [pc EXCEPT ![c] = "write"]
    /\ UNCHANGED <<draft, record, gateCheck, call, crashes>>

\* ... and writes.  What another call has written in between is overwritten
\* from the start; the rest of a longer text stays behind it.
WriteRequest(c) ==
    /\ pc[c] = "write"
    /\ request' \in {call[c].doc} \cup
          (IF request.stage = "empty" THEN {} ELSE {Unreadable("garbled")})
    /\ raced' = (raced \/ request.stage # "empty")
    /\ IF call[c].link
         THEN /\ pc' = [pc EXCEPT ![c] = "save"]
              /\ call' = [call EXCEPT ![c].base = call[c].doc, ![c].doc.linked = TRUE,
                                      ![c].link = FALSE]
         ELSE IF call[c].head \in Commit
         THEN /\ pc' = [pc EXCEPT ![c] = "post"]
              /\ UNCHANGED call
         ELSE Return(c)
    /\ UNCHANGED <<draft, record, gateCheck, crashes>>

\* The reviewers' check runs are posted, then the gate's; the first that fails
\* ends it, with a warning.
PostChecks(c) ==
    /\ pc[c] = "post"
    /\ \/ UNCHANGED gateCheck
       \/ gateCheck' = [gateCheck EXCEPT ![call[c].head] =
                          IF call[c].doc.review_gate = "Passed" THEN "success" ELSE "failure"]
    /\ Return(c)
    /\ UNCHANGED <<request, draft, record, raced, crashes>>

Crash ==
    /\ crashes < MaxCrashes
    /\ \E c \in Client : pc[c] # "idle"
    /\ crashes' = crashes + 1
    /\ pc' = [c \in Client |-> "idle"]
    /\ call' = [c \in Client |-> NoCall]
    /\ UNCHANGED <<request, draft, record, gateCheck, raced>>

Next ==
    \/ \E c \in Client :
          \/ create_request(c) \/ mark_awaiting_approval(c)
          \/ approve_request(c) \/ finalize_review(c)
          \/ WriteDraft(c) \/ WriteRecord(c) \/ Truncate(c) \/ WriteRequest(c)
          \/ PostChecks(c)
    \/ Crash

Spec == Init /\ [][Next]_vars

------------------------------------------------------------------------------
(* What the studio promises.                                               *)

\* "No implementation before explicit user approval" (the design's section 4):
\* whatever calls overlap and wherever one dies, a request that is locked or
\* beyond names the option the user chose, and its artifacts exist.
LockedIsApproved ==
    request.stage \in Locked =>
       request.spec_approved /\ request.option # NoText /\ record # NoText /\ draft # NoText

\* "Any post-lock requirement change becomes a new change request": from the
\* lock on the proposal, the record and the option stay as they are, unless
\* calls have raced.
LockFreezes ==
    [][request.stage \in Locked =>
          \/ raced'
          \/ /\ draft' = draft /\ record' = record
             /\ request'.stage # "empty" => request'.option = request.option]_vars

\* "Review is a formal gate": the check that lets a commit be merged is green
\* only for a request whose gate is passed, and nothing reopens the gate after
\* that, unless calls have raced.
GreenMeansPassed ==
    raced \/ \A h \in Commit : gateCheck[h] = "success" => request.stage = "CI Running"
==============================================================================
