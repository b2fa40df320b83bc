------------------------------ MODULE Approvals ------------------------------
(***************************************************************************)
(* The approvals pipeline: requests and decisions on actions of high risk, *)
(* in an append-only log that every command reads from the start.          *)
(*                                                                         *)
(* A request is classified, decided as far as the policy, the role of the  *)
(* machine and the caller's flags allow, and logged.  A later command may  *)
(* decide it again.  The gate in front of an action is a request of its    *)
(* own: the action runs when that one is approved at once.                 *)
(***************************************************************************)
EXTENDS Integers, Sequences

CONSTANTS
    Kind,        \* action kinds
    CategoryOf,  \* CategoryOf[k]: the category, which a kind of low risk has as well
    LowKind,     \* kinds of low risk
    MaxRequests, MaxDecisions, MaxEdits  \* bounds

Category == {CategoryOf[k] : k \in Kind}
Policy == [deny : SUBSET Category, auto : SUBSET Category, manual : BOOLEAN]
Role == {"leader", "assistant", "single"}
Flag == {"none", "yes", "interactive"}
Status == {"REQUESTED", "APPROVED", "DENIED"}

Id == 1 .. MaxRequests
Request == [kind : Kind, role : Role, flag : Flag, policy : Policy]  \* the policy as read

\* An event is a request's record or a decision.
Event == [id : Id, is : {"request", "decision"}, kind : Kind, status : Status]

VARIABLES
    policy,    \* specs/policies/approvals.yaml
    log,       \* approvals.jsonl
    prompts,   \* requests that wait for a person's answer
    asked,     \* ids given out
    executed,  \* ids whose gate has let its action run
    decisions, edits,
    allowed    \* the last event's category was not denied when its command read the policy

vars == <<policy, log, prompts, asked, executed, decisions, edits, allowed>>

TypeOK ==
    /\ policy \in Policy /\ log \in Seq(Event)
    /\ prompts \subseteq [id : Id, of : Request]
    /\ asked \in 0 .. MaxRequests /\ executed \subseteq Id
    /\ decisions \in 0 .. MaxDecisions /\ edits \in 0 .. MaxEdits
    /\ allowed \in BOOLEAN

Init ==
    /\ policy \in [deny : SUBSET Category, auto : SUBSET Category, manual : {TRUE}]
    /\ log = <<>> /\ prompts = {} /\ asked = 0 /\ executed = {}
    /\ decisions = 0 /\ edits = 0 /\ allowed = TRUE

\* A kind that is neither in the low nor in the high list is of high risk, category "UNKNOWN".
risk_classify(k) == IF k \in LowKind THEN "LOW" ELSE "HIGH"

policy_decide(p, category) ==
    IF category \in p.deny THEN "DENIED" ELSE IF category \in p.auto THEN "APPROVED" ELSE "none"

\* What a request becomes without a person; "prompt" if one is asked.  Low risk is approved
\* before the policy is asked.
Outcome(r) ==
    LET verdict == policy_decide(r.policy, CategoryOf[r.kind]) IN
    IF risk_classify(r.kind) = "LOW" THEN "APPROVED"
    ELSE IF verdict = "DENIED" THEN "DENIED"
    ELSE IF r.role = "leader" /\ verdict = "APPROVED" THEN "APPROVED"
    ELSE IF r.role # "single" \/ ~r.policy.manual THEN "REQUESTED"
    ELSE IF r.flag = "yes" THEN "APPROVED"
    ELSE IF r.flag = "interactive" THEN "prompt" ELSE "REQUESTED"

Append1(id, is, k, status, p) ==
    /\ log' = Append(log, [id |-> id, is |-> is, kind |-> k, status |-> status])
    /\ allowed' = (CategoryOf[k] \notin p.deny)

\* The gate: the pipeline exits 0 only for an approved request, and the action runs.
approval_gate(id, status) == executed' = IF status = "APPROVED" THEN executed \cup {id} ELSE executed

cmd_request(k, role, flag) ==
    LET r == [kind |-> k, role |-> role, flag |-> flag, policy |-> policy]
        id == asked + 1
    IN
    /\ asked < MaxRequests /\ asked' = id
    /\ IF Outcome(r) = "prompt"
         THEN /\ prompts' = prompts \cup {[id |-> id, of |-> r]}
              /\ UNCHANGED <<log, executed, allowed>>
         ELSE /\ Append1(id, "request", k, Outcome(r), policy)
              /\ approval_gate(id, Outcome(r))
              /\ UNCHANGED prompts
    /\ UNCHANGED <<policy, decisions, edits>>

\* The answer, however long it took: the policy is not read again.
interactive_confirm(p, yes) ==
    LET status == IF yes THEN "APPROVED" ELSE "DENIED" IN
    /\ p \in prompts /\ prompts' = prompts \ {p}
    /\ Append1(p.id, "request", p.of.kind, status, p.of.policy)
    /\ approval_gate(p.id, status)
    /\ UNCHANGED <<policy, asked, decisions, edits>>

\* The command dies at the prompt (EOF, Ctrl-C): nothing is logged.
PromptDies(p) ==
    /\ p \in prompts /\ prompts' = prompts \ {p}
    /\ UNCHANGED <<policy, log, asked, executed, decisions, edits, allowed>>

\* Only records of requests are searched, never earlier decisions.
find_approval_request_record(id) == {n \in 1 .. Len(log) : log[n].id = id /\ log[n].is = "request"}

\* Mutant: the category is not checked against the policy of today.
Decidable_old(e, status) == status = "APPROVED" => e.status # "DENIED"

Decidable(e, status) ==
    status = "APPROVED" => e.status # "DENIED" /\ policy_decide(policy, CategoryOf[e.kind]) # "DENIED"

cmd_decide(id, status) ==
    /\ decisions < MaxDecisions /\ decisions' = decisions + 1
    /\ \E n \in find_approval_request_record(id) :
          /\ Decidable(log[n], status)
          /\ Append1(id, "decision", log[n].kind, status, policy)
    /\ UNCHANGED <<policy, prompts, asked, executed, edits>>

EditPolicy ==
    /\ edits < MaxEdits /\ edits' = edits + 1
    /\ policy' \in Policy
    /\ UNCHANGED <<log, prompts, asked, executed, decisions, allowed>>

Next ==
    \/ \E k \in Kind, role \in Role, flag \in Flag : cmd_request(k, role, flag)
    \/ \E p \in prompts : PromptDies(p) \/ \E yes \in BOOLEAN : interactive_confirm(p, yes)
    \/ \E id \in Id, status \in {"APPROVED", "DENIED"} : cmd_decide(id, status)
    \/ EditPolicy

Spec == Init /\ [][Next]_vars

------------------------------------------------------------------------------
(* Properties.                                                             *)

Newest == log[Len(log)]
Denied(id, is) == \E n \in 1 .. Len(log) - 1 :
    log[n].id = id /\ log[n].is = is /\ log[n].status = "DENIED"

\* A request of low risk, approved as it is made.
Unasked(e) == e.is = "request" /\ e.kind \in LowKind

\* "Hard blocks: never allow these to be approved automatically" (approvals.yaml:13) holds of
\* whatever is decided, by rule or by a person, and of every request of high risk: no command
\* approves a category that the policy it read always denies.  It does not hold of requests of
\* low risk, which cmd_request approves without asking the policy.  And no command approves a
\* request that was denied when it was made, however the policy has changed since.
HardBlocksHold ==
    Len(log) > 0 /\ Newest.status = "APPROVED" =>
        /\ allowed \/ Unasked(Newest)
        /\ ~Denied(Newest.id, "request")

\* Nor one that somebody has denied since ("cannot approve denied request").
DenialStands == Len(log) > 0 /\ Newest.status = "APPROVED" => ~Denied(Newest.id, "decision")
=============================================================================
