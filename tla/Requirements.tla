---------------------------- MODULE Requirements ----------------------------
(***************************************************************************)
(* The requirements of one scope: raw inputs, the baseline, the document   *)
(* requirements.yaml and its rendering REQUIREMENTS.md.                    *)
(*                                                                         *)
(* Requests of the API run in threads and take no lock on the scope (the   *)
(* command line takes one, which excludes only command lines).  A change   *)
(* loads the whole document, asks a model for up to 90 seconds, truncates  *)
(* the file and writes the whole document back; then it renders it.  A     *)
(* step ends with a read, a truncation or a write of a file.  Feasibility  *)
(* reports, conflict and drift reports, snapshots and the changelog are    *)
(* only written and left out.                                              *)
(***************************************************************************)
EXTENDS Integers, FiniteSets

CONSTANTS
    Thread,
    Text,         \* requirement texts
    Opposed,      \* pairs of texts with MUST and MUST_NOT on one topic
    Infeasible,   \* texts assessed NEEDS_INFO or NOT_FEASIBLE
    MaxCalls,     \* bound: calls
    MaxCrashes    \* bound: stops of the process

Decision == "decision"   \* the text of an item that asks for a decision

ASSUME RequirementsAssumption ==
    /\ Opposed \subseteq Text \X Text
    /\ \A p \in Opposed : <<p[2], p[1]>> \in Opposed /\ p[1] # p[2]
    /\ Infeasible \subseteq Text /\ Decision \notin Text
    /\ MaxCalls \in Nat /\ MaxCrashes \in Nat

Raw == 0 .. MaxCalls     \* raw inputs by their line, 0 for none
Torn == -1               \* the content of a file whose writer stopped
Id == Nat \ {0}

Item ==
    [id : Id, text : Text \cup {Decision}, status : {"ACTIVE", "NEED_PM_DECISION"}, raw : Raw]

\* What an item keeps when its status changes.
Name == [id : Id, text : Text \cup {Decision}, raw : Raw]
NameOf(i) == [id |-> i.id, text |-> i.text, raw |-> i.raw]

\* requirements.yaml; next_req_seq, and the metadata on raw inputs and baseline.
Yaml ==
    [kind  : {"absent", "empty", "broken", "doc"},
     next  : Id,
     items : SUBSET Item,
     count : Raw,
     base  : Raw \cup {Torn}]

NoDoc(kind) == [kind |-> kind, next |-> 1, items |-> {}, count |-> 0, base |-> 0]
Blank == NoDoc("doc")

\* REQUIREMENTS.md: what it was rendered from.
Markdown == [kind : {"absent", "scaffold", "torn", "rendered"}, items : SUBSET Item]
render_requirements_md(doc) == [kind |-> "rendered", items |-> doc.items]

Label ==
    {"idle", "baseline", "baseline_put", "scaffold", "v2", "v2_put", "drift", "drift_md", "load",
     "open", "dump", "md", "post", "post_md", "decide"}

Call ==
    [kind : {"add", "system", "v2", "rebuild", "post", "decide"},
     text : Text \cup {Decision},
     raw  : Raw,
     doc  : Yaml,       \* the document as loaded and changed
     then : Label]      \* where the call goes on when it has written the document

NoCall == [kind |-> "rebuild", text |-> Decision, raw |-> 0, doc |-> Blank, then |-> "idle"]

VARIABLES
    raw,        \* number of raw inputs
    baseline,   \* baseline v1: the raw input it was made from, 0 if absent
    proposed,   \* baseline v2 is there
    yaml,
    md,
    pc,
    call,
    overtaken,  \* calls that loaded a document another call was writing or has since written
    mixed,      \* calls that truncated the file before another one wrote it
    kept,       \* names of items saved, since a write or a crash last undid another call's save
    calls, crashes

vars == <<raw, baseline, proposed, yaml, md, pc, call, overtaken, mixed, kept,
          calls, crashes>>
files == <<raw, baseline, proposed, yaml, md>>
history == <<overtaken, mixed, kept>>
counters == <<calls, crashes>>

TypeOK ==
    /\ raw \in Raw /\ baseline \in Raw \cup {Torn} /\ proposed \in BOOLEAN
    /\ yaml \in Yaml /\ md \in Markdown
    /\ pc \in [Thread -> Label] /\ call \in [Thread -> Call]
    /\ overtaken \subseteq Thread /\ mixed \subseteq Thread
    /\ kept \subseteq Name
    /\ calls \in 0 .. MaxCalls /\ crashes \in 0 .. MaxCrashes

Init ==
    /\ raw = 0 /\ baseline = 0 /\ proposed = FALSE
    /\ yaml = NoDoc("absent") /\ md = [kind |-> "absent", items |-> {}]
    /\ pc = [t \in Thread |-> "idle"] /\ call = [t \in Thread |-> NoCall]
    /\ overtaken = {} /\ mixed = {} /\ kept = {}
    /\ calls = 0 /\ crashes = 0

------------------------------------------------------------------------------
(* Steps of a call.                                                        *)

Begin(t, label, c) ==
    /\ pc[t] = "idle" /\ calls < MaxCalls
    /\ calls' = calls + 1
    /\ pc' = [pc EXCEPT ![t] = label]
    /\ call' = [call EXCEPT ![t] = c]
    /\ UNCHANGED <<overtaken, mixed, kept, crashes>>

\* Call t goes on at label with record c; it returns when label is "idle".
Goto(t, label, c) ==
    /\ pc' = [pc EXCEPT ![t] = label]
    /\ call' = [call EXCEPT ![t] = IF label = "idle" THEN NoCall ELSE c]
    /\ UNCHANGED <<kept, counters>>

Raise(t) ==
    /\ pc' = [pc EXCEPT ![t] = "idle"]
    /\ call' = [call EXCEPT ![t] = NoCall]
    /\ UNCHANGED <<files, overtaken, mixed, kept, counters>>

Others(t, label) == {u \in Thread \ {t} : pc[u] = label}

\* Call t loads the document.
Loads(t) ==
    overtaken' = IF Others(t, "dump") = {} THEN overtaken \ {t} ELSE overtaken \cup {t}

------------------------------------------------------------------------------
(* add_requirement_raw_first, add_requirement_system_update and            *)
(* propose_baseline_v2 up to the scaffold.                                 *)

\* capture_raw_input; the feasibility report and its index are only written.
capture_raw_input(t, kind, text, label) ==
    /\ Begin(t, label, [NoCall EXCEPT !.kind = kind, !.text = text, !.raw = raw + 1])
    /\ raw' = raw + 1
    /\ UNCHANGED <<baseline, proposed, yaml, md>>

add_requirement_raw_first(t, text) == capture_raw_input(t, "add", text, "baseline")

propose_baseline_v2(t) == capture_raw_input(t, "v2", Decision, "scaffold")

add_requirement_system_update(t, text) ==
    /\ Begin(t, "scaffold", [NoCall EXCEPT !.kind = "system", !.text = text])
    /\ UNCHANGED files

rebuild_requirements_md(t) ==
    /\ yaml.kind = "doc"
    /\ Begin(t, "md", [NoCall EXCEPT !.doc = yaml])
    /\ UNCHANGED files

ensure_baseline_v1(t) ==
    \/ /\ pc[t] = "baseline"
       /\ Goto(t, IF baseline = 0 THEN "baseline_put" ELSE "scaffold", call[t])
       /\ UNCHANGED <<files, overtaken, mixed>>
    \/ /\ pc[t] = "baseline_put"
       /\ baseline' = call[t].raw
       /\ Goto(t, "scaffold", call[t])
       /\ UNCHANGED <<raw, proposed, yaml, md, overtaken, mixed>>

\* What comes after the scaffold: an infeasible input waits for a decision.
AfterScaffold(c) ==
    IF c.kind = "v2" THEN "v2"
    ELSE IF c.kind = "add" /\ c.text \in Infeasible THEN "decide" ELSE "drift"

ensure_scaffold(t) ==
    /\ pc[t] = "scaffold"
    /\ \/ /\ yaml.kind = "absent"
          /\ Goto(t, "open", [call[t] EXCEPT !.doc = Blank, !.then = "scaffold"])
          /\ Loads(t)
          /\ UNCHANGED md
       \/ /\ yaml.kind # "absent"
          /\ md' = IF md.kind = "absent" THEN [md EXCEPT !.kind = "scaffold"] ELSE md
          /\ Goto(t, AfterScaffold(call[t]), [call[t] EXCEPT !.doc = Blank])
          /\ UNCHANGED overtaken
    /\ UNCHANGED <<raw, baseline, proposed, yaml, mixed>>

\* propose_baseline_v2 once the scaffold is there: it never writes a second proposal.
baseline_v2(t) ==
    \/ /\ pc[t] = "v2" /\ ~proposed
       /\ Goto(t, "v2_put", call[t])
       /\ UNCHANGED <<files, overtaken, mixed>>
    \/ /\ pc[t] = "v2" /\ proposed
       /\ Raise(t)
    \/ /\ pc[t] = "v2_put"
       /\ proposed' = TRUE
       /\ Goto(t, "decide", call[t])
       /\ UNCHANGED <<raw, baseline, yaml, md, overtaken, mixed>>

------------------------------------------------------------------------------
(* The document: save_requirements truncates the file, then writes it.     *)

open(t) ==
    /\ pc[t] = "open"
    /\ yaml' = NoDoc("empty")
    /\ mixed' = mixed \ {t}
    /\ Goto(t, "dump", call[t])
    /\ UNCHANGED <<raw, baseline, proposed, md, overtaken>>

\* The item a call adds: only then it renders the document next.
New(c) == {NameOf(i) : i \in {j \in c.doc.items : c.then = "md" /\ j.id = c.doc.next - 1}}

\* Each writer writes from the start of the file: what a longer document of another
\* writer leaves behind its end may break it.
dump(t) ==
    /\ pc[t] = "dump"
    /\ \/ yaml' = call[t].doc
       \/ t \in mixed /\ yaml' = NoDoc("broken")
    /\ overtaken' = (overtaken \cup {u \in Thread : pc[u] # "idle"}) \ {t}
    /\ mixed' = (mixed \cup Others(t, "dump")) \ {t}
    /\ kept' = New(call[t]) \cup (IF t \in overtaken THEN {} ELSE kept)
    /\ pc' = [pc EXCEPT ![t] = call[t].then]
    /\ call' = [call EXCEPT ![t] = IF call[t].then = "idle" THEN NoCall ELSE @]
    /\ UNCHANGED <<raw, baseline, proposed, md, counters>>

render(t) ==
    /\ pc[t] = "md"
    /\ md' = render_requirements_md(call[t].doc)
    /\ IF call[t].kind \in {"add", "system"}
       THEN Goto(t, "post", [call[t] EXCEPT !.kind = "post", !.text = Decision, !.doc = Blank])
       ELSE Goto(t, "idle", NoCall)
    /\ UNCHANGED <<raw, baseline, proposed, yaml, overtaken, mixed>>

------------------------------------------------------------------------------
(* drift_check.                                                            *)

\* The document with its metadata brought up to date; an empty file reads as an empty one.
Fixed(doc) ==
    [doc EXCEPT !.kind = "doc", !.count = raw, !.base = baseline]

AfterDrift(c) == IF c.kind = "post" THEN "idle" ELSE "load"

\* Without a baseline or with a broken document it only asks for a decision.
drift_check(t) ==
    /\ pc[t] = "drift"
    /\ IF baseline = 0 \/ yaml.kind = "broken"
       THEN Goto(t, "decide", call[t]) /\ UNCHANGED overtaken
       ELSE /\ Goto(t, "drift_md",
                    [call[t] EXCEPT !.doc = Fixed(yaml),
                                    !.then = IF Fixed(yaml) = yaml THEN "drift_md" ELSE AfterDrift(call[t])])
            /\ Loads(t)
    /\ UNCHANGED <<files, mixed>>

\* It renders the document before it saves it, and saves it only if it changed it.
drift_render(t) ==
    /\ pc[t] = "drift_md"
    /\ md' = render_requirements_md(call[t].doc)
    /\ IF call[t].then = "drift_md"
       THEN Goto(t, AfterDrift(call[t]), [call[t] EXCEPT !.doc = Blank, !.then = "idle"])
       ELSE Goto(t, "open", call[t])
    /\ UNCHANGED <<raw, baseline, proposed, yaml, overtaken, mixed>>

\* The check after an addition: first without a fix.
post_check(t) ==
    \/ /\ pc[t] = "post"
       /\ IF yaml.kind = "doc" /\ yaml.base = baseline
          THEN Goto(t, "post_md", [call[t] EXCEPT !.doc = yaml])
          ELSE Goto(t, "drift", call[t])
       /\ UNCHANGED <<files, overtaken, mixed>>
    \/ /\ pc[t] = "post_md"
       /\ Goto(t, IF md = render_requirements_md(call[t].doc) THEN "idle" ELSE "drift",
               [call[t] EXCEPT !.doc = Blank])
       /\ UNCHANGED <<files, overtaken, mixed>>

------------------------------------------------------------------------------
(* add_requirement and _append_need_pm_decision_item.                      *)

\* Mutant: only requirements that are active.
detect_conflicts_active(items, text) ==
    {i.id : i \in {j \in items : <<j.text, text>> \in Opposed /\ j.status = "ACTIVE"}}

detect_conflicts(items, text) == {i.id : i \in {j \in items : <<j.text, text>> \in Opposed}}

detect_duplicate(items, text) == \E i \in items : i.text = text

\* Document doc with an item more; the active ones of ids conflicts need a decision too.
Added(doc, text, status, ref, conflicts) ==
    [doc EXCEPT
       !.items = {[i EXCEPT !.status = IF i.id \in conflicts THEN "NEED_PM_DECISION" ELSE @] : i \in @}
                   \cup {[id |-> doc.next, text |-> text, status |-> status, raw |-> ref]},
       !.next = @ + 1]

\* The model may call the text a duplicate, name further conflicts, or fail: then a
\* text on a sensitive topic needs a decision.
add_requirement(t) ==
    /\ pc[t] = "load"
    /\ IF yaml.kind # "doc"
       THEN Raise(t)
       ELSE \/ /\ Goto(t, "post", [call[t] EXCEPT !.kind = "post", !.text = Decision])
               /\ UNCHANGED <<files, overtaken, mixed>>
            \/ /\ ~detect_duplicate(yaml.items, call[t].text)
               /\ \E more \in SUBSET {i.id : i \in yaml.items}, uncertain \in BOOLEAN :
                     LET conflicts == detect_conflicts(yaml.items, call[t].text) \cup more
                         status == IF conflicts # {} \/ uncertain THEN "NEED_PM_DECISION" ELSE "ACTIVE"
                     IN Goto(t, "open", [call[t] EXCEPT
                                !.doc = Added(yaml, call[t].text, status, call[t].raw, conflicts),
                                !.then = "md"])
               /\ Loads(t)
               /\ UNCHANGED <<files, mixed>>

\* Nothing is added, and nobody is told, when the document cannot be loaded.
append_need_pm_decision_item(t) ==
    /\ pc[t] = "decide"
    /\ IF yaml.kind # "doc"
       THEN Goto(t, "idle", NoCall) /\ UNCHANGED overtaken
       ELSE /\ Goto(t, "open", [call[t] EXCEPT
                       !.kind = "decide", !.text = Decision,
                       !.doc = Added(yaml, Decision, "NEED_PM_DECISION", call[t].raw, {}),
                       !.then = "md"])
            /\ Loads(t)
    /\ UNCHANGED <<files, mixed>>

------------------------------------------------------------------------------
(* The process stops; its files keep what was written to them.             *)

Renders(t) ==
    \/ pc[t] = "md"
    \/ pc[t] = "drift_md" /\ md # render_requirements_md(call[t].doc)

Crash ==
    /\ crashes < MaxCrashes
    /\ \E t \in Thread : pc[t] # "idle"
    /\ crashes' = crashes + 1
    /\ yaml' \in {yaml} \cup {NoDoc("broken") : t \in {u \in Thread : pc[u] = "dump"}}
    /\ md' \in {md} \cup {[kind |-> "torn", items |-> {}] : t \in {u \in Thread : Renders(u)}}
    /\ baseline' \in {baseline} \cup {Torn : t \in {u \in Thread : pc[u] = "baseline_put"}}
    /\ proposed' \in {proposed} \cup {TRUE : t \in {u \in Thread : pc[u] = "v2_put"}}
    /\ kept' = IF yaml.kind = "empty" THEN {} ELSE kept
    /\ pc' = [t \in Thread |-> "idle"] /\ call' = [t \in Thread |-> NoCall]
    /\ overtaken' = {} /\ mixed' = {}
    /\ UNCHANGED <<raw, calls>>

------------------------------------------------------------------------------
Next ==
    \/ \E t \in Thread :
          \/ \E text \in Text :
                add_requirement_raw_first(t, text) \/ add_requirement_system_update(t, text)
          \/ propose_baseline_v2(t) \/ rebuild_requirements_md(t)
          \/ ensure_baseline_v1(t) \/ ensure_scaffold(t) \/ baseline_v2(t)
          \/ open(t) \/ dump(t) \/ render(t)
          \/ drift_check(t) \/ drift_render(t) \/ post_check(t)
          \/ add_requirement(t) \/ append_need_pm_decision_item(t)
    \/ Crash

Spec == Init /\ [][Next]_vars

------------------------------------------------------------------------------
(* Of two requirements that demand opposite things neither is active: both *)
(* wait for a decision, whichever calls stored them and in what order.     *)

OpposedAwaitDecision ==
    \A i, j \in yaml.items : <<i.text, j.text>> \in Opposed => i.status # "ACTIVE"

(* What a call has saved stays in the document, under its id, until two    *)
(* calls write it over each other or the process stops in the middle of a  *)
(* write.                                                                  *)

NoneLost == yaml.kind = "doc" => kept \subseteq {NameOf(i) : i \in yaml.items}

RequirementsKept == OpposedAwaitDecision /\ NoneLost
=============================================================================
