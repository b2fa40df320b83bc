----------------------------- MODULE PanelSync -----------------------------
(***************************************************************************)
(* The GitHub panel of a project: tasks, requirements, proposals,          *)
(* milestones and requests are mirrored as draft items of a GitHub         *)
(* project.  An item is found again by its key, a text field that is set   *)
(* after the item is created.                                              *)
(*                                                                         *)
(* The loop synchronises when the project is dirty or a refresh is due,    *)
(* API calls whenever they like, and the planner after it made tasks:      *)
(* nothing excludes them from each other.  A synchronisation reads what    *)
(* the panel should show, then lists the items, then creates or updates    *)
(* them one by one with a remote call per field.  A step ends with a read  *)
(* of local state or a remote call.                                        *)
(***************************************************************************)
EXTENDS Integers, FiniteSets, FiniteSetsExt

CONSTANTS
    Key,           \* keys of the items that the panel may show
    Unkeyed,       \* the key field is empty
    Loop,          \* the loop of the control plane
    Api,           \* threads that synchronise on request
    MaxItems,      \* bound: items on the panel
    MaxChanges,    \* bound: changes of what the panel should show
    MaxRequests,   \* bound: synchronisations on request
    MaxFaults      \* bound: failed remote calls and stops of the process

Syncer == {Loop} \cup Api
Id == 1 .. MaxItems
Version == 0 .. MaxChanges

ASSUME PanelAssumption ==
    /\ Loop \notin Api /\ Unkeyed \notin Key
    /\ MaxItems \in Nat \ {0} /\ MaxChanges \in Nat /\ MaxRequests \in Nat /\ MaxFaults \in Nat

\* What the panel should show of a key: nothing, or a version of its text and
\* options and whether it has a date.
Truth == [wanted : BOOLEAN, version : Version, dated : BOOLEAN]
Item == [key : Key \cup {Unkeyed}, text : Version, options : Version, dated : BOOLEAN]

\* last_attempt of the loop: younger than the debounce time, than the interval, or older.
Age == {"new", "debounced", "old"}

NoId == 0

VARIABLES
    truth,      \* the local state behind the panel
    items,      \* the items on the panel, in the order of their creation
    dirty, age, \* the loop's flag and last attempt
    pc,
    want,       \* _desired_items
    found,      \* existing_by_key
    left,       \* keys still to be synchronised
    now,        \* the item being synchronised: its key and id
    crossed,    \* two synchronisations have run at the same time
    changes, requests, faults

vars == <<truth, items, dirty, age, pc, want, found, left, now, crossed, changes, requests, faults>>
work == <<want, found, left, now>>
counters == <<changes, requests, faults>>

Last == Cardinality(DOMAIN items)

TypeOK ==
    /\ truth \in [Key -> Truth]
    /\ Last \in 0 .. MaxItems /\ items \in [1 .. Last -> Item]
    /\ dirty \in BOOLEAN /\ age \in Age
    /\ pc \in [Syncer -> {"idle", "desired", "list", "next", "key", "fields"}]
    /\ want \in [Syncer -> [Key -> Truth]]
    /\ found \in [Syncer -> [Key -> 0 .. Last]]
    /\ left \in [Syncer -> SUBSET Key]
    /\ now \in [Syncer -> [key : Key \cup {Unkeyed}, id : 0 .. Last]]
    /\ crossed \in BOOLEAN
    /\ changes \in 0 .. MaxChanges /\ requests \in 0 .. MaxRequests /\ faults \in 0 .. MaxFaults

Absent == [wanted |-> FALSE, version |-> 0, dated |-> FALSE]
NoWant == [k \in Key |-> Absent]
NoFound == [k \in Key |-> NoId]
NoItem == [key |-> Unkeyed, id |-> NoId]

Init ==
    /\ truth = NoWant /\ items = <<>>
    /\ dirty = FALSE /\ age = "old"
    /\ pc = [s \in Syncer |-> "idle"]
    /\ want = [s \in Syncer |-> NoWant] /\ found = [s \in Syncer |-> NoFound]
    /\ left = [s \in Syncer |-> {}] /\ now = [s \in Syncer |-> NoItem]
    /\ crossed = FALSE
    /\ changes = 0 /\ requests = 0 /\ faults = 0

------------------------------------------------------------------------------
(* sync.                                                                   *)

Goto(s, label) == pc' = [pc EXCEPT ![s] = label]

Begin(s) ==
    /\ pc[s] = "idle"
    /\ Goto(s, "desired")
    /\ crossed' = (crossed \/ \E o \in Syncer \ {s} : pc[o] # "idle")

desired_items(s) ==
    /\ pc[s] = "desired"
    /\ want' = [want EXCEPT ![s] = truth]
    /\ Goto(s, "list")
    /\ UNCHANGED <<truth, items, dirty, age, found, left, now, crossed, counters>>

Keyed(k) == {i \in DOMAIN items : items[i].key = k}

\* Mutant: the first page of items only.
existing_by_key_page == [k \in Key |-> IF 1 \in Keyed(k) THEN 1 ELSE NoId]

\* Of several items with one key the last one counts.
existing_by_key == [k \in Key |-> IF Keyed(k) = {} THEN NoId ELSE Max(Keyed(k))]

\* The project and its fields are resolved and its items listed.
list_items(s) ==
    /\ pc[s] = "list"
    /\ found' = [found EXCEPT ![s] = existing_by_key]
    /\ left' = [left EXCEPT ![s] = {k \in Key : want[s][k].wanted}]
    /\ Goto(s, "next")
    /\ UNCHANGED <<truth, items, dirty, age, want, now, crossed, counters>>

Take(s, k, id) ==
    /\ k \in left[s]
    /\ left' = [left EXCEPT ![s] = @ \ {k}]
    /\ now' = [now EXCEPT ![s] = [key |-> k, id |-> id]]

\* Drafts for key k, without any field.
add_draft_issue(s, k, n) ==
    /\ found[s][k] = NoId /\ Last + n <= MaxItems
    /\ items' = [i \in 1 .. Last + n |->
                   IF i <= Last THEN items[i]
                   ELSE [key |-> Unkeyed, text |-> want[s][k].version,
                         options |-> 0, dated |-> FALSE]]

create_draft(s) ==
    /\ pc[s] = "next"
    /\ \E k \in left[s] : add_draft_issue(s, k, 1) /\ Take(s, k, Last + 1)
    /\ Goto(s, "key")
    /\ UNCHANGED <<truth, dirty, age, want, found, crossed, counters>>

\* The title and the body, where they differ.
update_draft(s) ==
    /\ pc[s] = "next"
    /\ \E k \in left[s] :
         /\ found[s][k] # NoId
         /\ items' = [items EXCEPT ![found[s][k]].text = want[s][k].version]
         /\ Take(s, k, found[s][k])
    /\ Goto(s, "key")
    /\ UNCHANGED <<truth, dirty, age, want, found, crossed, counters>>

\* task_id or request_id: the first field.
set_key(s) ==
    /\ pc[s] = "key"
    /\ items' = [items EXCEPT ![now[s].id].key = now[s].key]
    /\ Goto(s, "fields")
    /\ UNCHANGED <<truth, dirty, age, work, crossed, counters>>

\* The other fields.  A date that is gone is not taken off the item.
set_fields(s) ==
    /\ pc[s] = "fields"
    /\ LET w == want[s][now[s].key] IN
         items' = [items EXCEPT ![now[s].id].options = w.version,
                                ![now[s].id].dated = @ \/ w.dated]
    /\ Goto(s, "next")
    /\ now' = [now EXCEPT ![s] = NoItem]
    /\ UNCHANGED <<truth, dirty, age, want, found, left, crossed, counters>>

Forget(s) ==
    /\ want' = [want EXCEPT ![s] = NoWant] /\ found' = [found EXCEPT ![s] = NoFound]
    /\ left' = [left EXCEPT ![s] = {}] /\ now' = [now EXCEPT ![s] = NoItem]

\* The end of the loop over the items: what failed on the way is not tried again.
return(s) ==
    /\ pc[s] = "next" /\ left[s] = {}
    /\ Forget(s) /\ Goto(s, "idle")
    /\ UNCHANGED <<truth, items, dirty, age, crossed, counters>>

------------------------------------------------------------------------------
(* Failures of remote calls.                                               *)

Fault == faults < MaxFaults /\ faults' = faults + 1 /\ UNCHANGED <<changes, requests>>

\* Before the first item, the failure ends the synchronisation.
list_fails(s) ==
    /\ pc[s] = "list"
    /\ Forget(s) /\ Goto(s, "idle")
    /\ Fault
    /\ UNCHANGED <<truth, items, dirty, age, crossed>>

\* The call for an item fails, or was executed and its answer is lost: the
\* synchronisation goes on with the next item.
item_fails(s) ==
    /\ \/ /\ pc[s] = "next" /\ UNCHANGED items
          /\ \E k \in left[s] : left' = [left EXCEPT ![s] = @ \ {k}]
       \/ /\ pc[s] = "next"
          /\ \E k \in left[s] : /\ left' = [left EXCEPT ![s] = @ \ {k}]
                               /\ add_draft_issue(s, k, 1)
       \/ pc[s] = "key" /\ UNCHANGED <<items, left>>
       \/ pc[s] = "fields" /\ UNCHANGED <<items, left>>
       \/ /\ pc[s] = "fields" /\ UNCHANGED left
          /\ items' = [items EXCEPT ![now[s].id].options = want[s][now[s].key].version]
    /\ now' = [now EXCEPT ![s] = NoItem]
    /\ Goto(s, "next")
    /\ Fault
    /\ UNCHANGED <<truth, dirty, age, want, found, crossed>>

\* The client calls again after a lost answer: the first draft stays without a key.
create_draft_retried(s) ==
    /\ pc[s] = "next"
    /\ \E k \in left[s] : add_draft_issue(s, k, 2) /\ Take(s, k, Last + 2)
    /\ Goto(s, "key")
    /\ Fault
    /\ UNCHANGED <<truth, dirty, age, want, found, crossed>>

\* The process stops: the flag and the last attempt are in memory.
Crash ==
    /\ Fault
    /\ dirty' = FALSE /\ age' = "old"
    /\ pc' = [s \in Syncer |-> "idle"]
    /\ want' = [s \in Syncer |-> NoWant] /\ found' = [s \in Syncer |-> NoFound]
    /\ left' = [s \in Syncer |-> {}] /\ now' = [s \in Syncer |-> NoItem]
    /\ UNCHANGED <<truth, items, crossed>>

------------------------------------------------------------------------------
(* The loop, the API, and the state behind the panel.                      *)

\* Mutant: only a dirty project is synchronised.
panel_attempt_dirty ==
    /\ dirty /\ age # "new"
    /\ dirty' = FALSE /\ age' = "new"
    /\ Begin(Loop)
    /\ UNCHANGED <<truth, items, work, counters>>

\* A pass of the loop that synchronises.
panel_attempt ==
    /\ dirty \/ age = "old"
    /\ age # "new"
    /\ dirty' = FALSE /\ age' = "new"
    /\ Begin(Loop)
    /\ UNCHANGED <<truth, items, work, counters>>

\* A pass within the debounce time: the flag is gone.
panel_debounced ==
    /\ pc[Loop] = "idle" /\ dirty /\ age = "new"
    /\ dirty' = FALSE
    /\ UNCHANGED <<truth, items, age, pc, work, crossed, counters>>

time_passes ==
    /\ age # "old"
    /\ age' = IF age = "new" THEN "debounced" ELSE "old"
    /\ UNCHANGED <<truth, items, dirty, pc, work, crossed, counters>>

\* /v1/panel/github/sync, and the planner's own call.
v1_panel_github_sync(s) ==
    /\ requests < MaxRequests /\ requests' = requests + 1
    /\ Begin(s)
    /\ UNCHANGED <<truth, items, dirty, age, work, changes, faults>>

\* A task, requirement, proposal, milestone or request appears, changes or is no
\* longer shown; only some of the callers mark the project dirty.
Change ==
    /\ changes < MaxChanges /\ changes' = changes + 1
    /\ \E k \in Key, dated \in BOOLEAN, wanted \in BOOLEAN :
         /\ truth[k].wanted \/ wanted
         /\ truth' = [truth EXCEPT ![k] =
                        IF wanted THEN [wanted |-> TRUE, version |-> changes', dated |-> dated]
                                  ELSE Absent]
    /\ \E mark \in BOOLEAN : dirty' = (dirty \/ mark)
    /\ UNCHANGED <<items, age, pc, work, crossed, requests, faults>>

Step(s) ==
    \/ desired_items(s) \/ list_items(s) \/ create_draft(s) \/ update_draft(s)
    \/ set_key(s) \/ set_fields(s) \/ return(s)

Next ==
    \/ \E s \in Syncer : Step(s) \/ list_fails(s) \/ item_fails(s) \/ create_draft_retried(s)
    \/ \E s \in Api : v1_panel_github_sync(s)
    \/ panel_attempt \/ panel_debounced \/ time_passes
    \/ Change \/ Crash

Spec == Init /\ [][Next]_vars

\* The loop comes round, time passes, and a synchronisation that has begun goes on.
Fairness ==
    /\ WF_vars(panel_attempt) /\ WF_vars(time_passes)
    /\ \A s \in Syncer : WF_vars(Step(s))

LiveSpec == Spec /\ Fairness

------------------------------------------------------------------------------
(* Properties.                                                             *)

\* One synchronisation at a time never gives two items the same key, whatever
\* fails or stops.
OneItemPerKey == crossed \/ \A k \in Key : Cardinality(Keyed(k)) <= 1

\* Once nothing changes any more, the panel comes to show every wanted key as it
\* is: even if a flag was lost, a call failed, the process stopped or an older
\* synchronisation wrote last.
PanelCatchesUp ==
    <>[](\A k \in Key : truth[k].wanted =>
           \E i \in Keyed(k) : /\ items[i].text = truth[k].version
                               /\ items[i].options = truth[k].version
                               /\ truth[k].dated => items[i].dated)

=============================================================================
