----------------------------- MODULE EventFeed -----------------------------
(***************************************************************************)
(* What an operator sees of a team run: the event streams of the control   *)
(* plane, followed by the watch command, and the run logs it saves.        *)
(*                                                                         *)
(* A stream polls: it reads the run's row, then the events after its       *)
(* cursor, and ends when the row it read was of no active run.  The run    *)
(* writes its row and its events one after the other, the cleanup of stale *)
(* runs and the chat's controls do too, and nothing orders a stream with   *)
(* them.  A step is one access to the database or one file written.  The   *)
(* states of the agents, which a stream sends along, are left out.         *)
(***************************************************************************)
EXTENDS Integers, Sequences, FiniteSets

CONSTANTS
    Watcher,      \* watch commands, which follow a run that they find RUNNING
    Firehose,     \* streams of the events of all runs
    Saver,        \* requests for the logs of the run
    Page,         \* most events of one poll (event_limit)
    Batch,        \* most rows of one query (1000)
    MaxLog,       \* bound: events in the table
    MaxControls   \* bound: controls sent over the chat

Viewer == Watcher \cup Firehose
RUN_STATE_ACTIVE == {"RUNNING", "PAUSED"}
RowState == {"absent", "RUNNING", "PAUSED", "STOPPED", "DONE", "FAILED"}
Position == 0 .. MaxLog
Id == 1 .. MaxLog

VARIABLES
    events,     \* the table: of each event, whether it is about the run
    row,        \* the state in the run's row
    phase,      \* how far the run itself is
    due,        \* other writers of the row that have their event still to add
    pc, cursor, taken,    \* a stream: where it is, its cursor, events of this poll
    ended,      \* streams whose last row was of no active run
    sent,       \* of each id, how often a stream has sent it
    known,      \* length of the table when it read such a row
    cut,        \* streams whose last poll was as long as it may be
    logs,       \* a request for the logs: events it found
    json, md,   \* events in the saved files
    mixed,      \* a request began while another was under way
    controls

streams == <<pc, cursor, taken, ended, sent, known, cut>>
files == <<logs, json, md, mixed>>
vars == <<events, row, phase, due, streams, files, controls>>

TypeOK ==
    /\ events \in Seq(BOOLEAN) /\ Len(events) \in Position
    /\ row \in RowState
    /\ phase \in {"new", "started", "working", "closing", "over"}
    /\ due \subseteq {"cleanup", "chat"}
    /\ pc \in [Viewer -> {"idle", "backlog", "row", "poll", "closed"}]
    /\ cursor \in [Viewer -> Position]
    /\ taken \in [Viewer -> 0 .. Page]
    /\ ended \subseteq Viewer
    /\ sent \in [Viewer -> [Id -> Nat]]
    /\ known \in [Viewer -> Position]
    /\ cut \subseteq Viewer
    /\ logs \in [Saver -> [at : {"idle", "json", "md"}, found : Position]]
    /\ json \in Position /\ md \in Position
    /\ mixed \in BOOLEAN
    /\ controls \in 0 .. MaxControls

Init ==
    /\ events = <<>> /\ row = "absent" /\ phase = "new" /\ due = {}
    /\ pc = [c \in Viewer |-> "idle"]
    /\ cursor = [c \in Viewer |-> 0] /\ taken = [c \in Viewer |-> 0]
    /\ ended = {}
    /\ sent = [c \in Viewer |-> [id \in Id |-> 0]] /\ known = [c \in Viewer |-> 0]
    /\ cut = {}
    /\ logs = [s \in Saver |-> [at |-> "idle", found |-> 0]]
    /\ json = 0 /\ md = 0 /\ mixed = FALSE
    /\ controls = 0

-----------------------------------------------------------------------------
\* The writers.

add_event(mine) == /\ Len(events) < MaxLog
                   /\ events' = Append(events, mine)

\* The run begins: its row, then RUN_STARTED.
Start ==
    /\ phase = "new"
    /\ row' = "RUNNING" /\ phase' = "started"
    /\ UNCHANGED <<events, due, streams, files, controls>>

\* An event of the run at work, or of any other part.
Record(mine) ==
    /\ mine => phase = "working"
    /\ add_event(mine)
    /\ UNCHANGED <<row, phase, due, streams, files, controls>>

\* The run is over: first its row, whatever the row says by then.
update_run_state(state) ==
    /\ phase = "working"
    /\ row' = state /\ phase' = "closing"
    /\ UNCHANGED <<events, due, streams, files, controls>>

\* RUN_STARTED, and RUN_FINISHED or RUN_FAILED, follow the row.
RunEvent ==
    /\ phase \in {"started", "closing"}
    /\ add_event(TRUE)
    /\ phase' = IF phase = "started" THEN "working" ELSE "over"
    /\ UNCHANGED <<row, due, streams, files, controls>>

\* A run whose row is old and still RUNNING is taken for dead.
cleanup_stale ==
    /\ row = "RUNNING" /\ "cleanup" \notin due
    /\ row' = "FAILED" /\ due' = due \cup {"cleanup"}
    /\ UNCHANGED <<events, phase, streams, files, controls>>

\* PAUSE, RESUME and STOP write the row and reach nobody else.
v1_chat(state) ==
    /\ row # "absent" /\ "chat" \notin due /\ controls < MaxControls
    /\ row' = state /\ due' = due \cup {"chat"} /\ controls' = controls + 1
    /\ UNCHANGED <<events, phase, streams, files>>

\* Their events follow the row too.
Announce(w) ==
    /\ w \in due
    /\ add_event(TRUE)
    /\ due' = due \ {w}
    /\ UNCHANGED <<row, phase, streams, files, controls>>

-----------------------------------------------------------------------------
\* The streams.

team_event_matches_run(c, id) == c \in Firehose \/ events[id]

\* A watch command takes a run that is RUNNING; a stream of all events asks for none.
Open(c) ==
    /\ pc[c] = "idle"
    /\ c \in Watcher => row = "RUNNING"
    /\ pc' = [pc EXCEPT ![c] = IF c \in Watcher THEN "backlog" ELSE "poll"]
    /\ ended' = IF row \in RUN_STATE_ACTIVE THEN ended \ {c} ELSE ended \cup {c}
    /\ known' = [known EXCEPT ![c] = IF row \in RUN_STATE_ACTIVE THEN 0 ELSE Len(events)]
    /\ UNCHANGED <<events, row, phase, due, cursor, taken, sent, cut, files, controls>>

\* One query after cursor k, and the hits among its rows: when the poll has room for no
\* more of them, the cursor stays at the last that it takes.
UpTo(n, hits) == {id \in hits : id <= n}
NoGap(k, last, hits, room) ==
    IF Cardinality(hits) < room THEN last
    ELSE CHOOSE n \in k + 1 .. last :
            Cardinality(UpTo(n, hits)) >= room /\ Cardinality(UpTo(n - 1, hits)) < room
SkipRest(k, last, hits, room) == last
Advance(k, last, hits, room) == NoGap(k, last, hits, room)

\* The room-th hit and those before it.
Shown(k, last, hits, room) == UpTo(NoGap(k, last, hits, room), hits)

list_events(k) == IF k + Batch < Len(events) THEN k + Batch ELSE Len(events)

team_events_since(c) ==
    LET k == cursor[c]
        last == list_events(k)
        hits == {id \in k + 1 .. last : team_event_matches_run(c, id)}
        room == Page - taken[c]
        shown == Shown(k, last, hits, room)
        full == Cardinality(hits) >= room
        over == full \/ last - k < Batch
    IN  /\ pc[c] \in {"backlog", "poll"}
        /\ cursor' = [cursor EXCEPT ![c] = Advance(k, last, hits, room)]
        /\ sent' = [sent EXCEPT ![c] = [id \in Id |-> sent[c][id] + (IF id \in shown THEN 1 ELSE 0)]]
        /\ taken' = [taken EXCEPT ![c] = IF over THEN 0 ELSE @ + Cardinality(hits)]
        /\ cut' = IF full THEN cut \cup {c} ELSE cut \ {c}
        /\ pc' = [pc EXCEPT ![c] =
                     CASE ~over \/ c \in Firehose -> @
                       [] over /\ c \in Watcher /\ @ = "poll"
                               /\ c \in ended -> "closed"
                       [] OTHER -> "row"]
        /\ UNCHANGED <<events, row, phase, due, ended, known, files, controls>>

\* The next turn of a stream begins with the run's row.
ReadRow(c) ==
    /\ pc[c] = "row"
    /\ pc' = [pc EXCEPT ![c] = "poll"]
    /\ ended' = IF row \in RUN_STATE_ACTIVE THEN ended \ {c} ELSE ended \cup {c}
    /\ known' = [known EXCEPT ![c] = IF row \in RUN_STATE_ACTIVE THEN 0 ELSE Len(events)]
    /\ UNCHANGED <<events, row, phase, due, cursor, taken, sent, cut, files, controls>>

-----------------------------------------------------------------------------
\* The logs of the run, saved by every request for them.

Mine == Cardinality({i \in 1 .. Len(events) : events[i]})

\* The first events of the run, no more than a page of them.
events_for_run == IF Mine < Page THEN Mine ELSE Page

build_team_run_logs_payload(s) ==
    /\ logs[s].at = "idle" /\ row # "absent"
    /\ logs' = [logs EXCEPT ![s] = [at |-> "json", found |-> events_for_run]]
    /\ mixed' = (\E o \in Saver \ {s} : logs[o].at # "idle")
    /\ UNCHANGED <<events, row, phase, due, streams, json, md, controls>>

WriteJson(s) ==
    /\ logs[s].at = "json"
    /\ json' = logs[s].found
    /\ logs' = [logs EXCEPT ![s].at = "md"]
    /\ UNCHANGED <<events, row, phase, due, streams, md, mixed, controls>>

WriteMarkdown(s) ==
    /\ logs[s].at = "md"
    /\ md' = logs[s].found
    /\ logs' = [logs EXCEPT ![s] = [at |-> "idle", found |-> 0]]
    /\ UNCHANGED <<events, row, phase, due, streams, json, mixed, controls>>

-----------------------------------------------------------------------------
Write ==
    \/ Start \/ RunEvent \/ cleanup_stale
    \/ \E mine \in BOOLEAN : Record(mine)
    \/ \E state \in {"DONE", "FAILED"} : update_run_state(state)
    \/ \E state \in {"PAUSED", "RUNNING", "STOPPED"} : v1_chat(state)
    \/ \E w \in due : Announce(w)

Stream(c) == Open(c) \/ team_events_since(c) \/ ReadRow(c)

Save(s) == build_team_run_logs_payload(s) \/ WriteJson(s) \/ WriteMarkdown(s)

Next ==
    \/ Write
    \/ \E c \in Viewer : Stream(c)
    \/ \E s \in Saver : Save(s)

Spec == Init /\ [][Next]_vars

-----------------------------------------------------------------------------
\* v1_run_stream and v1_events_stream: up to its cursor a stream has sent every event
\* it is about, and none twice, however the table grows and the pages are cut.  They come
\* in order, since a poll sends what is behind the cursor.
NoneSkipped ==
    \A c \in Viewer, id \in Id :
        sent[c][id] = IF id <= cursor[c] /\ team_event_matches_run(c, id) THEN 1 ELSE 0

\* v1_run_stream: a stream that has ended sent all that the run recorded before the row
\* that ended it was read, unless its last page was full.
EndedKnowsAll ==
    \A c \in Watcher \ cut : pc[c] = "closed" => known[c] <= cursor[c]

\* persist_team_run_logs: the two files of a run agree when requests come one by one.
LogsAgree == (\A s \in Saver : logs[s].at = "idle") /\ ~mixed => json = md

\* What a watcher saw is the run as it was: see the three parts above.
WatchersTold == NoneSkipped /\ EndedKnowsAll /\ LogsAgree

=============================================================================
