---------------------------- MODULE MeetingStream ----------------------------
(***************************************************************************)
(* How a meeting's events get from the bot-worker to a live page:          *)
(*                                                                         *)
(*   - a writer is one serialized chain of sink work (sink-supabase.ts,    *)
(*     the `tail` promise of one pipeline run, or the transcript path of   *)
(*     one message). It writes the entity row, inserts the meeting_events  *)
(*     row, and only then broadcasts (db.ts, persistAndBroadcast);         *)
(*   - PostgreSQL draws the event_id when the INSERT runs and makes the    *)
(*     row visible when it commits, so the rows of two writers may become  *)
(*     visible in the other order;                                         *)
(*   - Realtime may lose a broadcast;                                      *)
(*   - the page (realtime-meeting-channel.ts) seeds itself from the rows,  *)
(*     then applies broadcasts as they come and polls the rows after its   *)
(*     cursor, with a bounded set of applied event ids between the two.    *)
(***************************************************************************)
EXTENDS AppState, Naturals, FiniteSets, SequencesExt

CONSTANTS
    CardId, SynthesisId,    \* the meeting's cards and answers
    Writer,                 \* the chains of sink work
    Scripts,                \* what the writers may have to write: w -> events
    MaxEventId,             \* bound on the ids drawn from the sequence
    MaxFailures,            \* bound on the writes and polls that fail
    AppliedCap,             \* APPLIED_EVENT_IDS_CAP (500 in the code)
    PollLimit,              \* rows one poll returns at most (1000)
    SeedDegrades            \* TRUE: the seed may be skipped or fail to decrypt

ASSUME StreamAssumption ==
    /\ {MaxEventId, AppliedCap, PollLimit} \subseteq Nat \ {0}
    /\ MaxFailures \in Nat
    /\ SeedDegrades \in BOOLEAN
    /\ \A script \in Scripts : DOMAIN script = Writer

VARIABLES
    queue,       \* queue[w]: the work writer w has still to do
    writing,     \* writing[w]: how far it is with the first of them
    failures,    \* how many writes and polls have failed (for the bound)
    nextId,      \* the sequence behind meeting_events.event_id
    log,         \* the visible meeting_events rows: event_id -> event
    late,        \* history: the rows that became visible after one with a higher id
    cardRow,     \* the cards table
    answerRow,   \* the syntheses table
    net,         \* the broadcasts under way, in no order
    phase,       \* how far the page has come with loading
    page,        \* the page's AppState
    lastSeen,    \* the page's poll cursor (lastSeenRef)
    applied,     \* the page's applied event ids, oldest first
    fetch,       \* the poll in flight
    seeded,      \* the rows that were visible when the page's cursor was read
    handed       \* handed[i]: how often event i was handed to the reducer

serverVars == <<queue, writing, failures, nextId, log, late, cardRow, answerRow>>
pageVars   == <<phase, page, lastSeen, applied, fetch, seeded, handed>>
streamVars == <<queue, writing, failures, nextId, log, late, cardRow, answerRow, net,
                phase, page, lastSeen, applied, fetch, seeded, handed>>

EventId == 1..MaxEventId

Idle == [stage |-> "idle", id |-> 0]

NoFetch == [rows |-> {}, applying |-> FALSE]

NoRow == [status |-> "none", sources |-> {}, text |-> <<>>]

StreamInit ==
    /\ queue \in Scripts
    /\ writing = [w \in Writer |-> Idle]
    /\ failures = 0
    /\ nextId = 1
    /\ log = <<>> /\ late = {}
    /\ cardRow = [c \in CardId |-> "none"]
    /\ answerRow = [s \in SynthesisId |-> NoRow]
    /\ net = {}
    /\ phase = "unopened"
    /\ page = initialAppState
    /\ lastSeen = 0
    /\ applied = <<>>
    /\ fetch = NoFetch
    /\ seeded = {}
    /\ handed = [i \in EventId |-> 0]

-----------------------------------------------------------------------------
(***************************************************************************)
(* The writers.                                                            *)
(***************************************************************************)
Work(w) == Head(queue[w])

HasRow(e) ==
    e.type \in {"card", "cardRetracted", "synthesisStart", "synthesisDone",
                "synthesisRetracted"}

\* Interim utterances are broadcast without ever being stored (broadcastOnly).
Transient(e) == e.type = "transcript" /\ ~e.isFinal

\* A card is retracted only after it was surfaced: emitCard enters it into
\* liveCardByDocId when its own event has been sent.
Surfaced(c) == cardRow[c] # "none" /\ \A v \in Writer : ~Contains(queue[v], CardEvent(c))

Idling(w) ==
    /\ writing[w].stage = "idle" /\ queue[w] # <<>>
    /\ Work(w).type = "cardRetracted" => Surfaced(Work(w).id)

\* An UPDATE of a row that was never inserted changes nothing and is no error.
WrittenAnswer(row, e) ==
    CASE e.type = "synthesisStart" ->
            [status |-> "running", sources |-> e.sources, text |-> <<>>]
      [] e.type = "synthesisDone" /\ row.status # "none" ->
            [row EXCEPT !.status = "done", !.text = e.text]
      [] e.type = "synthesisRetracted" /\ (~e.streamed \/ row.status # "none") ->
            [row EXCEPT !.status = "retracted"]
      [] OTHER -> row

\* One more write or poll fails, within the bound.
Fail == failures < MaxFailures /\ failures' = failures + 1

\* The entity row of the first event of the queue is written.
WriteRow(w) ==
    /\ Idling(w) /\ HasRow(Work(w))
    /\ writing' = [writing EXCEPT ![w].stage = "row"]
    /\ IF Work(w).type \in {"card", "cardRetracted"}
       THEN /\ cardRow' = [cardRow EXCEPT ![Work(w).id] =
                              IF Work(w).type = "card" THEN "live" ELSE "retracted"]
            /\ UNCHANGED answerRow
       ELSE /\ answerRow' = [answerRow EXCEPT ![Work(w).id] = WrittenAnswer(@, Work(w))]
            /\ UNCHANGED cardRow
    /\ UNCHANGED <<failures, queue, nextId, log, late, net>> /\ UNCHANGED pageVars

\* A card whose row cannot be inserted takes its stale-card retraction with it.
Abandon(q) ==
    IF Head(q).type = "card" /\ Len(q) > 1 /\ q[2].type = "cardRetracted"
    THEN Tail(Tail(q))
    ELSE Tail(q)

\* The row write fails: the event is given up, except for a retraction, which
\* is broadcast all the same.
RowFails(w) ==
    /\ Fail
    /\ Idling(w) /\ HasRow(Work(w))
    /\ IF Work(w).type = "synthesisRetracted"
       THEN writing' = [writing EXCEPT ![w].stage = "row"] /\ UNCHANGED queue
       ELSE queue' = [queue EXCEPT ![w] = Abandon(@)] /\ UNCHANGED writing
    /\ UNCHANGED <<nextId, log, late, cardRow, answerRow, net>> /\ UNCHANGED pageVars

\* The INSERT into meeting_events runs: it draws an id, but is not visible yet.
DrawId(w) ==
    /\ \/ writing[w].stage = "row"
       \/ Idling(w) /\ ~HasRow(Work(w)) /\ ~Transient(Work(w))
    /\ nextId <= MaxEventId
    /\ writing' = [writing EXCEPT ![w] = [stage |-> "insert", id |-> nextId]]
    /\ nextId' = nextId + 1
    /\ UNCHANGED <<failures, queue, log, late, cardRow, answerRow, net>> /\ UNCHANGED pageVars

Inserting(w) == writing[w].stage = "insert"

\* The INSERT commits and its row becomes visible to every reader, maybe after the
\* row of another writer that drew a higher id.
Commit(w) ==
    /\ Inserting(w)
    /\ log' = Put(log, writing[w].id, Work(w))
    /\ late' = IF \E i \in DOMAIN log : writing[w].id < i
               THEN late \cup {writing[w].id} ELSE late
    /\ writing' = [writing EXCEPT ![w].stage = "send"]
    /\ UNCHANGED <<failures, queue, nextId, cardRow, answerRow, net>> /\ UNCHANGED pageVars

\* The INSERT fails: no row and no broadcast; the chain goes on with the next.
InsertFails(w) ==
    /\ Fail
    /\ Inserting(w)
    /\ writing' = [writing EXCEPT ![w] = Idle]
    /\ queue' = [queue EXCEPT ![w] = Tail(@)]
    /\ UNCHANGED <<nextId, log, late, cardRow, answerRow, net>> /\ UNCHANGED pageVars

\* sendBroadcast: a page that does not listen yet, or a lost send, gets nothing.
Send(w) ==
    /\ \/ writing[w].stage = "send"
       \/ Idling(w) /\ Transient(Work(w))
    /\ net' \in {net} \cup
         IF phase = "live"
         THEN {net \cup {[id |-> writing[w].id, event |-> Work(w)]}} ELSE {}
    /\ writing' = [writing EXCEPT ![w] = Idle]
    /\ queue' = [queue EXCEPT ![w] = Tail(@)]
    /\ UNCHANGED <<failures, nextId, log, late, cardRow, answerRow>> /\ UNCHANGED pageVars

WriterStep(w) ==
    \/ WriteRow(w) \/ RowFails(w) \/ DrawId(w)
    \/ Commit(w) \/ InsertFails(w) \/ Send(w)

-----------------------------------------------------------------------------
(***************************************************************************)
(* The page: loading. The cursor is read first, then the seed tables, one  *)
(* query after the other.                                                  *)
(***************************************************************************)
Visible == DOMAIN log

\* A page that read the meeting's status before it was recording is not seeded.
OpenPage ==
    /\ phase = "unopened"
    /\ seeded' = Visible
    /\ lastSeen' = IF Visible = {} THEN 0 ELSE Max(Visible)
    /\ phase' \in {"cards"} \cup IF SeedDegrades THEN {"live"} ELSE {}
    /\ UNCHANGED <<page, applied, fetch, handed, net>> /\ UNCHANGED serverVars

SeedCards ==
    /\ phase = "cards"
    /\ page' = [page EXCEPT !.cards = [c \in {d \in CardId : cardRow[d] = "live"} |-> FALSE]]
    /\ phase' = "answers"
    /\ UNCHANGED <<lastSeen, applied, fetch, seeded, handed, net>> /\ UNCHANGED serverVars

SeededAnswers ==
    [s \in {r \in SynthesisId : answerRow[r].status \in {"running", "done"}} |->
        [sources |-> answerRow[s].sources, text |-> answerRow[s].text,
         streaming |-> answerRow[s].status = "running", pinned |-> FALSE]]

\* A failed decryption seeds no answers at all.
SeedAnswers ==
    /\ phase = "answers"
    /\ page' \in {[page EXCEPT !.syntheses = SeededAnswers]} \cup
                 IF SeedDegrades THEN {page} ELSE {}
    /\ phase' = "transcript"
    /\ UNCHANGED <<lastSeen, applied, fetch, seeded, handed, net>> /\ UNCHANGED serverVars

\* As with the answers: a failed decryption seeds no lines at all.
SeedTranscript ==
    /\ phase = "transcript"
    /\ LET Spoken == {i \in Visible : log[i].type = "transcript"}
           lines  == {log[i].id : i \in Spoken}
           Final(u) == log[Max({i \in Spoken : log[i].id = u})]
       IN page' \in {[page EXCEPT !.transcript =
                       [u \in lines |-> [isFinal |-> TRUE, rev |-> Final(u).rev]]]} \cup
                     IF SeedDegrades THEN {page} ELSE {}
    /\ phase' = "live"
    /\ UNCHANGED <<lastSeen, applied, fetch, seeded, handed, net>> /\ UNCHANGED serverVars

-----------------------------------------------------------------------------
(***************************************************************************)
(* The page: broadcasts and the catch-up poll.                             *)
(***************************************************************************)

\* markEventApplied: a FIFO set of at most AppliedCap ids.
MarkEventApplied(ids, i) ==
    IF Contains(ids, i) THEN ids
    ELSE IF Len(ids) < AppliedCap THEN Append(ids, i) ELSE Append(Tail(ids), i)

FreshByCursor(i) == i > lastSeen

Fresh(i) == i > lastSeen /\ ~Contains(applied, i)

\* The page runs on one thread: while it goes through the rows of a response,
\* nothing else of it runs.
Listening == phase = "live" /\ ~fetch.applying

\* Event e with id i is handed to the reducer, once.
Hand(i, e) ==
    /\ applied' = MarkEventApplied(applied, i)
    /\ page' = Dispatch(page, e)
    /\ handed' = [handed EXCEPT ![i] = @ + 1]

\* A broadcast is applied at once; it never moves the cursor.
Receive(m) ==
    /\ Listening /\ m \in net
    /\ IF m.id = 0
       THEN page' = Dispatch(page, m.event) /\ UNCHANGED <<applied, handed>>
       ELSE IF Fresh(m.id) THEN Hand(m.id, m.event)
       ELSE UNCHANGED <<applied, page, handed>>
    /\ net' = net \ {m}
    /\ UNCHANGED <<phase, lastSeen, fetch, seeded>> /\ UNCHANGED serverVars

\* The response of one poll: the first PollLimit rows after the cursor.
RowsAfter(cursor) ==
    {i \in Visible : /\ i > cursor
                     /\ Cardinality({j \in Visible : cursor < j /\ j < i}) < PollLimit}

\* runFetch: one fetch at a time. (A fetch that finds nothing changes nothing.)
FetchRead ==
    /\ phase = "live" /\ fetch = NoFetch
    /\ RowsAfter(lastSeen) # {}
    /\ fetch' = [rows |-> RowsAfter(lastSeen), applying |-> FALSE]
    /\ UNCHANGED <<phase, page, lastSeen, applied, seeded, handed, net>>
    /\ UNCHANGED serverVars

FetchFails ==
    /\ Fail
    /\ fetch # NoFetch /\ ~fetch.applying
    /\ fetch' = NoFetch
    /\ UNCHANGED <<phase, page, lastSeen, applied, seeded, handed, net>>
    /\ UNCHANGED <<queue, writing, nextId, log, late, cardRow, answerRow>>

\* The next row of the response, in id order: skipped when it was applied already
\* or lies at or below the live cursor, which moves over it either way.
ApplyRow ==
    \E i \in fetch.rows :
        LET rest == fetch.rows \ {i} IN
        /\ \A j \in rest : i < j
        /\ IF Fresh(i) THEN Hand(i, log[i]) ELSE UNCHANGED <<applied, page, handed>>
        /\ lastSeen' = IF i > lastSeen THEN i ELSE lastSeen
        /\ fetch' = [rows |-> rest, applying |-> rest # {}]
        /\ UNCHANGED <<phase, seeded, net>> /\ UNCHANGED serverVars

\* The viewer pins an answer (the optimistic dispatch of _client.tsx).
PinAnswer(s) ==
    /\ Listening /\ Shown(page, s) /\ ~page.syntheses[s].pinned
    /\ page' = SynthesisPinned(page, s, TRUE)
    /\ UNCHANGED <<phase, lastSeen, applied, fetch, seeded, handed, net>>
    /\ UNCHANGED serverVars

PageStep ==
    \/ OpenPage \/ SeedCards \/ SeedAnswers \/ SeedTranscript
    \/ FetchRead \/ FetchFails \/ ApplyRow
    \/ \E m \in net : Receive(m)
    \/ \E s \in SynthesisId : PinAnswer(s)

StreamNext == PageStep \/ \E w \in Writer : WriterStep(w)

\* The page keeps polling every 2.5 s, and only MaxFailures of them fail; loading
\* is one run of straight-line code. Nothing is assumed of broadcasts.
PageFairness ==
    /\ WF_streamVars(OpenPage) /\ WF_streamVars(SeedCards)
    /\ WF_streamVars(SeedAnswers) /\ WF_streamVars(SeedTranscript)
    /\ WF_streamVars(FetchRead) /\ WF_streamVars(ApplyRow)

StreamSpec == StreamInit /\ [][StreamNext]_streamVars /\ PageFairness

-----------------------------------------------------------------------------
(***************************************************************************)
(* Properties.                                                             *)
(***************************************************************************)
Answer == [sources : SUBSET CardId, text : Seq(Nat), streaming : BOOLEAN, pinned : BOOLEAN]

\* The variables keep their types: the applied ids stay within their cap and
\* the page holds only cards and answers of this meeting.
StreamTypeOK ==
    /\ DOMAIN queue = Writer
    /\ writing \in [Writer -> [stage : {"idle", "row", "insert", "send"}, id : 0..MaxEventId]]
    /\ failures \in 0..MaxFailures
    /\ nextId \in 1..(MaxEventId + 1)
    /\ Visible \subseteq 1..(nextId - 1)
    /\ cardRow \in [CardId -> {"none", "live", "retracted"}]
    /\ answerRow \in [SynthesisId -> [status : {"none", "running", "done", "retracted"},
                                      sources : SUBSET CardId, text : Seq(Nat)]]
    /\ phase \in {"unopened", "cards", "answers", "transcript", "live"}
    /\ DOMAIN page.cards \subseteq CardId /\ page.retractedCards \subseteq CardId
    /\ DOMAIN page.syntheses \subseteq SynthesisId
    /\ \A s \in DOMAIN page.syntheses : page.syntheses[s] \in Answer
    /\ lastSeen \in 0..MaxEventId
    /\ Len(applied) <= AppliedCap /\ ToSet(applied) \subseteq EventId
    /\ seeded \subseteq EventId
    /\ handed \in [EventId -> Nat]

\* An answer the page shows as finished has exactly the text stored in its row,
\* whatever deltas were lost, doubled or reordered on the way (synthesisDone
\* carries the full text; the seed takes the row's).
FinishedAnswersWhole ==
    \A s \in SynthesisId : Finished(page, s) => page.syntheses[s].text = answerRow[s].text

\* A finished answer stays on the page, finished and unchanged: no replayed
\* start, late delta or retracted source card takes it back.
FinishedAnswersStand ==
    [][\A s \in SynthesisId :
          phase = "live" /\ Finished(page, s) =>
            Finished(page', s) /\ page'.syntheses[s].text = page.syntheses[s].text]_streamVars

\* Nothing is under way: every writer is done and the page has caught up.
Quiet ==
    /\ \A w \in Writer : queue[w] = <<>>
    /\ phase = "live" /\ fetch = NoFetch /\ net = {}
    /\ \A i \in Visible : i <= lastSeen

Stored(type, s) == \E i \in Visible : log[i].type = type /\ log[i].id = s

\* Once everything is quiet, no prose of a retracted answer is left on the page,
\* and the answer itself is gone when the retraction reached its row, too (a page
\* opened after a retraction whose row update failed shows an empty answer). Not so
\* when the row of the retraction became visible late: the cursor may be past it.
RetractedProseGoes ==
    Quiet => \A s \in SynthesisId :
        /\ \E i \in Visible \ late : log[i].type = "synthesisRetracted" /\ log[i].id = s
        /\ Shown(page, s)
        => /\ page.syntheses[s].text = <<>>
           /\ answerRow[s].status # "retracted"

\* "fetch all meeting_events with event_id > lastSeen and replay through dispatch
\* so missed broadcasts are recovered": once everything is quiet, an answer
\* whose start and end are both stored is not left streaming on the page.
MissedBroadcastsRecovered ==
    Quiet => \A s \in SynthesisId :
        Stored("synthesisStart", s) /\ Stored("synthesisDone", s) => ~Streaming(page, s)

\* The abstract feed: an event the page was not seeded with reaches the reducer by one
\* of the two routes, and by the other only when AppliedCap others came in between;
\* one that became visible after a row with a higher id may never reach it.
Feed == INSTANCE EventFeed WITH
            Id <- EventId, Window <- AppliedCap,
            published <- Visible,
            opened <- phase = "live", seed <- IF phase = "live" THEN seeded ELSE {},
            delivered <- handed, recent <- applied

FeedSpec == Feed!Spec
=============================================================================
