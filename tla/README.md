# Risezome, modelled in TLA+

Risezome puts a bot into a video meeting, listens to its transcript, retrieves
documents of the organization while people talk, and shows cards and grounded
answers on a live page; after the call it writes a recap and records the
questions it could not answer. This directory holds TLA+ modules of its
concurrent core, the TLC configurations that check them on small instances, and
TLAPS proofs about them. All paths below are relative to the repository.

    tlc -config MeetingStream.cfg   MCMeetingStream    tlapm AnswersProofs.tla
    tlc -config Feed.cfg            MCMeetingStream    tlapm AfterMeetingProofs.tla
    tlc -config StreamLostStart.cfg MCMeetingStream    tlapm MeetingsProofs.tla
    tlc -config Answers.cfg         MCAnswers          tlapm CorpusProofs.tla
    tlc -config Pipeline.cfg        MCPipeline         tlapm SecretsProofs.tla
    tlc -config Retrieval.cfg       MCRetrieval        tlapm PipelineProofs.tla
    tlc -config Worker.cfg          MCWorker           tlapm RetrievalProofs.tla
    tlc -config Meetings.cfg        MCMeetings         tlapm WorkerProofs.tla
    tlc -config Recap.cfg           MCRecap
    tlc -config Gaps.cfg            MCGaps
    tlc -config Corpus.cfg          MCCorpus
    tlc -config Secrets.cfg         MCSecrets

`PROJECT.json` maps every definition to the source lines it stands for.

## 1. Inventory of the system

| Component | State it keeps | Operations | Hard behaviour | What makes it correct |
|---|---|---|---|---|
| **Retrieval trigger** (`apps/bot-worker/src/retrieval.ts`, `answer-dedup.ts`) | per meeting: rolling window, cooldown, question budgets, three duplicate ledgers, cached source scope | handle an utterance; embed; gate; fire | handlers of different utterances interleave at every await; ledgers are written late | cooldown and budgets hold; an answered question is not answered again |
| **Pipeline stages** (`pipeline/core.ts`, `corpus-search.ts`) | one run: judge and router under way, hits, cards, sources | gate; embed; search; retry on a miss; surface; run a skill; synthesize | judge and router answer beside the run or are aborted; each leg, insert and call may fail | nothing asked is lost; a gap is a true miss; a citation names its card |
| **Synthesis** (`core.ts` runSynthesis, `engine/src/synthesize`) | output so far, what was streamed | stream early behind a STATUS line, finish, retract, refuse | prose is shown before its verdict is known | grounded or nothing |
| **Supabase sink** (`pipeline/sink-supabase.ts`, `db.ts`) | a promise chain per pipeline run, the map of live cards | write row, insert event, broadcast; stale-card retraction | each of three writes can fail; process may die | an answer that was begun ends, in the log and on the page |
| **Event log and live page** (`db.ts`, `portal/app/_lib/realtime-meeting-channel.ts`, `live/page.tsx`, `hud-ui/src/state/app-state.tsx`) | `meeting_events` with a sequence; the page's cursor, applied ids and AppState | seed, receive a broadcast, poll after the cursor, reduce | lost, late and doubled broadcasts; ids visible out of order | every event arrives; a finished answer is whole and stays |
| **Live cards and pins** (`sink-supabase.ts`, `card-actions-server.ts`) | rows of cards, pins | surface, retract as stale, pin, dismiss | two runs surface a document; pin between check and update | one live card per document; a pinned card is not retracted |
| **WebSocket server, segments** (`bot-worker/src/index.ts`, `segment-tracker.ts`) | the runtime of a meeting, open segments | accept Recall frames, end, restart | the handlers of a partial and its final come back in any order | one line per utterance, settled by its final |
| **Rolling summarizer** | a cached summary | refresh | - | prompt context only |
| **Meeting lifecycle** (`launch-bot.ts`, `recall/webhook/route.ts`, reaper, `end-action.ts`) | `meetings` rows of a conference URL, launch runs, bots | opt in, launch, webhook, worker flip, reap, end | launches of several attendees race; webhooks late, doubled, lost; retried steps | one bot in the call; jobs once per meeting; nothing stays live for ever |
| **Meeting recap** (`generate-meeting-recap.ts`, `regenerate-recap-core.ts`) | `recap_status`, recap rows | generate, regenerate, roll back | duplicate events, rollback race | a `done` has a recap; never wedged in `generating` |
| **Knowledge gaps** (`knowledge-gaps.ts`, `gap-capture.ts`, `gap-actions.ts`, `section-actions.ts`) | misses, gaps, occurrences, sections | record, assemble, backfill, sweep, curate | an assembly repeated half done; managers in the middle of it | every ask counted once; curation stands |
| **Team sources, corpus indexing** (`team-source-lifecycle.ts`, `connector-index.ts`, `corpus-reconcile.ts`) | sources, references, documents | select, drop, index, prune, purge | last reference dropped during a select; overlapping runs | a selected source is indexed and not purged |
| **Encryption keys** (`provision-org-key.ts`, `migrate-encryption-to-kms.ts`, `rotate-org-key.ts`) | key, record of it, marked ciphertexts | provision, migrate, rotate, revoke | values replaced while they are re-encrypted | every row is readable |
| **Connector tokens** (`atlassian-token.ts`, callbacks) | rotating refresh tokens | connect, refresh, disconnect | two refreshes at once | the stored token is one the provider takes |
| **Calendar sync** | events, opt-ins | sync | feeds the lifecycle | - |
| **Connectors, engine, access control, portal pages, capture tools** | none that steps concurrently | adapters, pure functions, rendering | - | - |

How they interact: Recall's webhooks and the calendar drive the lifecycle row.
Recall's transcript frames reach the bot-worker, which opens a segment, stores
and broadcasts the line, and may start a pipeline run. The run awaits the insert
of each card and hands the events of its answer to the sink's chain, which writes
PostgreSQL and then sends on Realtime. The page reads PostgreSQL once and then
follows broadcasts and its poll. The portal's own actions (pin, dismiss, end) write
the same tables as the bot-worker. `call_ended` starts the recap and the
assembly of gaps as Inngest functions, which may be retried. The search reads what
the index runs have written, for the sources the teams have selected, with tokens the
connections keep; what is stored of all this is encrypted with the org's key.

## 2. Modules

**`AppState`** — the live page's reducer, `appStateReducer` of `app-state.tsx`,
as one operator per event kind and `Dispatch`. A page is a record: cards,
answers with sources, text (the sequence of chunks shown), streaming and pinned
flags, the transcript with revisions, and the two tombstone sets.

**`MeetingStream`** — how events get to a page. A *writer* is one serialized
chain of sink work. `WriteRow`, `DrawId`, `Commit` and `Send` are the steps of
one event: the entity row, the sequence draw inside the INSERT, visibility on
commit, the broadcast. `RowFails` and `InsertFails` are the error paths. The
page loads in four queries (`OpenPage` reads the cursor first, then
`SeedCards`, `SeedAnswers`, `SeedTranscript`), each a step, so that writers run
between them. `Receive`, `FetchRead`, `FetchFails` and `ApplyRow` are the
handlers of `realtime-meeting-channel.ts`; a poll response is applied row by
row, and nothing else of the page runs in between because a page is one thread.
`net` is a set: broadcasts arrive in any order, and `Send` may drop one. The INSERTs of two
writers commit in any order. `seeded`, `handed` (how often each event was handed to the
reducer) and `late` (the rows that became visible after one with a higher id) are history
variables; no action reads them.

**`EventFeed`** — the abstract promise. Deliveries are counted: an event that was not in the
page's seed is delivered, only after it was published, in the end, and not again
before `Window` other events were. Of a *late* event, one published after an event with a higher
id, it promises no delivery. `MeetingStream!FeedSpec` is its instance under the mapping
*published* = visible rows, *delivered* = how often a row was handed to the reducer,
*recent* = the applied ids, `Window` = their cap.

**`Answers`** — the synthesis of an answer on top of the stream, one writer per
answer. `TextDelta` is the body of the synthesizer loop: the gate (what
`stripStatusPrefix` makes of the output), the sentence boundary, what is flushed.
`Finish` is the `done` chunk with the verdict, `SynthesizerFails` the catch
block, `Crash` a restart of the process, which loses every chain. Text is
abstracted to chunk numbers, so "the right text in the right order" remains
expressible and the words are not.

**`Pipeline`** — one run of `runPipeline`, between the trigger and the answer. Each
await is an action: `EmbedReturns`, `SearchReturns`, `Verdict`, `ExpanderReturns`,
`SearchAgainReturns`, `ParentsReturn`, `CardReturns`, `CollectTool`, `SkillReturns`,
`Synthesize`. Beside it the relevance judge and the router answer whenever they do
(`JudgeAnswers`, `RouterAnswers`), or are aborted by their timers; `timers` says which
are set, and only collecting the router's answer clears its timer. The search is a
function of the corpus: `Lists` are the text, code and word legs of
`corpus-search.ts`, `Passes` their floors, `Score` and `Fused` reciprocal rank fusion
in exact integer shares, `Confident` the bar for the reranker and for adopting a retry.
Judge, router, expander, skill and reranker may answer anything. Equal distances
are decided by the order of the table (`Place`). The reranker's answer (`Returns`) is any
list of distinct candidates of at most `TopK`, the short and the empty one among them, for the
code keeps what came back; that it names none twice is assumed. A skill is `SkillResolves` and then `SkillReturns` or `SkillFails`;
its deadline (`SkillAborted`) only sets a signal, which ends an await on the connector and
not the resolving of credentials before it.

**`Retrieval`** — when an utterance triggers a search. Each await of
`maybeRetrieveAndEmit` ends an action: `Arrive`, `EmbedReturns`, `ScopeReturns`,
`FindsNothing`/`Surfaces`, `Grounded`/`Ungrounded`, `LedgerEmbedReturns`.
A handler computes with the time its message came in (`at`), not with the clock;
several hazards come from that. What is embedded, compared and remembered of a question is
its query (`BuildQuestionQuery`): a fragment gets the final before it and the summary's
topic. `Near` is therefore over queries, and a fragment said again in another context need
not be near to what it was. `fires` is a history variable.

**`Worker`** — the bot-worker in one meeting, composed of three modules. `Runtime` is
the in-memory object of the meeting: `Register` finds or makes it, `Forget` takes it
out of the map, and handlers keep the one they found. `Transcript` is Recall's socket
(`Says`, `Arrive`, `Connect`, `Disconnect`), the first-utterance flip a handler
waits for (`FlipReturns`), the segment tracker (`ResolvePartial`, `ResolveFinal`),
storing (`Store`) and the page's lines (`Show`). `Cards` is the rows of cards: a run
inserts (`InsertCard`), announces, reads the map and sets it (`Announced`), checks
the earlier card's pin (`Check`) and retracts it (`Retract`, `Told`), beside server
actions that look a card up and then pin, unpin or dismiss it. `Worker` joins them:
`HandleFinal` stores a final and may start a run, `End` and `Restart` take the runtime
from both. `overtaken`, `cut`, `spared` and `late` are history.

**`Meetings`** — the rows of one conference URL. Attendees opt their events in
(`OptIn`, `OptOut`, `RetryLaunch`) and the calendar moves them (`Reschedule`).
A launch run is a record with a stage, one per Inngest step of `launch-bot.ts`:
`Reload`, `Lookup`, `Insert` or `InsertConflicts` (the two unique indexes are the
operator `Conflict`), `CreateBot`, `Finalize`; `LaunchDies` is a run whose retries
are used up. A bot is a record with a phase, moved by `Admitted` and `Leaves`.
`Webhook` is the route's handler with the transition test and the jobs it
requests; it may take any report a bot's phase has made true, so webhooks come
late, twice, in any order, or never. `FirstUtterance` is the worker's flip,
`ReapRecording` and `ReapPrelaunch` the reaper, `EndNow` the end by hand. Time is
kept as ages, which `Tick` advances. The fields `reopened` and `givenUp` of a row
and the variable `failed` are history; no guard reads them.

**`Recap`** — `recap_status` of one meeting. `RecapRequested` and a click's `Send`
queue a run; `CheckAlreadyDone`, `MarkGenerating`, `Generated`, `Persist` are its
steps, `StepThrows` a retry, `OnFailure` the end of the retries. `Read`, `Flip`,
`Send`, `SendFails`, `Restore` are the lines of `regenerateRecap`, `ClickDies` the
end of its process between them. The stored recap is the name of the run that
made it. `StepFree` is the function's concurrency key: Inngest runs one step of
a meeting at a time, but two runs of the meeting interleave between steps. `lost`
and `served` are history.

**`Gaps`** — the knowledge gaps of an organization. The worker stores misses and
retraction rows (`RecordMiss`, `RetractAnswer`, `WriteFails`: fire and forget).
`MeetingEnds` requests an assembly; a run of it is one Inngest step that is repeated
from its beginning: `Load`, then per group `AssembleReads` and `AssembleWrites` (the
RPC under the org's advisory lock, in two because manager actions do not take that
lock), `Recluster` and `Place`, and `Mark` last. `SkipGroup` is the embedding of a
wrong size, `Throws` a failure at any await. `Sweep` deletes processed misses, the
backfill derives misses again from retracted answers, and managers close, assign,
merge and move gaps and split, merge and delete sections, in the queries of their
actions. Embeddings are topics: two questions are near or they are not.
`history` holds what the properties except, `overtaken` among it.

**`Corpus`** — one source of an org. Admins' actions go query by query (`AddRead`,
`AddInsert`, `AddCount`, `AddRevive`; `RemoveDelete`, `RemoveCount`, `RemoveMark`;
`ReindexRead`, `ReindexMark`; `ViewRead`, `ViewWrite`), each ending in `Emit`, which may
fail. An index run is `Load`, `Fetch`, `Prepare`, `Reconcile`, `Embed`, `Finalize`, one
Inngest step each, under a concurrency key that lets two runs interleave between
steps; what is kept between steps is what they returned; the documents prepared are a set, and
a document's place among them is counted (`PlaceIn`). `Prunes` is the gate of
`corpus-reconcile.ts` against a provider that suddenly lists little.
`PurgeRemovedSources` is the daily purge, `ProviderChanges` the provider. Any number of
admins act at once. `outdated` is history: one of them wrote by a reading that another's
write had made untrue; so is `calm`. `GraceEnds` has the one assumption about time: the
grace period is days and an admin's request seconds, so an add that read the source before it
was removed is over before the tombstone is past its grace.

**`Secrets`** — a versioned column, a Google token and the Atlassian connection of an
org, its KMS key, and the jobs `provision`, `migrate`, `rotate` and `revoke`. Each job
reads a row, calls KMS and writes under the guard the code puts on that update
(`Rewritten`, `Migrated`, `Rotated`); `WriteColumn`, `SignIn`, `Connect`, `Disconnect` and
the two-step refresh (`Refresh`, `StorePair` or `PairLost`) come in between. Plaintexts are
numbers that grow with time, a ciphertext is its plaintext, format and the number of
its write. `lost` and `crossed` are history.

**`*Proofs`** — the proofs. **`MC*`** — instances for TLC. The components meet in
events and rows: `Meetings` requests what `Recap` and `Gaps` receive; `Retrieval`
decides that a run starts, `Pipeline` what becomes of it, `Cards` what its rows
become, `Answers` how its synthesis reaches the page; the misses of `Pipeline` and
`Answers` are what `Gaps` counts.

## 3. Runs

| Run | Question | Result |
|---|---|---|
| `stream` | Two chains, one lossy channel, a page that opens whenever: is a finished answer whole, does it stay, does retracted prose go? | holds |
| `feed` | Commits in any order: does the page implement `EventFeed`, deliveries counted, liveness included? | holds |
| `answers` | Is it grounded or nothing, on the page and in the rows? Does every answer that began to stream end? | holds |
| `pipeline` | Over every answer of judge, router, skill, expander and reranker (short and empty ones too) and any failed calls: is a gap a true miss, is anything asked lost, does a citation name its card, does a run end? | holds |
| `retrieval` | Do cooldown, ceilings and duplicate suppression survive every interleaving of the awaits? | holds |
| `worker` | Partials and finals whose handlers race, reconnects, ends and restarts; runs that surface the same document beside a pin: do lines settle, does one card of a document stay, does a pin stand? | holds |
| `meetings` | Two attendees' launches race, or one launch meets a late webhook, a failure and a change: one bot, one set of jobs, no meeting live for ever? | holds |
| `recap` | Do duplicate events, two regenerations, retries and rollbacks leave a `done` that is backed, no click dropped unserved, no endless `generating`? | holds |
| `gaps` | Assemblies repeated half done, a sweep, a backfill and managers in the middle: is each ask counted once, does curation stand, does a closed gap stay closed? | holds |
| `corpus` | Two admins at once select, drop, edit views and reindex, beside overlapping index runs and the purge: does the selection decide, is the corpus what is wanted, is no status wedged? | holds |
| `secrets` | Provisioning, migration and rotation beside writes, refreshes and connects: is every row readable, does nothing old come back, is the stored token live? | holds |
| `stream_lost_start` | "so missed broadcasts are recovered" (`realtime-meeting-channel.ts:25`) | refuted |

The refutation: a `done` whose start broadcast was lost is ignored by the reducer,
which does not know the answer, and yet marked applied. The poll then delivers the
start and skips the done, and the answer streams on the page for ever.

### What the properties except

The passing properties are as strong as the code makes them, and no stronger.

- `AmbientSpacing`: a question whose embedding was slow may set `lastRetrievalAt` back.
  `QuestionCeilingsHold` concerns the questions that bypass the cooldown; others wait
  for it. `NoLateRepeat` concerns questions answered before the second one fired:
  two in flight together may both be answered. It compares queries, so a fragment whose
  antecedent or topic has changed is another question, and is retrieved for.
- `RetractedProseGoes` allows the empty shell of an answer whose retraction did not
  reach its row, and excepts a retraction whose row became visible late: a cursor that
  passes an id not yet visible passes a retraction, too. `FeedSpec` excepts the same rows from
  what must be delivered, and allows a second delivery once `AppliedCap` events have come
  between the two, when the page has forgotten the first.
- `NothingIsLost`: no vector came, no card could be inserted, or a question's words are
  filler by the heuristic, whose miss records no gap. `GapsAreRealMisses`: a leg of
  the search failed, or the reranker named none of the hits it was given. `RunsEnd`: the part
  of a skill that does not heed its deadline ends by itself.
- `OneLivePerDoc`: a card still in hand, and one no run will come back to (pinned when
  checked, retraction failed, the map set by another run in between, runtime lost).
  `PinnedStands`: a pin after the check. `LinesSettle`: speakers with a message
  resolved before an earlier one, and interim lines of an utterance cut by a
  reconnect, an end, a restart or a failed insert.
- `OneBotPerMeeting`: a bot whose creation Recall never answered (the retried step makes
  another), and one whose row was given up while it was there. `JobsRequestedOnce`: a
  completed meeting that a late webhook or finalize has reopened, since
  `.neq('status', newStatus)` compares with the status it sets. `CompletedIsProcessed`:
  the end by hand requests no jobs and makes the later `call_ended` no transition.
  `ReaperSparesTheCall` needs `started_at` and a maximum duration within the cap.
- `SkippedAreServed` and `RecapSettles`: what a rollback put back; `RecapSettles` also
  writes that were given up. `SkippedAreServed` takes a click to be served by any recap
  stored after it, one of a run that was in flight at the click included.
- `GapsCountTheirAsks`: a gap merged away between two attempts of a run, or a backfill that
  could not read. `CurationStands`: a move after a run had picked the gap.
  `MissesSettle`: the run threw at every attempt.
- `SelectionDecides`, `PurgeSparesSelected`: nobody wrote by an outdated reading, that is,
  marked the source removed when a team had selected it since the count, revived it when it
  was dropped since, or selected it without a revive when it was removed since its row was
  read. Two admins can do each of these, and the run `corpus` has all three. `UnsettledIsServed`:
  the event was never sent. `CalmRunConverges`: a run nothing disturbed; and of the teams a
  document is visible to it says nothing when the run found its content unchanged.
- `NothingGoesBack`, `StoredTokenLives`: a connect between a read of the connection and its
  write (`crossed`); `StoredTokenLives` also a refreshed pair that was lost. `NothingGoesBack`
  also a rotation's update of a Google token, which has no guard, when a sign-in has replaced
  the token since it was read (`Outdated`).

### Observations

Met while modelling; apart from the refutation no run is about them, and some are what a property excepts.

- `event_id` is drawn when the INSERT runs and visible when it commits: a poll between two
  commits passes an id that is not visible yet, and its event is lost with its broadcast.
  `realtime-meeting-channel.ts:109-113` has it that "nothing before the cursor can have been
  missed". A broadcast of it that does arrive is dropped as not after the cursor.
- After a failed INSERT of an answer's row the UPDATE of its `done` matches no row,
  which is no error, and the done is announced (`sink-supabase.ts:270`).
- The utterance counter is incremented before the embedding is awaited and compared
  after it; another utterance resets it in between, and a question is dropped
  (`retrieval.ts:342`, against `:81`).
- `generate-meeting-recap.ts:264-268` says that regenerations "never read 'done' here",
  because the click sets `generating` first. A run in flight at the click stores its recap and
  `done` after that flip; the click's own run then reads `done` and is skipped. The viewer gets
  the older run's recap for the click: `SkippedAreServed` says so much and no more.
- A view edit followed by a full reindex does not recompute `visible_team_ids` of documents
  whose content is unchanged: reconcile leaves them out of what is embedded
  (`corpus-reconcile.ts:131-141`, `connector-index.ts:331`), against
  `corpus-policy-action.ts:85-87`. They keep the teams of when they were last written.
- A reranker answer without data counts as an empty list (`voyage-rerank.ts:69`), and the
  search keeps only what came back: hits that passed every floor are dropped and a gap is
  recorded, where `corpus-search.ts:309-311` has the fused order kept on an error.
- A skill's deadline aborts a signal (`core.ts:1032-1037`), but the live skills first resolve
  the connection without it (`github/source-resolver.ts:74-78`, `app-auth.ts:69-80`): an
  unanswered token exchange keeps the run past the deadline.
- "A literal re-ask via follow-up builds the same query" (`retrieval.ts:286-288`) only while
  the prior final and the topic are the same.
- `rotateGoogleTokens` updates by user only (`rotate-org-key.ts:187-210`): a sign-in between
  its read and its write is overwritten with the older refresh token.
- The wedged recap: a click that read `generating` restores `generating` after the run has
  stored `done` (`regenerate-recap-core.ts:86-92`).
- An opted-in event that is moved gets no launch for its new time (`launch-bot.ts:86`).
- A reconnect sets `token_version` to 0 (`app/api/atlassian/callback/route.ts:104`): a refresh,
  migration or rotation that read the row at 0 puts the old grant's token back.
- Two admins, or two runs, that read before either writes: the reference count, by which a
  source that a team selects is marked removed and in the end purged with the selection
  (`team-source-lifecycle.ts:71`), and the map of live cards (`sink-supabase.ts:173`); a pin
  between the check and the update of its retraction (`sink-supabase.ts:432`).
- Revocation writes the status `revoked`, which the table's check refuses
  (`20260612030000_data_integrity.sql:229`, against `encryption-key-rotation.md:84`).
- A page that read the meeting as not yet recording and then its cursor past the first
  lines neither seeds nor polls them (`page.tsx:109-111`).
- Misses that arrive after the assembly stay until a backfill; a closing that races the
  assembly's RPC leaves a closed gap with a new ask; the notification of a resurfaced gap
  is lost when the step dies after its RPC; a backfill ignores read errors.
- A search with no hits ends before the router's tool answer is collected, where
  `docs/plans/archive/2026-05-31-003-feat-skill-routing-bot-worker-plan.md:838` has the
  synthesizer run with the tool's source; a failed vector leg or scope resolution is
  recorded as a gap for want of hits; a synthesizer that fails before it streams leaves
  cards and no gap.

### Bounds

- `stream`: two writers, scripts of two to three events chosen so that each race has
  both actors (a card retracted under an answer that rests on it; an answer taken back
  while a line is revised; a `done` with a lost delta), four ids, one failure, `AppliedCap`
  3, `PollLimit` 2: the applied ids can be forgotten and a poll can be partial.
- `feed`: three lines of transcript from two writers that commit in either order, cap 1, one
  row per poll, one failure: the least with which an id is forgotten while its poll is to
  come, and a row becomes visible behind the cursor.
- `answers`: one answer of at most two chunks, four ids, one failure or crash. Answers do
  not read each other's state (the proof covers any number); two chunks are the
  least for a flush that is partial and a rest at the end.
- `pipeline`: two chunks of one document and one of code, the least for a document that
  occurs twice and a second space; seven corpora (everything near, weak, only code,
  only words, nothing until the query is expanded, nothing at all) whose
  distances lie on either side of each floor and of the bar; 44 inputs, four
  configurations, and any combination of failed calls. `RrfK` is the code's, `Scale` makes its shares integers.
- `retrieval`: three utterances over a standalone question, a fragment and one ambient text,
  and a topic that may come up; the antecedent tells fragments apart and the topic does not, so
  that a repeat can be the same query, a near one or another; cooldown of two
  ticks, one question per window and two per meeting, a duplicate window of two ticks,
  clock to 3. Three handlers are the least for one to set the clock back between two
  others. Messages are symmetric.
- `worker`: one speaker whose messages drift between two starts, two documents, two run
  slots, one action, and six budgets: partials with an end and a failed insert, more
  partials, three finals with three cards, and three cards with an action, an end or a
  failure. Two runs on one document are the least for the map to be set in between.
- `meetings`: two attendees, two rows, two bots; either two launches and nothing that
  fails, or one each of launch, change, late webhook and failure. Waiting limit, duration
  and grace are one tick, the cap two: a bot may wait and then record for longer
  than the row's age allows.
- `recap`: one end and two clicks, one retry per step, two failures. Two clicks are the
  least for one to read what the other has flipped.
- `gaps`: two meetings, three utterances on two topics (two meetings ask the same, one
  asks something else too), two sections, one manager, one retry, six budgets that pair
  a sweep, a backfill, merges, moves, closes and failures. Wider budgets were explored for
  some eight million states without an error, but not to their end.
- `corpus`: two teams, two documents, two admins at once, two run slots, one retry, one
  change of the provider or a view, two operations, one failure. Two slots are the least for
  runs to overlap, two admins for one to read what the other changes; teams, slots and
  admins are symmetric.
- `secrets`: two jobs, two callers, one retry, two starts, one write, two refreshes, one
  failure. Two callers are the least for one to refresh with what the other has used.
- `Max…` and `Limits` bound counters the code leaves unbounded; the rest are the code's own
  parameters made small. Symmetry is used only where no liveness is checked.

### Fairness

The page's loading is straight-line code and its poll runs on a 2.5 s interval as long as
the page is open, so loading, fetching and applying are weakly fair; failures are
bounded, not fair. A chain of sink work runs on until it is empty. The provider's
stream ends: `anthropic.ts:254` throws when it ends without `message_stop`; a stream that
hangs for ever is excluded by assumption, and the code has no timeout of its own there.
Nothing is assumed of broadcasts, of the viewer, or of the order in which handlers proceed.

In `Pipeline` the awaits that have no timer of the code (database, embedding,
synthesis, and the part of a skill that takes no signal) return or fail in the end, and each
of the three timers fires once set; that the judge, the router and the connector answer at
all is not assumed.

Inngest executes what is queued and retries it, and a server action runs on until it has
answered: `RecapStep` and `ClickStep` of `Recap` and `RunStep` of `Gaps` are weakly fair. In
`Meetings` the reaper is a cron job, time passes and Recall takes a bot out at its
limits; nothing is assumed of webhooks, of the worker, of launch runs or of attendees.
`Retrieval`, `Worker`, `Corpus` and `Secrets` have safety properties only and no fairness.

`CHECK_DEADLOCK FALSE` is set because a meeting ends: all chains are empty and the page has
caught up, every run and launch is over, and the bounds are used up.

## 4. Proofs

For every value of the constants that meets the named assumptions, which TLC
evaluates on the runs.

**`AnswersProofs`** (`StreamAssumption`, `AnswersAssumption`): `AnswersTypeCorrect`,
`OnlyGroundedAnswersFinish` (`GroundedOrNothing`), `ReportedAnswersAreNoGaps`
(`ReportedIsNoGap`), and `Inductive`, the invariant they follow from. `GroundedOrNothing`
is not inductive: it says nothing of a `done` event that is still queued, stored, on the
wire, or among the rows of a poll. `IInv` closes it. `ServerInv`: whatever is queued or
stored is a *sound* event, that is, no `done` of an answer without a grounded verdict, and
a row marked done is grounded. `WireInv`: broadcasts are sound, a poll holds stored rows.
`GenInv`: the verdict is given once, when the synthesis is over, and excludes a recorded
miss. `SoundPage`: the page's finished answers are grounded. Sound events are monotone (a
verdict never changes once given), so each action only has to account for what it moves.

A second invariant, `WholeInv`, gives `FinishedAnswersAreWhole` (`FinishedAnswersWhole`) and
`FinishedAnswersAlwaysStand` (`FinishedAnswersStand`). The runs check these two on the
scripts of `stream`; the theorems are about `Answers`' own specification, with any number
of answers and chunks. A page may be told three kinds of thing: stored rows, broadcasts
under way, and the event whose row is settled (`Out`). Every chain carries one answer, or
cards (`OwnWork`); the start is the first work of its chain, and nothing of the answer is
out before it (`StartsFirst`); a done event carries all of the prose, and what was taken
back was never grounded (`EndsTell`); the row of a done event has its text unless the
insert of the row had failed (`RowsWhole`); the answers of the page agree with their rows
once they are finished (`WholeAnswers`). `DispatchWhole` is the reducer's share: any such
event, in any order and any number of times, keeps finished answers as they are.

`StreamImplementsFeed` is the safety half of `FeedSpec`: `StreamInit` implies the feed's
initial state, and every step of the stream publishes one row, opens the page, delivers one
published row that is not among the last deliveries, or changes nothing of the feed; with
commits in any order, for any cap and any poll limit. Its invariant (`FeedInv`) says that an id
belongs to one INSERT and is visible once that has committed (`IdsInv`), and that only visible
rows are on the wire, in a poll, seeded or handed on (`ReachInv`). That every row that is not
late is delivered in the end is left to TLC.

`RetractedProseGoesAlways` (`RetractedProseGoes`) is about `Answers`' specification again, with
commits in any order. "Quiet" says nothing of how the page came to its state, so the invariant
(`GoneInv`) follows each retraction. It is the last word of its chain (`LastWords`). What
is sent is what was stored (`SentAsStored`). The cursor passes no row that was neither seeded
nor handed to the reducer, and no poll skips one (`CursorInv`), unless it became visible late:
a row that is not late is the newest when it becomes visible, so it is ahead of every cursor
and of every poll under way. That holds although polls are partial, applied ids are
forgotten and broadcasts overtake the poll. One that was handed over is a tombstone, and keeps its answer away (`Tombstones`). One that was seeded came with
every row about its answer, none of which is fresh any more, so the answer is an empty shell
at most (`Shells`).

**`AfterMeetingProofs`** extends both `Gaps` and `Recap`.
Gaps (`GapsAssumption`): `FrequenciesCount` (`GapsCountTheirAsks`), `MarkedAreCounted`
(`ProcessedIsCounted`), `CurationIsKept` (`CurationStands`), `ReopensHaveCause`
(`NoSpuriousReopen`). None of the four is inductive, because the RPC reads and writes in two
steps with manager actions in between, and the whole batch may be repeated. `OneLocks` and
`CallStands` say that, under the advisory lock, what the RPC has read of occurrences and
gaps stands until it writes; `DealtWith`, that a miss of a batch is counted or its group is
still to come, which is what lets `Mark` mark it; `AskedAgainIsNear`, that what was counted
and is asked again finds a gap of its topic, unless a merge overtook it; `ChosenOvertaken`,
that a placement a manager has meanwhile overruled is on record.
Recap (`RecapAssumption`, `NoRecapAssumption`): `RecapTypeCorrect`, `DoneIsBacked`
(`DoneHasRecap`), `NoRegenerationSkippedUnserved` (`SkippedAreServed`). The strengthening
adds that a click that *read* `done` had a recap to read (`PriorsHaveRecap`), else its
rollback could claim one; that only a click that has flipped the status starts a run
(`RunsAreFlipped`); and that a `done` seen after a click's flip is owed to a recap stored
since, or to a rollback (`DoneSinceFlip`).

**`MeetingsProofs`** (`MeetingsAssumption`): `MeetingsTypeCorrect`, `OneBotPerMeetingHolds`,
`JobsRequestedOnceHolds`, `CompletedIsProcessedHolds`. The strengthening
(`MeetingsInductive`) has four parts. `AtMostOneLive`: one row of the call is live, which
the unique index enforces at each write. `OwnersInv`: a row between its insert and its
finalize has one launch run that owns it, does not yet know its bot, and has no answered
bot but the one its owner holds. `BotsInv`: answered bots have different rows, a row knows
only a bot that serves it, and the row of a bot that is there is live or was given up.
`JobsInv`: the jobs of a row that is not completed were requested only before it was
reopened. Two answered bots that are both there then have two rows, not both live, so one
was given up. `ReaperSparesTheCallAlways` is an action property and needs `CallInv`, with
ages instead of identities: no bot stays beyond its limit, and a row that has `started_at`
heard its first utterance from a bot that has left since or has been in the call at least
as long. The reaper's limit on the one is then a limit on the other.

**`CorpusProofs`** (`CorpusAssumption`): `TombstoneStandsAlways`, `SelectionDecidesAlways`,
`PurgeSparesSelectedAlways`, `UnsettledIsServedAlways`, `CalmRunConvergesAlways`, all for any
number of admins at once. The difficulty is that an admin action leaves selection and status
apart while it is under way, and that several are. The invariant says of each way they can
be apart that some action under way is to bring them together, unless one wrote by an
outdated reading: where nobody selects a source that is not removed (`Unmarked`), one that
will select it or mark it removed (`Settling`); where a removed source is selected
(`Unrevived`), one that will revive it (`Reviving`). When no action is under way,
`SelectionDecides` is what remains. That an add which will not revive read a row that was
indexed and not long removed (`AddsNeeded`), and that a purged source has no selection
(`PurgedIsEmpty`), close it, and with them the purge finds only selections of adds that are
about to revive. For `UnsettledIsServed` the invariant is `Served`, without the exception:
while the source is unsettled and neither event nor run is there, some action under way
stays at it until it has sent the event, or leaves that to another that does (`Serving`); a
run that ends leaves the source settled (`RunEnds`). For `CalmRunConverges`: an undisturbed run
is the only one (`CalmInv`); what it fetched and prepared is what the provider has and the
selection wants; past its reconcile the corpus holds nothing else, and all of it but what is
still to embed; and what it wrote carries the teams that admit it, since no two documents
have one place among those kept (`OwnPlace`, `OwnTeams`).

**`SecretsProofs`** (`SecretsAssumption`): `RecordNamesTheKeyAlways`,
`MarksTellTheFormatAlways`, `NothingGoesBackAlways` (every column, the Google token but for
`Outdated`, the Atlassian pair but for `crossed`), `NothingLegacyAfterwardsAlways`,
`StoredTokenLivesAlways`. What a
job or a caller has read is a snapshot; the invariant relates it to the row: same guard
value, same row, or else the guarded update matches nothing. The format of a row never
returns to legacy, and a migration that has passed a row has seen or made it new. For the stored token, `TokensInv` orders the
pairs by number: the used ones were issued; unless a connect has crossed, what callers have
seen is the stored pair or an older one (`Older`), what they are about to store nobody has
seen (`Unseen`), and a used token still stored has its successor on the way (`Succeeded`).

**`PipelineProofs`** (`PipelineAssumption`): `CitationsNameTheirSourceAlways`,
`NothingIsLostAlways`, `GapsAreRealMissesAlways`, for every corpus, ranking and configuration. The invariant says that
the sources a synthesis gets are those of the cards shown, by number (`SourcesAreCards`);
that with parent documents a document has one card (`OneCardPerDoc`); that nothing ends
early (`NothingEarly`); and that past the search there is something to show or a card
failed (`SomethingToShow`). The lemmas under it are about the search itself: what
`Fused` lists, what `Confident` implies, what deduplication keeps. For the gaps it is about
the ranking itself: ranks are an injection of the members into the places, so the head is the
nearest, and a search that finds nothing with every leg intact had nothing in range.
`MissesInv` carries that to the gap: a missing code vector is on record as a fault, a rerank
that left nothing of a non-empty pool is one too, and a run on its way to a gap has its verdict
and an empty full search behind it.

**`RetrievalProofs`** (`RetrievalAssumption`): `AmbientSpacingAlways`, `NoLateRepeatAlways`,
`QuestionCeilingsAlways`, for any relations `Near` and `Related` over queries in which each
query is near itself. What
has fired is in the order of time and `lastRetrievalAt` is that of the last
(`FiresInOrder`), so an ambient utterance that passes the gate can only be too near to an
earlier one over a question in between. The ledger holds a question, by its query, for as long as the
window lasts (`AnswersRemembered`), and only questions wait for an embedding
(`QuestionsEmbed`). For the ceilings, fired questions are numbered and the stamps of the
window are kept however the ledger is pruned (`CeilingsInv`), so that an injection of the
questions of a window into the stamps bounds their number.

**`WorkerProofs`**: `OneLivePerDocAlways`, `PinnedStandsAlways`, `LinesSettleAlways`. A card that stays and that no
exception covers is the one the runtime's map holds (`StayingIsMapped`), which makes two
of a document equal. Every step that sets the map must account for the card it drops
(`RememberKeeps`): it was retracted, or left, or set by another run. For the pin, a card
past the check was unpinned or has been pinned since (`RetractingUnpinned`), and what is
announced as retracted is (`ToldIsRetracted`). For the transcript, `LinesInv`: messages wait
in order; a resolved final is behind whatever waits; a usable segment is past every final;
a whole speaker is in mid-utterance in the runtime only; and an interim line has its final
or is at an open segment.

The type invariants of `Answers`, `Recap` and `Meetings` are theorems; `SecretsTypeOK` and
`CardsTypeOK` are part of the invariants above, and the others state the types their
proofs need in parts of their own. `StreamTypeOK`, `RetrievalTypeOK` and the transcript's
only document the state.

Every safety property of a passing run is a theorem. Only model-checked is liveness, which
is out of the prover's reach: `StreamedAnswersEnd`, `RecapSettles`, `NoMeetingLivesForever`,
`MissesSettle`, `RunsEnd`, and the fairness of `FeedSpec`. The theorems about finished and
retracted answers are stated for `Answers`, where the synthesis decides what is queued; the
run `stream` checks the same properties for scripts that mix cards, answers and lines.

## 5. Not modelled

- In the stream: `cardUpdated` and `cardPinned` on the page, the page's status poll and its
  terminal stop, the Realtime channel pool, the unscoped development path of the worker.
- In the pipeline: what the models answer and the prompts they get; the expansion
  queries of the evaluation; the enrichment for older database functions; traces.
- In the worker: authentication of the socket, malformed frames, the rolling
  summarizer, whose cached text is prompt context only.
- In the lifecycle: participants, error codes, `ended_at` and status broadcasts; the launch
  window is not timed (a sleeping run may wake at any time); `joining` and `waiting_room`,
  which all of the code treats alike, are one status.
- In the recap: its text, and what is read to write it.
- In the gaps: viewers, sharing and notifications, section names, statistics; distances
  are topics.
- In the corpus: the GitHub delta indexers and the removal of a whole connection, fetching
  and normalizing calendars; queries of an admin's action that fail (their errors are not
  looked at in `team-source-lifecycle.ts`: a count that fails is read as zero, `count ?? 0`).
- Connectors and live skills, the engine's pure functions over text and vectors, access
  control, rendering, marketing pages, the capture tools: they keep no state that steps
  concurrently. They are most of the repository's lines, which is why the mapped share of
  the implementation is small although every component with concurrent state has a module.

## 6. Plan

Done, in this order: the event log and the page, answers, retrieval, the lifecycle, the
recap; then the corpus, the keys and tokens, the worker's transcript and cards, the gaps,
the pipeline, with proofs for all of these.

Left: the GitHub delta indexers beside the shared indexer.
