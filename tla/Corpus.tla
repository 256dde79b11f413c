------------------------------- MODULE Corpus -------------------------------
(***************************************************************************)
(* One Trello, Jira or Confluence source and its corpus: which teams       *)
(* select it (team_sources), its `sources` row, and the documents indexed  *)
(* from it.                                                                *)
(*                                                                         *)
(* Admins add the source to a team, drop it, edit a team's view of it and  *)
(* ask for a reindex; each is a sequence of queries another admin's fall   *)
(* between. An index event starts a run, a sequence of Inngest steps. Only *)
(* what a step returned is kept between two of them: the code around the   *)
(* steps, which reads the teams' views, runs again before every step. A    *)
(* daily purge deletes what has been removed for the grace period.         *)
(*                                                                         *)
(* A document is its number in the order the provider lists them, and its  *)
(* content a version number. The source has at most one batch of documents *)
(* (PREPARE_BATCH and EMBED_BATCH in connector-index.ts).                  *)
(***************************************************************************)
EXTENDS Naturals, FiniteSets

CONSTANTS
    Team,
    NumDocs,      \* the documents are 1..NumDocs
    Admin,        \* the slots for admin actions in flight
    Slot,         \* the slots for index runs in flight
    RunawayMin,   \* PRUNE_RUNAWAY_MIN: 20
    MaxRetries,   \* `retries` of the function: 3
    MaxChanges,   \* bound on edits at the provider and of views
    MaxOps,       \* bound on admin actions
    MaxFailures   \* bound on what fails

ASSUME CorpusAssumption ==
    /\ NumDocs \in Nat /\ RunawayMin \in Nat /\ MaxRetries \in Nat
    /\ MaxChanges \in Nat /\ MaxOps \in Nat /\ MaxFailures \in Nat

Doc == 1..NumDocs
Mode == {"full", "delta"}

VARIABLES
    source,     \* the sources row: status, the age of removed_at, last_indexed_at # null
    views,      \* team_sources: the documents each selecting team's view admits
    upstream,   \* the provider's documents: the version of each
    corpus,     \* docs and their chunks: content_hash and visible_team_ids
    events,     \* events[m]: the index events of mode m not yet taken
    op,         \* op[a]: the admin action in flight
    run,        \* run[s]: the index run in flight
    budget,     \* what is left of the bounds
    lost,       \* history: an index event was not sent, and none since
    outdated,   \* history: an admin action wrote by a reading no longer true
    calm        \* history: the last run finished undisturbed, and nothing moved since

vars == <<source, views, upstream, corpus, events, op, run, budget, lost, outdated, calm>>

Selecting == DOMAIN views
Exists == source.status # "purged"

FreshRow == [status |-> "pending", removed |-> "no", indexed |-> FALSE]
NoOp == [stage |-> "none"]
NoRun == [at |-> "none"]

\* The first team has just selected the source.
Init ==
    /\ source = FreshRow
    /\ \E t \in Team : views = [u \in {t} |-> Doc]
    /\ upstream = [d \in Doc |-> 0]
    /\ corpus = << >>
    /\ events = [m \in Mode |-> IF m = "full" THEN 1 ELSE 0]
    /\ op = [a \in Admin |-> NoOp]
    /\ run = [s \in Slot |-> NoRun]
    /\ budget = [changes |-> MaxChanges, ops |-> MaxOps, failures |-> MaxFailures]
    /\ lost = FALSE
    /\ outdated = FALSE
    /\ calm = FALSE

Spend(what) == budget[what] > 0 /\ budget' = [budget EXCEPT ![what] = @ - 1]

Without(f, x) == [y \in DOMAIN f \ {x} |-> f[y]]
With(f, x, v) == [y \in DOMAIN f \cup {x} |-> IF y = x THEN v ELSE f[y]]

SetStatusAlways(status) ==
    source' = IF source.status = "purged" THEN source
              ELSE [source EXCEPT !.status = status]

\* The update of a status that leaves a removed source alone: .neq('status', 'removed').
SetStatus(status) ==
    source' = IF source.status \in {"removed", "purged"} THEN source
              ELSE [source EXCEPT !.status = status]

ErroredNever == UNCHANGED source

\* markErrored, and onFailure.
Errored == SetStatus("errored")

\* Whoever changes what a run is working from, or works beside it, disturbs it.
Disturbed == [s \in Slot |-> IF run[s].at = "none" THEN NoRun
                             ELSE [run[s] EXCEPT !.calm = FALSE]]
Disturb == run' = Disturbed /\ calm' = FALSE

-----------------------------------------------------------------------------
(***************************************************************************)
(* The admins' actions on the source.                                      *)
(***************************************************************************)
OpAt(a, stage) == op[a].stage = stage
OpGoes(a, stage) == op' = [op EXCEPT ![a].stage = stage]
OpEnds(a) == op' = [op EXCEPT ![a] = NoOp]
InFlight == \E a \in Admin : ~OpAt(a, "none")

Begins(a, entry) ==
    /\ OpAt(a, "none")
    /\ Spend("ops")
    /\ op' = [op EXCEPT ![a] = entry]

NeedsReviveNeverIndexed(row) == ~row.indexed

\* Never indexed, or removed, by its status or by its tombstone.
NeedsRevive(row) == ~row.indexed \/ row.status = "removed" \/ row.removed # "no"

\* ensureSourceId creates the row when there is none; addSourceToTeam reads it.
AddRead(a, t) ==
    /\ source' = IF Exists THEN source ELSE FreshRow
    /\ Begins(a, [stage |-> "add", team |-> t, needed |-> NeedsRevive(source')])
    /\ UNCHANGED <<views, upstream, corpus, events, run, lost, outdated, calm>>

\* A second row of the same team, or one without its source, is refused.
AddInsert(a) ==
    /\ OpAt(a, "add")
    /\ views' = IF Exists /\ op[a].team \notin Selecting
                THEN With(views, op[a].team, Doc) ELSE views
    /\ outdated' = (outdated \/ (~op[a].needed /\ NeedsRevive(source)))
    /\ OpGoes(a, "added")
    /\ Disturb
    /\ UNCHANGED <<source, upstream, corpus, events, budget, lost>>

AddCount(a) ==
    /\ OpAt(a, "added")
    /\ IF Selecting # {} /\ op[a].needed THEN OpGoes(a, "revive") ELSE OpEnds(a)
    /\ UNCHANGED <<source, views, upstream, corpus, events, run, budget, lost, outdated, calm>>

Revived == [source EXCEPT !.status = "pending", !.removed = "no"]

AddRevive(a) ==
    /\ OpAt(a, "revive")
    /\ source' = IF Exists THEN Revived ELSE source
    /\ outdated' = (outdated \/ Selecting = {})
    /\ op' = [op EXCEPT ![a] = [stage |-> "emit", mode |-> "full"]]
    /\ UNCHANGED <<views, upstream, corpus, events, run, budget, lost, calm>>

RemoveDelete(a, t) ==
    /\ Exists /\ t \in Selecting
    /\ Begins(a, [stage |-> "dropped"])
    /\ views' = Without(views, t)
    /\ Disturb
    /\ UNCHANGED <<source, upstream, corpus, events, lost, outdated>>

RemoveCount(a) ==
    /\ OpAt(a, "dropped")
    /\ IF Selecting = {} THEN OpGoes(a, "last") ELSE OpEnds(a)
    /\ UNCHANGED <<source, views, upstream, corpus, events, run, budget, lost, outdated, calm>>

RemoveMark(a) ==
    /\ OpAt(a, "last")
    /\ source' = IF Exists THEN [source EXCEPT !.status = "removed", !.removed = "recent"]
                 ELSE source
    /\ outdated' = (outdated \/ Selecting # {})
    /\ OpEnds(a)
    /\ UNCHANGED <<views, upstream, corpus, events, run, budget, lost, calm>>

ReindexRead(a, m) ==
    /\ source.status \notin {"removed", "purged"}
    /\ Begins(a, [stage |-> "mark", mode |-> m])
    /\ UNCHANGED <<source, views, upstream, corpus, events, run, lost, outdated, calm>>

ReindexMark(a) ==
    /\ OpAt(a, "mark")
    /\ SetStatus("pending")
    /\ OpGoes(a, "emit")
    /\ UNCHANGED <<views, upstream, corpus, events, run, budget, lost, outdated, calm>>

ViewRead(a, t, admitted) ==
    /\ source.status \notin {"removed", "purged"}
    /\ t \in Selecting /\ views[t] # admitted
    /\ budget.changes > 0 /\ budget.ops > 0
    /\ OpAt(a, "none")
    /\ budget' = [budget EXCEPT !.changes = @ - 1, !.ops = @ - 1]
    /\ op' = [op EXCEPT ![a] = [stage |-> "view", team |-> t, admitted |-> admitted]]
    /\ UNCHANGED <<source, views, upstream, corpus, events, run, lost, outdated, calm>>

ViewWrite(a) ==
    /\ OpAt(a, "view")
    /\ views' = IF op[a].team \in Selecting
                THEN With(views, op[a].team, op[a].admitted) ELSE views
    /\ op' = [op EXCEPT ![a] = [stage |-> "emit", mode |-> "full"]]
    /\ Disturb
    /\ UNCHANGED <<source, upstream, corpus, events, budget, lost, outdated>>

\* inngest.send, which may throw.
Emit(a) ==
    /\ OpAt(a, "emit")
    /\ \/ events' = [events EXCEPT ![op[a].mode] = @ + 1]
          /\ lost' = FALSE /\ UNCHANGED budget
       \/ Spend("failures") /\ lost' = TRUE /\ UNCHANGED events
    /\ OpEnds(a)
    /\ UNCHANGED <<source, views, upstream, corpus, run, outdated, calm>>

-----------------------------------------------------------------------------
(***************************************************************************)
(* What goes on beside them: the provider's documents change, the grace    *)
(* period runs out, the daily purge deletes the source and, by the foreign *)
(* keys, its documents and its selections.                                 *)
(***************************************************************************)
ProviderChanges(gone, edited) ==
    /\ Spend("changes")
    /\ upstream' = [d \in (DOMAIN upstream \cup edited) \ gone |->
                      IF d \in edited THEN budget.changes ELSE upstream[d]]
    /\ upstream' # upstream
    /\ Disturb
    /\ UNCHANGED <<source, views, corpus, events, op, lost, outdated>>

\* The grace period is days and an admin's request seconds: an add that read the
\* source before it was removed, and so does not mean to revive it, is long over.
GraceEnds ==
    /\ source.removed = "recent"
    /\ \A a \in Admin : op[a].stage \in {"add", "added"} => op[a].needed
    /\ source' = [source EXCEPT !.removed = "past grace"]
    /\ UNCHANGED <<views, upstream, corpus, events, op, run, budget, lost, outdated, calm>>

Purgeable == source.status = "removed" /\ source.removed = "past grace"

PurgeRemovedSources ==
    /\ Purgeable
    /\ source' = [status |-> "purged", removed |-> "no", indexed |-> FALSE]
    /\ views' = << >> /\ corpus' = << >>
    /\ Disturb
    /\ UNCHANGED <<upstream, events, op, budget, lost, outdated>>

-----------------------------------------------------------------------------
(***************************************************************************)
(* An index run. One step of the source executes at a time (concurrency by *)
(* sourceId); the steps of two runs interleave. The function runs again up *)
(* to the step it is at, loadTeamViews with it; only the embed step is long *)
(* enough for the views to change under it, and has a state of its own.    *)
(***************************************************************************)
At(s, place) == run[s].at = place
StepFree(s) == \A q \in Slot \ {s} : ~At(q, "embedding")
Executes(s, place) == At(s, place) /\ StepFree(s)

Goes(s, entry) == run' = [run EXCEPT ![s] = [entry EXCEPT !.tries = 0]]
Again(entry, place) == [entry EXCEPT !.at = place, !.seen = << >>, !.handled = {},
                                     !.tries = @ + 1]

Start(s, m) ==
    /\ At(s, "none") /\ events[m] > 0
    /\ events' = [events EXCEPT ![m] = @ - 1]
    /\ LET alone == \A q \in Slot : At(q, "none")
       IN  run' = [Disturbed EXCEPT ![s] =
                [at |-> "load", mode |-> m, tries |-> 0, fetched |-> << >>,
                 prepared |-> {}, todo |-> << >>, seen |-> << >>,
                 handled |-> {}, calm |-> alone]]
    /\ calm' = FALSE
    /\ UNCHANGED <<source, views, upstream, corpus, op, budget, lost, outdated>>

\* load-source
Load(s) ==
    /\ Executes(s, "load") /\ Exists
    /\ IF source.status = "removed"
       THEN run' = [run EXCEPT ![s] = NoRun]
       ELSE Goes(s, [run[s] EXCEPT !.at = "fetch"])
    /\ SetStatus("indexing")
    /\ UNCHANGED <<views, upstream, corpus, events, op, budget, lost, outdated, calm>>

\* fetch-entities: the provider's answer, the version of each document.
Fetch(s) ==
    /\ Executes(s, "fetch")
    /\ Goes(s, [run[s] EXCEPT !.at = "prepare", !.fetched = upstream])
    /\ UNCHANGED <<source, views, upstream, corpus, events, op, budget, lost, outdated, calm>>

\* The provider refuses the token: the run ends there, without a retry.
AuthFails(s) ==
    /\ Executes(s, "fetch") \/ Executes(s, "prepare")
    /\ Spend("failures")
    /\ Errored
    /\ run' = [run EXCEPT ![s] = NoRun]
    /\ UNCHANGED <<views, upstream, corpus, events, op, lost, outdated, calm>>

Admitting(seen, d) == {t \in DOMAIN seen : d \in seen[t]}

\* keepWithVisibility: what some team admits; everything when no team selects.
Keeps(seen, d) == DOMAIN seen = {} \/ Admitting(seen, d) # {}
Entities(entry, seen) == {d \in DOMAIN entry.fetched : Keeps(seen, d)}

\* prepare-0 of what is kept now; there is no such step when nothing is kept.
Prepare(s) ==
    /\ Executes(s, "prepare")
    /\ run[s].prepared = {} /\ Entities(run[s], views) # {}
    /\ Goes(s, [run[s] EXCEPT !.prepared = Entities(run[s], views)])
    /\ UNCHANGED <<source, views, upstream, corpus, events, op, budget, lost, outdated, calm>>

\* What a replay finds prepared: the result of the step, if it comes to it.
Desired(entry, seen) == IF Entities(entry, seen) = {} THEN {} ELSE entry.prepared

\* The place of a document in the list of those kept.
PlaceIn(kept, d) == Cardinality({e \in kept : e <= d})

VisibleByListing(entry, seen, d) ==
    UNION {Admitting(seen, e) : e \in {k \in DOMAIN entry.fetched :
        PlaceIn(DOMAIN entry.fetched, k) = PlaceIn(entry.prepared, d)}}

\* The teams a prepared document is stamped with: those of the entity at its
\* place among what the replay keeps.
Visible(entry, seen, d) ==
    UNION {Admitting(seen, e) : e \in {k \in Entities(entry, seen) :
        PlaceIn(Entities(entry, seen), k) = PlaceIn(entry.prepared, d)}}

\* The documents to embed, each new or changed.
ToIndex(entry, desired) ==
    [d \in {e \in desired : e \notin DOMAIN corpus \/ corpus[e].hash # entry.fetched[e]} |->
        IF d \in DOMAIN corpus THEN "changed" ELSE "new"]

\* A complete fetch prunes, unless it would blindly empty the corpus, or take
\* the bulk of it in a delta.
Prunes(entry, desired) ==
    LET gone == DOMAIN corpus \ desired
    IN  /\ desired = {} /\ corpus # << >> => entry.mode = "full"
        /\ entry.mode = "delta" =>
             \/ Cardinality(gone) < RunawayMin
             \/ 2 * Cardinality(gone) <= Cardinality(DOMAIN corpus)

\* reconcile; its answer may be lost, and then the step is executed again.
Reconcile(s) ==
    LET desired == Desired(run[s], views)
        prunes == Prunes(run[s], desired)
    IN  /\ Executes(s, "prepare")
        /\ run[s].prepared # {} \/ Entities(run[s], views) = {}
        /\ corpus' = [d \in IF prunes THEN DOMAIN corpus \cap desired ELSE DOMAIN corpus
                        |-> corpus[d]]
        /\ \/ /\ Goes(s, [run[s] EXCEPT !.at = "embed", !.todo = ToIndex(run[s], desired),
                                        !.calm = @ /\ prunes])
              /\ UNCHANGED budget
           \/ /\ run[s].tries < MaxRetries /\ Spend("failures")
              /\ run' = [run EXCEPT ![s] = Again(@, "prepare")]
        /\ UNCHANGED <<source, views, upstream, events, op, lost, outdated, calm>>

\* embed-0, if there is anything to embed: it works from the views read now.
Embed(s) ==
    /\ Executes(s, "embed")
    /\ run' = [run EXCEPT ![s].at = "embedding", ![s].seen = views]
    /\ UNCHANGED <<source, views, upstream, corpus, events, op, budget, lost, outdated, calm>>

ToWrite(entry) == (DOMAIN entry.todo \cap Desired(entry, entry.seen)) \ entry.handled

\* One transaction for each document, in any order. The foreign key refuses a
\* document of a source that is gone.
Write(s, d) ==
    /\ At(s, "embedding") /\ d \in ToWrite(run[s]) /\ Exists
    /\ corpus' = With(corpus, d, [hash |-> run[s].fetched[d],
                                  visible |-> Visible(run[s], run[s].seen, d)])
    /\ run' = [run EXCEPT ![s].handled = @ \cup {d}]
    /\ UNCHANGED <<source, views, upstream, events, op, budget, lost, outdated, calm>>

\* A new document whose embedding fails is left out.
SkipNew(s, d) ==
    /\ At(s, "embedding") /\ d \in ToWrite(run[s]) /\ run[s].todo[d] = "new"
    /\ Spend("failures")
    /\ run' = [run EXCEPT ![s].handled = @ \cup {d}, ![s].calm = FALSE]
    /\ UNCHANGED <<source, views, upstream, corpus, events, op, lost, outdated, calm>>

Embedded(s) ==
    /\ At(s, "embedding") /\ ToWrite(run[s]) = {}
    /\ Goes(s, [run[s] EXCEPT !.at = "finalize", !.seen = << >>])
    /\ UNCHANGED <<source, views, upstream, corpus, events, op, budget, lost, outdated, calm>>

Finalized ==
    IF source.status \in {"removed", "purged"} THEN source
    ELSE [source EXCEPT !.status = "idle", !.indexed = TRUE]

Finalize(s) ==
    /\ Executes(s, "finalize")
    /\ source' = Finalized
    /\ run' = [run EXCEPT ![s] = NoRun]
    /\ calm' = run[s].calm
    /\ UNCHANGED <<views, upstream, corpus, events, op, budget, lost, outdated>>

\* A step of a source that is gone cannot but throw.
Refused(s) ==
    /\ ~Exists
    /\ At(s, "load") \/ (At(s, "embedding") /\ ToWrite(run[s]) # {})

\* A step that throws is executed again, and what it has written stays; when
\* its retries are used up, onFailure sets the status.
Throws(s) ==
    /\ ~At(s, "none") /\ ~At(s, "embed") /\ StepFree(s)
    /\ Spend("failures") \/ (UNCHANGED budget /\ Refused(s))
    /\ IF run[s].tries < MaxRetries
       THEN /\ run' = [run EXCEPT ![s] =
                  Again(@, IF @.at = "embedding" THEN "embed" ELSE @.at)]
            /\ UNCHANGED source
       ELSE /\ run' = [run EXCEPT ![s] = NoRun]
            /\ Errored
    /\ UNCHANGED <<views, upstream, corpus, events, op, lost, outdated, calm>>

-----------------------------------------------------------------------------
Begin(a) ==
    \/ \E t \in Team : AddRead(a, t) \/ RemoveDelete(a, t)
    \/ \E m \in Mode : ReindexRead(a, m)
    \/ \E t \in Team, admitted \in SUBSET Doc : ViewRead(a, t, admitted)

Continue(a) ==
    \/ AddInsert(a) \/ AddCount(a) \/ AddRevive(a)
    \/ RemoveCount(a) \/ RemoveMark(a)
    \/ ReindexMark(a) \/ ViewWrite(a) \/ Emit(a)

Step(s) ==
    \/ Load(s) \/ Fetch(s) \/ AuthFails(s) \/ Prepare(s) \/ Reconcile(s) \/ Embed(s)
    \/ \E d \in Doc : Write(s, d) \/ SkipNew(s, d)
    \/ Embedded(s) \/ Finalize(s) \/ Throws(s)

Next ==
    \/ \E a \in Admin : Begin(a) \/ Continue(a)
    \/ \E s \in Slot : Step(s) \/ \E m \in Mode : Start(s, m)
    \/ \E gone, edited \in SUBSET Doc : ProviderChanges(gone, edited)
    \/ GraceEnds \/ PurgeRemovedSources

Spec == Init /\ [][Next]_vars

-----------------------------------------------------------------------------
(***************************************************************************)
(* Properties.                                                             *)
(***************************************************************************)
Status == {"pending", "indexing", "idle", "errored", "removed", "purged"}

Action ==
    [stage : {"none", "dropped", "last"}]
        \cup [stage : {"add", "added", "revive"}, team : Team, needed : BOOLEAN]
        \cup [stage : {"mark", "emit"}, mode : Mode]
        \cup [stage : {"view"}, team : Team, admitted : SUBSET Doc]

\* The shape of the state.
CorpusTypeOK ==
    /\ source \in [status : Status, removed : {"no", "recent", "past grace"},
                   indexed : BOOLEAN]
    /\ op \in [Admin -> Action]
    /\ Selecting \subseteq Team /\ \A t \in Selecting : views[t] \subseteq Doc
    /\ DOMAIN upstream \subseteq Doc /\ DOMAIN corpus \subseteq Doc
    /\ \A d \in DOMAIN corpus : corpus[d].visible \subseteq Team
    /\ events \in [Mode -> Nat]
    /\ lost \in BOOLEAN /\ outdated \in BOOLEAN /\ calm \in BOOLEAN

\* The tombstone and the status say the same: the purge needs both, and a run
\* that was in flight when the source was removed, or a reindex that was, takes
\* neither away.
TombstoneStands == (source.status = "removed") <=> (source.removed # "no")

\* A source is removed or purged exactly when no team selects it: the reference count
\* of team-source-lifecycle.ts, with any number of admins adding and dropping it at
\* once, unless one of them wrote by a reading that another had made untrue: marked
\* removed what was selected again since it counted, revived what was dropped since,
\* or selected, without reviving it, what was removed since it read the row. No index
\* run, reindex, failure or purge in between changes that.
SelectionDecides ==
    ~outdated /\ ~InFlight => (Selecting = {} <=> source.status \in {"removed", "purged"})

\* A run that nothing disturbed, and that pruned, leaves in the corpus exactly
\* what the provider has and some team admits, at the version the provider has,
\* whatever earlier runs, overlapping or failed or of a removed source, left. What was
\* new or changed for it is visible to just the teams that admit it now. Of a document
\* whose content is unchanged nothing is said: reconcile skips it, and it keeps the
\* teams of when it was last written, whatever the views have become.
Wanted == {d \in DOMAIN upstream : Keeps(views, d)}
CalmRunConverges ==
    /\ calm /\ (\A s \in Slot : At(s, "none")) =>
        /\ DOMAIN corpus = Wanted
        /\ \A d \in Wanted : corpus[d].hash = upstream[d]
    /\ \A s \in Slot : At(s, "finalize") /\ run[s].calm =>
         \A d \in DOMAIN run[s].todo :
             d \in DOMAIN corpus /\ corpus[d].visible = Admitting(views, d)

\* The purge takes the selection of no team but one that is being added only now, its
\* source about to be revived, unless an admin wrote by an outdated reading.
PurgeSparesSelected ==
    [][PurgeRemovedSources /\ ~outdated =>
         \A t \in Selecting : \E a \in Admin :
             op[a].stage \in {"added", "revive"} /\ op[a].needed]_vars

\* A source that says it waits for its index run, or is in one, has an event, a
\* run or an admin action that will move it on, unless the event was never sent:
\* no order of overlapping runs, removals and failures leaves it wedged, with its
\* Reindex button grayed out.
UnsettledIsServed ==
    source.status \in {"pending", "indexing"} =>
        \/ lost
        \/ \E m \in Mode : events[m] > 0
        \/ \E s \in Slot : ~At(s, "none")
        \/ InFlight
=============================================================================
