-------------------------------- MODULE Gaps --------------------------------
(***************************************************************************)
(* The knowledge gaps of one organization: the questions its meetings asked*)
(* and nothing could answer. The bot-worker stores a miss for each         *)
(* (gap-capture.ts); when a meeting has ended, an assembly run groups its  *)
(* misses, folds each group into the nearest gap or a new one (an RPC under*)
(* the organization's lock), places the gaps it touched into sections, and *)
(* marks the misses processed last (knowledge-gaps.ts). A run that throws  *)
(* is repeated from its beginning. A backfill stores misses again from the *)
(* answers that were taken back, a sweep deletes old processed ones, and   *)
(* managers close, assign, merge and move gaps meanwhile.                  *)
(*                                                                         *)
(* The distance of embeddings is abstracted to the topic of a question:    *)
(* questions of one topic, and no others, are within the merge distance.   *)
(* Resolved and dismissed are one status, closed. Viewers, notifications   *)
(* and the audit log are left out: nothing here reads them.                *)
(***************************************************************************)
EXTENDS Naturals, Sequences, FiniteSets

CONSTANTS
    Meeting, Utterance, Topic,
    MeetingOf, TopicOf,  \* of an utterance
    NoHits,              \* the utterances whose search found nothing: no synthesis
    Section,             \* names of sections
    Actor,               \* slots for manager actions in flight
    Retries,             \* how often Inngest repeats a step that throws
    Limits               \* the bounds of a behaviour: a set of records of numbers

Budget == [failures : Nat, ends : Nat, backfills : Nat, sweeps : Nat, merges : Nat,
           closes : Nat, moves : Nat]

ASSUME GapsAssumption ==
    /\ MeetingOf \in [Utterance -> Meeting] /\ TopicOf \in [Utterance -> Topic]
    /\ NoHits \subseteq Utterance /\ IsFiniteSet(Utterance)
    /\ Retries \in Nat /\ Limits \subseteq Budget

VARIABLES
    unwritten,  \* what the worker has still to write: a miss, or a retracted answer
    retracted,  \* syntheses retracted as a refusal or ungrounded
    misses,     \* misses[u]: the rows of meeting_gap_misses of u, each new, processed or swept
    occ,        \* gap_occurrences: the gap of an utterance
    gaps,       \* the rows of knowledge_gaps in the order of their creation
    sections,   \* the sections there are
    ended,      \* the completed meetings
    requests,   \* the gaps-requested events of a meeting that wait
    run,        \* the assembly run of each meeting
    backfill,   \* the backfill run
    action,     \* the manager actions in flight
    budget,     \* what is left of the bounds of this behaviour
    history     \* see Blank: no action reads it

missVars == <<unwritten, retracted, misses>>
gapVars == <<occ, gaps, sections>>
vars == <<unwritten, retracted, misses, occ, gaps, sections, ended, requests, run, backfill,
          action, budget, history>>

None == [at |-> "none"]
Uncategorized == "uncategorized"

\* chosen: where a manager has put a gap. overtaken: gaps put somewhere after a run had
\* picked them for placing. raced: topics whose gap was merged away with a miss to
\* come. skipped: utterances with a bad embedding. exhausted: meetings given up.
Blank == [chosen |-> <<>>, overtaken |-> {}, raced |-> {}, skipped |-> {}, exhausted |-> {}]

Init ==
    /\ unwritten = ({"miss"} \X Utterance) \cup ({"answer"} \X (Utterance \ NoHits))
    /\ retracted = {} /\ misses = [u \in Utterance |-> <<>>]
    /\ occ = <<>> /\ gaps = <<>> /\ sections = {}
    /\ ended = {} /\ requests = [m \in Meeting |-> 0]
    /\ run = [m \in Meeting |-> None] /\ backfill = None
    /\ action = [a \in Actor |-> None]
    /\ budget \in Limits /\ history = Blank

Spend(what) == budget[what] > 0 /\ budget' = [budget EXCEPT ![what] = @ - 1]

\* The row numbers of misses, and the ones of meeting m not processed.
Rows == UNION {{<<u, k>> : k \in DOMAIN misses[u]} : u \in Utterance}

Unprocessed(m) == {r \in Rows : MeetingOf[r[1]] = m /\ misses[r[1]][r[2]] = "new"}

Present(g) == g \in DOMAIN gaps /\ gaps[g].present

-----------------------------------------------------------------------------
(***************************************************************************)
(* The bot-worker, and the end of a meeting. The miss and the retraction   *)
(* of one answer are two writes, which may come after the meeting's end.   *)
(***************************************************************************)
Inserted(us) ==
    [u \in Utterance |-> IF u \in us THEN Append(misses[u], "new") ELSE misses[u]]

RecordMiss(u) ==
    /\ <<"miss", u>> \in unwritten
    /\ unwritten' = unwritten \ {<<"miss", u>>}
    /\ misses' = Inserted({u})
    /\ UNCHANGED <<retracted, occ, gaps, sections, ended, requests, run, backfill, action,
                   budget, history>>

RetractAnswer(u) ==
    /\ <<"answer", u>> \in unwritten
    /\ unwritten' = unwritten \ {<<"answer", u>>}
    /\ retracted' = retracted \cup {u}
    /\ UNCHANGED <<misses, occ, gaps, sections, ended, requests, run, backfill, action,
                   budget, history>>

\* A failure is logged and swallowed.
WriteFails(w) ==
    /\ w \in unwritten /\ Spend("failures")
    /\ unwritten' = unwritten \ {w}
    /\ UNCHANGED <<retracted, misses, occ, gaps, sections, ended, requests, run, backfill,
                   action, history>>

\* By the webhook's call_ended or by the reaper; the event may fail to be sent, and
\* nobody is told.
MeetingEnds(m) ==
    /\ Spend("ends")
    /\ ended' = ended \cup {m}
    /\ \E sent \in {0, 1} : requests' = [requests EXCEPT ![m] = @ + sent]
    /\ UNCHANGED <<unwritten, retracted, misses, occ, gaps, sections, run, backfill, action,
                   history>>

\* Processed rows go after thirty days.
Sweep ==
    /\ Spend("sweeps")
    /\ misses' = [u \in Utterance |->
          [k \in DOMAIN misses[u] |->
              IF misses[u][k] = "processed" THEN "swept" ELSE misses[u][k]]]
    /\ UNCHANGED <<unwritten, retracted, occ, gaps, sections, ended, requests, run, backfill,
                   action, history>>

-----------------------------------------------------------------------------
(***************************************************************************)
(* The assembly run of a meeting: one at a time (its concurrency key), in  *)
(* one step of Inngest.                                                    *)
(***************************************************************************)
At(m, stage) == run[m].at = stage

SetRun(m, r) == run' = [run EXCEPT ![m] = r]

Begin(m) ==
    /\ At(m, "none") /\ requests[m] > 0
    /\ requests' = [requests EXCEPT ![m] = @ - 1]
    /\ SetRun(m, [at |-> "load", tries |-> 0])
    /\ UNCHANGED <<missVars, gapVars, ended, backfill, action, budget, history>>

Load(m) ==
    /\ At(m, "load")
    /\ IF Unprocessed(m) = {} THEN SetRun(m, None)
       ELSE SetRun(m, [at |-> "groups", tries |-> run[m].tries, batch |-> Unprocessed(m),
                       topics |-> {TopicOf[r[1]] : r \in Unprocessed(m)}, touched |-> {}, call |-> None])
    /\ UNCHANGED <<missVars, gapVars, ended, requests, backfill, action, budget, history>>

Group(m, t) == {r[1] : r \in {x \in run[m].batch : TopicOf[x[1]] = t}}

Nearest(t) == {g \in DOMAIN gaps : Present(g) /\ gaps[g].topic = t}

Asks(o, g) == Cardinality({u \in DOMAIN o : o[u] = g})

NewGap(t) == [topic |-> t, present |-> TRUE, frequency |-> 0, status |-> "open",
              section |-> Uncategorized, pinned |-> FALSE]

Locked == \E m \in Meeting : At(m, "rpc")

\* assemble_gap_occurrence_group, for the group of topic t: it takes the lock of the
\* organization and reads the nearest gap, if there is one, and whether it is closed.
\* The groups go one after the other, in any order.
AssembleReads(m, t) ==
    /\ At(m, "groups") /\ t \in run[m].topics /\ ~Locked
    /\ \E g \in IF Nearest(t) = {} THEN {Len(gaps) + 1} ELSE Nearest(t) :
          SetRun(m, [run[m] EXCEPT !.at = "rpc", !.topics = @ \ {t},
                       !.call = [topic |-> t, gap |-> g,
                                 closed |-> Present(g) /\ gaps[g].status = "closed"]])
    /\ UNCHANGED <<missVars, gapVars, ended, requests, backfill, action, budget, history>>

CallInserts(m) == Group(m, run[m].call.topic) \ DOMAIN occ

ReopensAlways(m) == run[m].call.closed

\* A gap that was closed when it was read is reopened, if an ask was inserted.
Reopens(m) == run[m].call.closed /\ CallInserts(m) # {}

\* The rest of it: a conflict on the utterance inserts nothing, the gap is counted again,
\* and a new gap stays even if nothing was inserted. Its status is left alone when it is
\* not reopened, so a close since the read stands.
AssembleWrites(m) ==
    /\ At(m, "rpc")
    /\ LET g   == run[m].call.gap
           o   == [u \in DOMAIN occ \cup CallInserts(m) |->
                     IF u \in CallInserts(m) THEN g ELSE occ[u]]
           old == IF g \in DOMAIN gaps THEN gaps ELSE Append(gaps, NewGap(run[m].call.topic))
       IN /\ occ' = o
          /\ gaps' = [old EXCEPT ![g].frequency = Asks(o, g),
                                 ![g].status = IF Reopens(m) THEN "open" ELSE @]
          /\ SetRun(m, [run[m] EXCEPT !.at = "groups", !.touched = @ \cup {g}])
    /\ UNCHANGED <<missVars, sections, ended, requests, backfill, action, budget, history>>

\* A group with a bad embedding is left out.
SkipGroup(m, t) ==
    /\ At(m, "groups") /\ t \in run[m].topics /\ Spend("failures")
    /\ SetRun(m, [run[m] EXCEPT !.topics = @ \ {t}])
    /\ history' = [history EXCEPT !.skipped = @ \cup Group(m, t)]
    /\ UNCHANGED <<missVars, gapVars, ended, requests, backfill, action>>

ToPlaceUncategorized(m) ==
    {g \in run[m].touched : Present(g) /\ gaps[g].section = Uncategorized}

\* The gaps touched that nobody has pinned and that are in no section.
ToPlace(m) ==
    {g \in run[m].touched :
        Present(g) /\ ~gaps[g].pinned /\ gaps[g].section = Uncategorized}

Recluster(m) ==
    /\ At(m, "groups") /\ run[m].topics = {}
    /\ SetRun(m, [at |-> "place", tries |-> run[m].tries, batch |-> run[m].batch,
                  place |-> ToPlace(m)])
    /\ UNCHANGED <<missVars, gapVars, ended, requests, backfill, action, budget, history>>

\* One gap is placed into a section that is near, or proposed and created, or that
\* another run has created; or it stays where it is, as it does when the row or the
\* section is gone. The update has no condition.
Place(m, g) ==
    /\ At(m, "place") /\ g \in run[m].place
    /\ SetRun(m, [run[m] EXCEPT !.place = @ \ {g}])
    /\ \/ UNCHANGED <<gaps, sections>>
       \/ \E s \in Section :
             /\ gaps' = IF Present(g) THEN [gaps EXCEPT ![g] = [@ EXCEPT !.section = s]]
                        ELSE gaps
             /\ sections' = sections \cup {s}
    /\ UNCHANGED <<missVars, occ, ended, requests, backfill, action, budget, history>>

MarkedAll(m) == Unprocessed(m)

MarkedCounted(m) == {r \in run[m].batch : r[1] \in DOMAIN occ}

\* The misses that were loaded, and no others.
Marked(m) == run[m].batch

\* The durable marker, last.
Mark(m) ==
    /\ At(m, "place") /\ run[m].place = {}
    /\ misses' = [u \in Utterance |->
          [k \in DOMAIN misses[u] |->
              IF <<u, k>> \in Marked(m) /\ misses[u][k] = "new" THEN "processed"
              ELSE misses[u][k]]]
    /\ SetRun(m, None)
    /\ UNCHANGED <<unwritten, retracted, gapVars, ended, requests, backfill, action, budget,
                   history>>

Again(m) == run[m].tries < Retries

\* The step throws, at any await, and is repeated from the start or given up.
Throws(m) ==
    /\ ~At(m, "none") /\ Spend("failures")
    /\ IF Again(m)
       THEN /\ SetRun(m, [at |-> "load", tries |-> run[m].tries + 1])
            /\ UNCHANGED history
       ELSE /\ SetRun(m, None)
            /\ history' = [history EXCEPT !.exhausted = @ \cup {m}]
    /\ UNCHANGED <<missVars, gapVars, ended, requests, backfill, action>>

RunStep(m) ==
    \/ Begin(m) \/ Load(m) \/ AssembleWrites(m) \/ Recluster(m) \/ Mark(m)
    \/ \E t \in Topic : AssembleReads(m, t)
    \/ \E g \in DOMAIN gaps : Place(m, g)

-----------------------------------------------------------------------------
(***************************************************************************)
(* The backfill: one run of the organization at a time.                    *)
(***************************************************************************)
BackfillBegins ==
    /\ backfill = None /\ Spend("backfills")
    /\ backfill' = [at |-> "read", of |-> ended, left |-> ended, ready |-> {}, tries |-> 0]
    /\ UNCHANGED <<missVars, gapVars, ended, requests, run, action, history>>

MissSeen == {u \in Utterance : \E k \in DOMAIN misses[u] : misses[u][k] # "swept"}

SeenMissesOnly == MissSeen

\* Seeded from the misses, and from the occurrences, since misses are swept.
Seen == MissSeen \cup DOMAIN occ

\* The error of either read goes unseen, and its rows are taken for none.
SeenInPart == {{}, MissSeen, DOMAIN occ}

BackfillReads(m, seen) ==
    /\ backfill.at = "read" /\ m \in backfill.left
    /\ LET us == {u \in retracted \ seen : MeetingOf[u] = m}
       IN /\ backfill' = [at |-> "insert", of |-> backfill.of, left |-> backfill.left \ {m},
                          ready |-> backfill.ready, tries |-> backfill.tries,
                          insert |-> us, meeting |-> m]
          /\ IF seen = Seen THEN UNCHANGED <<budget, history>>
             ELSE /\ seen \in SeenInPart /\ Spend("failures")
                  /\ history' = [history EXCEPT !.raced =
                                    @ \cup {TopicOf[u] : u \in us \cap DOMAIN occ}]
    /\ UNCHANGED <<missVars, gapVars, ended, requests, run, action>>

\* The rows, and whether the meeting has any to assemble.
BackfillInserts ==
    /\ backfill.at = "insert"
    /\ misses' = Inserted(backfill.insert)
    /\ LET m == backfill.meeting
           ready == IF Unprocessed(m) # {} \/ backfill.insert # {} THEN {m} ELSE {}
       IN backfill' = [at |-> "read", of |-> backfill.of, left |-> backfill.left,
                       ready |-> backfill.ready \cup ready, tries |-> backfill.tries]
    /\ UNCHANGED <<unwritten, retracted, gapVars, ended, requests, run, action, budget,
                   history>>

BackfillFansOut ==
    /\ backfill.at = "read" /\ backfill.left = {}
    /\ requests' = [m \in Meeting |->
                      IF m \in backfill.ready THEN requests[m] + 1 ELSE requests[m]]
    /\ backfill' = None
    /\ UNCHANGED <<missVars, gapVars, ended, run, action, budget, history>>

BackfillThrows ==
    /\ backfill # None /\ Spend("failures")
    /\ backfill' = IF backfill.tries < 1
                   THEN [at |-> "read", of |-> backfill.of, left |-> backfill.of,
                         ready |-> {}, tries |-> 1]
                   ELSE None
    /\ UNCHANGED <<missVars, gapVars, ended, requests, run, action, history>>

-----------------------------------------------------------------------------
(***************************************************************************)
(* The managers. A slot holds an action that is between two of its awaits. *)
(* Every move pins the gaps it moves.                                      *)
(***************************************************************************)
Set(a, step) == action[a] = None /\ action' = [action EXCEPT ![a] = step]

Done(a, at) == action[a].at = at /\ action' = [action EXCEPT ![a] = None]

\* Resolve or dismiss: an update whatever the status.
Close(g) ==
    /\ Present(g) /\ Spend("closes")
    /\ gaps' = [gaps EXCEPT ![g].status = "closed"]
    /\ UNCHANGED <<missVars, occ, sections, ended, requests, run, backfill, action, history>>

AssignReads(a, g) ==
    /\ Present(g) /\ Spend("closes")
    /\ Set(a, [at |-> "assign", gap |-> g, closed |-> gaps[g].status = "closed"])
    /\ UNCHANGED <<missVars, gapVars, ended, requests, run, backfill, history>>

\* It reopens the gap if it was closed when read.
AssignWrites(a) ==
    /\ Done(a, "assign")
    /\ LET g == action[a].gap
       IN gaps' = IF Present(g) /\ action[a].closed
                  THEN [gaps EXCEPT ![g].status = "open"] ELSE gaps
    /\ UNCHANGED <<missVars, occ, sections, ended, requests, run, backfill, budget, history>>

\* merge_gaps, under the organization's lock. The asks to come of the source's topic are
\* the ones that are counted and may be assembled again.
MergeGaps(target, source) ==
    /\ target # source /\ Present(target) /\ Present(source) /\ ~Locked /\ Spend("merges")
    /\ LET o == [u \in DOMAIN occ |-> IF occ[u] = source THEN target ELSE occ[u]]
           again == {u \in DOMAIN occ :
                       \/ <<"miss", u>> \in unwritten
                       \/ \E k \in DOMAIN misses[u] : misses[u][k] = "new"
                       \/ backfill.at = "insert" /\ u \in backfill.insert}
       IN /\ occ' = o
          /\ gaps' = [gaps EXCEPT ![target].frequency = Asks(o, target),
                                  ![source].present = FALSE]
          /\ history' = [history EXCEPT !.raced =
                            @ \cup ({gaps[source].topic} \cap {TopicOf[u] : u \in again})]
    /\ UNCHANGED <<missVars, sections, ended, requests, run, backfill, action>>

In(s) == {g \in DOMAIN gaps : Present(g) /\ gaps[g].section = s}

InPlacing == UNION {run[m].place : m \in {x \in Meeting : At(x, "place")}}

Moved(gs, s) ==
    /\ gaps' = [g \in DOMAIN gaps |->
          IF g \in gs THEN [gaps[g] EXCEPT !.section = s, !.pinned = TRUE] ELSE gaps[g]]
    /\ history' = [history EXCEPT
          !.chosen = [g \in DOMAIN @ \cup gs |-> IF g \in gs THEN s ELSE @[g]],
          !.overtaken = (@ \ gs) \cup (gs \cap InPlacing)]

MoveGap(g, s) ==
    /\ Present(g) /\ s \in sections \cup {Uncategorized} /\ Spend("moves")
    /\ Moved({g}, s)
    /\ UNCHANGED <<missVars, occ, sections, ended, requests, run, backfill, action>>

MoveAll(from, s) ==
    /\ from \in sections /\ s \in sections \cup {Uncategorized} /\ Spend("moves")
    /\ Moved(In(from), s)
    /\ UNCHANGED <<missVars, occ, sections, ended, requests, run, backfill, action>>

\* A name there is already is refused.
SplitCreates(a, g, s) ==
    /\ Present(g) /\ s \notin sections /\ Spend("moves")
    /\ sections' = sections \cup {s}
    /\ Set(a, [at |-> "split", gap |-> g, section |-> s])
    /\ UNCHANGED <<missVars, occ, gaps, ended, requests, run, backfill, history>>

SplitMoves(a) ==
    /\ Done(a, "split")
    /\ IF Present(action[a].gap) /\ action[a].section \in sections
       THEN Moved({action[a].gap}, action[a].section)
       ELSE UNCHANGED <<gaps, history>>
    /\ UNCHANGED <<missVars, occ, sections, ended, requests, run, backfill, budget>>

MergeSections(a, s, to) ==
    /\ s \in sections /\ to \in sections \ {s} /\ Spend("moves")
    /\ Moved(In(s), to)
    /\ Set(a, [at |-> "drop", section |-> s])
    /\ UNCHANGED <<missVars, occ, sections, ended, requests, run, backfill>>

\* Deleting a section counts its gaps, moves them away if there are any, and deletes it.
DeleteCounts(a, s, to) ==
    /\ s \in sections /\ to \in (sections \ {s}) \cup {Uncategorized} /\ Spend("moves")
    /\ Set(a, IF In(s) = {} THEN [at |-> "drop", section |-> s]
              ELSE [at |-> "empty", section |-> s, to |-> to])
    /\ UNCHANGED <<missVars, gapVars, ended, requests, run, backfill, history>>

\* A target that is gone is an error, and the action ends.
DeleteMoves(a) ==
    /\ action[a].at = "empty"
    /\ LET s == action[a].section   to == action[a].to
       IN IF to \in sections \cup {Uncategorized}
          THEN /\ Moved(In(s), to)
               /\ action' = [action EXCEPT ![a] = [at |-> "drop", section |-> s]]
          ELSE /\ action' = [action EXCEPT ![a] = None]
               /\ UNCHANGED <<gaps, history>>
    /\ UNCHANGED <<missVars, occ, sections, ended, requests, run, backfill, budget>>

\* The foreign key takes what is in the section now out of it.
Drop(a) ==
    /\ Done(a, "drop")
    /\ LET s == action[a].section
       IN /\ sections' = sections \ {s}
          /\ gaps' = [g \in DOMAIN gaps |->
                IF g \in In(s) THEN [gaps[g] EXCEPT !.section = Uncategorized] ELSE gaps[g]]
          /\ history' = [history EXCEPT !.overtaken = @ \cup In(s)]
    /\ UNCHANGED <<missVars, occ, ended, requests, run, backfill, budget>>

\* A step of an action fails, and what it did before stands.
ActionFails(a) ==
    /\ action[a] # None /\ Spend("failures")
    /\ action' = [action EXCEPT ![a] = None]
    /\ UNCHANGED <<missVars, gapVars, ended, requests, run, backfill, history>>

-----------------------------------------------------------------------------
Worker ==
    \/ \E u \in Utterance : RecordMiss(u) \/ RetractAnswer(u)
    \/ \E w \in unwritten : WriteFails(w)

Assembly ==
    \E m \in Meeting : \/ MeetingEnds(m) \/ RunStep(m) \/ Throws(m)
                      \/ \E t \in Topic : SkipGroup(m, t)

Backfill ==
    \/ BackfillBegins \/ BackfillInserts \/ BackfillFansOut \/ BackfillThrows
    \/ \E m \in Meeting, seen \in SeenInPart \cup {Seen} : BackfillReads(m, seen)

Curation ==
    \/ \E g \in DOMAIN gaps :
          \/ Close(g)
          \/ \E h \in DOMAIN gaps : MergeGaps(g, h)
          \/ \E s \in Section \cup {Uncategorized} : MoveGap(g, s)
          \/ \E a \in Actor : AssignReads(a, g) \/ \E s \in Section : SplitCreates(a, g, s)
    \/ \E s \in Section, to \in Section \cup {Uncategorized} :
          \/ MoveAll(s, to)
          \/ \E a \in Actor : MergeSections(a, s, to) \/ DeleteCounts(a, s, to)
    \/ \E a \in Actor : \/ AssignWrites(a) \/ SplitMoves(a) \/ DeleteMoves(a) \/ Drop(a)
                        \/ ActionFails(a)

Next == Worker \/ Sweep \/ Assembly \/ Backfill \/ Curation

\* Inngest takes up a waiting event and steps a run on; that is all that must happen.
Spec == Init /\ [][Next]_vars /\ \A m \in Meeting : WF_vars(RunStep(m))

-----------------------------------------------------------------------------
\* A gap's frequency, by which the library is ranked, is the number of its occurrences, and
\* it has at least one: however often runs were repeated, however misses came back after
\* their sweep and gaps were merged. A gap with none is left behind only where a gap was
\* merged away while an ask counted in it was to be assembled again, or where a backfill
\* could not read what it had (knowledge-gaps.ts, merge_gaps).
GapsCountTheirAsks ==
    /\ \A g \in DOMAIN gaps : Present(g) =>
          /\ gaps[g].frequency = Asks(occ, g)
          /\ gaps[g].frequency > 0 \/ gaps[g].topic \in history.raced
    /\ \A u \in DOMAIN occ : Present(occ[u])

\* A miss that is marked processed, and so will be swept, is counted in a gap, unless its
\* embedding was bad: also a miss that was stored while the run was assembling others.
ProcessedIsCounted ==
    \A u \in Utterance :
        (\E k \in DOMAIN misses[u] : misses[u][k] # "new") => u \in DOMAIN occ \cup history.skipped

\* A gap a manager has put somewhere is there: no assembly run moves it, whichever meeting
\* asks again, unless the move came after a run had picked the gap for placing, or the
\* section was deleted (section-actions.ts, reclusterSections).
CurationStands ==
    \A g \in DOMAIN history.chosen :
        Present(g) => \/ gaps[g].section = history.chosen[g] /\ gaps[g].pinned
                      \/ g \in history.overtaken

\* A closed gap opens only because somebody asked again, in an utterance not counted yet, or
\* because an assignment found it closed: a repeated run, a second miss of one utterance or
\* a backfill opens none.
NoSpuriousReopen ==
    [][\A g \in DOMAIN gaps :
          gaps[g].status = "closed" /\ gaps'[g].status = "open" =>
              \/ \E u \in DOMAIN occ' \ DOMAIN occ : occ'[u] = g
              \/ \E a \in Actor : action[a].at = "assign" /\ action[a].gap = g
                                 /\ action[a].closed /\ action'[a] = None]_vars

\* A miss with an assembly of its meeting to come is processed in the end, the ones with a
\* bad embedding too, unless the run threw at every attempt.
MissesSettle ==
    \A u \in Utterance :
        LET m == MeetingOf[u]
        IN (requests[m] > 0 /\ \E k \in DOMAIN misses[u] : misses[u][k] = "new")
               ~> (m \in history.exhausted \/ \E k \in DOMAIN misses[u] : misses[u][k] # "new")
=============================================================================
