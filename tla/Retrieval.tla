------------------------------ MODULE Retrieval ------------------------------
(***************************************************************************)
(* When an utterance triggers a retrieval, and what keeps the copilot from *)
(* answering the same question twice (retrieval.ts, maybeRetrieveAndEmit). *)
(*                                                                         *)
(* The messages of a meeting are handled concurrently on one thread: a     *)
(* handler runs from one await to the next, and whatever it read before an *)
(* await may have changed after it. A question waits for its embedding     *)
(* before the gate, every triggered utterance waits for the meeting's      *)
(* source scope, for the search and for its answer. The time a handler     *)
(* computes with is the one it read when its message came in.              *)
(*                                                                         *)
(* A text stands for an utterance's words, and a query is the sequence of  *)
(* the texts and the topic it is made of: what is embedded is the query,   *)
(* which for a follow-up is not its words alone. The relevance judge, the  *)
(* router, CRAG and the rerankers are abstracted to what a search returns. *)
(***************************************************************************)
EXTENDS Integers, FiniteSets, SequencesExt

CONSTANTS
    Message,          \* the final utterances of the meeting
    Text,             \* what they may say
    Question,         \* the texts that take the question lane
    FollowUp,         \* the texts that read as a fragment (isFollowup)
    Topic,            \* what the rolling summary may have as its current topic
    Near,             \* Near[q]: the queries within QUESTION_DUP_DISTANCE of q
    Related,          \* Related[q]: those within QUESTION_DUP_CONFIRM_DISTANCE
    Doc,              \* the documents of the corpus
    Cooldown,         \* COOLDOWN_MS
    RateWindow,       \* QUESTION_RATE_WINDOW_MS
    MaxPerMin,        \* QUESTION_MAX_PER_MIN
    MaxPerMeeting,    \* QUESTION_MAX_PER_MEETING
    DupWindow,        \* QUESTION_DUP_WINDOW_MS
    WindowUtterances, \* WINDOW_UTTERANCES
    ConsumedCap,      \* CONSUMED_FINALS_CAP
    Threshold,        \* UTTERANCE_THRESHOLD
    MaxClock,         \* bound on the clock
    MaxFailures       \* bound on the embeddings and RPCs that fail

\* The queries of the question lane: words, with an antecedent and a topic before them.
Query == UNION {[1..n -> Text \cup Topic] : n \in 1..3}

ASSUME RetrievalAssumption ==
    /\ Question \subseteq Text /\ FollowUp \subseteq Text
    /\ Near \in [Query -> SUBSET Query] /\ Related \in [Query -> SUBSET Query]
    /\ \A q \in Query : q \in Near[q] /\ Near[q] \subseteq Related[q]
    /\ {Cooldown, RateWindow, MaxPerMin, MaxPerMeeting, DupWindow,
        WindowUtterances, ConsumedCap} \subseteq Nat \ {0}
    /\ {Threshold, MaxClock, MaxFailures} \subseteq Nat

VARIABLES
    clock,
    recentFinals,       \* the rolling window of final utterances
    sinceLast,          \* utteranceCountSinceLastRetrieval
    lastRetrievalAt,
    fireTimes,          \* questionFireTimestamps, numbered: two of one time count twice
    fireCount,          \* questionFireCount
    answeredQuestions,  \* ledger: [query, at]
    consumedFinals,     \* the texts of answered spans, oldest first
    answeredSets,       \* ledger: [docs, at]
    scope,              \* effectiveSourceIds and whether it is resolved
    handler,            \* handler[m]: the handler of message m
    embedding,          \* ambient answers whose ledger embedding is under way
    failures,
    fires               \* history: the retrievals triggered, in order

ledgers == <<answeredQuestions, consumedFinals, answeredSets>>
gates   == <<sinceLast, lastRetrievalAt, fireTimes, fireCount, fires>>
vars == <<clock, recentFinals, sinceLast, lastRetrievalAt, fireTimes, fireCount,
          answeredQuestions, consumedFinals, answeredSets, scope, handler,
          embedding, failures, fires>>

NotArrived == [stage |-> "none", text |-> "", query |-> <<>>, at |-> 0,
               effective |-> <<>>, vec |-> FALSE, ids |-> "none", docs |-> {}]

Over == [NotArrived EXCEPT !.stage = "over"]

Init ==
    /\ clock = 0
    /\ recentFinals = <<>>
    /\ sinceLast = 0
    /\ lastRetrievalAt = -Cooldown      \* never fired: any gate passes
    /\ fireTimes = {}
    /\ fireCount = 0
    /\ answeredQuestions = {}
    /\ consumedFinals = <<>>
    /\ answeredSets = {}
    /\ scope = [resolved |-> FALSE, ids |-> "none"]
    /\ handler = [m \in Message |-> NotArrived]
    /\ embedding = {}
    /\ failures = 0
    /\ fires = <<>>

-----------------------------------------------------------------------------
Within(at, now, window) == now - at < window

\* The last n elements of a sequence.
Latest(s, n) == IF Len(s) > n THEN SubSeq(s, Len(s) - n + 1, Len(s)) ELSE s

\* The window without the answered spans; the current utterance always stays.
EffectiveWindow(finals, consumed) ==
    LET kept == {i \in 1..Len(finals) :
                    i = Len(finals) \/ ~Contains(consumed, finals[i])}
    IN [k \in 1..Cardinality(kept) |->
           finals[CHOOSE i \in kept : Cardinality({j \in kept : j <= i}) = k]]

\* Append the texts that are new, and keep the last cap of them.
AddConsumedFinals(consumed, window) ==
    LET Add(acc, t) == IF Contains(acc, t) THEN acc ELSE Append(acc, t)
    IN Latest(FoldLeft(Add, consumed, window), ConsumedCap)

\* What a question is embedded as. A standalone question is its own words; a
\* fragment gets the final before it, answered or not, and the summary's topic.
BuildQuestionQuery(t, finals, topic) ==
    LET prior == IF Len(finals) >= 2 THEN <<finals[Len(finals) - 1]>> ELSE <<>>
    IN IF t \in FollowUp THEN prior \o topic \o <<t>> ELSE <<t>>

IsNearDuplicateNow(query, near, now) ==
    \E e \in answeredQuestions : e.at = now /\ e.query \in near[query]

IsNearDuplicate(query, near, now) ==
    \E e \in answeredQuestions : Within(e.at, now, DupWindow) /\ e.query \in near[query]

\* At least DUP_OVERLAP_RATIO (0.7) of docs were sources of one recent answer.
IsDuplicateSourceSet(docs, now) ==
    \E e \in answeredSets :
        /\ Within(e.at, now, DupWindow)
        /\ 10 * Cardinality(docs \cap e.docs) >= 7 * Cardinality(docs)

\* A handler whose answer grounded, with what is still of interest about it.
Answered(h) ==
    [stage |-> "answered", text |-> h.text, query |-> h.query, at |-> h.at,
     effective |-> <<>>, vec |-> h.vec, ids |-> "none", docs |-> {}]

Fail == failures < MaxFailures /\ failures' = failures + 1

-----------------------------------------------------------------------------
Pruned(now) == {f \in fireTimes : Within(f.at, now, RateWindow)}

OverQuestionCeilingMinuteOnly(now) == Cardinality(Pruned(now)) >= MaxPerMin

OverQuestionCeiling(now) ==
    Cardinality(Pruned(now)) >= MaxPerMin \/ fireCount >= MaxPerMeeting

MustRespectCooldownOverCeiling(h) == OverQuestionCeiling(h.at)

MustRespectCooldown(h) == h.text \notin Question \/ OverQuestionCeiling(h.at)

\* Whether the gate turns handler h down; count is the runtime's utterance counter.
\* A question over its ceiling falls back to the cooldown.
Refused(h, count) ==
    \/ count < Threshold
    \/ MustRespectCooldown(h) /\ Within(lastRetrievalAt, h.at, Cooldown)

\* The meeting's scope is resolved by the first to need it, and then cached.
Fired(h) ==
    IF scope.resolved THEN [h EXCEPT !.stage = "searching", !.ids = scope.ids]
    ELSE [h EXCEPT !.stage = "scoping"]

\* The synchronous gate and commit: no await in between.
Gate(m, h, count) ==
    /\ IF Refused(h, count)
       THEN /\ handler' = [handler EXCEPT ![m] = Over]
            /\ sinceLast' = count
            /\ fireTimes' = Pruned(h.at)
            /\ UNCHANGED <<lastRetrievalAt, fireCount, fires>>
       ELSE /\ handler' = [handler EXCEPT ![m] = Fired(h)]
            /\ sinceLast' = 0
            /\ lastRetrievalAt' = h.at
            /\ fireTimes' = IF h.text \in Question
                            THEN Pruned(h.at) \cup {[nr |-> fireCount, at |-> h.at]}
                            ELSE Pruned(h.at)
            /\ fireCount' = IF h.text \in Question THEN fireCount + 1 ELSE fireCount
            /\ fires' = Append(fires,
                   [query |-> h.query, at |-> h.at, real |-> clock,
                    nr |-> fireCount, question |-> h.text \in Question,
                    free |-> ~MustRespectCooldown(h),
                    vec |-> h.vec,
                    answered |-> {n \in Message : handler[n].stage = "answered"}])

\* A final utterance comes in, with the summary's topic as its caller read it: a
\* question goes off to have its query embedded, anything else is at the gate at once
\* and is searched with its effective window.
Arrive(m, t, topic) ==
    /\ handler[m].stage = "none"
    /\ LET finals == Latest(Append(recentFinals, t), WindowUtterances)
           effective == EffectiveWindow(finals, consumedFinals)
           query == IF t \in Question THEN BuildQuestionQuery(t, finals, topic) ELSE <<>>
           h == [stage |-> "embedding", text |-> t, query |-> query, at |-> clock,
                 effective |-> effective, vec |-> FALSE, ids |-> "none", docs |-> {}]
       IN /\ recentFinals' = finals
          /\ IF t \in Question
             THEN /\ handler' = [handler EXCEPT ![m] = h]
                  /\ sinceLast' = sinceLast + 1
                  /\ answeredQuestions' =
                        {e \in answeredQuestions : Within(e.at, clock, DupWindow)}
                  /\ UNCHANGED <<lastRetrievalAt, fireTimes, fireCount, fires>>
             ELSE Gate(m, h, sinceLast + 1) /\ UNCHANGED answeredQuestions
    /\ UNCHANGED <<clock, consumedFinals, answeredSets, scope, embedding, failures>>

\* The question's embedding arrives, or fails; a near-duplicate of an answered
\* question is dropped, everything else goes to the gate.
EmbedReturns(m) ==
    /\ handler[m].stage = "embedding"
    /\ \E vec \in BOOLEAN :
        /\ IF vec THEN UNCHANGED failures ELSE Fail
        /\ LET h == [handler[m] EXCEPT !.vec = vec] IN
           IF vec /\ IsNearDuplicate(h.query, Near, h.at)
           THEN /\ handler' = [handler EXCEPT ![m] = Over]
                /\ UNCHANGED gates
           ELSE Gate(m, h, sinceLast)
    /\ UNCHANGED <<clock, recentFinals, scope, embedding>> /\ UNCHANGED ledgers

\* The RPC that resolves the meeting's sources: an error leaves it with none.
ScopeReturns(m) ==
    /\ handler[m].stage = "scoping"
    /\ \/ scope' = [resolved |-> TRUE, ids |-> "sources"] /\ UNCHANGED failures
       \/ scope' = [resolved |-> TRUE, ids |-> "none"] /\ Fail
    /\ handler' = [handler EXCEPT ![m].stage = "searching", ![m].ids = scope'.ids]
    /\ UNCHANGED <<clock, recentFinals, embedding>> /\ UNCHANGED ledgers /\ UNCHANGED gates

\* The same-source check, confirmed on the question lane by a loose similarity.
Repeats(h, docs) ==
    /\ IsDuplicateSourceSet(docs, h.at)
    /\ h.text \in Question /\ h.vec => IsNearDuplicate(h.query, Related, h.at)

\* The search found nothing in scope, or a relevance gate stopped it.
FindsNothing(m) ==
    /\ handler[m].stage = "searching"
    /\ handler' = [handler EXCEPT ![m] = Over]
    /\ UNCHANGED <<clock, recentFinals, scope, embedding, failures>>
    /\ UNCHANGED ledgers /\ UNCHANGED gates

\* The search found docs: they are dropped as a repeat, or surfaced as cards.
Surfaces(m, docs) ==
    /\ handler[m].stage = "searching" /\ handler[m].ids = "sources"
    /\ answeredSets' = {e \in answeredSets : Within(e.at, handler[m].at, DupWindow)}
    /\ handler' = [handler EXCEPT ![m] =
                      IF Repeats(@, docs) THEN Over
                      ELSE [@ EXCEPT !.docs = docs, !.stage = "answering"]]
    /\ UNCHANGED <<clock, recentFinals, answeredQuestions, consumedFinals,
                   scope, embedding, failures>>
    /\ UNCHANGED gates

\* onGroundedAnswer: the answer's span is consumed, its sources and its question
\* are remembered under the time its utterance came in. A question is remembered by
\* its query, what was answered on the ambient lane by its words.
Grounded(m) ==
    /\ handler[m].stage = "answering"
    /\ LET h == handler[m]
           asked == [query |-> IF h.text \in Question THEN h.query ELSE <<h.text>>, at |-> h.at]
       IN /\ consumedFinals' = AddConsumedFinals(consumedFinals, h.effective)
          /\ answeredSets' = answeredSets \cup {[docs |-> h.docs, at |-> h.at]}
          /\ answeredQuestions' = IF h.text \in Question /\ h.vec
                                  THEN answeredQuestions \cup {asked}
                                  ELSE answeredQuestions
          /\ embedding' = IF h.text \in Question THEN embedding
                          ELSE embedding \cup {asked}
    /\ handler' = [handler EXCEPT ![m] = Answered(@)]
    /\ UNCHANGED <<clock, recentFinals, scope, failures>> /\ UNCHANGED gates

Ungrounded(m) ==
    /\ handler[m].stage = "answering"
    /\ handler' = [handler EXCEPT ![m] = Over]
    /\ UNCHANGED <<clock, recentFinals, scope, embedding, failures>>
    /\ UNCHANGED ledgers /\ UNCHANGED gates

\* The embedding of a text answered on the ambient lane comes back, or fails.
LedgerEmbedReturns(asked) ==
    /\ asked \in embedding
    /\ embedding' = embedding \ {asked}
    /\ \/ answeredQuestions' = answeredQuestions \cup {asked} /\ UNCHANGED failures
       \/ UNCHANGED answeredQuestions /\ Fail
    /\ UNCHANGED <<clock, recentFinals, consumedFinals, answeredSets, scope, handler>>
    /\ UNCHANGED gates

Tick ==
    /\ clock < MaxClock
    /\ clock' = clock + 1
    /\ UNCHANGED <<recentFinals, scope, handler, embedding, failures>>
    /\ UNCHANGED ledgers /\ UNCHANGED gates

Next ==
    \/ \E m \in Message :
        \/ \E t \in Text, topic \in {<<>>} \cup {<<w>> : w \in Topic} : Arrive(m, t, topic)
        \/ EmbedReturns(m) \/ ScopeReturns(m)
        \/ FindsNothing(m) \/ \E docs \in SUBSET Doc \ {{}} : Surfaces(m, docs)
        \/ Grounded(m) \/ Ungrounded(m)
    \/ \E asked \in embedding : LedgerEmbedReturns(asked)
    \/ Tick

Spec == Init /\ [][Next]_vars

-----------------------------------------------------------------------------
(***************************************************************************)
(* Properties.                                                             *)
(***************************************************************************)
Stage == {"none", "embedding", "scoping", "searching", "answering",
          "answered", "over"}

\* The runtime keeps its types and its bounds.
RetrievalTypeOK ==
    /\ clock \in 0..MaxClock
    /\ recentFinals \in Seq(Text) /\ Len(recentFinals) <= WindowUtterances
    /\ consumedFinals \in Seq(Text) /\ Len(consumedFinals) <= ConsumedCap
    /\ sinceLast \in Nat /\ fireCount \in Nat
    /\ lastRetrievalAt \in {-Cooldown} \cup 0..clock
    /\ fireTimes \subseteq [nr : 0..(fireCount - 1), at : 0..clock]
    /\ answeredQuestions \subseteq [query : Query, at : 0..clock]
    /\ \A m \in Message :
         /\ handler[m].stage \in Stage
         /\ handler[m].stage \notin {"none", "over"} => handler[m].text \in Text
         /\ handler[m].at \in 0..clock

\* Two ambient retrievals are a cooldown apart ("at most once per 10s"), except
\* when a question whose embedding was under way for longer fired in between and
\* set lastRetrievalAt back to the time it was asked.
AmbientSpacing ==
    \A i, j \in DOMAIN fires :
        /\ i < j /\ ~fires[i].question /\ ~fires[j].question
        /\ fires[j].real - fires[i].real < Cooldown
        => \E k \in i..j : fires[k].question /\ fires[k].at + Cooldown <= fires[j].real

\* The ceilings hold for the questions that bypass the cooldown, however many
\* waited for their embeddings together: none finds MaxPerMin questions of the last
\* minute already fired, and at most MaxPerMeeting of a meeting bypass it.
QuestionCeilingsHold ==
    LET bypassing == {i \in DOMAIN fires : fires[i].free} IN
    /\ \A i \in bypassing :
          Cardinality({j \in 1..(i - 1) : fires[j].question
                          /\ fires[i].real - fires[j].at < RateWindow}) < MaxPerMin
    /\ Cardinality(bypassing) <= MaxPerMeeting

\* A question whose query is near that of a question answered in the last five
\* minutes is not retrieved for: only questions in flight at the same time, or whose
\* embedding failed, may both be answered. The query decides, not the words: a fragment
\* said again after another utterance, or under another topic, is another question.
NoLateRepeat ==
    \A i \in DOMAIN fires : fires[i].vec =>
        \A n \in fires[i].answered :
            /\ handler[n].text \in Question /\ handler[n].vec
            /\ handler[n].query \in Near[fires[i].query]
            => fires[i].real - handler[n].at >= DupWindow
=============================================================================
