------------------------------- MODULE Pipeline -------------------------------
(***************************************************************************)
(* One run of the retrieval pipeline for one utterance (core.ts,           *)
(* runPipeline): the relevance gate, the search and its retry, the cards,  *)
(* the live skill and the sources of the answer.                           *)
(*                                                                         *)
(* The relevance judge and the router are asked at the start and answer    *)
(* whenever they do, or are aborted by their timers; the run goes from one *)
(* await to the next beside them. What is found depends on the corpus: the *)
(* text of a chunk is compared in one embedding space, code in another,    *)
(* and both with the words of the query. When a run is begun at all is the *)
(* subject of Retrieval, the rows of its cards that of Cards, the stream   *)
(* of its answer that of Answers.                                          *)
(***************************************************************************)
EXTENDS Integers, FiniteSets, SequencesExt

CONSTANTS
    Chunk, Code,      \* the chunks of the corpus, and those of code
    Doc, DocOf,       \* DocOf[c]: the document of chunk c
    Place,            \* Place[c]: where chunk c stands in the table
    Corpora,          \* the corpora considered: see RankedCorpus
    Inputs,           \* the utterances considered
    Setups,           \* the configurations of the worker considered
    StrongDistance,   \* DEFAULT_CRAG_STRONG_DISTANCE
    TextFloor,        \* DEFAULT_VECTOR_DISTANCE_FLOOR
    CodeFloor,        \* DEFAULT_CODE_VECTOR_DISTANCE_FLOOR
    Far,              \* a distance beyond every floor
    CandidateLimit,   \* DEFAULT_CANDIDATE_LIMIT
    RerankPool,       \* RERANK_POOL
    TopK,             \* the hits a search returns
    RrfK,             \* DEFAULT_RRF_K
    Scale             \* a common multiple of RrfK + 1, RrfK + 2, ...

Query == {"asked", "augmented"}

\* How a corpus answers the two queries: the distances in the space of text, in
\* that of code, and the chunks that share words with the query, best first.
RankedCorpus ==
    [text : [Query -> [Chunk -> Nat]], code : [Query -> [Code -> Nat]],
     words : [Query -> Seq(Chunk)]]

Input == [empty : BOOLEAN, lane : {"question", "ambient"}, vector : BOOLEAN,
          heuristic : {"filler", "substantive", "ambiguous"},
          toolShaped : BOOLEAN, expandable : BOOLEAN, scoped : BOOLEAN]

Setup == [strict : BOOLEAN, judge : BOOLEAN, router : BOOLEAN, expander : BOOLEAN,
          reranker : BOOLEAN, parents : BOOLEAN, synthesizer : BOOLEAN]

ASSUME PipelineAssumption ==
    /\ IsFiniteSet(Chunk) /\ Code \subseteq Chunk /\ DocOf \in [Chunk -> Doc]
    /\ Place \in [Chunk -> Nat] /\ \A c, d \in Chunk : Place[c] = Place[d] => c = d
    /\ Corpora \subseteq RankedCorpus
    /\ Inputs \subseteq Input /\ Setups \subseteq Setup
    /\ {StrongDistance, TextFloor, CodeFloor, Far} \subseteq Nat
    /\ StrongDistance <= TextFloor /\ TextFloor < Far /\ CodeFloor < Far
    /\ {CandidateLimit, RerankPool, TopK, RrfK, Scale} \subseteq Nat \ {0}
    /\ TopK <= RerankPool

VARIABLES
    input, setup, corpus,  \* what the run is given
    stage,      \* the await the run is at
    judge,      \* the relevance judge: "none", "asked", or what it said
    router,     \* the router: "none", "asked", or what it said
    timers,     \* the timers that are set
    aborted,    \* the signal of the skill
    codeSpace,  \* whether the query has a vector in the space of code
    hits,       \* the chunks found, best first
    left,       \* the positions of the hits still to become cards
    shown,      \* the documents of the cards inserted, in order
    sources,    \* synthesisSources: their documents
    cardIds,    \* surfacedCardIds: the cards of the sources
    tool,       \* the tool source: "none", or what the skill returned
    miss,       \* the knowledge gap recorded, if any
    answer,     \* the citations of a grounded answer: [source, card]
    outcome,    \* how the run ended
    faults      \* history: the calls that failed, or fell short

given == <<input, setup, corpus>>
asked == <<judge, router, timers, aborted>>
found == <<codeSpace, hits, left>>
made  == <<shown, sources, cardIds, tool>>
vars  == <<given, stage, asked, found, made, miss, answer, outcome, faults>>

Init ==
    /\ input \in Inputs /\ setup \in Setups /\ corpus \in Corpora
    /\ stage = "begin"
    /\ judge = "none" /\ router = "none" /\ timers = {} /\ aborted = FALSE
    /\ codeSpace = FALSE /\ hits = <<>> /\ left = {}
    /\ shown = <<>> /\ sources = <<>> /\ cardIds = <<>> /\ tool = "none"
    /\ miss = "none" /\ answer = {} /\ outcome = "none" /\ faults = {}

-----------------------------------------------------------------------------
(***************************************************************************)
(* Hybrid search (corpus-search.ts).                                       *)
(***************************************************************************)
\* The first n of S, where before relates each of S to those after it.
FirstOf(n, S, before) ==
    [k \in 1..(IF Cardinality(S) < n THEN Cardinality(S) ELSE n) |->
        CHOOSE c \in S : Cardinality({d \in S : before[<<d, c>>]}) = k - 1]

\* The nearest of the chunks S; of the same distance, in the order of the table.
Nearest(S, distance) ==
    FirstOf(CandidateLimit, S, [p \in S \X S |->
        \/ distance[p[1]] < distance[p[2]]
        \/ distance[p[1]] = distance[p[2]] /\ Place[p[1]] < Place[p[2]]])

\* The candidate lists of query q in corpus w: text and code apart when the query
\* has a vector for each, else all chunks by the one for text; and the words. A
\* leg that failed contributes nothing.
Lists(w, q, space, failed) ==
    [text  |-> Nearest(IF space THEN Chunk \ Code ELSE Chunk, w.text[q]),
     code  |-> IF space /\ "code" \notin failed THEN Nearest(Code, w.code[q]) ELSE <<>>,
     words |-> IF "words" \in failed THEN <<>> ELSE w.words[q]]

Distance(w, q, lists, c) ==
    CASE Contains(lists.code, c) -> w.code[q][c]
      [] Contains(lists.text, c) -> w.text[q][c]
      [] OTHER                   -> Far

PassesTextFloor(lists, distance, c) ==
    Contains(lists.words, c) \/ distance[c] <= TextFloor

\* Shares words with the query, or is near enough for its own space.
Passes(lists, distance, c) ==
    \/ Contains(lists.words, c)
    \/ distance[c] <= IF Contains(lists.code, c) THEN CodeFloor ELSE TextFloor

Rank(list, c) == CHOOSE i \in DOMAIN list : list[i] = c

\* Reciprocal rank fusion: each list gives a chunk 1 / (RrfK + rank).
Score(lists, c) ==
    LET Share(list) == IF Contains(list, c) THEN Scale \div (RrfK + Rank(list, c)) ELSE 0
    IN Share(lists.text) + Share(lists.code) + Share(lists.words)

\* The best by score, of the same score the one that was listed first.
Fused(lists, distance, limit) ==
    LET passing == {c \in Chunk : Passes(lists, distance, c)}
        score == [c \in passing |-> Score(lists, c)]
        listed == lists.text \o lists.code \o lists.words
        first == [c \in passing |-> CHOOSE i \in DOMAIN listed :
                     listed[i] = c /\ \A j \in 1..(i - 1) : listed[j] # c]
    IN FirstOf(limit, passing, [p \in passing \X passing |->
           \/ score[p[1]] > score[p[2]]
           \/ score[p[1]] = score[p[2]] /\ first[p[1]] < first[p[2]]])

\* isLowConfidenceHits is the negation: some hit is close, or in range and worded.
Confident(lists, distance, chunks) ==
    \E c \in Range(chunks) :
        \/ distance[c] <= StrongDistance
        \/ Contains(lists.words, c) /\ distance[c] <= TextFloor

SearchFaults == {{}, {"vector"}, {"code"}, {"words"}, {"code", "words"}}

\* What a search is given.
Searches == [corpus : Corpora, query : Query, codeSpace : BOOLEAN, reranker : BOOLEAN,
             failed : SearchFaults]

\* What a search returns: nothing if the vector leg failed, else the head of the
\* fused pool, or what the reranker, if there is one and the head is neither all
\* there is nor confident, picks from the pool: at most TopK of it, and possibly
\* none, for whatever its answer does not name is dropped.
Returns(s) ==
    LET lists == Lists(s.corpus, s.query, s.codeSpace, s.failed)
        distance == [c \in Chunk |-> Distance(s.corpus, s.query, lists, c)]
        pool == Fused(lists, distance, IF s.reranker THEN RerankPool ELSE TopK)
        head == Fused(lists, distance, TopK)
        picks == UNION {[1..n -> Range(pool)] : n \in 0..TopK}
    IN IF "vector" \in s.failed THEN {[hits |-> <<>>, confident |-> FALSE, short |-> {}]}
       ELSE {[hits |-> r, confident |-> Confident(lists, distance, r),
              short |-> IF r = <<>> /\ head # <<>> THEN {"rerank"} ELSE {}] :
                r \in {head} \cup
                     IF ~s.reranker \/ Len(pool) <= TopK \/ Confident(lists, distance, head)
                     THEN {} ELSE {p \in picks : IsInjective(p)}}

\* Every search there can be, with what it may return.
Search ==
    UNION {{[of |-> s, hits |-> r.hits, confident |-> r.confident, short |-> r.short] :
               r \in Returns(s)} : s \in Searches}

\* A meeting without sources is searched for nothing.
Results(q, failed) ==
    IF input.scoped
    THEN {r \in Search : r.of = [corpus |-> corpus, query |-> q, codeSpace |-> codeSpace,
                                 reranker |-> setup.reranker, failed |-> failed]}
    ELSE {[hits |-> <<>>, confident |-> FALSE, short |-> {}]}

-----------------------------------------------------------------------------
(***************************************************************************)
(* The gate, and what is asked beside the run.                             *)
(***************************************************************************)
End(how) == stage' = "over" /\ outcome' = how

JudgeWanted ==
    /\ setup.judge /\ input.lane # "question"
    /\ \/ input.heuristic = "ambiguous"
       \/ setup.strict /\ input.heuristic = "substantive"

RouterWanted == setup.router /\ (input.lane = "question" \/ input.toolShaped)

Begin ==
    /\ stage = "begin"
    /\ IF input.empty THEN End("empty") /\ UNCHANGED asked
       ELSE IF input.lane # "question" /\ input.heuristic = "filler"
       THEN End("filler") /\ UNCHANGED asked
       ELSE /\ stage' = "embedding"
            /\ judge' = IF JudgeWanted THEN "asked" ELSE "none"
            /\ router' = IF RouterWanted THEN "asked" ELSE "none"
            /\ timers' = {t \in {"judge", "router"} :
                             IF t = "judge" THEN JudgeWanted ELSE RouterWanted}
            /\ UNCHANGED <<outcome, aborted>>
    /\ UNCHANGED <<given, found, made, miss, answer, faults>>

\* The judge answers (a skip below the threshold is a "surface"), or fails.
JudgeAnswers ==
    /\ judge = "asked"
    /\ judge' \in {"skip", "surface"}
    /\ timers' = timers \ {"judge"}
    /\ UNCHANGED <<given, stage, router, aborted, found, made, miss, answer, outcome, faults>>

\* Its timer aborts it, and the utterance passes.
JudgeAborted ==
    /\ judge = "asked" /\ "judge" \in timers
    /\ judge' = "surface"
    /\ timers' = timers \ {"judge"}
    /\ UNCHANGED <<given, stage, router, aborted, found, made, miss, answer, outcome, faults>>

\* The router names a skill, which may be unknown, prefers the corpus, or fails.
\* Its timer is cleared only when the run collects the answer.
RouterAnswers ==
    /\ router = "asked"
    /\ router' \in {"tool", "unknown", "corpus", "failed"}
    /\ UNCHANGED <<given, stage, judge, timers, aborted, found, made, miss, answer, outcome,
                   faults>>

RouterAborted ==
    /\ "router" \in timers
    /\ router' = IF router = "asked" THEN "failed" ELSE router
    /\ timers' = timers \ {"router"}
    /\ UNCHANGED <<given, stage, judge, aborted, found, made, miss, answer, outcome, faults>>

-----------------------------------------------------------------------------
(***************************************************************************)
(* Embedding, search and the retry on a miss.                              *)
(***************************************************************************)
\* The vectors of the query come back. Without one for text, which the question
\* lane may have from its duplicate check, the run ends; one for code is optional.
EmbedReturns ==
    /\ stage = "embedding"
    /\ \/ ~input.vector /\ End("no vector") /\ faults' = faults \cup {"embed"}
          /\ UNCHANGED codeSpace
       \/ /\ stage' = "searching" /\ codeSpace' \in BOOLEAN
          /\ faults' = IF codeSpace' THEN faults ELSE faults \cup {"code"}
          /\ UNCHANGED outcome
    /\ UNCHANGED <<given, asked, hits, left, made, miss, answer>>

SearchReturns ==
    /\ stage = "searching"
    /\ \E failed \in SearchFaults :
          \E r \in Results("asked", failed) :
             /\ hits' = r.hits
             /\ faults' = faults \cup failed \cup r.short
    /\ stage' = "verdict"
    /\ UNCHANGED <<given, asked, codeSpace, left, made, miss, answer, outcome>>

Expandable == setup.expander /\ (input.lane = "question" \/ input.expandable)

MissAfterExpansionOnly ==
    /\ End("no hits")
    /\ miss' = IF Expandable THEN "no_hits" ELSE "none"

\* No hits: a gap, unless the utterance is filler after all.
Missed ==
    /\ End("no hits")
    /\ miss' = IF input.heuristic = "filler" THEN "none" ELSE "no_hits"

\* The judge's verdict is collected after the search: a skip discards what was
\* found. A miss is retried with an augmented query, or recorded.
Verdict ==
    /\ stage = "verdict" /\ judge # "asked"
    /\ IF judge = "skip" THEN End("skip") /\ UNCHANGED miss
       ELSE IF hits = <<>> /\ ~Expandable THEN Missed
       ELSE /\ stage' = IF hits = <<>> THEN "expanding" ELSE "reading"
            /\ UNCHANGED <<outcome, miss>>
    /\ UNCHANGED <<given, asked, found, made, answer, faults>>

\* The expander returns new terms and the augmented query its vectors; or it has
\* none, or one of the calls fails.
ExpanderReturns ==
    /\ stage = "expanding"
    /\ \/ stage' = "searching again" /\ codeSpace' \in BOOLEAN /\ UNCHANGED <<miss, outcome>>
       \/ Missed /\ UNCHANGED codeSpace
    /\ UNCHANGED <<given, asked, hits, left, made, answer, faults>>

\* Only a confident result of the augmented query is adopted.
SearchAgainReturns ==
    /\ stage = "searching again"
    /\ \E failed \in SearchFaults : \E r \in Results("augmented", failed) :
          IF r.confident
          THEN hits' = r.hits /\ stage' = "reading" /\ UNCHANGED <<miss, outcome>>
          ELSE Missed /\ UNCHANGED hits
    /\ UNCHANGED <<given, asked, codeSpace, left, made, answer, faults>>

-----------------------------------------------------------------------------
(***************************************************************************)
(* The cards.                                                              *)
(***************************************************************************)
\* The best hit of each document.
DedupeByDoc(chunks) ==
    {i \in DOMAIN chunks : \A j \in 1..(i - 1) : DocOf[chunks[j]] # DocOf[chunks[i]]}

\* The parents of the hits are read, or not; then the run is dropped as a repeat
\* of a recent answer's sources, or its cards are begun.
ParentsReturn ==
    /\ stage = "reading"
    /\ \/ End("repeat") /\ UNCHANGED left
       \/ /\ stage' = "emitting" /\ UNCHANGED outcome
          /\ left' = IF setup.parents THEN DedupeByDoc(hits) ELSE DOMAIN hits
    /\ UNCHANGED <<given, asked, codeSpace, hits, made, miss, answer, faults>>

\* emitCard of the next hit returns: a card and a source, or neither.
CardReturns ==
    /\ stage = "emitting"
    /\ \E i \in left :
          /\ \A j \in left : i <= j
          /\ left' = left \ {i}
          /\ \/ /\ shown' = Append(shown, DocOf[hits[i]])
                /\ sources' = Append(sources, DocOf[hits[i]])
                /\ cardIds' = Append(cardIds, Len(shown) + 1)
                /\ UNCHANGED faults
             \/ /\ faults' = faults \cup {"card"}
                /\ UNCHANGED <<shown, sources, cardIds>>
    /\ UNCHANGED <<given, stage, asked, codeSpace, hits, tool, miss, answer, outcome>>

-----------------------------------------------------------------------------
(***************************************************************************)
(* The skill the router chose, and the answer.                             *)
(***************************************************************************)
\* Synthesis, if there is a synthesizer and anything to cite.
Onward(hasTool) ==
    IF setup.synthesizer /\ (sources # <<>> \/ hasTool)
    THEN stage' = "synthesizing" /\ UNCHANGED outcome
    ELSE End("no answer")

CollectToolUnbounded ==
    /\ stage = "emitting" /\ left = {} /\ router # "asked"
    /\ IF router = "tool" THEN stage' = "skill" /\ UNCHANGED outcome ELSE Onward(FALSE)
    /\ timers' = timers \ {"router"}
    /\ UNCHANGED <<given, judge, router, aborted, found, made, miss, answer, faults>>

\* After the cards the router's answer is awaited; its timer gives way to the
\* skill's own.
CollectTool ==
    /\ stage = "emitting" /\ left = {} /\ router # "asked"
    /\ IF router = "tool"
       THEN /\ stage' = "skill" /\ UNCHANGED outcome
            /\ timers' = (timers \ {"router"}) \cup {"skill"}
       ELSE Onward(FALSE) /\ timers' = timers \ {"router"}
    /\ UNCHANGED <<given, judge, router, aborted, found, made, miss, answer, faults>>

\* The skill begins with what does not heed its signal: the resolver of a live
\* skill (its rows, its token), the queries of a skill on the corpus. With the
\* access it goes on to the connector, whose calls do, and throw if it is set.
SkillResolves ==
    /\ stage = "skill" /\ ~aborted
    /\ stage' = "fetching"
    /\ UNCHANGED <<given, asked, found, made, miss, answer, outcome, faults>>

\* decideToolSource: advice to connect a provider gives way to documents.
Keep(result) == result # "unresolved" /\ (result = "not connected" => sources = <<>>)

SkillReturns ==
    /\ stage \in {"skill", "fetching"}
    /\ \E result \in {"clean", "repaired", "unresolved", "not connected"} :
          IF Keep(result) THEN tool' = result /\ Onward(TRUE)
          ELSE UNCHANGED tool /\ Onward(FALSE)
    /\ timers' = timers \ {"skill"}
    /\ UNCHANGED <<given, judge, router, aborted, found, shown, sources, cardIds, miss, answer,
                   faults>>

\* The skill throws.
SkillFails ==
    /\ stage \in {"skill", "fetching"} /\ Onward(FALSE)
    /\ timers' = timers \ {"skill"}
    /\ UNCHANGED <<given, judge, router, aborted, found, made, miss, answer, faults>>

\* Its timer sets the signal: a call of the connector throws, the calls before
\* it are awaited as before.
SkillAborted ==
    /\ "skill" \in timers
    /\ timers' = timers \ {"skill"} /\ aborted' = TRUE
    /\ IF stage = "fetching" THEN Onward(FALSE) ELSE UNCHANGED <<stage, outcome>>
    /\ UNCHANGED <<given, judge, router, found, made, miss, answer, faults>>

\* A tool source is cited first; the cards keep step with the sources.
MergedSources == IF tool = "none" THEN sources ELSE <<"tool">> \o sources

MergedCardsBare == cardIds

ToolCard == 0

MergedCards == IF tool = "none" THEN cardIds ELSE <<ToolCard>> \o cardIds

\* The synthesis ends: grounded in what it cites, taken back or refused, which is
\* a gap, or broken, which is one only if prose had been shown (see Answers).
Synthesize ==
    /\ stage = "synthesizing"
    /\ \/ \E ranks \in SUBSET DOMAIN MergedSources :
             /\ ranks \cap DOMAIN MergedCards # {}
             /\ answer' = {[source |-> MergedSources[r], card |-> MergedCards[r]] :
                              r \in ranks \cap DOMAIN MergedCards}
             /\ End("answered") /\ UNCHANGED miss
       \/ miss' \in {"refusal", "ungrounded"} /\ End("taken back") /\ UNCHANGED answer
       \/ End("broken") /\ UNCHANGED <<miss, answer>>
    /\ UNCHANGED <<given, asked, found, made, faults>>

\* The part of the skill that no timer bounds.
SkillUnbounded == SkillResolves \/ (stage = "skill" /\ (SkillReturns \/ SkillFails))

Await ==
    \/ Begin \/ EmbedReturns \/ SearchReturns \/ Verdict \/ ExpanderReturns
    \/ SearchAgainReturns \/ ParentsReturn \/ CardReturns \/ CollectTool \/ Synthesize
    \/ SkillUnbounded

Next ==
    \/ Begin \/ EmbedReturns \/ SearchReturns \/ Verdict \/ ExpanderReturns
    \/ SearchAgainReturns \/ ParentsReturn \/ CardReturns \/ CollectTool \/ Synthesize
    \/ JudgeAnswers \/ RouterAnswers \/ SkillResolves \/ SkillReturns \/ SkillFails
    \/ JudgeAborted \/ RouterAborted \/ SkillAborted

\* Timers fire, and the awaits that no timer bounds, which are those of the
\* database, the embedder, the expander, the synthesizer and the first part of
\* the skill, return or fail in the end: an assumption on the other end. The
\* judge, the router and the connector need not answer at all.
Fairness ==
    /\ WF_vars(Await)
    /\ WF_vars(JudgeAborted) /\ WF_vars(RouterAborted) /\ WF_vars(SkillAborted)

Spec == Init /\ [][Next]_vars /\ Fairness

-----------------------------------------------------------------------------
(***************************************************************************)
(* Properties.                                                             *)
(***************************************************************************)
\* What the corpus has for the query as it was asked, in the meeting's scope.
Eligible ==
    {c \in Chunk :
        /\ input.scoped
        /\ \/ Contains(corpus.words["asked"], c)
           \/ c \notin Code /\ corpus.text["asked"][c] <= TextFloor
           \/ c \in Code /\ corpus.code["asked"][c] <= CodeFloor}

\* A gap for want of hits is a true one: the utterance was neither filler nor
\* judged to be, and the corpus has nothing in range of what was asked, in either
\* space or in words; except that a leg of the search failed, or that hits were
\* found and the reranker's answer, which is taken at its word, named none of them.
GapsAreRealMisses ==
    miss = "no_hits" =>
        /\ input.heuristic # "filler" /\ judge # "skip"
        /\ faults = {} => Eligible = {}

\* Nothing asked is lost without a trace. A question is discarded by no relevance
\* gate ("an answerable question is never dropped before retrieval"), a discarded
\* utterance leaves nothing on the page, and any other run ends with a card, a gap
\* or an answer: except that no vector came, no card could be inserted, or its
\* words are filler by the heuristic that a question bypasses.
NothingIsLost ==
    stage = "over" =>
        /\ input.lane = "question" => outcome \notin {"filler", "skip"}
        /\ outcome \in {"empty", "filler", "skip", "repeat"} => shown = <<>> /\ miss = "none"
        /\ outcome \in {"no hits", "no answer", "answered", "taken back", "broken"} =>
              \/ shown # <<>> \/ miss # "none" \/ answer # {}
              \/ "card" \in faults
              \/ outcome = "no hits" /\ input.heuristic = "filler"

\* A citation resolves to the card of the source it names, the tool's or that of
\* its document, whichever inserts failed and whether or not a tool source came
\* first; and, unless parent documents are switched off, no later card of the
\* run has taken the place of that card.
CitationsNameTheirSource ==
    \A c \in answer :
        \/ c.source = "tool" /\ c.card = ToolCard
        \/ /\ c.card \in DOMAIN shown /\ shown[c.card] = c.source
           /\ setup.parents => \A i \in DOMAIN shown : i > c.card => shown[i] # c.source

\* Every run ends, though the judge, the router and the connector a skill asks
\* never answer; and whenever their timers fire, into whichever step. The part of
\* a skill that does not heed its deadline is assumed to end by itself.
RunsEnd == <>(stage = "over")
=============================================================================
