---------------------------- MODULE PipelineProofs ----------------------------
(***************************************************************************)
(* For every corpus, configuration and utterance: a citation names the     *)
(* card of its source, nothing asked is lost without a trace, and a gap    *)
(* for want of hits is a true one.                                         *)
(***************************************************************************)
EXTENDS Pipeline, FiniteSetTheorems, SequenceTheorems, TLAPS

-----------------------------------------------------------------------------
(***************************************************************************)
(* What a search returns is a list: its positions are numbers from 1, and  *)
(* there is a first hit when there is any.                                 *)
(***************************************************************************)
Listed(list) == DOMAIN list \subseteq Nat \ {0} /\ (list # <<>> => 1 \in DOMAIN list)

LEMMA FirstOfListed ==
    ASSUME PipelineAssumption, NEW n \in Nat, NEW S \in SUBSET Chunk, NEW before
    PROVE  Listed(FirstOf(n, S, before))
<1> DEFINE m == IF Cardinality(S) < n THEN Cardinality(S) ELSE n
<1>1. IsFiniteSet(S)
  BY FS_Subset DEF PipelineAssumption
<1>2. m \in Nat
  BY <1>1, FS_CardinalityType
<1> DEFINE list == FirstOf(n, S, before)
<1>3. DOMAIN list = 1..m
  BY DEF FirstOf
<1> HIDE DEF m
<1>4. CASE m = 0
  <2> DEFINE V == {list[k] : k \in 1..m}
  <2>1. list \in [1..m -> V]
    BY <1>3 DEF FirstOf
  <2> HIDE DEF V, list
  <2>2. list \in Seq(V) /\ Len(list) = 0
    BY <1>2, <1>4, <2>1
  <2>3. list = <<>>
    BY <2>2, EmptySeq
  <2> QED
    BY <1>3, <1>4, <2>3 DEF Listed, list
<1>5. CASE m # 0
  BY <1>2, <1>3, <1>5 DEF Listed
<1> QED
  BY <1>4, <1>5

LEMMA EmptyListed == Listed(<<>>)
BY DEF Listed

\* What a search that is not lost with its vector leg returns.
Found(s, lists, distance, h) ==
    [hits |-> h, confident |-> Confident(lists, distance, h),
     short |-> IF h = <<>> /\ Fused(lists, distance, TopK) # <<>> THEN {"rerank"} ELSE {}]

FoundBy(s, t) ==
    LET lists == Lists(s.corpus, s.query, s.codeSpace, s.failed)
        distance == [c \in Chunk |-> Distance(s.corpus, s.query, lists, c)]
    IN \E h : t = Found(s, lists, distance, h)

LEMMA ReturnsFound ==
    ASSUME NEW s, "vector" \notin s.failed, NEW t \in Returns(s)
    PROVE  FoundBy(s, t)
BY Zenon DEF Returns, Found, FoundBy

LEMMA ReturnsListed ==
    ASSUME PipelineAssumption, NEW s \in Searches, NEW r \in Returns(s)
    PROVE  Listed(r.hits)
<1> DEFINE lists == Lists(s.corpus, s.query, s.codeSpace, s.failed)
           distance == [c \in Chunk |-> Distance(s.corpus, s.query, lists, c)]
           head == Fused(lists, distance, TopK)
           pool == Fused(lists, distance, IF s.reranker THEN RerankPool ELSE TopK)
           ranked == UNION {[1..n -> Range(pool)] : n \in 0..TopK}
           picks == {p \in ranked : IsInjective(p)}
<1>1. TopK \in Nat \ {0}
  BY DEF PipelineAssumption
<1>2. Listed(head)
  <2> DEFINE passing == {c \in Chunk : Passes(lists, distance, c)}
  <2>1. PICK before : head = FirstOf(TopK, passing, before)
    BY Zenon DEF Fused
  <2> QED
    BY <1>1, <2>1, FirstOfListed
<1>3. \A p \in picks : Listed(p)
  <2> SUFFICES ASSUME NEW p \in ranked PROVE Listed(p)
    OBVIOUS
  <2>1. PICK n \in 0..TopK : p \in [1..n -> Range(pool)]
    OBVIOUS
  <2>2. DOMAIN p = 1..n /\ n \in Nat
    BY <1>1, <2>1
  <2>3. CASE n = 0
    <3>1. p \in Seq(Range(pool)) /\ Len(p) = 0
      BY <2>1, <2>2, <2>3
    <3>2. p = <<>>
      BY <3>1, EmptySeq
    <3> QED
      BY <3>2, EmptyListed
  <2>4. CASE n # 0
    BY <2>2, <2>4 DEF Listed
  <2> QED
    BY <2>3, <2>4
<1>4. r.hits \in {<<>>, head} \cup picks
  BY DEF Returns
<1> QED
  BY <1>2, <1>3, <1>4, EmptyListed

LEMMA ResultsListed ==
    ASSUME PipelineAssumption, NEW q, NEW failed, NEW r \in Results(q, failed)
    PROVE  Listed(r.hits)
<1>1. CASE input.scoped
  <2>1. r \in Search
    BY <1>1 DEF Results
  <2>2. PICK s \in Searches : \E t \in Returns(s) : r.hits = t.hits
    BY <2>1 DEF Search
  <2> QED
    BY <2>2, ReturnsListed
<1>2. CASE ~input.scoped
  BY <1>2, EmptyListed DEF Results
<1> QED
  BY <1>1, <1>2

-----------------------------------------------------------------------------
(***************************************************************************)
(* The inductive invariant.                                                *)
(***************************************************************************)
\* The sources are the cards inserted, numbered as they were: an insert that
\* failed left a trace in neither.
SourcesAreCards ==
    /\ \E V : shown \in Seq(V)
    /\ sources = shown
    /\ cardIds \in [1..Len(shown) -> Nat] /\ \A i \in 1..Len(shown) : cardIds[i] = i

\* No card has a document that another card or a hit still to come has.
OneCardPerDoc ==
    setup.parents =>
        /\ \A i, j \in 1..Len(shown) : shown[i] = shown[j] => i = j
        /\ \A i, j \in left : DocOf[hits[i]] = DocOf[hits[j]] => i = j
        /\ \A i \in 1..Len(shown), j \in left : shown[i] # DocOf[hits[j]]

BeforeCards ==
    {"begin", "embedding", "searching", "verdict", "expanding", "searching again", "reading"}

\* Nothing is inserted or recorded too early, and the judge is asked of the
\* ambient lane only.
NothingEarly ==
    /\ stage \in BeforeCards => shown = <<>>
    /\ stage # "emitting" /\ stage # "over" => left = {}
    /\ stage # "over" => miss = "none" /\ answer = {} /\ outcome = "none"
    /\ judge # "none" => input.lane # "question"

\* From the cards on, there is one, one to come or one that failed.
SomethingToShow ==
    /\ Listed(hits)
    /\ stage = "reading" => hits # <<>>
    /\ stage \in {"emitting", "skill", "fetching", "synthesizing"} =>
           left # {} \/ shown # <<>> \/ "card" \in faults

IInv ==
    /\ SourcesAreCards /\ OneCardPerDoc /\ NothingEarly /\ SomethingToShow
    /\ NothingIsLost /\ CitationsNameTheirSource

LEMMA InitHolds == Init => IInv
<1> SUFFICES ASSUME Init PROVE IInv
  OBVIOUS
<1>1. shown \in Seq({})
  BY DEF Init
<1> QED
  BY <1>1, EmptyListed DEF Init, IInv, SourcesAreCards, OneCardPerDoc, NothingEarly,
     SomethingToShow, NothingIsLost, CitationsNameTheirSource

\* The parts of the invariant that speak of cards, hits and citations stand when
\* none of them changes.
LEMMA CardsUntouched ==
    ASSUME IInv, UNCHANGED <<setup, shown, sources, cardIds, hits, left, answer>>
    PROVE  SourcesAreCards' /\ OneCardPerDoc' /\ CitationsNameTheirSource' /\ Listed(hits)'
BY DEF IInv, SourcesAreCards, OneCardPerDoc, CitationsNameTheirSource, SomethingToShow, Listed

\* What is confident is not empty.
LEMMA EmptyNotConfident == \A lists, distance : ~Confident(lists, distance, <<>>)
BY DEF Confident, Range

LEMMA ConfidentOfSome ==
    ASSUME NEW q, NEW failed, NEW r \in Results(q, failed), r.hits = <<>>
    PROVE  ~r.confident
<1>1. \A s : \A t \in Returns(s) : t.hits = <<>> => ~t.confident
  <2> SUFFICES ASSUME NEW s, NEW t \in Returns(s), t.hits = <<>> PROVE ~t.confident
    OBVIOUS
  <2>1. CASE "vector" \in s.failed
    BY <2>1 DEF Returns
  <2>2. CASE "vector" \notin s.failed
    <3>1. PICK lists, distance, h : t = Found(s, lists, distance, h)
      BY <2>2, ReturnsFound DEF FoundBy
    <3>2. t.hits = h /\ t.confident = Confident(lists, distance, h)
      BY <3>1 DEF Found
    <3> QED
      BY <3>2, EmptyNotConfident
  <2> QED
    BY <2>1, <2>2
<1>2. CASE input.scoped
  <2>1. PICK s \in Searches : \E t \in Returns(s) :
           r = [of |-> s, hits |-> t.hits, confident |-> t.confident, short |-> t.short]
    BY <1>2 DEF Results, Search
  <2> QED
    BY <1>1, <2>1
<1>3. CASE ~input.scoped
  BY <1>3 DEF Results
<1> QED
  BY <1>2, <1>3

\* The card of hit i was inserted.
CardAppended(i) ==
    /\ shown' = Append(shown, DocOf[hits[i]])
    /\ sources' = Append(sources, DocOf[hits[i]])
    /\ cardIds' = Append(cardIds, Len(shown) + 1)

LEMMA AppendedOne ==
    ASSUME NEW V, NEW s \in Seq(V), NEW e
    PROVE  /\ Append(s, e) \in Seq(V \cup {e}) /\ Append(s, e) # <<>>
           /\ Len(Append(s, e)) = Len(s) + 1
           /\ Append(s, e)[Len(s) + 1] = e
           /\ \A i \in 1..Len(s) : Append(s, e)[i] = s[i]
<1>1. /\ Append(s, e) \in Seq(V \cup {e})
      /\ Len(Append(s, e)) = Len(s) + 1
  OBVIOUS
<1>2. Append(s, e)[Len(s) + 1] = e
  OBVIOUS
<1>3. \A i \in 1..Len(s) : Append(s, e)[i] = s[i]
  OBVIOUS
<1> QED
  BY <1>1, <1>2, <1>3

\* No two best hits are of one document.
LEMMA DedupedApart ==
    ASSUME NEW list, Listed(list)
    PROVE  \A i, j \in DedupeByDoc(list) : DocOf[list[i]] = DocOf[list[j]] => i = j
<1>1. \A i \in DedupeByDoc(list) : i \in Nat /\ i >= 1
  BY DEF Listed, DedupeByDoc
<1>2. ASSUME NEW i \in DedupeByDoc(list), NEW j \in DedupeByDoc(list), i < j
      PROVE  DocOf[list[i]] # DocOf[list[j]]
  <2>1. i \in 1..(j - 1)
    BY <1>1, <1>2
  <2> QED
    BY <2>1 DEF DedupeByDoc
<1>3. \A i, j \in DedupeByDoc(list) : i < j \/ j < i \/ i = j
  BY <1>1
<1> QED
  BY <1>2, <1>3

\* Each rank of the merged sources names a source and its card.
LEMMA RanksNameSources ==
    ASSUME SourcesAreCards, OneCardPerDoc, NEW r \in DOMAIN MergedSources
    PROVE  \/ MergedSources[r] = "tool" /\ MergedCards[r] = ToolCard
           \/ /\ MergedCards[r] \in DOMAIN shown /\ shown[MergedCards[r]] = MergedSources[r]
              /\ setup.parents =>
                    \A i \in DOMAIN shown : i > MergedCards[r] => shown[i] # MergedSources[r]
<1>1. PICK V : shown \in Seq(V)
  BY DEF SourcesAreCards
<1> DEFINE n == Len(shown)
<1>2. n \in Nat /\ DOMAIN shown = 1..n /\ sources = shown /\ cardIds \in Seq(Nat)
      /\ Len(cardIds) = n /\ \A i \in 1..n : cardIds[i] = i
  BY <1>1 DEF SourcesAreCards
<1>3. CASE tool = "none"
  BY <1>2, <1>3 DEF MergedSources, MergedCards, OneCardPerDoc
<1>4. CASE tool # "none"
  <2>1. DOMAIN MergedSources = 1..(n + 1) /\ MergedSources[1] = "tool"
        /\ \A i \in 1..n : MergedSources[i + 1] = shown[i]
    <3>1. <<"tool">> \in Seq(V \cup {"tool"}) /\ shown \in Seq(V \cup {"tool"})
      BY <1>1
    <3> QED
      BY <1>2, <1>4, <3>1 DEF MergedSources
  <2>2. MergedCards[1] = ToolCard /\ \A i \in 1..n : MergedCards[i + 1] = cardIds[i]
    BY <1>2, <1>4 DEF MergedCards, ToolCard
  <2>3. CASE r = 1
    BY <2>1, <2>2, <2>3
  <2>4. CASE r # 1
    <3> DEFINE k == r - 1
    <3>1. k \in 1..n /\ r = k + 1
      BY <1>2, <2>1, <2>4
    <3> HIDE DEF k
    <3>2. MergedCards[r] = k /\ MergedSources[r] = shown[k]
      BY <1>2, <2>1, <2>2, <3>1
    <3> QED
      BY <1>2, <3>1, <3>2 DEF OneCardPerDoc
  <2> QED
    BY <2>3, <2>4
<1> QED
  BY <1>3, <1>4

LEMMA StepKeeps ==
    ASSUME PipelineAssumption, IInv, [Next]_vars
    PROVE  IInv'
<1> USE DEF given, asked, found, made, vars
<1> DEFINE Rest == NothingEarly' /\ NothingIsLost' /\ (Listed(hits)' => SomethingToShow')
<1>1. CASE UNCHANGED vars
  BY <1>1, CardsUntouched DEF IInv, NothingEarly, SomethingToShow, NothingIsLost
<1>2. CASE Begin
  <2>1. Rest
    BY <1>2 DEF Begin, End, JudgeWanted, IInv, NothingEarly, BeforeCards, SomethingToShow, NothingIsLost
  <2> QED
    BY <1>2, <2>1, CardsUntouched DEF Begin, IInv
<1>3. CASE JudgeAnswers \/ JudgeAborted
  <2>1. Rest
    BY <1>3 DEF JudgeAnswers, JudgeAborted, IInv, NothingEarly, BeforeCards, SomethingToShow, NothingIsLost
  <2> QED
    BY <1>3, <2>1, CardsUntouched DEF JudgeAnswers, JudgeAborted, IInv
<1>4. CASE RouterAnswers \/ RouterAborted
  <2>1. Rest
    BY <1>4 DEF RouterAnswers, RouterAborted, IInv, NothingEarly, BeforeCards, SomethingToShow, NothingIsLost
  <2> QED
    BY <1>4, <2>1, CardsUntouched DEF RouterAnswers, RouterAborted, IInv
<1>5. CASE EmbedReturns
  <2>1. Rest
    BY <1>5 DEF EmbedReturns, End, IInv, NothingEarly, BeforeCards, SomethingToShow, NothingIsLost
  <2> QED
    BY <1>5, <2>1, CardsUntouched DEF EmbedReturns, IInv
<1>6. CASE SearchReturns
  <2>0. PICK failed : \E r \in Results("asked", failed) : hits' = r.hits
    BY <1>6 DEF SearchReturns
  <2>1. PICK r \in Results("asked", failed) : hits' = r.hits
    BY <2>0
  <2>2. Listed(hits)'
    BY <2>1, ResultsListed DEF Listed
  <2>3. stage = "searching" /\ left = {} /\ shown = <<>> /\ answer = {}
    BY <1>6 DEF SearchReturns, IInv, NothingEarly, BeforeCards
  <2>4. Rest
    BY <1>6 DEF SearchReturns, IInv, NothingEarly, BeforeCards, SomethingToShow, NothingIsLost
  <2>5. SourcesAreCards' /\ OneCardPerDoc' /\ CitationsNameTheirSource'
    BY <1>6, <2>3 DEF SearchReturns, IInv, SourcesAreCards, OneCardPerDoc, CitationsNameTheirSource
  <2> QED
    BY <2>2, <2>4, <2>5 DEF IInv
<1>7. CASE Verdict
  <2>1. Rest
    BY <1>7 DEF Verdict, Missed, End, IInv, NothingEarly, BeforeCards, SomethingToShow, NothingIsLost
  <2> QED
    BY <1>7, <2>1, CardsUntouched DEF Verdict, IInv
<1>8. CASE ExpanderReturns
  <2>1. Rest
    BY <1>8 DEF ExpanderReturns, Missed, End, IInv, NothingEarly, BeforeCards, SomethingToShow, NothingIsLost
  <2> QED
    BY <1>8, <2>1, CardsUntouched DEF ExpanderReturns, IInv
<1>9. CASE SearchAgainReturns
  <2>0. PICK failed : \E r \in Results("augmented", failed) :
           IF r.confident
           THEN hits' = r.hits /\ stage' = "reading" /\ UNCHANGED <<miss, outcome>>
           ELSE Missed /\ UNCHANGED hits
    BY <1>9 DEF SearchAgainReturns
  <2>1. PICK r \in Results("augmented", failed) :
           IF r.confident
           THEN hits' = r.hits /\ stage' = "reading" /\ UNCHANGED <<miss, outcome>>
           ELSE Missed /\ UNCHANGED hits
    BY <2>0
  <2>2. Listed(hits)' /\ (stage' = "reading" => hits' # <<>>)
    BY <2>1, ResultsListed, ConfidentOfSome DEF Listed, Missed, End, IInv, SomethingToShow
  <2>3. stage = "searching again" /\ left = {} /\ shown = <<>> /\ answer = {}
    BY <1>9 DEF SearchAgainReturns, IInv, NothingEarly, BeforeCards
  <2>4. NothingEarly' /\ NothingIsLost' /\ SomethingToShow'
    BY <1>9, <2>2, <2>3 DEF SearchAgainReturns, Missed, End, IInv, NothingEarly, BeforeCards,
       SomethingToShow, NothingIsLost
  <2>5. UNCHANGED <<setup, shown, sources, cardIds, left, answer>>
    BY <1>9 DEF SearchAgainReturns
  <2>6. SourcesAreCards'
    BY <2>5 DEF IInv, SourcesAreCards
  <2>7. OneCardPerDoc'
    <3>1. shown' = <<>> /\ left' = {}
      BY <2>3, <2>5
    <3>2. 1..Len(<<>>) = {}
      OBVIOUS
    <3> QED
      BY <3>1, <3>2 DEF OneCardPerDoc
  <2>8. CitationsNameTheirSource'
    BY <2>3, <2>5 DEF CitationsNameTheirSource
  <2> QED
    BY <2>2, <2>4, <2>6, <2>7, <2>8 DEF IInv
<1>10. CASE ParentsReturn
  <2>1. stage = "reading" /\ shown = <<>> /\ answer = {} /\ hits # <<>> /\ Listed(hits) /\ left = {}
    BY <1>10 DEF ParentsReturn, IInv, NothingEarly, BeforeCards, SomethingToShow
  <2>2. 1 \in DedupeByDoc(hits) /\ 1 \in DOMAIN hits
    BY <2>1 DEF Listed, DedupeByDoc
  <2>3. Rest
    BY <1>10, <2>1, <2>2 DEF ParentsReturn, End, IInv, NothingEarly, BeforeCards, SomethingToShow,
       NothingIsLost
  <2>4. SourcesAreCards' /\ CitationsNameTheirSource' /\ Listed(hits)'
    BY <1>10, <2>1 DEF ParentsReturn, IInv, SourcesAreCards, CitationsNameTheirSource, Listed
  <2>5. \A i, j \in DedupeByDoc(hits) : DocOf[hits[i]] = DocOf[hits[j]] => i = j
    BY <2>1, DedupedApart
  <2>6. OneCardPerDoc'
    BY <1>10, <2>1, <2>5 DEF ParentsReturn, OneCardPerDoc
  <2> QED
    BY <2>3, <2>4, <2>6 DEF IInv
<1>11. CASE CardReturns
  <2>1. stage = "emitting" /\ answer = {} /\ miss = "none"
    BY <1>11 DEF CardReturns, IInv, NothingEarly
  <2>2. Rest
    BY <1>11, AppendedOne DEF CardReturns, IInv, NothingEarly, BeforeCards, SomethingToShow,
       NothingIsLost, SourcesAreCards
  <2>3. CitationsNameTheirSource' /\ Listed(hits)'
    BY <1>11, <2>1 DEF CardReturns, IInv, CitationsNameTheirSource, SomethingToShow, Listed
  <2>4. PICK V : shown \in Seq(V)
    BY DEF IInv, SourcesAreCards
  <2>5. PICK i \in left : /\ left' = left \ {i}
                          /\ \/ CardAppended(i)
                             \/ UNCHANGED <<shown, sources, cardIds>>
    BY <1>11 DEF CardReturns, CardAppended
  <2>6. UNCHANGED <<hits, setup>>
    BY <1>11 DEF CardReturns
  <2>7. CASE UNCHANGED <<shown, sources, cardIds>>
    BY <2>2, <2>3, <2>5, <2>6, <2>7 DEF IInv, SourcesAreCards, OneCardPerDoc
  <2>8. CASE CardAppended(i)
    <3> DEFINE W == V \cup {DocOf[hits[i]]}
               n == Len(shown)
    <3>1. n \in Nat /\ shown \in [1..n -> V] /\ cardIds \in [1..n -> Nat]
      BY <2>4 DEF IInv, SourcesAreCards
    <3>2. shown' \in Seq(W) /\ Len(shown') = n + 1
      BY <2>4, <2>8, AppendedOne DEF CardAppended
    <3>3. shown'[n + 1] = DocOf[hits[i]] /\ \A k \in 1..n : shown'[k] = shown[k]
      BY <2>4, <2>8, AppendedOne DEF CardAppended
    <3>4. cardIds' \in [1..(n + 1) -> Nat] /\ \A k \in 1..(n + 1) : cardIds'[k] = k
      <4>1. cardIds \in Seq(Nat) /\ Len(cardIds) = n
        BY <3>1
      <4>2. cardIds' = Append(cardIds, n + 1)
        BY <2>8 DEF CardAppended
      <4>3. \A k \in 1..n : cardIds[k] = k
        BY DEF IInv, SourcesAreCards
      <4> HIDE DEF n
      <4>4. cardIds' \in Seq(Nat \cup {n + 1}) /\ Len(cardIds') = n + 1
        BY <4>1, <4>2, AppendedOne
      <4>5. cardIds'[n + 1] = n + 1 /\ \A k \in 1..n : cardIds'[k] = k
        BY <4>1, <4>2, <4>3, AppendedOne
      <4>6. Nat \cup {n + 1} = Nat
        BY <3>1
      <4>7. cardIds' \in [1..(n + 1) -> Nat]
        BY <4>4, <4>6
      <4> QED
        BY <3>1, <4>5, <4>7
    <3>5. SourcesAreCards'
      BY <2>8, <3>2, <3>4 DEF CardAppended, IInv, SourcesAreCards
    <3>6. OneCardPerDoc'
      <4> SUFFICES ASSUME setup'.parents PROVE OneCardPerDoc'
        BY DEF OneCardPerDoc
      <4>1. /\ \A k, l \in 1..n : shown[k] = shown[l] => k = l
            /\ \A k, l \in left : DocOf[hits[k]] = DocOf[hits[l]] => k = l
            /\ \A k \in 1..n, l \in left : shown[k] # DocOf[hits[l]]
        BY <2>6 DEF IInv, OneCardPerDoc
      <4> HIDE DEF n
      <4>2. \A k \in 1..(n + 1) : k \in 1..n \/ k = n + 1
        BY <3>1
      <4>3. ASSUME NEW k \in 1..(n + 1), NEW l \in 1..(n + 1), shown'[k] = shown'[l]
            PROVE  k = l
        <5>1. CASE k \in 1..n /\ l \in 1..n
          BY <3>3, <4>1, <4>3, <5>1
        <5>2. CASE k \in 1..n /\ l = n + 1
          BY <3>3, <4>1, <4>3, <5>2
        <5>3. CASE k = n + 1 /\ l \in 1..n
          BY <3>3, <4>1, <4>3, <5>3
        <5> QED
          BY <4>2, <5>1, <5>2, <5>3
      <4>4. ASSUME NEW k \in 1..(n + 1), NEW l \in left'
            PROVE  shown'[k] # DocOf[hits[l]]
        <5>1. l \in left /\ l # i
          BY <2>5
        <5>2. CASE k \in 1..n
          BY <3>3, <4>1, <5>1, <5>2
        <5>3. CASE k = n + 1
          BY <3>3, <4>1, <5>1, <5>3
        <5> QED
          BY <4>2, <5>2, <5>3
      <4> QED
        BY <2>5, <2>6, <3>2, <4>1, <4>3, <4>4 DEF OneCardPerDoc
    <3> QED
      BY <2>2, <2>3, <3>5, <3>6 DEF IInv
  <2> QED
    BY <2>5, <2>7, <2>8
<1>12. CASE CollectTool
  <2>1. Rest
    BY <1>12 DEF CollectTool, Onward, End, IInv, NothingEarly, BeforeCards, SomethingToShow, NothingIsLost
  <2> QED
    BY <1>12, <2>1, CardsUntouched DEF CollectTool, IInv
<1>13. CASE SkillResolves \/ SkillReturns \/ SkillFails \/ SkillAborted
  <2>1. Rest
    BY <1>13 DEF SkillResolves, SkillReturns, SkillFails, SkillAborted, Onward, End, IInv, NothingEarly, BeforeCards, SomethingToShow, NothingIsLost
  <2> QED
    BY <1>13, <2>1, CardsUntouched DEF SkillResolves, SkillReturns, SkillFails, SkillAborted, IInv
<1>14. CASE Synthesize
  <2>1. stage = "synthesizing" /\ left = {}
    BY <1>14 DEF Synthesize, IInv, NothingEarly
  <2>2. Rest /\ SourcesAreCards' /\ OneCardPerDoc' /\ Listed(hits)'
    BY <1>14, <2>1 DEF Synthesize, End, IInv, NothingEarly, BeforeCards, SomethingToShow,
       NothingIsLost, SourcesAreCards, OneCardPerDoc, Listed
  <2>3. CitationsNameTheirSource'
    <3>1. CASE UNCHANGED answer
      BY <1>14, <3>1 DEF Synthesize, IInv, CitationsNameTheirSource
    <3>2. CASE \E ranks \in SUBSET DOMAIN MergedSources :
                  answer' = {[source |-> MergedSources[r], card |-> MergedCards[r]] :
                                r \in ranks \cap DOMAIN MergedCards}
      <4>1. \A c \in answer' : \E r \in DOMAIN MergedSources :
               c = [source |-> MergedSources[r], card |-> MergedCards[r]]
        BY <3>2
      <4>2. UNCHANGED <<setup, shown>>
        BY <1>14 DEF Synthesize
      <4>3. SUFFICES ASSUME NEW c \in answer'
                     PROVE  \/ c.source = "tool" /\ c.card = ToolCard
                            \/ /\ c.card \in DOMAIN shown /\ shown[c.card] = c.source
                               /\ setup.parents => \A i \in DOMAIN shown :
                                                     i > c.card => shown[i] # c.source
        BY <4>2 DEF CitationsNameTheirSource
      <4>4. PICK r \in DOMAIN MergedSources :
               c = [source |-> MergedSources[r], card |-> MergedCards[r]]
        BY <4>1
      <4> QED
        BY <4>4, RanksNameSources DEF IInv
    <3> QED
      BY <1>14, <3>1, <3>2 DEF Synthesize
  <2> QED
    BY <2>2, <2>3 DEF IInv
<1> QED
  BY <1>1, <1>2, <1>3, <1>4, <1>5, <1>6, <1>7, <1>8, <1>9, <1>10, <1>11, <1>12, <1>13, <1>14
     DEF Next

-----------------------------------------------------------------------------
(***************************************************************************)
(* The theorems.                                                           *)
(***************************************************************************)
LEMMA Inductive == Spec => []IInv
<1> SUFFICES ASSUME PipelineAssumption PROVE Spec => []IInv
  BY PipelineAssumption
<1> QED
  BY InitHolds, StepKeeps, PTL DEF Spec

\* Whichever inserts fail, whatever the skill returns and in whatever order judge
\* and router answer, a citation of a grounded answer resolves to the card of its
\* source, which no later card of the run has replaced.
THEOREM CitationsNameTheirSourceAlways == Spec => []CitationsNameTheirSource
BY Inductive, PTL DEF IInv

\* Nothing asked is lost without a trace, for every corpus: a question passes the
\* relevance gate, and a run that is not discarded ends with a card, a gap or an
\* answer.
THEOREM NothingIsLostAlways == Spec => []NothingIsLost
BY Inductive, PTL DEF IInv

-----------------------------------------------------------------------------
(***************************************************************************)
(* The head of a ranking. Where no two of a set are ranked alike, every    *)
(* place is taken by a member, and nothing comes before the first.         *)
(***************************************************************************)
Ranking(S, before) ==
    /\ \A c \in S : ~before[<<c, c>>]
    /\ \A c, d \in S : c # d => before[<<c, d>>] \/ before[<<d, c>>]
    /\ \A c, d, e \in S : before[<<c, d>>] /\ before[<<d, e>>] => before[<<c, e>>]

Above(S, before, c) == {d \in S : before[<<d, c>>]}

\* The members are in one-to-one correspondence with the places.
LEMMA PlacesAreTaken ==
    ASSUME NEW S, IsFiniteSet(S), NEW before, Ranking(S, before),
           NEW k \in 1..Cardinality(S)
    PROVE  \E c \in S : Cardinality(Above(S, before, c)) = k - 1
<1> DEFINE m == Cardinality(S)
           T == 0..(m - 1)
           rank == [c \in S |-> Cardinality(Above(S, before, c))]
<1>1. m \in Nat
  BY FS_CardinalityType
<1>2. \A c \in S : /\ IsFiniteSet(Above(S, before, c)) /\ Above(S, before, c) \subseteq S \ {c}
                   /\ Cardinality(Above(S, before, c)) \in Nat
  <2> SUFFICES ASSUME NEW c \in S
               PROVE  /\ IsFiniteSet(Above(S, before, c))
                      /\ Above(S, before, c) \subseteq S \ {c}
                      /\ Cardinality(Above(S, before, c)) \in Nat
    OBVIOUS
  <2>1. Above(S, before, c) \subseteq S \ {c}
    BY DEF Above, Ranking
  <2>2. IsFiniteSet(Above(S, before, c))
    BY <2>1, FS_Subset
  <2> QED
    BY <2>1, <2>2, FS_CardinalityType
<1>3. \A c \in S : rank[c] \in T
  <2> SUFFICES ASSUME NEW c \in S PROVE Cardinality(Above(S, before, c)) \in T
    OBVIOUS
  <2>1. IsFiniteSet(S \ {c}) /\ Cardinality(S \ {c}) = m - 1
    BY FS_RemoveElement
  <2>2. Cardinality(Above(S, before, c)) <= m - 1
    BY <1>2, <2>1, FS_Subset
  <2> QED
    BY <1>1, <1>2, <2>2
<1>4. ASSUME NEW c \in S, NEW d \in S, before[<<c, d>>]
      PROVE  Cardinality(Above(S, before, c)) # Cardinality(Above(S, before, d))
  <2> DEFINE A == Above(S, before, c)
             B == Above(S, before, d)
  <2>1. A \cup {c} \subseteq B /\ c \notin A
    BY <1>4 DEF Above, Ranking
  <2>2. IsFiniteSet(A) /\ IsFiniteSet(B) /\ Cardinality(A) \in Nat /\ Cardinality(B) \in Nat
    BY <1>2
  <2> HIDE DEF A, B
  <2>3. Cardinality(A \cup {c}) = Cardinality(A) + 1
    BY <2>1, <2>2, FS_AddElement
  <2>4. Cardinality(A \cup {c}) <= Cardinality(B)
    BY <2>1, <2>2, FS_Subset
  <2>5. Cardinality(A) # Cardinality(B)
    BY <2>2, <2>3, <2>4
  <2> QED
    BY <2>5 DEF A, B
<1>5. rank \in Injection(S, T)
  <2>1. \A c, d \in S : rank[c] = rank[d] => c = d
    BY <1>4 DEF Ranking
  <2>2. rank \in [S -> T]
    BY <1>3
  <2> HIDE DEF rank
  <2> QED
    BY <2>1, <2>2 DEF Injection, IsInjective
<1>6. IsFiniteSet(T) /\ Cardinality(T) = m
  <2> HIDE DEF m
  <2>1. 0 \in Int /\ m - 1 \in Int
    BY <1>1
  <2>2. Cardinality(T) = IF 0 > m - 1 THEN 0 ELSE (m - 1) - 0 + 1
    BY <2>1, FS_Interval
  <2> QED
    BY <1>1, <2>1, <2>2, FS_Interval
<1>7. rank \in Surjection(S, T)
  <2> HIDE DEF rank, T
  <2> QED
    BY <1>5, <1>6, FS_Injection
<1>8. k - 1 \in T
  BY <1>1
<1>9. PICK c \in S : rank[c] = k - 1
  <2> HIDE DEF rank, T
  <2> QED
    BY <1>7, <1>8 DEF Surjection
<1> QED
  BY <1>9

LEMMA HeadOfRanking ==
    ASSUME NEW S, IsFiniteSet(S), NEW n \in Nat \ {0}, NEW before, Ranking(S, before)
    PROVE  LET list == FirstOf(n, S, before)
           IN /\ list \in Seq(S) /\ (list = <<>> => S = {})
              /\ S # {} => /\ 1 \in 1..Len(list) /\ list[1] \in S
                           /\ \A d \in S : ~before[<<d, list[1]>>]
<1> DEFINE m == IF Cardinality(S) < n THEN Cardinality(S) ELSE n
           list == FirstOf(n, S, before)
<1>1. Cardinality(S) \in Nat /\ m \in Nat /\ m <= Cardinality(S) /\ (m = 0 => S = {})
  BY FS_CardinalityType, FS_EmptySet
<1>2. DOMAIN list = 1..m /\ list = [k \in 1..m |-> list[k]]
  <2> DEFINE At(k) == CHOOSE c \in S : Cardinality({d \in S : before[<<d, c>>]}) = k - 1
  <2>1. list = [k \in 1..m |-> At(k)]
    BY Zenon DEF FirstOf
  <2> HIDE DEF list, m, At
  <2> QED
    BY <2>1
<1>3. \A k \in 1..m : list[k] \in S /\ Cardinality(Above(S, before, list[k])) = k - 1
  <2> SUFFICES ASSUME NEW k \in 1..m
               PROVE  list[k] \in S /\ Cardinality(Above(S, before, list[k])) = k - 1
    OBVIOUS
  <2>1. list[k] = CHOOSE c \in S : Cardinality({d \in S : before[<<d, c>>]}) = k - 1
    BY DEF FirstOf
  <2>2. \E c \in S : Cardinality({d \in S : before[<<d, c>>]}) = k - 1
    <3>1. k \in 1..Cardinality(S)
      BY <1>1
    <3> QED
      BY <3>1, PlacesAreTaken DEF Above
  <2> HIDE DEF list
  <2> QED
    BY <2>1, <2>2 DEF Above
<1> HIDE DEF list, m
<1>4. list \in [1..m -> S]
  BY <1>2, <1>3
<1>5. list \in Seq(S) /\ Len(list) = m
  BY <1>1, <1>4
<1>6. list = <<>> => S = {}
  BY <1>1, <1>5
<1>7. ASSUME S # {} PROVE /\ 1 \in 1..Len(list) /\ list[1] \in S
                          /\ \A d \in S : ~before[<<d, list[1]>>]
  <2>1. 1 \in 1..m
    BY <1>1, <1>7
  <2>2. list[1] \in S /\ Cardinality(Above(S, before, list[1])) = 0
    BY <1>3, <2>1
  <2>3. Above(S, before, list[1]) \subseteq S
    BY DEF Above
  <2>4. Above(S, before, list[1]) = {}
    BY <2>2, <2>3, FS_Subset, FS_EmptySet
  <2> QED
    BY <1>5, <2>1, <2>2, <2>4 DEF Above
<1> QED
  BY <1>5, <1>6, <1>7 DEF list

\* The first of the nearest is the nearest.
LEMMA NearestFirst ==
    ASSUME PipelineAssumption, NEW S \in SUBSET Chunk, NEW distance,
           \A c \in S : distance[c] \in Nat
    PROVE  LET list == Nearest(S, distance)
           IN /\ list \in Seq(S)
              /\ S # {} => /\ 1 \in 1..Len(list) /\ list[1] \in S
                           /\ \A d \in S : distance[list[1]] <= distance[d]
<1> DEFINE before == [p \in S \X S |->
               \/ distance[p[1]] < distance[p[2]]
               \/ distance[p[1]] = distance[p[2]] /\ Place[p[1]] < Place[p[2]]]
           list == FirstOf(CandidateLimit, S, before)
<1>1. IsFiniteSet(S) /\ CandidateLimit \in Nat \ {0} /\ Nearest(S, distance) = list
  <2>1. IsFiniteSet(S)
    BY FS_Subset DEF PipelineAssumption
  <2> QED
    BY <2>1 DEF PipelineAssumption, Nearest
<1>2. \A c, d \in S : before[<<c, d>>] <=>
         distance[c] < distance[d] \/ (distance[c] = distance[d] /\ Place[c] < Place[d])
  OBVIOUS
<1>3. \A c, d \in S : Place[c] \in Nat /\ (Place[c] = Place[d] => c = d)
  BY DEF PipelineAssumption
<1> HIDE DEF before
<1>4. Ranking(S, before)
  BY <1>2, <1>3 DEF Ranking
<1>5. /\ list \in Seq(S)
      /\ S # {} => /\ 1 \in 1..Len(list) /\ list[1] \in S
                   /\ \A d \in S : ~before[<<d, list[1]>>]
  BY <1>1, <1>4, HeadOfRanking
<1> HIDE DEF list
<1>6. ASSUME S # {}, NEW d \in S
      PROVE  distance[list[1]] <= distance[d]
  <2>1. list[1] \in S /\ ~before[<<d, list[1]>>]
    BY <1>5, <1>6
  <2>2. distance[list[1]] \in Nat /\ distance[d] \in Nat
    BY <2>1
  <2>3. ~(distance[d] < distance[list[1]])
    BY <1>2, <2>1
  <2> QED
    BY <2>2, <2>3
<1> QED
  BY <1>1, <1>5, <1>6

LEMMA HeadOfSome ==
    ASSUME NEW S, IsFiniteSet(S), NEW n \in Nat \ {0}, NEW before,
           FirstOf(n, S, before) = <<>>
    PROVE  S = {}
<1> DEFINE m == IF Cardinality(S) < n THEN Cardinality(S) ELSE n
           list == FirstOf(n, S, before)
<1>1. Cardinality(S) \in Nat /\ m \in Nat /\ (m = 0 => S = {})
  BY FS_CardinalityType, FS_EmptySet
<1>2. DOMAIN list = 1..m
  BY DEF FirstOf
<1> HIDE DEF list, m
<1>3. DOMAIN list = {}
  BY DEF list
<1> QED
  BY <1>1, <1>2, <1>3

\* A full search that finds nothing has nothing in range to find.
NothingInRange(w, q) ==
    \A c \in Chunk :
        /\ ~Contains(w.words[q], c)
        /\ c \notin Code => ~(w.text[q][c] <= TextFloor)
        /\ c \in Code => ~(w.code[q][c] <= CodeFloor)

LEMMA EmptySearch ==
    ASSUME PipelineAssumption, NEW s \in Searches, s.codeSpace = TRUE, s.failed = {},
           NEW r \in Returns(s), r.hits = <<>>, r.short = {}
    PROVE  NothingInRange(s.corpus, s.query)
<1> DEFINE w == s.corpus
           q == s.query
           lists == Lists(w, q, s.codeSpace, s.failed)
           distance == [c \in Chunk |-> Distance(w, q, lists, c)]
           passing == {c \in Chunk : Passes(lists, distance, c)}
           head == Fused(lists, distance, TopK)
           pool == Fused(lists, distance, IF s.reranker THEN RerankPool ELSE TopK)
           ranked == UNION {[1..n -> Range(pool)] : n \in 0..TopK}
           picks == {p \in ranked : IsInjective(p)}
           text == Nearest(Chunk \ Code, w.text[q])
           code == Nearest(Code, w.code[q])
<1>0. TextFloor \in Nat /\ CodeFloor \in Nat
  BY DEF PipelineAssumption
<1>1. /\ TopK \in Nat \ {0} /\ IsFiniteSet(Chunk) /\ Code \subseteq Chunk
      /\ w \in RankedCorpus /\ q \in Query
  BY DEF PipelineAssumption, Searches
<1>2. /\ \A c \in Chunk : w.text[q][c] \in Nat
      /\ \A c \in Code : w.code[q][c] \in Nat
  BY <1>1 DEF RankedCorpus
<1>3. lists.text = text /\ lists.code = code /\ lists.words = w.words[q]
  BY DEF Lists
<1>4. /\ text \in Seq(Chunk \ Code)
      /\ Chunk \ Code # {} => /\ 1 \in 1..Len(text) /\ text[1] \in Chunk \ Code
                              /\ \A d \in Chunk \ Code : w.text[q][text[1]] <= w.text[q][d]
  BY <1>2, NearestFirst
<1>5. /\ code \in Seq(Code)
      /\ Code # {} => /\ 1 \in 1..Len(code) /\ code[1] \in Code
                      /\ \A d \in Code : w.code[q][code[1]] <= w.code[q][d]
  BY <1>1, <1>2, NearestFirst
<1>6. passing = {}
  <2>1. "vector" \notin s.failed
    OBVIOUS
  <2>2. r.short = IF r.hits = <<>> /\ head # <<>> THEN {"rerank"} ELSE {}
    <3>0. FoundBy(s, r)
      BY <2>1, ReturnsFound
    <3>1. PICK h : r = Found(s, lists, distance, h)
      BY Zenon, <3>0 DEF FoundBy
    <3> HIDE DEF lists, distance
    <3>2. \A l, d : Found(s, l, d, h).hits = h
      BY DEF Found
    <3>3. r.short = IF h = <<>> /\ Fused(lists, distance, TopK) # <<>> THEN {"rerank"} ELSE {}
      BY Zenon, <3>1 DEF Found
    <3>4. r.hits = h /\ head = Fused(lists, distance, TopK)
      BY <3>1, <3>2
    <3> QED
      BY <3>3, <3>4
  <2>3. head = <<>>
    BY <2>2
  <2>4. PICK before : head = FirstOf(TopK, passing, before)
    BY Zenon DEF Fused
  <2>5. IsFiniteSet(passing)
    BY <1>1, FS_Subset
  <2> HIDE DEF passing, head
  <2> QED
    BY <1>1, <2>3, <2>4, <2>5, HeadOfSome
<1> HIDE DEF text, code, lists, w, q
<1>7. \A c \in Chunk : distance[c] = Distance(w, q, lists, c) /\ ~Passes(lists, distance, c)
  BY <1>6
<1> HIDE DEF distance, passing
<1>8. ASSUME NEW c \in Chunk PROVE ~Contains(w.words[q], c)
  BY <1>3, <1>7 DEF Passes
<1>9. ASSUME NEW c \in Chunk, c \notin Code PROVE ~(w.text[q][c] <= TextFloor)
  <2>1. text[1] \in Chunk \ Code /\ w.text[q][text[1]] <= w.text[q][c] /\ 1 \in 1..Len(text)
    BY <1>4, <1>9
  <2>2. Contains(text, text[1]) /\ ~Contains(code, text[1])
    <3>0. \A i \in 1..Len(code) : code[i] \in Code
      BY <1>5
    <3>1. \A i \in 1..Len(code) : code[i] # text[1]
      BY <2>1, <3>0, Zenon
    <3> QED
      BY <2>1, <3>1, Zenon DEF Contains
  <2>3. distance[text[1]] = w.text[q][text[1]]
    BY <1>3, <1>7, <2>1, <2>2 DEF Distance
  <2>4. ~(w.text[q][text[1]] <= TextFloor)
    BY <1>3, <1>7, <2>1, <2>2, <2>3 DEF Passes
  <2> DEFINE x == w.text[q][text[1]]
             y == w.text[q][c]
  <2>5. x \in Nat /\ y \in Nat /\ x <= y /\ ~(x <= TextFloor)
    BY <1>2, <2>1, <2>4
  <2> HIDE DEF x, y
  <2>6. ~(y <= TextFloor)
    BY <1>0, <2>5
  <2> QED
    BY <2>6 DEF y
<1>10. ASSUME NEW c \in Code PROVE ~(w.code[q][c] <= CodeFloor)
  <2>1. code[1] \in Code /\ w.code[q][code[1]] <= w.code[q][c] /\ 1 \in 1..Len(code)
    BY <1>5
  <2>2. Contains(code, code[1]) /\ ~Contains(text, code[1]) /\ code[1] \in Chunk
    <3>1. \A i \in 1..Len(text) : text[i] \in Chunk \ Code
      BY <1>4
    <3>2. code[1] \in Chunk
      BY <1>1, <2>1
    <3> QED
      BY <2>1, <3>1, <3>2, Zenon DEF Contains
  <2>3. distance[code[1]] = w.code[q][code[1]]
    BY <1>3, <1>7, <2>2 DEF Distance
  <2>4. ~(w.code[q][code[1]] <= CodeFloor)
    BY <1>3, <1>7, <2>2, <2>3 DEF Passes
  <2> DEFINE x == w.code[q][code[1]]
             y == w.code[q][c]
  <2>5. x \in Nat /\ y \in Nat /\ x <= y /\ ~(x <= CodeFloor)
    BY <1>2, <2>1, <2>4
  <2> HIDE DEF x, y
  <2>6. ~(y <= CodeFloor)
    BY <1>0, <2>5
  <2> QED
    BY <2>6 DEF y
<1> QED
  BY <1>8, <1>9, <1>10 DEF NothingInRange, w, q

LEMMA EmptyResult ==
    ASSUME PipelineAssumption, codeSpace = TRUE, NEW r \in Results("asked", {}),
           r.hits = <<>>, r.short = {}
    PROVE  Eligible = {}
<1>1. CASE input.scoped
  <2> DEFINE this == [corpus |-> corpus, query |-> "asked", codeSpace |-> codeSpace,
                      reranker |-> setup.reranker, failed |-> {}]
  <2>1. r \in Search /\ r.of = this
    BY <1>1 DEF Results
  <2>2. PICK s \in Searches : \E t \in Returns(s) :
           r = [of |-> s, hits |-> t.hits, confident |-> t.confident, short |-> t.short]
    BY <2>1 DEF Search
  <2>3. PICK t \in Returns(s) :
           r = [of |-> s, hits |-> t.hits, confident |-> t.confident, short |-> t.short]
    BY <2>2
  <2>4. s = this /\ t.hits = <<>> /\ t.short = {}
    BY <2>1, <2>3
  <2>5. s.codeSpace = TRUE /\ s.failed = {} /\ s.corpus = corpus /\ s.query = "asked"
    BY <2>4
  <2>6. NothingInRange(s.corpus, s.query)
    BY <2>4, <2>5, EmptySearch
  <2>7. NothingInRange(corpus, "asked")
    BY <2>5, <2>6
  <2> QED
    BY <2>7 DEF NothingInRange, Eligible
<1>2. CASE ~input.scoped
  BY <1>2 DEF Eligible
<1> QED
  BY <1>1, <1>2

-----------------------------------------------------------------------------
(***************************************************************************)
(* The way to a gap: a query without a vector for code is on record as a   *)
(* fault, so that a full search lies behind what is empty without one, and *)
(* a run on its way to a gap has its verdict.                              *)
(***************************************************************************)
RealMisses(within) ==
    /\ stage = "searching" => codeSpace = TRUE \/ "code" \in faults
    /\ stage \in {"verdict", "expanding", "searching again"} =>
           (hits = <<>> /\ faults = {} => within = {})
    /\ stage \in {"expanding", "searching again"} =>
           hits = <<>> /\ judge \notin {"asked", "skip"}
    /\ miss = "no_hits" =>
           /\ stage = "over" /\ judge \notin {"asked", "skip"} /\ input.heuristic # "filler"
           /\ faults = {} => within = {}

MissesInv == RealMisses(Eligible)

\* A step changes neither the utterance nor the corpus, and keeps what is known
\* of misses while it does not.
LEMMA GivenStays ==
    ASSUME [Next]_vars
    PROVE  UNCHANGED given
<1> USE DEF given, asked, found, made, vars
<1>1. CASE Begin \/ EmbedReturns \/ SearchReturns \/ Verdict \/ ExpanderReturns
  BY <1>1 DEF Begin, EmbedReturns, SearchReturns, Verdict, ExpanderReturns, Missed, End
<1>2. CASE SearchAgainReturns \/ ParentsReturn \/ CardReturns \/ CollectTool \/ Synthesize
  BY <1>2 DEF SearchAgainReturns, ParentsReturn, CardReturns, CollectTool, Synthesize,
     Missed, Onward, End
<1>3. CASE JudgeAnswers \/ RouterAnswers \/ JudgeAborted \/ RouterAborted
  BY <1>3 DEF JudgeAnswers, RouterAnswers, JudgeAborted, RouterAborted
<1>4. CASE SkillResolves \/ SkillReturns \/ SkillFails \/ SkillAborted
  BY <1>4 DEF SkillResolves, SkillReturns, SkillFails, SkillAborted, Onward, End
<1>5. CASE UNCHANGED vars
  BY <1>5
<1> QED
  BY <1>1, <1>2, <1>3, <1>4, <1>5 DEF Next

LEMMA RealMissesStep ==
    ASSUME PipelineAssumption, NEW within, within = Eligible,
           NothingEarly, RealMisses(within), [Next]_vars
    PROVE  RealMisses(within)'
<1> USE DEF given, asked, found, made, vars
<1>1. UNCHANGED <<input, corpus>>
  BY GivenStays
<1>2. stage # "over" => miss = "none"
  BY DEF NothingEarly
<1>3. CASE UNCHANGED vars
  BY <1>1, <1>3 DEF RealMisses
<1>4. CASE Begin
  BY <1>1, <1>2, <1>4 DEF Begin, End, RealMisses
<1>5. CASE EmbedReturns
  BY <1>1, <1>2, <1>5 DEF EmbedReturns, End, RealMisses
<1>6. CASE SearchReturns
  <2>1. PICK failed \in SearchFaults : \E r \in Results("asked", failed) :
           /\ hits' = r.hits
           /\ faults' = faults \cup failed \cup r.short
    BY <1>6 DEF SearchReturns
  <2>2. PICK r \in Results("asked", failed) :
           /\ hits' = r.hits
           /\ faults' = faults \cup failed \cup r.short
    BY <2>1
  <2>3. stage = "searching" /\ stage' = "verdict" /\ UNCHANGED <<miss, judge>>
    BY <1>6 DEF SearchReturns
  <2>4. hits' = <<>> /\ faults' = {} => within = {}
    <3> SUFFICES ASSUME hits' = <<>>, faults' = {} PROVE within = {}
      OBVIOUS
    <3>1. failed = {} /\ codeSpace = TRUE /\ r.short = {}
      BY <2>2, <2>3 DEF RealMisses
    <3> QED
      BY <2>2, <3>1, EmptyResult
  <2> QED
    BY <1>1, <1>2, <2>3, <2>4 DEF RealMisses
<1>7. CASE Verdict
  BY <1>1, <1>2, <1>7 DEF Verdict, Missed, End, RealMisses
<1>8. CASE ExpanderReturns
  BY <1>1, <1>2, <1>8 DEF ExpanderReturns, Missed, End, RealMisses
<1>9. CASE SearchAgainReturns
  <2>1. \/ stage' = "reading" /\ UNCHANGED <<miss, outcome>>
        \/ Missed /\ UNCHANGED hits
    BY <1>9 DEF SearchAgainReturns, Missed, End
  <2> QED
    BY <1>1, <1>2, <1>9, <2>1 DEF SearchAgainReturns, Missed, End, RealMisses
<1>10. CASE ParentsReturn \/ CardReturns
  BY <1>1, <1>2, <1>10 DEF ParentsReturn, CardReturns, End, RealMisses
<1>11. CASE CollectTool \/ Synthesize
  BY <1>1, <1>2, <1>11 DEF CollectTool, Synthesize, Onward, End, RealMisses
<1>12. CASE SkillResolves \/ SkillReturns \/ SkillFails \/ SkillAborted
  BY <1>1, <1>2, <1>12 DEF SkillResolves, SkillReturns, SkillFails, SkillAborted, Onward, End, RealMisses
<1>13. CASE JudgeAnswers \/ JudgeAborted \/ RouterAnswers \/ RouterAborted
  BY <1>1, <1>2, <1>13 DEF JudgeAnswers, JudgeAborted, RouterAnswers, RouterAborted, RealMisses
<1> QED
  BY <1>3, <1>4, <1>5, <1>6, <1>7, <1>8, <1>9, <1>10, <1>11, <1>12, <1>13 DEF Next

LEMMA MissesStep ==
    ASSUME PipelineAssumption, NothingEarly, MissesInv, [Next]_vars
    PROVE  MissesInv'
<1>1. PICK within : within = Eligible
  OBVIOUS
<1>2. within = Eligible'
  <2>1. UNCHANGED <<input, corpus>>
    BY GivenStays DEF given
  <2> QED
    BY <1>1, <2>1 DEF Eligible
<1>3. RealMisses(within)
  BY Zenon, <1>1 DEF MissesInv, RealMisses
<1>4. RealMisses(within)'
  BY <1>1, <1>3, RealMissesStep
<1> QED
  BY Zenon, <1>2, <1>4 DEF MissesInv, RealMisses

LEMMA MissesInductive == Spec => []MissesInv
<1> SUFFICES ASSUME PipelineAssumption PROVE Spec => []MissesInv
  BY PipelineAssumption
<1>1. Init => MissesInv
  BY Zenon DEF Init, MissesInv, RealMisses
<1>2. IInv => NothingEarly
  BY DEF IInv
<1> QED
  BY Inductive, MissesStep, <1>1, <1>2, PTL DEF Spec

\* For every corpus, limit and ranking: a gap recorded for want of hits is a true
\* one. The utterance was neither filler nor judged to be, and, unless a leg of
\* the search failed or the reranker's answer named none of the hits found, no
\* chunk is in range of it in either space or shares its words.
THEOREM GapsAreRealMissesAlways == Spec => []GapsAreRealMisses
<1>1. MissesInv => GapsAreRealMisses
  BY Zenon DEF MissesInv, RealMisses, GapsAreRealMisses
<1> QED
  BY <1>1, MissesInductive, PTL
=============================================================================
