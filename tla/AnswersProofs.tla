---------------------------- MODULE AnswersProofs ----------------------------
(***************************************************************************)
(* Grounded or nothing; a finished answer is whole and stays; the stream   *)
(* implements the feed; and what was taken back is gone. For any number of *)
(* answers, writers, cards and events, and under every interleaving, loss, *)
(* failure and restart.                                                    *)
(***************************************************************************)
EXTENDS Answers, SequenceTheorems, FiniteSetTheorems, TLAPS

\* A retracted or unfinished answer needs no verdict; a finished one needs it
\* to be "grounded". SoundEvent holds the events that may be queued, stored or
\* broadcast in a state: any event but a `done` of an ungrounded answer.
Grounded == {s \in SynthesisId : verdict[s] = "grounded"}

SoundEvent ==
    [type : {"card", "cardRetracted"}, id : CardId]
    \cup [type : {"synthesisStart"}, id : SynthesisId, sources : SUBSET CardId]
    \cup [type : {"synthesisDelta"}, id : SynthesisId, chunks : Seq(Nat)]
    \cup [type : {"synthesisDone"}, id : Grounded, text : Seq(Nat)]
    \cup [type : {"synthesisRetracted"}, id : SynthesisId, streamed : BOOLEAN]

AnswerRow == [status : {"none", "running", "done", "retracted"},
              sources : SUBSET CardId, text : Seq(Nat)]

\* A page is a record of these fields, and its finished answers are grounded.
PageShape(p) ==
    p = [cards |-> p.cards, syntheses |-> p.syntheses, transcript |-> p.transcript,
         retractedCards |-> p.retractedCards,
         retractedSyntheses |-> p.retractedSyntheses]

PFun(S, T) == UNION {[D -> T] : D \in SUBSET S}

SoundAnswers(a) ==
    /\ a \in PFun(SynthesisId, Answer)
    /\ \A s \in DOMAIN a : ~a[s].streaming => s \in Grounded

SoundPage(p) == PageShape(p) /\ SoundAnswers(p.syntheses)

ServerInv ==
    /\ queue \in [Writer -> Seq(SoundEvent)]
    /\ writing \in [Writer -> [stage : {"idle", "row", "insert", "send"}, id : Nat]]
    /\ nextId \in Nat
    /\ \A w \in Writer : writing[w].stage # "idle" => queue[w] # <<>>
    /\ \A i \in DOMAIN log : log[i] \in SoundEvent
    /\ answerRow \in [SynthesisId -> AnswerRow]
    /\ \A s \in SynthesisId : answerRow[s].status = "done" => s \in Grounded

WireInv ==
    /\ \A m \in net : m.event \in SoundEvent
    /\ fetch.rows \subseteq DOMAIN log

\* A verdict is given once, when the output is complete.
GenInv ==
    /\ AnswersTypeOK
    /\ reported \subseteq Grounded
    /\ \A s \in SynthesisId :
         /\ gen[s].sentence <= gen[s].arrived
         /\ gen[s].stage # "over" => verdict[s] = "none" /\ misses[s] = "none"
         /\ verdict[s] = "grounded" => misses[s] = "none"

IInv == ServerInv /\ WireInv /\ GenInv /\ SoundPage(page)

-----------------------------------------------------------------------------
(***************************************************************************)
(* The reducer.                                                            *)
(***************************************************************************)
\* An answer added to sound answers, or put in the place of one of them.
LEMMA PutSound ==
    ASSUME NEW a, SoundAnswers(a), NEW s \in SynthesisId, NEW r \in Answer,
           r.streaming \/ s \in Grounded
    PROVE  SoundAnswers(Put(a, s, r))
<1>1. PICK D \in SUBSET SynthesisId : a \in [D -> Answer]
  BY DEF SoundAnswers, PFun
<1>2. Put(a, s, r) \in [D \cup {s} -> Answer]
  BY <1>1 DEF Put
<1>3. D \cup {s} \in SUBSET SynthesisId
  OBVIOUS
<1>4. \A x \in D \cup {s} : Put(a, s, r)[x] = IF x = s THEN r ELSE a[x]
  BY <1>1 DEF Put
<1>5. \A x \in D \cup {s} : ~Put(a, s, r)[x].streaming => x \in Grounded
  BY <1>1, <1>4 DEF SoundAnswers
<1> QED
  BY <1>2, <1>3, <1>5 DEF SoundAnswers, PFun

\* Changing one answer of a sound page into a sound one leaves the page sound.
LEMMA ExceptSound ==
    ASSUME NEW a, SoundAnswers(a), NEW s \in DOMAIN a, NEW r \in Answer,
           r.streaming \/ s \in Grounded
    PROVE  SoundAnswers([a EXCEPT ![s] = r])
<1>1. PICK D \in SUBSET SynthesisId : a \in [D -> Answer]
  BY DEF SoundAnswers, PFun
<1> DEFINE b == [a EXCEPT ![s] = r]
<1>2. b \in [D -> Answer]
  BY <1>1
<1>3. \A x \in D : ~b[x].streaming => x \in Grounded
  BY <1>1 DEF SoundAnswers
<1> QED
  BY <1>2, <1>3 DEF SoundAnswers, PFun

\* Dropping answers leaves the others sound.
LEMMA DropSound ==
    ASSUME NEW a, SoundAnswers(a), NEW K
    PROVE  SoundAnswers(Drop(a, K))
<1>1. PICK D \in SUBSET SynthesisId : a \in [D -> Answer]
  BY DEF SoundAnswers, PFun
<1>2. Drop(a, K) \in [D \ K -> Answer]
  BY <1>1 DEF Drop, Restrict
<1>3. D \ K \in SUBSET SynthesisId
  OBVIOUS
<1>4. \A x \in D \ K : Drop(a, K)[x] = a[x]
  BY <1>1 DEF Drop, Restrict
<1>5. \A x \in D \ K : ~Drop(a, K)[x].streaming => x \in Grounded
  BY <1>1, <1>4 DEF SoundAnswers
<1> QED
  BY <1>2, <1>3, <1>5 DEF SoundAnswers, PFun

\* Every answer of a sound page is an answer.
LEMMA SoundAnswerType ==
    ASSUME NEW a, SoundAnswers(a), NEW s \in DOMAIN a
    PROVE  s \in SynthesisId /\ a[s] \in Answer
<1>1. PICK D \in SUBSET SynthesisId : a \in [D -> Answer]
  BY DEF SoundAnswers, PFun
<1> QED
  BY <1>1

\* Replacing the answers of a sound page by sound answers leaves it sound.
LEMMA WithAnswers ==
    ASSUME NEW p, SoundPage(p), NEW a, SoundAnswers(a)
    PROVE  SoundPage([p EXCEPT !.syntheses = a])
BY DEF SoundPage, PageShape

\* No reducer case makes an ungrounded answer finished.
LEMMA DispatchSound ==
    ASSUME NEW p, SoundPage(p), NEW e \in SoundEvent
    PROVE  SoundPage(Dispatch(p, e))
<1> DEFINE a == p.syntheses
<1>1. PageShape(p) /\ SoundAnswers(a)
  BY DEF SoundPage
<1>2. CASE e.type = "card"
  <2>1. Dispatch(p, e) = Card(p, e.id)
    BY <1>2 DEF Dispatch
  <2> QED
    BY <1>1, <2>1 DEF Card, SoundPage, PageShape
<1>3. CASE e.type = "cardRetracted"
  <2>1. Dispatch(p, e) = CardRetracted(p, e.id)
    BY <1>3 DEF Dispatch
  <2>2. SoundAnswers(Drop(a, Cascaded(p, e.id)))
    BY <1>1, DropSound
  <2> QED
    BY <1>1, <2>1, <2>2 DEF CardRetracted, SoundPage, PageShape
<1>4. CASE e.type = "synthesisStart"
  <2>1. Dispatch(p, e) = SynthesisStart(p, e.id, e.sources)
    BY <1>4 DEF Dispatch
  <2>2. e.id \in SynthesisId /\ e.sources \in SUBSET CardId
    BY <1>4 DEF SoundEvent
  <2> DEFINE r == [sources |-> e.sources, text |-> <<>>,
                   streaming |-> TRUE, pinned |-> FALSE]
  <2>3. r \in Answer /\ r.streaming
    BY <2>2 DEF Answer
  <2> HIDE DEF r
  <2>4. SoundAnswers(Put(a, e.id, r))
    BY <1>1, <2>2, <2>3, PutSound
  <2>5. SoundPage([p EXCEPT !.syntheses = Put(a, e.id, r)])
    BY <2>4, WithAnswers
  <2> QED
    BY <1>1, <2>1, <2>5 DEF SynthesisStart, r
<1>5. CASE e.type = "synthesisDelta"
  <2>1. Dispatch(p, e) = SynthesisDelta(p, e.id, e.chunks)
    BY <1>5 DEF Dispatch
  <2>2. e.chunks \in Seq(Nat)
    BY <1>5 DEF SoundEvent
  <2>3. CASE Streaming(p, e.id)
    <3> DEFINE r == [a[e.id] EXCEPT !.text = @ \o e.chunks]
    <3>1. e.id \in DOMAIN a /\ a[e.id].streaming
      BY <2>3 DEF Streaming, Shown
    <3>2. a[e.id] \in Answer
      BY <1>1, <3>1, SoundAnswerType
    <3>3. a[e.id].text \o e.chunks \in Seq(Nat)
      BY <2>2, <3>2 DEF Answer
    <3>4. r \in Answer /\ r.streaming
      BY <3>1, <3>2, <3>3 DEF Answer
    <3>5. Dispatch(p, e) = [p EXCEPT !.syntheses = [a EXCEPT ![e.id] = r]]
      BY <1>1, <2>1, <2>3 DEF SynthesisDelta, PageShape
    <3> HIDE DEF r
    <3>6. SoundAnswers([a EXCEPT ![e.id] = r])
      BY <1>1, <3>1, <3>4, ExceptSound
    <3> QED
      BY <3>5, <3>6, WithAnswers
  <2>4. CASE ~Streaming(p, e.id)
    BY <2>1, <2>4 DEF SynthesisDelta
  <2> QED
    BY <2>3, <2>4
<1>6. CASE e.type = "synthesisDone"
  <2>1. Dispatch(p, e) = SynthesisDone(p, e.id, e.text)
    BY <1>6 DEF Dispatch
  <2>2. e.text \in Seq(Nat) /\ e.id \in Grounded
    BY <1>6 DEF SoundEvent
  <2>3. CASE Shown(p, e.id)
    <3> DEFINE r == [a[e.id] EXCEPT !.text = e.text, !.streaming = FALSE]
    <3>1. e.id \in DOMAIN a
      BY <2>3 DEF Shown
    <3>2. a[e.id] \in Answer
      BY <1>1, <3>1, SoundAnswerType
    <3>3. r \in Answer
      BY <2>2, <3>2 DEF Answer
    <3>4. Dispatch(p, e) = [p EXCEPT !.syntheses = [a EXCEPT ![e.id] = r]]
      BY <1>1, <2>1, <2>3 DEF SynthesisDone, PageShape
    <3> HIDE DEF r
    <3>5. SoundAnswers([a EXCEPT ![e.id] = r])
      BY <1>1, <2>2, <3>1, <3>3, ExceptSound
    <3> QED
      BY <3>4, <3>5, WithAnswers
  <2>4. CASE ~Shown(p, e.id)
    BY <2>1, <2>4 DEF SynthesisDone
  <2> QED
    BY <2>3, <2>4
<1>7. CASE e.type = "synthesisRetracted"
  <2>1. Dispatch(p, e) = SynthesisRetracted(p, e.id)
    BY <1>7 DEF Dispatch
  <2>2. SoundAnswers(Drop(a, {e.id}))
    BY <1>1, DropSound
  <2> QED
    BY <1>1, <2>1, <2>2 DEF SynthesisRetracted, SoundPage, PageShape
<1> QED
  BY <1>2, <1>3, <1>4, <1>5, <1>6, <1>7 DEF SoundEvent

-----------------------------------------------------------------------------
(***************************************************************************)
(* What a step leaves sound while more answers become grounded.            *)
(***************************************************************************)
\* An event or a page that was sound stays so when an answer is found grounded.
LEMMA SoundGrows ==
    ASSUME Grounded \subseteq Grounded'
    PROVE  /\ SoundEvent \subseteq SoundEvent'
           /\ \A q \in Seq(SoundEvent) : q \in Seq(SoundEvent)'
           /\ SoundPage(page) /\ page' = page => SoundPage(page)'
<1>1. SoundEvent \subseteq SoundEvent'
  BY DEF SoundEvent
<1>2. Seq(SoundEvent) \subseteq Seq(SoundEvent')
  BY <1>1, SeqMonotonic
<1>3. SoundPage(page) /\ page' = page => SoundPage(page)'
  BY DEF SoundPage, SoundAnswers, PageShape
<1> QED
  BY <1>1, <1>2, <1>3

\* With the verdicts unchanged, a page step may only hand over a sound page.
LEMMA SamePage ==
    ASSUME UNCHANGED verdict, SoundPage(page')
    PROVE  SoundPage(page)'
BY DEF SoundPage, SoundAnswers, PageShape, Grounded

\* While no verdict changes, the same answers and the same events are sound.
LEMMA SameVerdicts ==
    ASSUME UNCHANGED verdict
    PROVE  Grounded' = Grounded /\ SoundEvent' = SoundEvent
BY DEF Grounded, SoundEvent

\* Sound work appended to a chain leaves the server, the wire and the page sound.
LEMMA EnqueueSound ==
    ASSUME IInv, Grounded \subseteq Grounded',
           NEW s \in SynthesisId, NEW events \in Seq(SoundEvent'), Enqueue(s, events)
    PROVE  ServerInv' /\ WireInv' /\ SoundPage(page)'
<1>1. s \in Writer
  BY AnswersAssumption DEF AnswersAssumption
<1>2. /\ queue' = [queue EXCEPT ![s] = @ \o events]
      /\ UNCHANGED <<writing, failures, nextId, log, cardRow, answerRow, net>>
      /\ UNCHANGED <<page, fetch>>
  BY DEF Enqueue, pageVars
<1>3. SoundEvent \subseteq SoundEvent' /\ \A q \in Seq(SoundEvent) : q \in Seq(SoundEvent')
  BY SoundGrows
<1>4. queue[s] \in Seq(SoundEvent')
  BY <1>1, <1>3 DEF IInv, ServerInv
<1>5. /\ queue[s] \o events \in Seq(SoundEvent')
      /\ Len(queue[s] \o events) = Len(queue[s]) + Len(events)
  BY <1>4, ConcatProperties
<1>6. queue' \in [Writer -> Seq(SoundEvent')]
  BY <1>1, <1>2, <1>3, <1>5 DEF IInv, ServerInv
<1>7. ASSUME NEW w \in Writer, writing'[w].stage # "idle" PROVE queue'[w] # <<>>
  <2>1. queue[w] # <<>>
    BY <1>2, <1>7 DEF IInv, ServerInv
  <2>2. CASE w # s
    BY <1>2, <2>1, <2>2 DEF IInv, ServerInv
  <2>3. CASE w = s
    <3>1. Len(queue[s]) \in Nat \ {0}
      BY <1>4, <2>1, <2>3, EmptySeq
    <3>2. Len(events) \in Nat
      BY LenProperties
    <3>3. Len(queue[s] \o events) # 0
      BY <1>5, <3>1, <3>2
    <3>4. queue[s] \o events # <<>>
      BY <3>3
    <3> QED
      BY <1>1, <1>2, <2>3, <3>4 DEF IInv, ServerInv
  <2> QED
    BY <2>2, <2>3
<1>8. ServerInv'
  BY <1>2, <1>3, <1>6, <1>7 DEF IInv, ServerInv
<1>9. WireInv'
  BY <1>2, <1>3 DEF IInv, WireInv
<1>10. SoundPage(page)'
  BY <1>2, SoundGrows DEF IInv
<1> QED
  BY <1>8, <1>9, <1>10

-----------------------------------------------------------------------------
(***************************************************************************)
(* The synthesis.                                                          *)
(***************************************************************************)
LEMMA StartSound ==
    ASSUME GenInv, NEW s \in SynthesisId
    PROVE  StartIfNeeded(s) \in Seq(SoundEvent')
<1>1. StartEvent(s, Sources[s]) \in SoundEvent'
  BY AnswersAssumption DEF AnswersAssumption, StartEvent, SoundEvent
<1> QED
  BY <1>1 DEF StartIfNeeded

\* The prose of an answer that is streamed is sound work.
LEMMA DeltaSound ==
    ASSUME NEW s \in SynthesisId, NEW from \in Nat, NEW to \in Nat
    PROVE  Chunks(from, to) \in Seq(Nat) /\ Delta(s, from, to) \in Seq(SoundEvent')
<1>1. Chunks(from, to) \in Seq(Nat)
  BY DEF Chunks
<1>2. DeltaEvent(s, Chunks(from, to)) \in SoundEvent'
  BY <1>1 DEF DeltaEvent, SoundEvent
<1> QED
  BY <1>1, <1>2 DEF Delta

\* A synthesis that begins has streamed nothing yet.
LEMMA BeginInv == ASSUME IInv, NEW s \in SynthesisId, Begin(s) PROVE IInv'
<1>1. UNCHANGED <<verdict, misses, reported>> /\ UNCHANGED streamVars
  BY DEF Begin
<1>2. Grounded' = Grounded /\ SoundEvent' = SoundEvent
  BY <1>1, SameVerdicts
<1>3. ServerInv' /\ WireInv' /\ SoundPage(page)'
  BY <1>1, <1>2, SoundGrows DEF IInv, ServerInv, WireInv, streamVars
<1>4. GenInv'
  BY <1>1, <1>2 DEF IInv, GenInv, AnswersTypeOK, Begin
<1> QED
  BY <1>3, <1>4 DEF IInv

\* A textDelta streams starts and prose only, never an end.
LEMMA TextDeltaInv == ASSUME IInv, NEW s \in SynthesisId, TextDelta(s) PROVE IInv'
<1>1. UNCHANGED <<verdict, misses, reported>> /\ gen[s].stage = "reading"
  BY DEF TextDelta
<1>2. Grounded' = Grounded /\ SoundEvent' = SoundEvent
  BY <1>1, SameVerdicts
<1>3. PICK gate \in NextGates(gen[s].gate),
           arrived \in {gen[s].arrived, gen[s].arrived + 1} :
        \E sentence \in {gen[s].sentence, arrived} :
          LET flushTo == FlushTo(s, gate, sentence)
          IN /\ arrived <= MaxChunks
             /\ gen' = [gen EXCEPT ![s] =
                    [stage |-> "reading", gate |-> gate, arrived |-> arrived,
                     sentence |-> sentence, sent |-> flushTo,
                     streaming |-> @.streaming \/ gate = "answer"]]
             /\ Enqueue(s, IF gate = "answer"
                           THEN StartIfNeeded(s) \o Delta(s, gen[s].sent, flushTo)
                           ELSE <<>>)
  BY DEF TextDelta
<1>3a. PICK sentence \in {gen[s].sentence, arrived} :
          LET flushTo == FlushTo(s, gate, sentence)
          IN /\ arrived <= MaxChunks
             /\ gen' = [gen EXCEPT ![s] =
                    [stage |-> "reading", gate |-> gate, arrived |-> arrived,
                     sentence |-> sentence, sent |-> flushTo,
                     streaming |-> @.streaming \/ gate = "answer"]]
             /\ Enqueue(s, IF gate = "answer"
                           THEN StartIfNeeded(s) \o Delta(s, gen[s].sent, flushTo)
                           ELSE <<>>)
  BY <1>3
<1> DEFINE flushTo == FlushTo(s, gate, sentence)
<1>4. /\ gen[s].gate \in {"forming", "answer", "refusal"}
      /\ gen[s].arrived \in 0..MaxChunks /\ gen[s].sentence \in 0..MaxChunks
      /\ gen[s].sent \in 0..MaxChunks /\ gen[s].streaming \in BOOLEAN
      /\ gen[s].sent <= gen[s].arrived /\ gen[s].sentence <= gen[s].arrived
  BY DEF IInv, GenInv, AnswersTypeOK
<1>5. gate \in {"forming", "answer", "refusal"}
  BY <1>4 DEF NextGates
<1>6. /\ arrived \in 0..MaxChunks /\ sentence \in 0..MaxChunks /\ flushTo \in 0..MaxChunks
      /\ sentence <= arrived /\ flushTo <= arrived
  BY <1>3a, <1>4, AnswersAssumption DEF AnswersAssumption, FlushTo
<1> DEFINE events == IF gate = "answer"
                     THEN StartIfNeeded(s) \o Delta(s, gen[s].sent, flushTo)
                     ELSE <<>>
<1>7. events \in Seq(SoundEvent')
  <2>1. StartIfNeeded(s) \in Seq(SoundEvent')
    BY StartSound DEF IInv
  <2>2. gen[s].sent \in Nat /\ flushTo \in Nat
    BY <1>4, <1>6
  <2>3. Delta(s, gen[s].sent, flushTo) \in Seq(SoundEvent')
    BY <2>2, DeltaSound
  <2>4. StartIfNeeded(s) \o Delta(s, gen[s].sent, flushTo) \in Seq(SoundEvent')
    BY <2>1, <2>3, ConcatProperties
  <2>5. <<>> \in Seq(SoundEvent')
    BY EmptySeq
  <2> QED
    BY <2>4, <2>5
<1> HIDE DEF events
<1>8. ServerInv' /\ WireInv' /\ SoundPage(page)'
  <2>1. Enqueue(s, events)
    BY <1>3a DEF events
  <2> QED
    BY <1>2, <1>7, <2>1, EnqueueSound
<1> DEFINE g == [stage |-> "reading", gate |-> gate, arrived |-> arrived,
                 sentence |-> sentence, sent |-> flushTo,
                 streaming |-> gen[s].streaming \/ gate = "answer"]
<1>9. gen' = [gen EXCEPT ![s] = g]
  BY <1>3a DEF IInv, GenInv, AnswersTypeOK
<1>10. GenInv'
  <2>1. (gen[s].streaming \/ gate = "answer") \in BOOLEAN
    BY <1>4
  <2>2. g \in [stage : {"idle", "reading", "over"}, gate : {"forming", "answer", "refusal"},
               arrived : 0..MaxChunks, sentence : 0..MaxChunks, sent : 0..MaxChunks,
               streaming : BOOLEAN]
    BY <1>5, <1>6, <2>1
  <2>3. /\ g.sent <= g.arrived /\ g.sentence <= g.arrived /\ g.stage = "reading"
    BY <1>6
  <2> HIDE DEF g
  <2> QED
    BY <1>1, <1>2, <1>9, <2>2, <2>3 DEF IInv, GenInv, AnswersTypeOK
<1> QED
  BY <1>8, <1>10 DEF IInv

\* The end of an answer: only s is over, and its verdict is given now.
LEMMA OverInv ==
    ASSUME GenInv, NEW s \in SynthesisId, gen[s].stage = "reading",
           gen' = [gen EXCEPT ![s].stage = "over"],
           NEW v \in {"grounded", "ungrounded", "refusal", "failed"},
           verdict' = [verdict EXCEPT ![s] = v],
           \/ UNCHANGED misses
           \/ v # "grounded" /\ misses' = [misses EXCEPT ![s] = "refusal"]
           \/ v # "grounded" /\ misses' = [misses EXCEPT ![s] = "ungrounded"],
           UNCHANGED reported
    PROVE  GenInv' /\ Grounded \subseteq Grounded'
<1>1. Grounded \subseteq Grounded'
  BY DEF GenInv, AnswersTypeOK, Grounded
<1>2. AnswersTypeOK'
  <2>1. gen' \in [SynthesisId ->
           [stage : {"idle", "reading", "over"}, gate : {"forming", "answer", "refusal"},
            arrived : 0..MaxChunks, sentence : 0..MaxChunks, sent : 0..MaxChunks,
            streaming : BOOLEAN]]
    BY DEF GenInv, AnswersTypeOK
  <2>2. \A r \in SynthesisId : gen'[r].sent <= gen'[r].arrived
    BY DEF GenInv, AnswersTypeOK
  <2> QED
    BY <2>1, <2>2 DEF GenInv, AnswersTypeOK
<1>3. ASSUME NEW r \in SynthesisId
      PROVE  /\ gen'[r].sentence <= gen'[r].arrived
             /\ gen'[r].stage # "over" => verdict'[r] = "none" /\ misses'[r] = "none"
             /\ verdict'[r] = "grounded" => misses'[r] = "none"
  BY DEF GenInv, AnswersTypeOK
<1> QED
  BY <1>1, <1>2, <1>3 DEF GenInv

\* The complete output queues a done event only with the verdict "grounded".
LEMMA FinishInv == ASSUME IInv, NEW s \in SynthesisId, Finish(s) PROVE IInv'
<1>1. PICK v \in Verdicts(s) :
        /\ verdict' = [verdict EXCEPT ![s] = v]
        /\ IF v = "grounded"
           THEN /\ Enqueue(s, StartIfNeeded(s) \o Delta(s, gen[s].sent, gen[s].arrived)
                                \o <<DoneEvent(s, Chunks(0, gen[s].arrived))>>)
                /\ UNCHANGED misses
           ELSE /\ Enqueue(s, TakeBack(s))
                /\ misses' = [misses EXCEPT ![s] = v]
  BY DEF Finish
<1>2. /\ gen[s].stage = "reading" /\ gen' = [gen EXCEPT ![s].stage = "over"]
      /\ UNCHANGED reported
  BY DEF Finish
<1>3. v \in {"grounded", "ungrounded", "refusal"}
  BY DEF Verdicts
<1>4. GenInv' /\ Grounded \subseteq Grounded'
  BY <1>1, <1>2, <1>3, OverInv DEF IInv
<1>5. CASE v = "grounded"
  <2>1. s \in Grounded'
    BY <1>1, <1>5 DEF IInv, GenInv, AnswersTypeOK, Grounded
  <2>2. gen[s].sent \in Nat /\ gen[s].arrived \in Nat
    BY DEF IInv, GenInv, AnswersTypeOK
  <2>3. Chunks(0, gen[s].arrived) \in Seq(Nat)
    BY <2>2, DeltaSound
  <2>4. DoneEvent(s, Chunks(0, gen[s].arrived)) \in SoundEvent'
    BY <2>1, <2>3 DEF DoneEvent, SoundEvent
  <2>5. <<DoneEvent(s, Chunks(0, gen[s].arrived))>> \in Seq(SoundEvent')
    BY <2>4
  <2>6. StartIfNeeded(s) \in Seq(SoundEvent')
    BY StartSound DEF IInv
  <2>7. Delta(s, gen[s].sent, gen[s].arrived) \in Seq(SoundEvent')
    BY <2>2, DeltaSound
  <2>8. StartIfNeeded(s) \o Delta(s, gen[s].sent, gen[s].arrived)
          \o <<DoneEvent(s, Chunks(0, gen[s].arrived))>> \in Seq(SoundEvent')
    BY <2>5, <2>6, <2>7, ConcatProperties
  <2> QED
    BY <1>1, <1>4, <1>5, <2>8, EnqueueSound DEF IInv
<1>6. CASE v # "grounded"
  <2>1. TakeBack(s) \in Seq(SoundEvent')
    BY DEF TakeBack, RetractedEvent, SoundEvent, IInv, GenInv, AnswersTypeOK
  <2> QED
    BY <1>1, <1>4, <1>6, <2>1, EnqueueSound DEF IInv
<1> QED
  BY <1>5, <1>6

\* A synthesizer that throws queues a retraction or nothing.
LEMMA SynthesizerFailsInv ==
    ASSUME IInv, NEW s \in SynthesisId, SynthesizerFails(s) PROVE IInv'
<1>1. /\ gen[s].stage = "reading" /\ gen' = [gen EXCEPT ![s].stage = "over"]
      /\ verdict' = [verdict EXCEPT ![s] = "failed"]
      /\ UNCHANGED reported
  BY DEF SynthesizerFails
<1>2. CASE gen[s].streaming
  <2>1. Enqueue(s, TakeBack(s)) /\ misses' = [misses EXCEPT ![s] = "refusal"]
    BY <1>2 DEF SynthesizerFails
  <2>2. GenInv' /\ Grounded \subseteq Grounded'
    BY <1>1, <2>1, OverInv DEF IInv
  <2>3. TakeBack(s) \in Seq(SoundEvent')
    BY DEF TakeBack, RetractedEvent, SoundEvent, IInv, GenInv, AnswersTypeOK
  <2> QED
    BY <2>1, <2>2, <2>3, EnqueueSound DEF IInv
<1>3. CASE ~gen[s].streaming
  <2>1. UNCHANGED misses /\ UNCHANGED streamVars
    BY <1>3 DEF SynthesizerFails
  <2>2. GenInv' /\ Grounded \subseteq Grounded'
    BY <1>1, <2>1, OverInv DEF IInv
  <2>3. ServerInv' /\ WireInv' /\ SoundPage(page)'
    <3>1. /\ SoundEvent \subseteq SoundEvent'
          /\ \A q \in Seq(SoundEvent) : q \in Seq(SoundEvent')
          /\ SoundPage(page)'
      BY <2>1, <2>2, SoundGrows DEF IInv, streamVars
    <3> QED
      BY <2>1, <2>2, <3>1 DEF IInv, ServerInv, WireInv, streamVars
  <2> QED
    BY <2>2, <2>3 DEF IInv
<1> QED
  BY <1>2, <1>3

-----------------------------------------------------------------------------
(***************************************************************************)
(* The writers.                                                            *)
(***************************************************************************)
LEMMA WorkSound ==
    ASSUME ServerInv, NEW w \in Writer, queue[w] # <<>>
    PROVE  Work(w) \in SoundEvent /\ Tail(queue[w]) \in Seq(SoundEvent)
<1>1. queue[w] \in Seq(SoundEvent)
  BY DEF ServerInv
<1> QED
  BY <1>1, HeadTailProperties DEF Work

\* Dropping one or two events of a chain leaves a chain.
LEMMA TailOfTail ==
    ASSUME NEW S, NEW q \in Seq(S), Len(q) > 1
    PROVE  Tail(Tail(q)) \in Seq(S)
<1>1. Len(q) \in Nat /\ \A r \in Seq(S) : Len(r) # 0 => r # <<>>
  <2>1. Len(<<>>) = 0
    BY EmptySeq
  <2> QED
    BY <2>1, LenProperties
<1>2. q # <<>>
  BY <1>1
<1>3. Tail(q) \in Seq(S) /\ Len(Tail(q)) = Len(q) - 1
  BY <1>2, HeadTailProperties
<1>4. Len(Tail(q)) # 0
  BY <1>1, <1>3
<1>5. Tail(q) # <<>>
  BY <1>1, <1>3, <1>4
<1> QED
  BY <1>3, <1>5, HeadTailProperties

\* A row is marked done only by a `done` event, and those are grounded.
LEMMA WrittenSound ==
    ASSUME NEW e \in SoundEvent, e.type \notin {"card", "cardRetracted"},
           NEW row \in AnswerRow, row.status = "done" => e.id \in Grounded
    PROVE  /\ e.id \in SynthesisId
           /\ WrittenAnswer(row, e) \in AnswerRow
           /\ WrittenAnswer(row, e).status = "done" => e.id \in Grounded
<1>1. CASE e.type = "synthesisStart"
  <2>1. e.id \in SynthesisId /\ e.sources \in SUBSET CardId
    BY <1>1 DEF SoundEvent
  <2>2. WrittenAnswer(row, e) =
          [status |-> "running", sources |-> e.sources, text |-> <<>>]
    BY <1>1 DEF WrittenAnswer
  <2> QED
    BY <2>1, <2>2 DEF AnswerRow
<1>2. CASE e.type = "synthesisDone"
  <2>1. e.id \in Grounded /\ e.text \in Seq(Nat)
    BY <1>2 DEF SoundEvent
  <2>2. WrittenAnswer(row, e) \in
          {row, [row EXCEPT !.status = "done", !.text = e.text]}
    BY <1>2 DEF WrittenAnswer
  <2> QED
    BY <2>1, <2>2 DEF AnswerRow, Grounded
<1>3. CASE e.type = "synthesisRetracted"
  <2>1. e.id \in SynthesisId
    BY <1>3 DEF SoundEvent
  <2>2. WrittenAnswer(row, e) \in {row, [row EXCEPT !.status = "retracted"]}
    BY <1>3 DEF WrittenAnswer
  <2> QED
    BY <2>1, <2>2 DEF AnswerRow
<1>4. CASE e.type = "synthesisDelta"
  <2>1. e.id \in SynthesisId
    BY <1>4 DEF SoundEvent
  <2>2. WrittenAnswer(row, e) = row
    BY <1>4 DEF WrittenAnswer
  <2> QED
    BY <2>1, <2>2
<1> QED
  BY <1>1, <1>2, <1>3, <1>4 DEF SoundEvent

\* The chain of w advances to `rest`, all else on it being idle again.
LEMMA Advanced ==
    ASSUME ServerInv, NEW w \in Writer, NEW rest \in Seq(SoundEvent),
           queue' = [queue EXCEPT ![w] = rest],
           \/ writing' = [writing EXCEPT ![w] = Idle]
           \/ writing[w].stage = "idle" /\ UNCHANGED writing
    PROVE  /\ queue' \in [Writer -> Seq(SoundEvent)]
           /\ writing' \in [Writer -> [stage : {"idle", "row", "insert", "send"}, id : Nat]]
           /\ \A v \in Writer : writing'[v].stage # "idle" => queue'[v] # <<>>
<1>1. queue' \in [Writer -> Seq(SoundEvent)]
  BY DEF ServerInv
<1>2. Idle \in [stage : {"idle", "row", "insert", "send"}, id : Nat] /\ Idle.stage = "idle"
  BY DEF Idle
<1>3. writing' \in [Writer -> [stage : {"idle", "row", "insert", "send"}, id : Nat]]
      /\ writing'[w].stage = "idle"
      /\ \A v \in Writer \ {w} : writing'[v] = writing[v]
  BY <1>2 DEF ServerInv
<1>4. \A v \in Writer \ {w} : queue'[v] = queue[v]
  BY DEF ServerInv
<1> QED
  BY <1>1, <1>3, <1>4 DEF ServerInv

\* A writer's step moves sound work to the rows, the log and the wire.
LEMMA WriterStepInv ==
    ASSUME IInv, NEW w \in Writer, AnswerWriterStep(w) PROVE IInv'
<1>1. WriterStep(w) /\ UNCHANGED <<gen, verdict, misses>>
  BY DEF AnswerWriterStep
<1>2. Grounded' = Grounded /\ SoundEvent' = SoundEvent
  BY <1>1, SameVerdicts
<1>3. ServerInv /\ WireInv /\ GenInv /\ SoundPage(page)
  BY DEF IInv
<1>4. GenInv'
  <2>1. reported' \subseteq Grounded
    <3>1. CASE reported' = reported
      BY <1>3, <3>1 DEF GenInv
    <3>2. CASE /\ writing[w].stage \in {"insert", "send"}
               /\ Work(w).type = "synthesisDone"
               /\ reported' = reported \cup {Work(w).id}
      <4>1. Work(w) \in SoundEvent
        BY <1>3, <3>2, WorkSound DEF ServerInv
      <4>2. Work(w).id \in Grounded
        BY <3>2, <4>1 DEF SoundEvent
      <4> QED
        BY <1>3, <3>2, <4>2 DEF GenInv
    <3> QED
      BY <3>1, <3>2 DEF AnswerWriterStep
  <2>2. Grounded \subseteq SynthesisId
    BY DEF Grounded
  <2> QED
    BY <1>1, <1>2, <1>3, <2>1, <2>2 DEF GenInv, AnswersTypeOK
<1>5. UNCHANGED <<page, fetch>>
  BY <1>1 DEF WriterStep, WriteRow, RowFails, DrawId, Commit, InsertFails, Send, pageVars
<1>6. SoundPage(page)'
  BY <1>2, <1>3, <1>5, SoundGrows
<1>7. CASE WriteRow(w)
  <2>1. /\ queue[w] # <<>> /\ writing' = [writing EXCEPT ![w].stage = "row"]
        /\ UNCHANGED <<queue, nextId, log, net>>
    BY <1>7 DEF WriteRow, Idling
  <2>2. Work(w) \in SoundEvent
    BY <1>3, <2>1, WorkSound
  <2>3. /\ writing' \in [Writer -> [stage : {"idle", "row", "insert", "send"}, id : Nat]]
        /\ \A v \in Writer : writing'[v].stage # "idle" => queue'[v] # <<>>
    BY <1>3, <2>1 DEF ServerInv
  <2>4. /\ answerRow' \in [SynthesisId -> AnswerRow]
        /\ \A s \in SynthesisId : answerRow'[s].status = "done" => s \in Grounded
    <3>1. CASE Work(w).type \in {"card", "cardRetracted"}
      BY <1>3, <1>7, <3>1 DEF WriteRow, ServerInv
    <3>2. CASE Work(w).type \notin {"card", "cardRetracted"}
      <4> DEFINE id == Work(w).id
                 new == WrittenAnswer(answerRow[id], Work(w))
      <4>1. answerRow' = [answerRow EXCEPT ![id] = new]
        BY <1>7, <3>2 DEF WriteRow
      <4>2. id \in SynthesisId
        BY <2>2, <3>2 DEF SoundEvent, Grounded
      <4>3. answerRow[id] \in AnswerRow /\ (answerRow[id].status = "done" => id \in Grounded)
        BY <1>3, <4>2 DEF ServerInv
      <4>4. new \in AnswerRow /\ (new.status = "done" => id \in Grounded)
        BY <2>2, <3>2, <4>3, WrittenSound
      <4> HIDE DEF new, id
      <4> QED
        BY <1>3, <4>1, <4>2, <4>4 DEF ServerInv
    <3> QED
      BY <3>1, <3>2
  <2> QED
    BY <1>2, <1>3, <1>4, <1>5, <1>6, <2>1, <2>3, <2>4 DEF IInv, ServerInv, WireInv
<1>8. CASE RowFails(w)
  <2>1. /\ writing[w].stage = "idle" /\ queue[w] # <<>>
        /\ UNCHANGED <<nextId, log, answerRow, net>>
    BY <1>8 DEF RowFails, Idling
  <2>2. /\ queue' \in [Writer -> Seq(SoundEvent)]
        /\ writing' \in [Writer -> [stage : {"idle", "row", "insert", "send"}, id : Nat]]
        /\ \A v \in Writer : writing'[v].stage # "idle" => queue'[v] # <<>>
    <3>1. CASE Work(w).type = "synthesisRetracted"
      BY <1>3, <1>8, <2>1, <3>1 DEF RowFails, ServerInv
    <3>2. CASE Work(w).type # "synthesisRetracted"
      <4>1. Tail(queue[w]) \in Seq(SoundEvent)
        BY <1>3, <2>1, WorkSound
      <4>2. Abandon(queue[w]) \in Seq(SoundEvent)
        <5>1. CASE Abandon(queue[w]) = Tail(queue[w])
          BY <4>1, <5>1
        <5>2. CASE Abandon(queue[w]) = Tail(Tail(queue[w])) /\ Len(queue[w]) > 1
          <6>1. queue[w] \in Seq(SoundEvent)
            BY <1>3 DEF ServerInv
          <6> QED
            BY <5>2, <6>1, TailOfTail
        <5> QED
          BY <5>1, <5>2 DEF Abandon
      <4>3. queue' = [queue EXCEPT ![w] = Abandon(queue[w])] /\ UNCHANGED writing
        BY <1>3, <1>8, <3>2 DEF RowFails, ServerInv
      <4> QED
        BY <1>3, <2>1, <4>2, <4>3, Advanced
    <3> QED
      BY <3>1, <3>2
  <2> QED
    BY <1>2, <1>3, <1>4, <1>5, <1>6, <2>1, <2>2 DEF IInv, ServerInv, WireInv
<1>9. CASE DrawId(w)
  <2>1. /\ queue[w] # <<>> /\ writing' = [writing EXCEPT ![w] = [stage |-> "insert", id |-> nextId]]
        /\ nextId' = nextId + 1 /\ UNCHANGED <<queue, log, answerRow, net>>
    BY <1>3, <1>9 DEF DrawId, Idling, ServerInv
  <2> QED
    BY <1>2, <1>3, <1>4, <1>5, <1>6, <2>1 DEF IInv, ServerInv, WireInv
<1>10. CASE Commit(w)
  <2>1. /\ queue[w] # <<>> /\ log' = Put(log, writing[w].id, Work(w))
        /\ writing' = [writing EXCEPT ![w].stage = "send"]
        /\ UNCHANGED <<queue, nextId, answerRow, net>>
    BY <1>3, <1>10 DEF Commit, Inserting, ServerInv
  <2>2. Work(w) \in SoundEvent
    BY <1>3, <2>1, WorkSound
  <2>3. /\ \A i \in DOMAIN log' : log'[i] \in SoundEvent
        /\ DOMAIN log \subseteq DOMAIN log'
    BY <1>3, <2>1, <2>2 DEF Put, ServerInv
  <2> QED
    BY <1>2, <1>3, <1>4, <1>5, <1>6, <2>1, <2>3 DEF IInv, ServerInv, WireInv
<1>11. CASE InsertFails(w)
  <2>1. /\ queue[w] # <<>> /\ queue' = [queue EXCEPT ![w] = Tail(queue[w])]
        /\ writing' = [writing EXCEPT ![w] = Idle]
        /\ UNCHANGED <<nextId, log, answerRow, net>>
    BY <1>3, <1>11 DEF InsertFails, Inserting, ServerInv
  <2>2. Tail(queue[w]) \in Seq(SoundEvent)
    BY <1>3, <2>1, WorkSound
  <2>3. /\ queue' \in [Writer -> Seq(SoundEvent)]
        /\ writing' \in [Writer -> [stage : {"idle", "row", "insert", "send"}, id : Nat]]
        /\ \A v \in Writer : writing'[v].stage # "idle" => queue'[v] # <<>>
    BY <1>3, <2>1, <2>2, Advanced
  <2> QED
    BY <1>2, <1>3, <1>4, <1>5, <1>6, <2>1, <2>3 DEF IInv, ServerInv, WireInv
<1>12. CASE Send(w)
  <2>1. /\ queue[w] # <<>> /\ queue' = [queue EXCEPT ![w] = Tail(queue[w])]
        /\ writing' = [writing EXCEPT ![w] = Idle]
        /\ UNCHANGED <<nextId, log, answerRow>>
    BY <1>3, <1>12 DEF Send, Idling, ServerInv
  <2>2. Work(w) \in SoundEvent /\ Tail(queue[w]) \in Seq(SoundEvent)
    BY <1>3, <2>1, WorkSound
  <2>3. /\ queue' \in [Writer -> Seq(SoundEvent)]
        /\ writing' \in [Writer -> [stage : {"idle", "row", "insert", "send"}, id : Nat]]
        /\ \A v \in Writer : writing'[v].stage # "idle" => queue'[v] # <<>>
    BY <1>3, <2>1, <2>2, Advanced
  <2>4. \A m \in net' : m.event \in SoundEvent
    BY <1>3, <1>12, <2>2 DEF Send, WireInv
  <2> QED
    BY <1>2, <1>3, <1>4, <1>5, <1>6, <2>1, <2>3, <2>4 DEF IInv, ServerInv, WireInv
<1> QED
  BY <1>1, <1>7, <1>8, <1>9, <1>10, <1>11, <1>12 DEF WriterStep

\* A restart forgets work and makes nothing up.
LEMMA CrashInv == ASSUME IInv, Crash PROVE IInv'
<1>1. /\ queue' = [w \in Writer |-> <<>>] /\ writing' = [w \in Writer |-> Idle]
      /\ gen' = [s \in SynthesisId |-> [gen[s] EXCEPT !.stage = "over"]]
      /\ UNCHANGED <<nextId, log, answerRow, net, verdict, misses, reported, page, fetch>>
  BY DEF Crash, pageVars
<1>2. Grounded' = Grounded /\ SoundEvent' = SoundEvent
  BY <1>1, SameVerdicts
<1>3. ServerInv' /\ WireInv' /\ SoundPage(page)'
  BY <1>1, <1>2, SoundGrows, EmptySeq DEF IInv, ServerInv, WireInv, Idle
<1>4. GenInv'
  <2>1. \A s \in SynthesisId :
           /\ gen'[s] \in
                [stage : {"idle", "reading", "over"}, gate : {"forming", "answer", "refusal"},
                 arrived : 0..MaxChunks, sentence : 0..MaxChunks, sent : 0..MaxChunks,
                 streaming : BOOLEAN]
           /\ gen'[s].stage = "over" /\ gen'[s].arrived = gen[s].arrived
           /\ gen'[s].sentence = gen[s].sentence /\ gen'[s].sent = gen[s].sent
    <3> SUFFICES ASSUME NEW s \in SynthesisId
        PROVE  /\ gen'[s] \in
                    [stage : {"idle", "reading", "over"}, gate : {"forming", "answer", "refusal"},
                     arrived : 0..MaxChunks, sentence : 0..MaxChunks, sent : 0..MaxChunks,
                     streaming : BOOLEAN]
               /\ gen'[s].stage = "over" /\ gen'[s].arrived = gen[s].arrived
               /\ gen'[s].sentence = gen[s].sentence /\ gen'[s].sent = gen[s].sent
      OBVIOUS
    <3>1. gen'[s] = [gen[s] EXCEPT !.stage = "over"]
      BY <1>1
    <3>2. gen[s] \in
             [stage : {"idle", "reading", "over"}, gate : {"forming", "answer", "refusal"},
              arrived : 0..MaxChunks, sentence : 0..MaxChunks, sent : 0..MaxChunks,
              streaming : BOOLEAN]
      BY DEF IInv, GenInv, AnswersTypeOK
    <3> QED
      BY <3>1, <3>2
  <2>2. gen' \in [SynthesisId ->
           [stage : {"idle", "reading", "over"}, gate : {"forming", "answer", "refusal"},
            arrived : 0..MaxChunks, sentence : 0..MaxChunks, sent : 0..MaxChunks,
            streaming : BOOLEAN]]
    BY <1>1, <2>1
  <2> QED
    BY <1>1, <1>2, <2>1, <2>2 DEF IInv, GenInv, AnswersTypeOK
<1> QED
  BY <1>3, <1>4 DEF IInv

-----------------------------------------------------------------------------
(***************************************************************************)
(* The page.                                                               *)
(***************************************************************************)
\* The seed shows an answer as finished only if its row is marked done.
LEMMA SeededSound ==
    ASSUME ServerInv
    PROVE  SoundAnswers(SeededAnswers)
<1> DEFINE D == {r \in SynthesisId : answerRow[r].status \in {"running", "done"}}
<1>1. \A s \in D : /\ answerRow[s].sources \in SUBSET CardId
                   /\ answerRow[s].text \in Seq(Nat)
                   /\ answerRow[s].status = "running" \/ s \in Grounded
  BY DEF ServerInv, AnswerRow
<1>2. \A s \in D : [sources |-> answerRow[s].sources, text |-> answerRow[s].text,
                    streaming |-> answerRow[s].status = "running", pinned |-> FALSE]
                     \in Answer
  BY <1>1 DEF Answer
<1>3. SeededAnswers \in [D -> Answer]
  BY <1>2 DEF SeededAnswers
<1>4. \A s \in D : SeededAnswers[s].streaming \/ s \in Grounded
  BY <1>1 DEF SeededAnswers
<1>5. D \in SUBSET SynthesisId
  OBVIOUS
<1> HIDE DEF D
<1> QED
  BY <1>3, <1>4, <1>5 DEF SoundAnswers, PFun

\* A page step keeps the invariant if the page and the poll stay sound.
LEMMA PageOnly ==
    ASSUME IInv, UNCHANGED serverVars, UNCHANGED answerVars,
           net' \subseteq net, fetch'.rows \subseteq DOMAIN log, SoundPage(page')
    PROVE  IInv'
<1>1. UNCHANGED <<queue, writing, nextId, log, answerRow, gen, verdict, misses, reported>>
  BY DEF serverVars, answerVars
<1>2. Grounded' = Grounded /\ SoundEvent' = SoundEvent
  BY <1>1, SameVerdicts
<1>3. SoundPage(page)'
  BY <1>1, SamePage
<1>4. GenInv'
  BY <1>1, <1>2 DEF IInv, GenInv, AnswersTypeOK
<1> QED
  BY <1>1, <1>2, <1>3, <1>4 DEF IInv, ServerInv, WireInv

\* An event handed to the reducer leaves a sound page sound.
LEMMA HandSound ==
    ASSUME IInv, NEW i, NEW e \in SoundEvent, Hand(i, e)
    PROVE  SoundPage(page')
BY DispatchSound DEF Hand, IInv

\* A step of the page keeps the invariant: what it reads is sound.
LEMMA PageStepInv ==
    ASSUME IInv, PageStep, UNCHANGED answerVars PROVE IInv'
<1>1. ServerInv /\ WireInv /\ SoundPage(page) /\ PageShape(page) /\ SoundAnswers(page.syntheses)
  BY DEF IInv, SoundPage
<1>2. CASE OpenPage
  BY <1>1, <1>2, PageOnly DEF OpenPage, WireInv
<1>3. CASE SeedCards
  <2>1. SoundPage(page')
    BY <1>1, <1>3 DEF SeedCards, SoundPage, PageShape
  <2> QED
    BY <1>1, <1>3, <2>1, PageOnly DEF SeedCards, WireInv
<1>4. CASE SeedAnswers
  <2>1. page' \in {[page EXCEPT !.syntheses = SeededAnswers], page}
    BY <1>4 DEF SeedAnswers
  <2>2. SoundPage(page')
    BY <1>1, <2>1, SeededSound, WithAnswers
  <2> QED
    BY <1>1, <1>4, <2>2, PageOnly DEF SeedAnswers, WireInv
<1>5. CASE SeedTranscript
  <2>1. page' = page \/ \E t : page' = [page EXCEPT !.transcript = t]
    BY <1>5 DEF SeedTranscript
  <2>2. SoundPage(page')
    BY <1>1, <2>1 DEF SoundPage, PageShape
  <2> QED
    BY <1>1, <1>5, <2>2, PageOnly DEF SeedTranscript, WireInv
<1>6. CASE FetchRead
  <2>1. RowsAfter(lastSeen) \subseteq DOMAIN log
    BY DEF RowsAfter, Visible
  <2>2. UNCHANGED page /\ fetch'.rows \subseteq DOMAIN log
    BY <1>6, <2>1 DEF FetchRead
  <2> QED
    BY <1>1, <1>6, <2>2, PageOnly DEF FetchRead
<1>7. CASE FetchFails
  <2>1. UNCHANGED page /\ fetch'.rows \subseteq DOMAIN log
    BY <1>7 DEF FetchFails, NoFetch
  <2>2. UNCHANGED <<queue, writing, nextId, log, answerRow, net, gen, verdict, misses, reported>>
    BY <1>7 DEF FetchFails, answerVars
  <2>3. Grounded' = Grounded /\ SoundEvent' = SoundEvent
    BY <2>2, SameVerdicts
  <2>4. SoundPage(page)'
    BY <1>1, <2>1, <2>2, SamePage
  <2>5. GenInv'
    BY <2>2, <2>3 DEF IInv, GenInv, AnswersTypeOK
  <2> QED
    BY <1>1, <2>1, <2>2, <2>3, <2>4, <2>5 DEF IInv, ServerInv, WireInv
<1>8. CASE ApplyRow
  <2>1. PICK i \in fetch.rows :
          /\ IF Fresh(i) THEN Hand(i, log[i]) ELSE UNCHANGED <<applied, page, handed>>
          /\ fetch' = [rows |-> fetch.rows \ {i}, applying |-> fetch.rows \ {i} # {}]
          /\ UNCHANGED net /\ UNCHANGED serverVars
    BY <1>8 DEF ApplyRow
  <2>2. log[i] \in SoundEvent
    BY <1>1, <2>1 DEF WireInv, ServerInv
  <2>3. SoundPage(page')
    BY <1>1, <2>1, <2>2, HandSound
  <2>4. fetch'.rows \subseteq DOMAIN log
    BY <1>1, <2>1 DEF WireInv
  <2> QED
    BY <2>1, <2>3, <2>4, PageOnly
<1>9. ASSUME NEW m \in net, Receive(m) PROVE IInv'
  <2>1. m.event \in SoundEvent
    BY <1>1 DEF WireInv
  <2>2. SoundPage(page')
    BY <1>1, <1>9, <2>1, HandSound, DispatchSound DEF Receive
  <2>3. net' \subseteq net /\ fetch'.rows \subseteq DOMAIN log /\ UNCHANGED serverVars
    BY <1>1, <1>9 DEF Receive, WireInv
  <2> QED
    BY <2>2, <2>3, PageOnly
<1>10. ASSUME NEW s \in SynthesisId, PinAnswer(s) PROVE IInv'
  <2> DEFINE a == page.syntheses
             r == [a[s] EXCEPT !.pinned = TRUE]
  <2>1. s \in DOMAIN a /\ page' = [page EXCEPT !.syntheses = [a EXCEPT ![s] = r]]
    BY <1>1, <1>10 DEF PinAnswer, SynthesisPinned, Shown, PageShape
  <2>2. a[s] \in Answer /\ (a[s].streaming \/ s \in Grounded)
    BY <1>1, <2>1, SoundAnswerType DEF SoundAnswers
  <2>3. r \in Answer /\ (r.streaming \/ s \in Grounded)
    BY <2>2 DEF Answer
  <2> HIDE DEF r
  <2>4. SoundAnswers([a EXCEPT ![s] = r])
    BY <1>1, <2>1, <2>3, ExceptSound
  <2>5. SoundPage(page')
    BY <1>1, <2>1, <2>4, WithAnswers
  <2>6. UNCHANGED <<net, fetch>> /\ UNCHANGED serverVars
    BY <1>10 DEF PinAnswer
  <2> QED
    BY <1>1, <2>5, <2>6, PageOnly DEF WireInv
<1> QED
  BY <1>2, <1>3, <1>4, <1>5, <1>6, <1>7, <1>8, <1>9, <1>10 DEF PageStep

-----------------------------------------------------------------------------
(***************************************************************************)
(* The theorems.                                                           *)
(***************************************************************************)
LEMMA InitInv == Init => IInv
<1> SUFFICES ASSUME Init PROVE IInv
  OBVIOUS
<1>1. /\ queue \in Scripts /\ writing = [w \in Writer |-> Idle] /\ nextId = 1
      /\ log = <<>> /\ answerRow = [s \in SynthesisId |-> NoRow] /\ net = {}
      /\ page = initialAppState /\ fetch = NoFetch
      /\ gen = [s \in SynthesisId |-> NotBegun]
      /\ verdict = [s \in SynthesisId |-> "none"]
      /\ misses = [s \in SynthesisId |-> "none"] /\ reported = {}
  BY DEF Init, StreamInit
<1> DEFINE E == {CardEvent(c) : c \in CardId} \cup {CardRetractedEvent(c) : c \in CardId}
<1>2. E \subseteq SoundEvent
  BY DEF CardEvent, CardRetractedEvent, SoundEvent
<1>3. queue \in [Writer -> Seq(E)]
  BY <1>1, AnswersAssumption DEF AnswersAssumption
<1> HIDE DEF E
<1>4. queue \in [Writer -> Seq(SoundEvent)]
  <2>1. Seq(E) \subseteq Seq(SoundEvent)
    BY <1>2, SeqMonotonic
  <2> QED
    BY <1>3, <2>1
<1>5. ServerInv
  <2>1. DOMAIN log = {}
    BY <1>1
  <2>2. NoRow \in AnswerRow /\ NoRow.status = "none"
    BY EmptySeq DEF NoRow, AnswerRow
  <2>3. Idle \in [stage : {"idle", "row", "insert", "send"}, id : Nat] /\ Idle.stage = "idle"
    BY DEF Idle
  <2> QED
    BY <1>1, <1>4, <2>1, <2>2, <2>3 DEF ServerInv
<1>6. WireInv
  BY <1>1 DEF WireInv, NoFetch
<1>7. GenInv
  <2>1. NotBegun \in [stage : {"idle", "reading", "over"}, gate : {"forming", "answer", "refusal"},
            arrived : 0..MaxChunks, sentence : 0..MaxChunks, sent : 0..MaxChunks,
            streaming : BOOLEAN]
        /\ NotBegun.sent = 0 /\ NotBegun.arrived = 0 /\ NotBegun.sentence = 0
    BY AnswersAssumption DEF AnswersAssumption, NotBegun
  <2> QED
    BY <1>1, <2>1 DEF GenInv, AnswersTypeOK
<1>8. SoundPage(page)
  <2>1. PageShape(page) /\ page.syntheses = <<>>
    BY <1>1 DEF initialAppState, PageShape
  <2>2. <<>> \in [{} -> Answer]
    OBVIOUS
  <2>3. SoundAnswers(<<>>)
    BY <2>2 DEF SoundAnswers, PFun
  <2> QED
    BY <2>1, <2>3 DEF SoundPage
<1> QED
  BY <1>5, <1>6, <1>7, <1>8 DEF IInv

\* Every step keeps the invariant.
LEMMA NextInv == IInv /\ [Next]_vars => IInv'
<1> SUFFICES ASSUME IInv, [Next]_vars PROVE IInv'
  OBVIOUS
<1>1. ASSUME NEW s \in SynthesisId,
             Begin(s) \/ TextDelta(s) \/ Finish(s) \/ SynthesizerFails(s)
      PROVE  IInv'
  BY <1>1, BeginInv, TextDeltaInv, FinishInv, SynthesizerFailsInv
<1>2. ASSUME NEW w \in Writer, AnswerWriterStep(w) PROVE IInv'
  BY <1>2, WriterStepInv
<1>3. CASE Crash
  BY <1>3, CrashInv
<1>4. CASE PageStep /\ UNCHANGED answerVars
  BY <1>4, PageStepInv
<1>5. CASE UNCHANGED vars
  <2>1. UNCHANGED serverVars /\ UNCHANGED answerVars /\ UNCHANGED <<net, fetch, page>>
    BY <1>5 DEF vars, serverVars, answerVars
  <2> QED
    BY <2>1, PageOnly DEF IInv, WireInv
<1> QED
  BY <1>1, <1>2, <1>3, <1>4, <1>5 DEF Next

\* The inductive invariant of an answer's way to the page: everything queued, stored,
\* broadcast or shown about an answer is backed by its verdict (core.ts, runSynthesis).
THEOREM Inductive == Spec => []IInv
<1> QED
  BY InitInv, NextInv, PTL DEF Spec

\* The synthesizer's bookkeeping keeps its types (runSynthesis): nothing is
\* streamed that has not arrived.
THEOREM AnswersTypeCorrect == Spec => []AnswersTypeOK
<1>1. IInv => AnswersTypeOK
  BY DEF IInv, GenInv
<1> QED
  BY <1>1, Inductive, PTL

\* No page shows an answer as finished, and no row is marked done, that was not
\* found grounded, for any number of answers, writers, cards and events: neither
\* a seed, a broadcast, a poll, a failed write nor a restart can make one up.
THEOREM OnlyGroundedAnswersFinish == Spec => []GroundedOrNothing
<1>1. IInv => GroundedOrNothing
  <2> SUFFICES ASSUME IInv, NEW s \in SynthesisId,
                      Finished(page, s) \/ answerRow[s].status = "done"
               PROVE  verdict[s] = "grounded"
    BY DEF GroundedOrNothing
  <2>1. CASE Finished(page, s)
    BY <2>1 DEF IInv, SoundPage, SoundAnswers, Finished, Shown, Grounded
  <2>2. CASE answerRow[s].status = "done"
    BY <2>2 DEF IInv, ServerInv, Grounded
  <2> QED
    BY <2>1, <2>2
<1> QED
  BY <1>1, Inductive, PTL

\* An answer reported to the dedup ledger and the summarizer (onGroundedAnswer)
\* was grounded and is in no case a recorded knowledge gap as well.
THEOREM ReportedAnswersAreNoGaps == Spec => []ReportedIsNoGap
<1>1. IInv => ReportedIsNoGap
  BY DEF IInv, GenInv, ReportedIsNoGap, Grounded
<1> QED
  BY <1>1, Inductive, PTL
-----------------------------------------------------------------------------
(***************************************************************************)
(* A finished answer is shown whole, and stands. The invariant above says  *)
(* which answers may finish; this one says what is known of their text     *)
(* while their events are queued, under way and applied out of order.      *)
(***************************************************************************)
AnswerType == {"synthesisStart", "synthesisDelta", "synthesisDone", "synthesisRetracted"}
CardType == {"card", "cardRetracted"}

\* The prose of s as far as it has arrived: all of it once s is over.
Prose(s) == Chunks(0, gen[s].arrived)

\* What a page has been or may still be told: the events stored or under way, and
\* those whose row is settled.
Out ==
    {log[i] : i \in DOMAIN log} \cup {m.event : m \in net}
      \cup {Work(w) : w \in {v \in Writer : writing[v].stage # "idle"}}

\* Nothing of answer s has left its chain yet.
Untold(s) ==
    /\ answerRow[s].status = "none"
    /\ \A e \in Out : e.type \in AnswerType => e.id # s

\* One chain per answer; the other chains carry the cards.
Owned(w, e) ==
    IF w \in SynthesisId THEN e.type \in AnswerType /\ e.id = w ELSE e.type \in CardType

OwnWork == \A w \in Writer : \A e \in ToSet(queue[w]) : Owned(w, e)

\* The start of an answer is the first work its chain ever gets.
StartsFirst ==
    \A s \in SynthesisId :
        /\ \A k \in DOMAIN queue[s] : queue[s][k].type = "synthesisStart" => k = 1
        /\ gen[s].stage # "over" /\ ~gen[s].streaming => queue[s] = <<>> /\ Untold(s)
        /\ queue[s] # <<>> /\ writing[s].stage = "idle" /\ Work(s).type = "synthesisStart"
             => Untold(s)

\* A done event carries all of the prose, and what was taken back is not grounded.
TellsEnd(e) ==
    /\ e.type = "synthesisDone" => e.text = Prose(e.id)
    /\ e.type = "synthesisRetracted" => e.id \notin Grounded /\ gen[e.id].stage = "over"

EndsTell ==
    /\ \A e \in Out : TellsEnd(e)
    /\ \A w \in Writer : \A e \in ToSet(queue[w]) : TellsEnd(e)

\* A row that is there when its done event goes out has the text of that event.
RowTells(e) ==
    /\ e.type = "synthesisStart" => answerRow[e.id].status # "none"
    /\ e.type = "synthesisDone" =>
         answerRow[e.id].status = "none" \/ answerRow[e.id].text = Prose(e.id)

RowsWhole ==
    /\ \A e \in Out : RowTells(e)
    /\ \A s \in SynthesisId : answerRow[s].status = "done" => answerRow[s].text = Prose(s)

WholeAnswers(a) ==
    \A s \in DOMAIN a :
        /\ answerRow[s].status # "none"
        /\ ~a[s].streaming => a[s].text = Prose(s) /\ answerRow[s].text = Prose(s)

WholeInv ==
    OwnWork /\ StartsFirst /\ EndsTell /\ RowsWhole /\ WholeAnswers(page.syntheses)

-----------------------------------------------------------------------------
\* What is out or queued is sound.
LEMMA OutSound ==
    ASSUME IInv
    PROVE  /\ \A e \in Out : e \in SoundEvent
           /\ \A w \in Writer : \A e \in ToSet(queue[w]) : e \in SoundEvent
           /\ \A w \in Writer : queue[w] # <<>> =>
                1 \in DOMAIN queue[w] /\ Work(w) = queue[w][1] /\ Work(w) \in ToSet(queue[w])
<1>1. \A w \in Writer : queue[w] \in Seq(SoundEvent)
  BY DEF IInv, ServerInv
<1>2. \A w \in Writer : \A e \in ToSet(queue[w]) : e \in SoundEvent
  BY <1>1, LenProperties DEF ToSet
<1>3. ASSUME NEW w \in Writer, queue[w] # <<>>
      PROVE  1 \in DOMAIN queue[w] /\ Work(w) = queue[w][1] /\ Work(w) \in ToSet(queue[w])
  <2>1. Len(queue[w]) \in Nat \ {0} /\ DOMAIN queue[w] = 1..Len(queue[w])
    BY <1>1, <1>3, EmptySeq, LenProperties
  <2>2. 1 \in DOMAIN queue[w]
    BY <2>1
  <2>3. Work(w) = queue[w][1]
    BY DEF Work
  <2> QED
    BY <2>2, <2>3 DEF ToSet
<1>4. \A e \in Out : e \in SoundEvent
  <2>1. \A w \in Writer : writing[w].stage # "idle" => Work(w) \in SoundEvent
    BY <1>2, <1>3 DEF IInv, ServerInv
  <2> QED
    BY <2>1 DEF Out, IInv, ServerInv, WireInv
<1> QED
  BY <1>2, <1>3, <1>4

\* An answer that is done or grounded is over, and has a verdict no step changes.
LEMMA GroundedIsOver ==
    ASSUME IInv
    PROVE  \A s \in SynthesisId : s \in Grounded => gen[s].stage = "over"
BY DEF IInv, GenInv, Grounded

\* The identities of the events.
LEMMA SoundIds ==
    ASSUME NEW e \in SoundEvent
    PROVE  /\ e.type \in AnswerType \cup CardType
           /\ e.type \in AnswerType => e.id \in SynthesisId /\ e.type \notin CardType
           /\ e.type \in CardType => e.type \notin AnswerType
           /\ e.type = "synthesisDone" => e.id \in Grounded /\ e.text \in Seq(Nat)
BY DEF SoundEvent, AnswerType, CardType, Grounded

-----------------------------------------------------------------------------
(***************************************************************************)
(* The synthesis appends to the chain of its answer.                       *)
(***************************************************************************)
LEMMA Appends ==
    ASSUME IInv, IInv', WholeInv, NEW s \in SynthesisId, NEW events \in Seq(SoundEvent'),
           queue' = [queue EXCEPT ![s] = queue[s] \o events],
           UNCHANGED <<writing, log, answerRow, net, page>>,
           gen[s].stage # "over",
           \A r \in SynthesisId \ {s} : gen'[r] = gen[r] /\ verdict'[r] = verdict[r],
           gen[s].streaming => gen'[s].streaming,
           gen'[s].stage # "over" /\ ~gen'[s].streaming => events = <<>>,
           \A k \in DOMAIN events :
              /\ Owned(s, events[k])
              /\ events[k].type = "synthesisStart" => k = 1 /\ ~gen[s].streaming
              /\ TellsEnd(events[k])'
    PROVE  WholeInv'
<1>1. /\ s \in Writer /\ queue[s] \in Seq(SoundEvent) /\ queue[s] \in Seq(SoundEvent')
      /\ DOMAIN queue = Writer
  <2>1. Grounded \subseteq Grounded'
    BY GroundedIsOver DEF Grounded
  <2>2. s \in Writer /\ queue[s] \in Seq(SoundEvent) /\ DOMAIN queue = Writer
    BY AnswersAssumption DEF AnswersAssumption, IInv, ServerInv
  <2> QED
    BY <2>1, <2>2, SoundGrows
<1>2. /\ queue'[s] = queue[s] \o events
      /\ \A w \in Writer \ {s} : queue'[w] = queue[w]
  BY <1>1
<1>3. /\ Len(queue[s]) \in Nat /\ DOMAIN queue[s] = 1..Len(queue[s])
      /\ Len(events) \in Nat /\ DOMAIN events = 1..Len(events)
      /\ DOMAIN queue'[s] = 1..(Len(queue[s]) + Len(events))
      /\ queue[s] = <<>> <=> Len(queue[s]) = 0
      /\ \A k \in 1..(Len(queue[s]) + Len(events)) :
            queue'[s][k] = IF k <= Len(queue[s]) THEN queue[s][k] ELSE events[k - Len(queue[s])]
  BY <1>1, <1>2, ConcatProperties, LenProperties, EmptySeq
<1>4. ASSUME NEW k \in DOMAIN queue'[s]
      PROVE  \/ k \in DOMAIN queue[s] /\ queue'[s][k] = queue[s][k]
             \/ \E j \in DOMAIN events : queue'[s][k] = events[j] /\ k = Len(queue[s]) + j
  <2>1. CASE k <= Len(queue[s])
    BY <1>3, <2>1
  <2>2. CASE ~(k <= Len(queue[s]))
    <3>1. k - Len(queue[s]) \in DOMAIN events /\ queue'[s][k] = events[k - Len(queue[s])]
      BY <1>3, <2>2
    <3> QED
      BY <1>3, <3>1
  <2> QED
    BY <2>1, <2>2
\* Nothing of s is known to be done: its verdict is not given yet.
<1>5. /\ s \notin Grounded
      /\ \A r \in SynthesisId : r # s => Prose(r)' = Prose(r)
      /\ \A r \in SynthesisId : r # s => (r \in Grounded' <=> r \in Grounded)
  BY GroundedIsOver DEF Prose, Grounded, Chunks
<1>6. Out' = Out
  <2>1. \A w \in Writer : writing[w].stage # "idle" => Work(w)' = Work(w)
    <3> SUFFICES ASSUME NEW w \in Writer, writing[w].stage # "idle" PROVE Work(w)' = Work(w)
      OBVIOUS
    <3>1. queue[w] # <<>>
      BY DEF IInv, ServerInv
    <3>2. CASE w # s
      BY <1>2, <3>2 DEF Work
    <3>3. CASE w = s
      <4>1. Head(queue'[s]) = queue[s][1]
        BY <1>3, <3>1, <3>3
      <4>2. Work(w) = queue[s][1]
        BY <3>1, <3>3, OutSound DEF Work
      <4>3. Work(w)' = Head(queue'[s])
        BY <3>3 DEF Work
      <4> QED
        BY <4>1, <4>2, <4>3
    <3> QED
      BY <3>2, <3>3
  <2> QED
    BY <2>1 DEF Out
<1>7. \A r \in SynthesisId : Untold(r)' <=> Untold(r)
  BY <1>6 DEF Untold
<1>8. OwnWork'
  <2> SUFFICES ASSUME NEW w \in Writer, NEW e \in ToSet(queue'[w]) PROVE Owned(w, e)
    BY DEF OwnWork, Owned
  <2>1. CASE w # s
    BY <1>2, <2>1 DEF WholeInv, OwnWork
  <2>2. CASE w = s
    <3>1. PICK k \in DOMAIN queue'[s] : e = queue'[s][k]
      BY <2>2 DEF ToSet
    <3> QED
      BY <1>4, <2>2, <3>1 DEF WholeInv, OwnWork, ToSet
  <2> QED
    BY <2>1, <2>2
<1>9. StartsFirst'
  <2> SUFFICES ASSUME NEW r \in SynthesisId
      PROVE  /\ \A k \in DOMAIN queue'[r] : queue'[r][k].type = "synthesisStart" => k = 1
             /\ gen'[r].stage # "over" /\ ~gen'[r].streaming => queue'[r] = <<>> /\ Untold(r)'
             /\ queue'[r] # <<>> /\ writing'[r].stage = "idle"
                  /\ Head(queue'[r]).type = "synthesisStart" => Untold(r)'
    BY DEF StartsFirst, Work
  <2>0. r \in Writer
    BY AnswersAssumption DEF AnswersAssumption
  <2>1. CASE r # s
    BY <1>2, <1>7, <2>0, <2>1 DEF WholeInv, StartsFirst, Work
  <2>2. CASE r = s
    <3>1. ASSUME NEW k \in DOMAIN queue'[s], queue'[s][k].type = "synthesisStart" PROVE k = 1
      <4>1. CASE k \in DOMAIN queue[s] /\ queue'[s][k] = queue[s][k]
        BY <3>1, <4>1 DEF WholeInv, StartsFirst
      <4>2. CASE \E j \in DOMAIN events : queue'[s][k] = events[j] /\ k = Len(queue[s]) + j
        <5>1. PICK j \in DOMAIN events : queue'[s][k] = events[j] /\ k = Len(queue[s]) + j
          BY <4>2
        <5>2. j = 1 /\ ~gen[s].streaming
          BY <3>1, <5>1
        <5>3. queue[s] = <<>>
          BY <5>2 DEF WholeInv, StartsFirst
        <5> QED
          BY <1>3, <5>1, <5>2, <5>3
      <4> QED
        BY <1>4, <4>1, <4>2
    <3>2. gen'[s].stage # "over" /\ ~gen'[s].streaming => queue'[s] = <<>> /\ Untold(s)'
      <4> SUFFICES ASSUME gen'[s].stage # "over", ~gen'[s].streaming
                   PROVE  queue'[s] = <<>> /\ Untold(s)'
        OBVIOUS
      <4>1. events = <<>> /\ ~gen[s].streaming
        OBVIOUS
      <4>2. queue[s] = <<>> /\ Untold(s)
        BY <4>1 DEF WholeInv, StartsFirst
      <4> QED
        BY <1>2, <1>7, <4>1, <4>2
    <3>3. ASSUME queue'[s] # <<>>, writing'[s].stage = "idle",
                 Head(queue'[s]).type = "synthesisStart"
          PROVE  Untold(s)'
      <4>1. CASE queue[s] = <<>>
        <5>1. queue'[s] = events
          BY <1>2, <4>1, ConcatEmptySeq
        <5>2. 1 \in DOMAIN events /\ Head(events) = events[1]
          <6>1. Len(events) # 0
            BY <3>3, <5>1, EmptySeq
          <6> QED
            BY <1>3, <6>1
        <5>3. ~gen[s].streaming
          BY <3>3, <5>1, <5>2
        <5> QED
          BY <1>7, <5>3 DEF WholeInv, StartsFirst
      <4>2. CASE queue[s] # <<>>
        <5>1. Head(queue'[s]) = queue[s][1]
          BY <1>3, <4>2
        <5> QED
          BY <1>7, <3>3, <4>2, <5>1 DEF WholeInv, StartsFirst, Work
      <4> QED
        BY <4>1, <4>2
    <3> QED
      BY <2>2, <3>1, <3>2, <3>3
  <2> QED
    BY <2>1, <2>2
\* An end told before is not one of s.
<1>10. ASSUME NEW e \in SoundEvent, TellsEnd(e) PROVE TellsEnd(e)'
  <2>1. e.type = "synthesisDone" => e.id \in SynthesisId /\ e.id # s
    BY <1>5, SoundIds DEF Grounded
  <2>2. e.type = "synthesisRetracted" => e.id \in SynthesisId /\ e.id # s
    BY <1>10, SoundIds DEF TellsEnd, AnswerType
  <2> QED
    BY <1>5, <1>10, <2>1, <2>2 DEF TellsEnd
<1>11. EndsTell'
  <2>1. \A e \in Out : TellsEnd(e)'
    BY <1>10, OutSound DEF WholeInv, EndsTell
  <2>2. ASSUME NEW w \in Writer, NEW e \in ToSet(queue'[w]) PROVE TellsEnd(e)'
    <3>1. CASE w # s
      BY <1>2, <1>10, <3>1, OutSound DEF WholeInv, EndsTell
    <3>2. CASE w = s
      <4>1. PICK k \in DOMAIN queue'[s] : e = queue'[s][k]
        BY <3>2 DEF ToSet
      <4>2. CASE k \in DOMAIN queue[s] /\ queue'[s][k] = queue[s][k]
        <5>1. e \in ToSet(queue[s])
          BY <4>1, <4>2 DEF ToSet
        <5> QED
          BY <1>1, <1>10, <5>1, OutSound DEF WholeInv, EndsTell
      <4> QED
        BY <1>4, <4>1, <4>2
    <3> QED
      BY <3>1, <3>2
  <2> QED
    BY <1>6, <2>1, <2>2 DEF EndsTell
<1>12. RowsWhole'
  <2>1. \A e \in Out : RowTells(e)'
    <3> SUFFICES ASSUME NEW e \in Out PROVE RowTells(e)'
      OBVIOUS
    <3>1. e.type = "synthesisDone" => e.id \in SynthesisId /\ e.id # s
      BY <1>5, OutSound, SoundIds DEF Grounded
    <3> QED
      BY <1>5, <3>1 DEF WholeInv, RowsWhole, RowTells
  <2>2. ASSUME NEW r \in SynthesisId, answerRow[r].status = "done" PROVE r # s
    BY <1>5, <2>2 DEF IInv, ServerInv
  <2> QED
    BY <1>5, <1>6, <2>1, <2>2 DEF WholeInv, RowsWhole
<1>13. WholeAnswers(page.syntheses)'
  <2>1. \A r \in DOMAIN page.syntheses :
           r \in SynthesisId /\ (~page.syntheses[r].streaming => r # s)
    BY <1>5, SoundAnswerType DEF IInv, SoundPage, SoundAnswers
  <2> QED
    BY <1>5, <2>1 DEF WholeInv, WholeAnswers
<1> QED
  BY <1>8, <1>9, <1>11, <1>12, <1>13 DEF WholeInv

\* An answer that is taken back is over, and was not grounded.
LEMMA TakeBackWhole ==
    ASSUME IInv, IInv', WholeInv, NEW s \in SynthesisId, gen[s].stage = "reading",
           gen'[s].stage = "over", gen'[s].streaming = gen[s].streaming,
           verdict'[s] # "grounded",
           \A r \in SynthesisId \ {s} : gen'[r] = gen[r] /\ verdict'[r] = verdict[r],
           Enqueue(s, TakeBack(s))
    PROVE  WholeInv'
<1>1. PICK events : events = TakeBack(s)
  OBVIOUS
<1>2. PICK e : e = RetractedEvent(s, gen[s].streaming)
  OBVIOUS
<1>3. events = <<e>> /\ e.type = "synthesisRetracted" /\ e.id = s
  BY <1>1, <1>2 DEF TakeBack, RetractedEvent
<1>4. e \in SoundEvent'
  BY <1>2 DEF RetractedEvent, SoundEvent, IInv, GenInv, AnswersTypeOK
<1>5. events \in Seq(SoundEvent')
  BY <1>3, <1>4
<1>6. Owned(s, e) /\ TellsEnd(e)'
  BY <1>3 DEF Owned, AnswerType, TellsEnd, Grounded
<1>7. \A k \in DOMAIN events : events[k] = e
  BY <1>3
<1>8. /\ queue' = [queue EXCEPT ![s] = queue[s] \o events]
      /\ UNCHANGED <<writing, log, answerRow, net, page>>
  BY <1>1, AnswersAssumption DEF AnswersAssumption, Enqueue, pageVars, IInv, ServerInv
<1> QED
  BY <1>3, <1>5, <1>6, <1>7, <1>8, Appends

\* What streaming an answer queues: a start if there was none yet, then prose.
StreamedFirst(s, events) ==
    \A k \in DOMAIN events :
        /\ events[k].type \in {"synthesisStart", "synthesisDelta"} /\ events[k].id = s
        /\ events[k].type = "synthesisStart" => k = 1 /\ ~gen[s].streaming

Streamed(s, from, to) == StartIfNeeded(s) \o Delta(s, from, to)

LEMMA StreamedWork ==
    ASSUME GenInv, NEW s \in SynthesisId, NEW from \in Nat, NEW to \in Nat, NEW events,
           events = Streamed(s, from, to)
    PROVE  events \in Seq(SoundEvent') /\ StreamedFirst(s, events)
<1> USE DEF Streamed, StreamedFirst
<1>1. StartIfNeeded(s) \in Seq(SoundEvent') /\ Delta(s, from, to) \in Seq(SoundEvent')
  BY StartSound, DeltaSound
<1>2. events \in Seq(SoundEvent')
  BY <1>1, ConcatProperties
<1>3. Delta(s, from, to) = <<>> \/ Delta(s, from, to) = <<DeltaEvent(s, Chunks(from, to))>>
  BY DEF Delta
<1>4. /\ DeltaEvent(s, Chunks(from, to)).type = "synthesisDelta"
      /\ DeltaEvent(s, Chunks(from, to)).id = s
      /\ StartEvent(s, Sources[s]).type = "synthesisStart" /\ StartEvent(s, Sources[s]).id = s
  BY DEF DeltaEvent, StartEvent
<1>5. CASE gen[s].streaming
  <2>1. events = Delta(s, from, to)
    BY <1>1, <1>5, ConcatEmptySeq DEF StartIfNeeded
  <2> QED
    BY <1>2, <1>3, <1>4, <1>5, <2>1
<1>6. CASE ~gen[s].streaming
  <2>1. StartIfNeeded(s) = <<StartEvent(s, Sources[s])>>
    BY <1>6 DEF StartIfNeeded
  <2>2. /\ Len(StartIfNeeded(s)) = 1 /\ StartIfNeeded(s)[1] = StartEvent(s, Sources[s])
        /\ Len(Delta(s, from, to)) \in {0, 1}
        /\ Len(Delta(s, from, to)) = 1 =>
              Delta(s, from, to)[1] = DeltaEvent(s, Chunks(from, to))
    BY <1>3, <2>1
  <2>3. ASSUME NEW k \in DOMAIN events
        PROVE  \/ k = 1 /\ events[k] = StartEvent(s, Sources[s])
               \/ k = 2 /\ events[k] = DeltaEvent(s, Chunks(from, to))
    <3>1. /\ DOMAIN events = 1..(1 + Len(Delta(s, from, to)))
          /\ \A j \in 1..(1 + Len(Delta(s, from, to))) :
                events[j] = IF j <= 1 THEN StartIfNeeded(s)[j] ELSE Delta(s, from, to)[j - 1]
      <4>1. /\ Len(events) = 1 + Len(Delta(s, from, to))
            /\ \A j \in 1..(1 + Len(Delta(s, from, to))) :
                  events[j] = IF j <= 1 THEN StartIfNeeded(s)[j] ELSE Delta(s, from, to)[j - 1]
        BY <1>1, <2>2, ConcatProperties
      <4>2. DOMAIN events = 1..Len(events)
        BY <1>2, LenProperties
      <4> QED
        BY <4>1, <4>2
    <3> QED
      BY <2>2, <2>3, <3>1
  <2> QED
    BY <1>2, <1>4, <1>6, <2>3
<1> QED
  BY <1>5, <1>6

LEMMA BeginWhole == ASSUME IInv, WholeInv, NEW s \in SynthesisId, Begin(s) PROVE WholeInv'
<1>1. /\ gen[s].stage = "idle" /\ gen' = [gen EXCEPT ![s].stage = "reading"]
      /\ UNCHANGED verdict
      /\ UNCHANGED <<queue, writing, log, answerRow, net, page>>
  BY DEF Begin, streamVars
<1>2. IInv'
  BY BeginInv
<1>3. s \in Writer /\ queue[s] \in Seq(SoundEvent) /\ queue \in [Writer -> Seq(SoundEvent)]
  BY AnswersAssumption DEF AnswersAssumption, IInv, ServerInv
<1>4. PICK events : events = <<>>
  OBVIOUS
<1>4a. queue' = [queue EXCEPT ![s] = queue[s] \o events]
  BY <1>1, <1>3, <1>4, ConcatEmptySeq
<1>5. gen'[s].streaming = gen[s].streaming /\ \A r \in SynthesisId \ {s} : gen'[r] = gen[r]
  BY <1>1 DEF IInv, GenInv, AnswersTypeOK
<1>6. events \in Seq(SoundEvent') /\ DOMAIN events = {}
  BY <1>4, EmptySeq
<1>7. \A r \in SynthesisId \ {s} : gen'[r] = gen[r] /\ verdict'[r] = verdict[r]
  BY <1>1, <1>5
<1> QED
  BY <1>1, <1>2, <1>4, <1>4a, <1>5, <1>6, <1>7, Appends

LEMMA TextDeltaWhole ==
    ASSUME IInv, WholeInv, NEW s \in SynthesisId, TextDelta(s) PROVE WholeInv'
<1>1. UNCHANGED verdict /\ gen[s].stage = "reading"
  BY DEF TextDelta
<1>2. PICK gate \in NextGates(gen[s].gate),
           arrived \in {gen[s].arrived, gen[s].arrived + 1} :
        \E sentence \in {gen[s].sentence, arrived} :
          LET flushTo == FlushTo(s, gate, sentence)
          IN /\ arrived <= MaxChunks
             /\ gen' = [gen EXCEPT ![s] =
                    [stage |-> "reading", gate |-> gate, arrived |-> arrived,
                     sentence |-> sentence, sent |-> flushTo,
                     streaming |-> @.streaming \/ gate = "answer"]]
             /\ Enqueue(s, IF gate = "answer"
                           THEN StartIfNeeded(s) \o Delta(s, gen[s].sent, flushTo)
                           ELSE <<>>)
  BY DEF TextDelta
<1>3. PICK sentence \in {gen[s].sentence, arrived} :
          LET flushTo == FlushTo(s, gate, sentence)
          IN /\ arrived <= MaxChunks
             /\ gen' = [gen EXCEPT ![s] =
                    [stage |-> "reading", gate |-> gate, arrived |-> arrived,
                     sentence |-> sentence, sent |-> flushTo,
                     streaming |-> @.streaming \/ gate = "answer"]]
             /\ Enqueue(s, IF gate = "answer"
                           THEN StartIfNeeded(s) \o Delta(s, gen[s].sent, flushTo)
                           ELSE <<>>)
  BY <1>2
<1> DEFINE flushTo == FlushTo(s, gate, sentence)
<1>4. gen[s].sent \in Nat /\ gen[s].arrived \in Nat /\ gen[s].sentence \in Nat /\ flushTo \in Nat
  BY DEF IInv, GenInv, AnswersTypeOK, FlushTo
<1>5. PICK events : events = IF gate = "answer"
                             THEN StartIfNeeded(s) \o Delta(s, gen[s].sent, flushTo)
                             ELSE <<>>
  OBVIOUS
<1>6. events \in Seq(SoundEvent') /\ StreamedFirst(s, events)
  <2> HIDE DEF flushTo
  <2>1. CASE gate = "answer"
    <3>1. PICK from \in Nat, to \in Nat : from = gen[s].sent /\ to = flushTo
      BY <1>4
    <3>2. events = Streamed(s, from, to)
      BY <1>5, <2>1, <3>1 DEF Streamed
    <3> QED
      BY <3>1, <3>2, StreamedWork DEF IInv
  <2>2. CASE gate # "answer"
    BY <1>5, <2>2, EmptySeq DEF StreamedFirst
  <2> QED
    BY <2>1, <2>2
<1>7. /\ gen'[s].stage = "reading"
      /\ gen'[s].streaming <=> (gen[s].streaming \/ gate = "answer")
      /\ \A r \in SynthesisId \ {s} : gen'[r] = gen[r]
  BY <1>3 DEF IInv, GenInv, AnswersTypeOK
<1>8. /\ queue' = [queue EXCEPT ![s] = queue[s] \o events]
      /\ UNCHANGED <<writing, log, answerRow, net, page>>
  BY <1>3, <1>5, AnswersAssumption DEF AnswersAssumption, Enqueue, pageVars, IInv, ServerInv
<1>9. IInv'
  BY TextDeltaInv
<1>10. /\ gen[s].streaming => gen'[s].streaming
       /\ gen'[s].stage # "over" /\ ~gen'[s].streaming => events = <<>>
  BY <1>5, <1>7
<1>11. \A k \in DOMAIN events : Owned(s, events[k]) /\ TellsEnd(events[k])'
  BY <1>6 DEF Owned, AnswerType, TellsEnd, StreamedFirst
<1> QED
  BY <1>1, <1>6, <1>7, <1>8, <1>9, <1>10, <1>11, Appends DEF StreamedFirst

\* The done event carries all of the prose; a retraction comes with the verdict.
LEMMA FinishWhole == ASSUME IInv, WholeInv, NEW s \in SynthesisId, Finish(s) PROVE WholeInv'
<1>1. PICK v \in Verdicts(s) :
        /\ verdict' = [verdict EXCEPT ![s] = v]
        /\ IF v = "grounded"
           THEN Enqueue(s, StartIfNeeded(s) \o Delta(s, gen[s].sent, gen[s].arrived)
                             \o <<DoneEvent(s, Chunks(0, gen[s].arrived))>>)
           ELSE Enqueue(s, TakeBack(s))
  BY DEF Finish
<1>2. gen[s].stage = "reading" /\ gen' = [gen EXCEPT ![s].stage = "over"]
  BY DEF Finish
<1>3. /\ gen'[s].stage = "over" /\ gen'[s].streaming = gen[s].streaming
      /\ gen'[s].arrived = gen[s].arrived /\ gen[s].arrived \in Nat /\ gen[s].sent \in Nat
      /\ verdict'[s] = v
      /\ \A r \in SynthesisId \ {s} : gen'[r] = gen[r] /\ verdict'[r] = verdict[r]
  BY <1>1, <1>2 DEF IInv, GenInv, AnswersTypeOK
<1>4. IInv'
  BY FinishInv
<1>5. CASE v = "grounded"
  <2>1. PICK prose : prose = StartIfNeeded(s) \o Delta(s, gen[s].sent, gen[s].arrived)
    OBVIOUS
  <2>2. PICK done : done = DoneEvent(s, Chunks(0, gen[s].arrived))
    OBVIOUS
  <2>3. PICK events : events = prose \o <<done>>
    OBVIOUS
  <2>4. prose \in Seq(SoundEvent') /\ StreamedFirst(s, prose)
    <3>1. PICK from \in Nat, to \in Nat : from = gen[s].sent /\ to = gen[s].arrived
      BY <1>3
    <3>2. prose = Streamed(s, from, to)
      BY <2>1, <3>1 DEF Streamed
    <3> QED
      BY <3>2, StreamedWork DEF IInv
  <2>5. /\ done.type = "synthesisDone" /\ done.id = s
        /\ done.text = Chunks(0, gen'[s].arrived)
    BY <1>3, <2>2 DEF DoneEvent
  <2>6. done \in SoundEvent'
    <3>1. s \in Grounded' /\ Chunks(0, gen[s].arrived) \in Seq(Nat)
      BY <1>3, <1>5, DeltaSound DEF Grounded
    <3> QED
      BY <2>2, <3>1 DEF DoneEvent, SoundEvent
  <2>7. /\ <<done>> \in Seq(SoundEvent') /\ Len(<<done>>) = 1 /\ <<done>>[1] = done
    BY <2>6
  <2>8. /\ events \in Seq(SoundEvent')
        /\ Len(events) = Len(prose) + 1 /\ DOMAIN events = 1..Len(events)
        /\ Len(prose) \in Nat /\ DOMAIN prose = 1..Len(prose)
        /\ \A k \in 1..(Len(prose) + 1) :
              events[k] = IF k <= Len(prose) THEN prose[k] ELSE <<done>>[k - Len(prose)]
    BY <2>3, <2>4, <2>7, ConcatProperties, LenProperties
  <2>9. \A k \in DOMAIN events : (k \in DOMAIN prose /\ events[k] = prose[k]) \/ events[k] = done
    <3> SUFFICES ASSUME NEW k \in DOMAIN events
                 PROVE  (k \in DOMAIN prose /\ events[k] = prose[k]) \/ events[k] = done
      OBVIOUS
    <3>1. CASE k <= Len(prose)
      BY <2>8, <3>1
    <3>2. CASE ~(k <= Len(prose))
      <4>1. k - Len(prose) = 1
        BY <2>8, <3>2
      <4> QED
        BY <2>7, <2>8, <3>2, <4>1
    <3> QED
      BY <3>1, <3>2
  <2>10. \A k \in DOMAIN events :
            /\ Owned(s, events[k])
            /\ events[k].type = "synthesisStart" => k = 1 /\ ~gen[s].streaming
    BY <2>4, <2>5, <2>9 DEF Owned, AnswerType, StreamedFirst
  <2>11. \A k \in DOMAIN events : TellsEnd(events[k])'
    BY <2>4, <2>5, <2>9 DEF TellsEnd, Prose, StreamedFirst
  <2>12. /\ queue' = [queue EXCEPT ![s] = queue[s] \o events]
         /\ UNCHANGED <<writing, log, answerRow, net, page>>
    BY <1>1, <1>5, <2>1, <2>2, <2>3, AnswersAssumption
    DEF AnswersAssumption, Enqueue, pageVars, IInv, ServerInv
  <2>13. /\ gen[s].stage # "over" /\ gen'[s].stage = "over" /\ events \in Seq(SoundEvent')
         /\ gen[s].streaming => gen'[s].streaming
    BY <1>2, <1>3, <2>8
  <2>14. \A r \in SynthesisId \ {s} : gen'[r] = gen[r] /\ verdict'[r] = verdict[r]
    BY <1>3
  <2> QED
    BY <1>4, <2>10, <2>11, <2>12, <2>13, <2>14, Appends
<1>6. CASE v # "grounded"
  <2>1. Enqueue(s, TakeBack(s))
    BY <1>1, <1>6
  <2> QED
    BY <1>2, <1>3, <1>4, <1>6, <2>1, TakeBackWhole
<1> QED
  BY <1>5, <1>6

LEMMA SynthesizerFailsWhole ==
    ASSUME IInv, WholeInv, NEW s \in SynthesisId, SynthesizerFails(s) PROVE WholeInv'
<1>1. /\ gen[s].stage = "reading" /\ gen' = [gen EXCEPT ![s].stage = "over"]
      /\ verdict' = [verdict EXCEPT ![s] = "failed"]
  BY DEF SynthesizerFails
<1>2. /\ gen'[s].stage = "over" /\ gen'[s].streaming = gen[s].streaming /\ verdict'[s] # "grounded"
      /\ \A r \in SynthesisId \ {s} : gen'[r] = gen[r] /\ verdict'[r] = verdict[r]
  BY <1>1 DEF IInv, GenInv, AnswersTypeOK
<1>3. IInv'
  BY SynthesizerFailsInv
<1>4. CASE gen[s].streaming
  BY <1>1, <1>2, <1>3, <1>4, TakeBackWhole DEF SynthesizerFails
<1>5. CASE ~gen[s].streaming
  <2>1. UNCHANGED <<queue, writing, log, answerRow, net, page>>
    BY <1>5 DEF SynthesizerFails, streamVars
  <2>2. s \in Writer /\ queue[s] \in Seq(SoundEvent) /\ queue \in [Writer -> Seq(SoundEvent)]
    BY AnswersAssumption DEF AnswersAssumption, IInv, ServerInv
  <2>3. PICK events : events = <<>>
    OBVIOUS
  <2>4. queue' = [queue EXCEPT ![s] = queue[s] \o events]
    BY <2>1, <2>2, <2>3, ConcatEmptySeq
  <2>5. events \in Seq(SoundEvent') /\ DOMAIN events = {}
    BY <2>3, EmptySeq
  <2>6. gen[s].stage # "over" /\ gen'[s].stage = "over" /\ ~gen[s].streaming
    BY <1>1, <1>2, <1>5
  <2> QED
    BY <1>2, <1>3, <2>1, <2>4, <2>5, <2>6, Appends
<1> QED
  BY <1>4, <1>5

-----------------------------------------------------------------------------
(***************************************************************************)
(* The writers move work from the chains to the rows, the log and the wire.*)
(***************************************************************************)
LEMMA OutGrows ==
    ASSUME NEW w \in Writer,
           \A v \in Writer \ {w} : queue'[v] = queue[v] /\ writing'[v] = writing[v],
           queue'[w] = queue[w] \/ writing'[w].stage = "idle",
           \A i \in DOMAIN log' : log'[i] \in Out \cup {Work(w)},
           \A m \in net' : m.event \in Out \cup {Work(w)}
    PROVE  Out' \subseteq Out \cup {Work(w)}
<1> SUFFICES ASSUME NEW v \in Writer, writing'[v].stage # "idle"
             PROVE  Head(queue'[v]) \in Out \cup {Work(w)}
  BY DEF Out, Work
<1>1. CASE v = w
  BY <1>1 DEF Work
<1>2. CASE v # w
  BY <1>2 DEF Out, Work
<1> QED
  BY <1>1, <1>2

\* A step of chain w that writes no answer's row: its first event goes on, or is
\* done with, and what is out besides tells nothing of a start or an end.
LEMMA WriterMoves ==
    ASSUME IInv, IInv', WholeInv, NEW w \in Writer, queue[w] # <<>>,
           UNCHANGED <<gen, verdict, page, answerRow>>,
           Out' \subseteq Out \cup {Work(w)},
           Out' \subseteq Out \/ Work(w).type \notin {"synthesisStart", "synthesisDone"},
           \A v \in Writer \ {w} : queue'[v] = queue[v] /\ writing'[v] = writing[v],
           \/ queue'[w] = queue[w] /\ writing'[w].stage # "idle"
           \/ \A k \in DOMAIN queue'[w] :
                 \E j \in DOMAIN queue[w] : j # 1 /\ queue'[w][k] = queue[w][j]
    PROVE  WholeInv'
<1>1. Work(w) \in ToSet(queue[w]) /\ Owned(w, Work(w)) /\ TellsEnd(Work(w))
  BY OutSound DEF WholeInv, OwnWork, EndsTell
<1>2. \A v \in Writer : ToSet(queue'[v]) \subseteq ToSet(queue[v])
  <2>1. ToSet(queue'[w]) \subseteq ToSet(queue[w])
    BY DEF ToSet
  <2> QED
    BY <2>1
<1>3. Grounded' = Grounded /\ \A s \in SynthesisId : Prose(s)' = Prose(s)
  BY DEF Grounded, Prose
<1>4. OwnWork'
  BY <1>2 DEF WholeInv, OwnWork, Owned
<1>5. ASSUME NEW s \in SynthesisId, s # w, Untold(s) PROVE Untold(s)'
  <2>1. Work(w).type \in AnswerType => Work(w).id # s
    BY <1>1, <1>5, SoundIds, OutSound DEF Owned
  <2> QED
    BY <1>5, <2>1 DEF Untold
<1>6. StartsFirst'
  <2> SUFFICES ASSUME NEW s \in SynthesisId
      PROVE  /\ \A k \in DOMAIN queue'[s] : queue'[s][k].type = "synthesisStart" => k = 1
             /\ gen'[s].stage # "over" /\ ~gen'[s].streaming => queue'[s] = <<>> /\ Untold(s)'
             /\ queue'[s] # <<>> /\ writing'[s].stage = "idle"
                  /\ Head(queue'[s]).type = "synthesisStart" => Untold(s)'
    BY DEF StartsFirst, Work
  <2>0. s \in Writer
    BY AnswersAssumption DEF AnswersAssumption
  <2>1. CASE s # w
    BY <1>5, <2>0, <2>1 DEF WholeInv, StartsFirst, Work
  <2>2. CASE s = w
    <3>1. gen'[w].stage = "over" \/ gen'[w].streaming
      BY <2>2 DEF WholeInv, StartsFirst
    <3>2. CASE queue'[w] = queue[w] /\ writing'[w].stage # "idle"
      BY <2>2, <3>1, <3>2 DEF WholeInv, StartsFirst
    <3>3. CASE \A k \in DOMAIN queue'[w] :
                  \E j \in DOMAIN queue[w] : j # 1 /\ queue'[w][k] = queue[w][j]
      <4>1. \A k \in DOMAIN queue'[w] : queue'[w][k].type # "synthesisStart"
        BY <2>2, <3>3 DEF WholeInv, StartsFirst
      <4>2. queue'[w] # <<>> => Head(queue'[w]).type # "synthesisStart"
        <5> SUFFICES ASSUME queue'[w] # <<>> PROVE Head(queue'[w]).type # "synthesisStart"
          OBVIOUS
        <5>1. queue'[w] \in Seq(SoundEvent')
          BY DEF IInv, ServerInv
        <5>2. Len(queue'[w]) \in Nat \ {0} /\ DOMAIN queue'[w] = 1..Len(queue'[w])
          BY <5>1, EmptySeq, LenProperties
        <5>3. 1 \in DOMAIN queue'[w] /\ Head(queue'[w]) = queue'[w][1]
          BY <5>2
        <5> QED
          BY <4>1, <5>3
      <4> QED
        BY <2>2, <3>1, <4>1, <4>2
    <3> QED
      BY <3>2, <3>3
  <2> QED
    BY <2>1, <2>2
<1>7. EndsTell'
  <2>1. \A e \in Out \cup {Work(w)} : TellsEnd(e) /\ e \in SoundEvent
    BY <1>1, OutSound DEF WholeInv, EndsTell
  <2>2. ASSUME NEW e \in SoundEvent, TellsEnd(e) PROVE TellsEnd(e)'
    BY <1>3, <2>2, SoundIds DEF TellsEnd, Grounded
  <2>3. \A e \in Out' : TellsEnd(e)'
    BY <2>1, <2>2
  <2>4. \A v \in Writer : \A e \in ToSet(queue'[v]) : TellsEnd(e)'
    BY <1>2, <2>2, OutSound DEF WholeInv, EndsTell
  <2> QED
    BY <2>3, <2>4 DEF EndsTell
<1>8. RowsWhole'
  <2>1. ASSUME NEW e \in Out' PROVE RowTells(e)'
    <3>1. CASE e \in Out
      <4>1. e.type = "synthesisDone" => e.id \in SynthesisId
        BY <3>1, OutSound, SoundIds DEF Grounded
      <4> QED
        BY <1>3, <3>1, <4>1 DEF WholeInv, RowsWhole, RowTells
    <3>2. CASE e \notin Out
      BY <3>2 DEF RowTells
    <3> QED
      BY <3>1, <3>2
  <2> QED
    BY <1>3, <2>1 DEF WholeInv, RowsWhole
<1>9. WholeAnswers(page.syntheses)'
  BY <1>3, SoundAnswerType DEF WholeInv, WholeAnswers, IInv, SoundPage
<1> QED
  BY <1>4, <1>6, <1>7, <1>8, <1>9 DEF WholeInv

\* The row of an answer is written: a start finds none, a done event writes all of
\* the prose, a retraction leaves the text.
LEMMA AnswerRowWhole ==
    ASSUME IInv, IInv', WholeInv, NEW w \in Writer, WriteRow(w), UNCHANGED <<gen, verdict>>,
           Work(w).type \notin CardType
    PROVE  WholeInv'
<1> DEFINE e == Work(w)
           new == WrittenAnswer(answerRow[w], e)
<1>1. /\ queue[w] # <<>> /\ writing[w].stage = "idle"
      /\ writing' = [writing EXCEPT ![w].stage = "row"]
      /\ answerRow' = [answerRow EXCEPT ![e.id] = WrittenAnswer(answerRow[e.id], e)]
      /\ UNCHANGED <<queue, log, net, page>>
  BY DEF WriteRow, Idling, CardType, pageVars, IInv, ServerInv
<1>2. e \in ToSet(queue[w]) /\ Owned(w, e) /\ TellsEnd(e) /\ e \in SoundEvent
  BY <1>1, OutSound DEF WholeInv, OwnWork, EndsTell
<1>3. w \in SynthesisId /\ e.id = w /\ e.type \in AnswerType
  BY <1>2 DEF Owned
<1>4. /\ answerRow'[w] = new
      /\ \A s \in SynthesisId \ {w} : answerRow'[s] = answerRow[s]
      /\ answerRow[w] \in AnswerRow
  BY <1>1, <1>3 DEF IInv, ServerInv
<1>5. Out' \subseteq Out \cup {e}
  <2>1. \A v \in Writer \ {w} : queue'[v] = queue[v] /\ writing'[v] = writing[v]
    BY <1>1 DEF IInv, ServerInv
  <2>2. /\ \A i \in DOMAIN log' : log'[i] \in Out \cup {Work(w)}
        /\ \A m \in net' : m.event \in Out \cup {Work(w)}
    BY <1>1 DEF Out
  <2> QED
    BY <1>1, <2>1, <2>2, OutGrows
<1>6. Grounded' = Grounded /\ \A s \in SynthesisId : Prose(s)' = Prose(s)
  BY DEF Grounded, Prose
\* What each of the three events makes of the row.
<1>7. /\ answerRow[w].status # "none" => new.status # "none"
      /\ e.type = "synthesisStart" => new.status # "none"
      /\ \A f \in Out \cup {e} : f.type = "synthesisDone" /\ f.id = w =>
            new.status = "none" \/ new.text = Prose(w)
      /\ new.status = "done" => new.text = Prose(w)
      /\ w \in DOMAIN page.syntheses =>
            /\ new.status # "none"
            /\ ~page.syntheses[w].streaming => new.text = Prose(w)
  <2>1. CASE e.type = "synthesisStart"
    <3>1. new = [status |-> "running", sources |-> e.sources, text |-> <<>>]
      BY <2>1 DEF WrittenAnswer
    <3>2. Untold(w)
      BY <1>1, <1>3, <2>1 DEF WholeInv, StartsFirst
    <3>3. w \notin DOMAIN page.syntheses
      BY <3>2 DEF Untold, WholeInv, WholeAnswers
    <3>4. \A f \in Out \cup {e} : ~(f.type = "synthesisDone" /\ f.id = w)
      BY <2>1, <3>2 DEF Untold, AnswerType
    <3> QED
      BY <3>1, <3>3, <3>4
  <2>2. CASE e.type = "synthesisDone"
    <3>1. e.text = Prose(w)
      BY <1>2, <1>3, <2>2 DEF TellsEnd
    <3>2. CASE answerRow[w].status = "none"
      <4>1. new = answerRow[w]
        BY <2>2, <3>2 DEF WrittenAnswer
      <4>2. w \notin DOMAIN page.syntheses
        BY <3>2 DEF WholeInv, WholeAnswers
      <4> QED
        BY <2>2, <3>2, <4>1, <4>2
    <3>3. CASE answerRow[w].status # "none"
      <4>1. new = [answerRow[w] EXCEPT !.status = "done", !.text = e.text]
        BY <2>2, <3>3 DEF WrittenAnswer
      <4>2. new.status = "done" /\ new.text = Prose(w)
        BY <1>4, <3>1, <4>1 DEF AnswerRow
      <4> HIDE DEF new
      <4> QED
        BY <4>2
    <3> QED
      BY <3>2, <3>3
  <2>3. CASE e.type = "synthesisRetracted"
    <3>1. new.text = answerRow[w].text /\ new.status \in {answerRow[w].status, "retracted"}
      BY <1>4, <2>3 DEF WrittenAnswer, AnswerRow
    <3>2. w \notin Grounded
      BY <1>2, <1>3, <2>3 DEF TellsEnd
    <3>3. \A f \in Out \cup {e} : ~(f.type = "synthesisDone" /\ f.id = w)
      BY <2>3, <3>2, OutSound, SoundIds
    <3>4. answerRow[w].status # "done"
      BY <1>3, <3>2 DEF IInv, ServerInv
    <3> HIDE DEF new
    <3> QED
      BY <2>3, <3>1, <3>3, <3>4 DEF WholeInv, WholeAnswers
  <2>4. CASE e.type = "synthesisDelta"
    <3>1. new = answerRow[w]
      BY <2>4 DEF WrittenAnswer
    <3> QED
      BY <1>3, <2>4, <3>1 DEF WholeInv, WholeAnswers, RowsWhole, RowTells
  <2> QED
    BY <1>3, <2>1, <2>2, <2>3, <2>4 DEF AnswerType
<1> HIDE DEF new
<1>8. OwnWork'
  BY <1>1 DEF WholeInv, OwnWork, Owned
<1>9. StartsFirst'
  <2> SUFFICES ASSUME NEW s \in SynthesisId
      PROVE  /\ \A k \in DOMAIN queue'[s] : queue'[s][k].type = "synthesisStart" => k = 1
             /\ gen'[s].stage # "over" /\ ~gen'[s].streaming => queue'[s] = <<>> /\ Untold(s)'
             /\ queue'[s] # <<>> /\ writing'[s].stage = "idle"
                  /\ Head(queue'[s]).type = "synthesisStart" => Untold(s)'
    BY DEF StartsFirst, Work
  <2>1. CASE s # w
    <3>1. s \in Writer
      BY AnswersAssumption DEF AnswersAssumption
    <3>2. writing'[s] = writing[s]
      BY <1>1, <2>1, <3>1 DEF IInv, ServerInv
    <3>3. Untold(s) => Untold(s)'
      BY <1>3, <1>4, <1>5, <2>1 DEF Untold
    <3> QED
      BY <1>1, <3>2, <3>3 DEF WholeInv, StartsFirst, Work
  <2>2. CASE s = w
    <3>1. writing'[w].stage # "idle"
      BY <1>1 DEF IInv, ServerInv
    <3> QED
      BY <1>1, <2>2, <3>1 DEF WholeInv, StartsFirst
  <2> QED
    BY <2>1, <2>2
<1>10. EndsTell'
  <2>1. \A f \in Out \cup {e} : TellsEnd(f) /\ f \in SoundEvent
    BY <1>2, OutSound DEF WholeInv, EndsTell
  <2>2. ASSUME NEW f \in SoundEvent, TellsEnd(f) PROVE TellsEnd(f)'
    BY <1>6, <2>2, SoundIds DEF TellsEnd, Grounded
  <2>3. \A f \in Out' : TellsEnd(f)'
    BY <1>5, <2>1, <2>2
  <2>4. \A v \in Writer : \A f \in ToSet(queue'[v]) : TellsEnd(f)'
    BY <1>1, <2>2, OutSound DEF WholeInv, EndsTell
  <2> QED
    BY <2>3, <2>4 DEF EndsTell
<1>11. RowsWhole'
  <2>1. ASSUME NEW f \in Out' PROVE RowTells(f)'
    <3>1. (f \in Out \cup {e} /\ f \in SoundEvent /\ RowTells(f)) \/ f = e
      BY <1>2, <1>5, OutSound DEF WholeInv, RowsWhole
    <3>2. f.type \in {"synthesisStart", "synthesisDone"} => f.id \in SynthesisId
      BY <1>2, <3>1, SoundIds DEF AnswerType
    <3>3. CASE f.id = w
      BY <1>4, <1>5, <1>6, <1>7, <3>1, <3>2, <3>3 DEF RowTells
    <3>4. CASE f.id # w
      BY <1>3, <1>4, <1>6, <3>1, <3>2, <3>4 DEF RowTells
    <3> QED
      BY <3>3, <3>4
  <2>2. ASSUME NEW s \in SynthesisId, answerRow'[s].status = "done"
        PROVE  answerRow'[s].text = Prose(s)
    BY <1>4, <1>7, <2>2 DEF WholeInv, RowsWhole
  <2> QED
    BY <1>6, <2>1, <2>2 DEF RowsWhole
<1>12. WholeAnswers(page.syntheses)'
  <2>1. \A s \in DOMAIN page.syntheses : s \in SynthesisId
    BY SoundAnswerType DEF IInv, SoundPage
  <2> QED
    BY <1>1, <1>4, <1>6, <1>7, <2>1 DEF WholeInv, WholeAnswers
<1> QED
  BY <1>8, <1>9, <1>10, <1>11, <1>12 DEF WholeInv

LEMMA TailElements ==
    ASSUME NEW S, NEW q \in Seq(S), q # <<>>
    PROVE  \A k \in DOMAIN Tail(q) : k + 1 \in DOMAIN q /\ k + 1 # 1 /\ Tail(q)[k] = q[k + 1]
<1>1. /\ Len(q) \in Nat \ {0} /\ DOMAIN q = 1..Len(q)
      /\ DOMAIN Tail(q) = 1..(Len(q) - 1)
      /\ \A k \in 1..(Len(q) - 1) : Tail(q)[k] = q[k + 1]
  BY HeadTailProperties, LenProperties, EmptySeq
<1> QED
  BY <1>1

LEMMA TailOfTailElements ==
    ASSUME NEW S, NEW q \in Seq(S), Len(q) > 1
    PROVE  \A k \in DOMAIN Tail(Tail(q)) :
              \E j \in DOMAIN q : j # 1 /\ Tail(Tail(q))[k] = q[j]
<1>1. Len(q) \in Nat /\ \A r \in Seq(S) : Len(r) # 0 => r # <<>>
  BY EmptySeq, LenProperties
<1>2. q # <<>>
  BY <1>1
<1>3. Tail(q) \in Seq(S) /\ Len(Tail(q)) = Len(q) - 1
  BY <1>2, HeadTailProperties
<1>4. Len(Tail(q)) # 0
  BY <1>1, <1>3
<1>5. Tail(q) # <<>>
  BY <1>1, <1>3, <1>4
<1>6. \A k \in DOMAIN Tail(Tail(q)) : k + 1 \in DOMAIN Tail(q) /\ Tail(Tail(q))[k] = Tail(q)[k + 1]
  BY <1>3, <1>5, TailElements
<1>7. \A k \in DOMAIN Tail(q) : k + 1 \in DOMAIN q /\ k + 1 # 1 /\ Tail(q)[k] = q[k + 1]
  BY <1>2, TailElements
<1> QED
  BY <1>6, <1>7

LEMMA WriterStepWhole ==
    ASSUME IInv, WholeInv, NEW w \in Writer, AnswerWriterStep(w) PROVE WholeInv'
<1>1. WriterStep(w) /\ UNCHANGED <<gen, verdict>> /\ IInv'
  BY WriterStepInv DEF AnswerWriterStep
<1>2. /\ queue \in [Writer -> Seq(SoundEvent)]
      /\ writing \in [Writer -> [stage : {"idle", "row", "insert", "send"}, id : Nat]]
      /\ writing[w].stage # "idle" => queue[w] # <<>> /\ Work(w) \in Out
  BY DEF IInv, ServerInv, Out
<1>3. queue[w] # <<>> =>
        /\ Work(w) \in SoundEvent
        /\ \A k \in DOMAIN Tail(queue[w]) :
              \E j \in DOMAIN queue[w] : j # 1 /\ Tail(queue[w])[k] = queue[w][j]
  <2> SUFFICES ASSUME queue[w] # <<>>
      PROVE  /\ Work(w) \in SoundEvent
             /\ \A k \in DOMAIN Tail(queue[w]) :
                   \E j \in DOMAIN queue[w] : j # 1 /\ Tail(queue[w])[k] = queue[w][j]
    OBVIOUS
  <2>1. Work(w) \in SoundEvent
    BY WorkSound DEF IInv
  <2>2. \A k \in DOMAIN Tail(queue[w]) :
           k + 1 \in DOMAIN queue[w] /\ k + 1 # 1 /\ Tail(queue[w])[k] = queue[w][k + 1]
    BY <1>2, TailElements
  <2> QED
    BY <2>1, <2>2
<1>4. CASE WriteRow(w)
  <2>1. CASE Work(w).type \in CardType
    <3>1. /\ queue[w] # <<>> /\ writing' = [writing EXCEPT ![w].stage = "row"]
          /\ UNCHANGED <<queue, log, net, page, answerRow>>
      BY <1>4, <2>1 DEF WriteRow, Idling, CardType, pageVars
    <3>2. \A v \in Writer \ {w} : queue'[v] = queue[v] /\ writing'[v] = writing[v]
      BY <1>2, <3>1
    <3>3. queue'[w] = queue[w] /\ writing'[w].stage # "idle"
      BY <1>2, <3>1
    <3>4. Out' \subseteq Out \cup {Work(w)}
      BY <3>1, <3>2, <3>3, OutGrows DEF Out
    <3> QED
      BY <1>1, <2>1, <3>1, <3>2, <3>3, <3>4, WriterMoves DEF CardType
  <2>2. CASE Work(w).type \notin CardType
    BY <1>1, <1>4, <2>2, AnswerRowWhole
  <2> QED
    BY <2>1, <2>2
<1>5. CASE RowFails(w)
  <2>1. /\ queue[w] # <<>> /\ writing[w].stage = "idle"
        /\ UNCHANGED <<log, net, page, answerRow>>
    BY <1>5 DEF RowFails, Idling, pageVars
  <2>2. CASE Work(w).type = "synthesisRetracted"
    <3>1. writing' = [writing EXCEPT ![w].stage = "row"] /\ UNCHANGED queue
      BY <1>5, <2>2 DEF RowFails
    <3>2. \A v \in Writer \ {w} : queue'[v] = queue[v] /\ writing'[v] = writing[v]
      BY <1>2, <3>1
    <3>3. queue'[w] = queue[w] /\ writing'[w].stage # "idle"
      BY <1>2, <3>1
    <3>4. Out' \subseteq Out \cup {Work(w)}
      BY <2>1, <3>2, <3>3, OutGrows DEF Out
    <3> QED
      BY <1>1, <2>1, <2>2, <3>2, <3>3, <3>4, WriterMoves
  <2>3. CASE Work(w).type # "synthesisRetracted"
    <3>1. queue' = [queue EXCEPT ![w] = Abandon(queue[w])] /\ UNCHANGED writing
      BY <1>2, <1>5, <2>3 DEF RowFails
    <3>2. /\ \A v \in Writer \ {w} : queue'[v] = queue[v] /\ writing'[v] = writing[v]
          /\ queue'[w] = Abandon(queue[w]) /\ writing'[w].stage = "idle"
      BY <1>2, <2>1, <3>1
    <3>3. Out' \subseteq Out
      <4> SUFFICES ASSUME NEW v \in Writer, writing'[v].stage # "idle"
                   PROVE  Head(queue'[v]) \in Out
        BY <2>1 DEF Out, Work
      <4> QED
        BY <3>2 DEF Out, Work
    <3>4. \A k \in DOMAIN queue'[w] :
             \E j \in DOMAIN queue[w] : j # 1 /\ queue'[w][k] = queue[w][j]
      <4>1. CASE Abandon(queue[w]) = Tail(queue[w])
        BY <1>3, <2>1, <3>2, <4>1
      <4>2. CASE Abandon(queue[w]) = Tail(Tail(queue[w])) /\ Len(queue[w]) > 1
        <5>1. queue[w] \in Seq(SoundEvent) /\ Len(queue[w]) > 1
          BY <1>2, <4>2
        <5>2. \A k \in DOMAIN Tail(Tail(queue[w])) :
                 \E j \in DOMAIN queue[w] : j # 1 /\ Tail(Tail(queue[w]))[k] = queue[w][j]
          BY <5>1, TailOfTailElements
        <5> QED
          BY <3>2, <4>2, <5>2
      <4> QED
        BY <4>1, <4>2 DEF Abandon
    <3>5. Out' \subseteq Out \cup {Work(w)}
      BY <3>3
    <3> QED
      BY <1>1, <2>1, <3>2, <3>3, <3>4, <3>5, WriterMoves
  <2> QED
    BY <2>2, <2>3
<1>6. CASE DrawId(w)
  <2>1. /\ queue[w] # <<>>
        /\ writing' = [writing EXCEPT ![w] = [stage |-> "insert", id |-> nextId]]
        /\ UNCHANGED <<queue, log, net, page, answerRow>>
    BY <1>2, <1>6 DEF DrawId, Idling, pageVars
  <2>2. \A v \in Writer \ {w} : queue'[v] = queue[v] /\ writing'[v] = writing[v]
    BY <1>2, <2>1
  <2>3. queue'[w] = queue[w] /\ writing'[w].stage # "idle"
    BY <1>2, <2>1
  <2>4. Out' \subseteq Out \cup {Work(w)}
    BY <2>1, <2>2, <2>3, OutGrows DEF Out
  <2>5. Out' \subseteq Out \/ Work(w).type \notin {"synthesisStart", "synthesisDone"}
    BY <1>2, <1>6, <2>4 DEF DrawId, Idling, HasRow
  <2> QED
    BY <1>1, <2>1, <2>2, <2>3, <2>4, <2>5, WriterMoves
<1>7. CASE Commit(w)
  <2>1. /\ queue[w] # <<>> /\ Work(w) \in Out
        /\ log' = Put(log, writing[w].id, Work(w))
        /\ writing' = [writing EXCEPT ![w].stage = "send"]
        /\ UNCHANGED <<queue, net, page, answerRow>>
    BY <1>2, <1>7 DEF Commit, Inserting, pageVars
  <2>2. \A v \in Writer \ {w} : queue'[v] = queue[v] /\ writing'[v] = writing[v]
    BY <1>2, <2>1
  <2>3. queue'[w] = queue[w] /\ writing'[w].stage # "idle"
    BY <1>2, <2>1
  <2>4. \A i \in DOMAIN log' : log'[i] \in Out \cup {Work(w)}
    BY <2>1 DEF Put, Out
  <2>5. Out' \subseteq Out \cup {Work(w)}
    BY <2>1, <2>2, <2>3, <2>4, OutGrows DEF Out
  <2>6. Out' \subseteq Out
    BY <2>1, <2>5
  <2> QED
    BY <1>1, <2>1, <2>2, <2>3, <2>5, <2>6, WriterMoves
<1>8. CASE InsertFails(w)
  <2>1. /\ queue[w] # <<>> /\ Work(w) \in Out
        /\ queue' = [queue EXCEPT ![w] = Tail(queue[w])]
        /\ writing' = [writing EXCEPT ![w] = Idle]
        /\ UNCHANGED <<log, net, page, answerRow>>
    BY <1>2, <1>8 DEF InsertFails, Inserting, pageVars
  <2>2. \A v \in Writer \ {w} : queue'[v] = queue[v] /\ writing'[v] = writing[v]
    BY <1>2, <2>1
  <2>3. queue'[w] = Tail(queue[w]) /\ writing'[w].stage = "idle"
    BY <1>2, <2>1 DEF Idle
  <2>4. Out' \subseteq Out \cup {Work(w)} /\ Out' \subseteq Out
    BY <2>1, <2>2, <2>3, OutGrows DEF Out
  <2>5. \A k \in DOMAIN queue'[w] :
           \E j \in DOMAIN queue[w] : j # 1 /\ queue'[w][k] = queue[w][j]
    BY <1>3, <2>1, <2>3
  <2> QED
    BY <1>1, <2>1, <2>2, <2>4, <2>5, WriterMoves
<1>9. CASE Send(w)
  <2>1. /\ queue[w] # <<>>
        /\ queue' = [queue EXCEPT ![w] = Tail(queue[w])]
        /\ writing' = [writing EXCEPT ![w] = Idle]
        /\ UNCHANGED <<log, page, answerRow>>
        /\ \A m \in net' : m \in net \/ m.event = Work(w)
    BY <1>2, <1>9 DEF Send, Idling, pageVars
  <2>2. \A v \in Writer \ {w} : queue'[v] = queue[v] /\ writing'[v] = writing[v]
    BY <1>2, <2>1
  <2>3. queue'[w] = Tail(queue[w]) /\ writing'[w].stage = "idle"
    BY <1>2, <2>1 DEF Idle
  <2>4. Out' \subseteq Out \cup {Work(w)}
    BY <2>1, <2>2, <2>3, OutGrows DEF Out
  <2>5. Work(w) \in Out
    BY <1>2, <1>3, <1>9, <2>1 DEF Send, Transient, SoundEvent
  <2>6. Out' \subseteq Out
    BY <2>4, <2>5
  <2>7. \A k \in DOMAIN queue'[w] :
           \E j \in DOMAIN queue[w] : j # 1 /\ queue'[w][k] = queue[w][j]
    BY <1>3, <2>1, <2>3
  <2> QED
    BY <1>1, <2>1, <2>2, <2>4, <2>6, <2>7, WriterMoves
<1> QED
  BY <1>1, <1>4, <1>5, <1>6, <1>7, <1>8, <1>9 DEF WriterStep

\* A restart forgets what was queued; what is out stays as it was.
LEMMA CrashWhole == ASSUME IInv, WholeInv, Crash PROVE WholeInv'
<1>1. /\ queue' = [w \in Writer |-> <<>>] /\ writing' = [w \in Writer |-> Idle]
      /\ gen' = [s \in SynthesisId |-> [gen[s] EXCEPT !.stage = "over"]]
      /\ UNCHANGED <<log, answerRow, net, verdict, page>>
  BY DEF Crash, pageVars
<1>2. Out' \subseteq Out
  BY <1>1 DEF Out, Idle
<1>3. \A s \in SynthesisId : gen'[s].stage = "over" /\ Prose(s)' = Prose(s)
  BY <1>1 DEF Prose, IInv, GenInv, AnswersTypeOK
<1>4. Grounded' = Grounded
  BY <1>1 DEF Grounded
<1>5. \A w \in Writer : queue'[w] = <<>> /\ ToSet(queue'[w]) = {} /\ DOMAIN queue'[w] = {}
  BY <1>1 DEF ToSet
<1>6. OwnWork'
  BY <1>5 DEF OwnWork
<1>7. StartsFirst'
  <2>1. SynthesisId \subseteq Writer
    BY AnswersAssumption DEF AnswersAssumption
  <2> QED
    BY <1>3, <1>5, <2>1 DEF StartsFirst
<1>8. EndsTell'
  <2>1. ASSUME NEW e \in Out PROVE TellsEnd(e)'
    BY <1>3, <1>4, <2>1, OutSound, SoundIds DEF WholeInv, EndsTell, TellsEnd, Grounded, AnswerType
  <2> QED
    BY <1>2, <1>5, <2>1 DEF EndsTell
<1>9. RowsWhole'
  <2>1. ASSUME NEW e \in Out PROVE RowTells(e)'
    BY <1>1, <1>3, <2>1, OutSound, SoundIds DEF WholeInv, RowsWhole, RowTells, Grounded
  <2> QED
    BY <1>1, <1>2, <1>3, <2>1 DEF WholeInv, RowsWhole
<1>10. WholeAnswers(page.syntheses)'
  BY <1>1, <1>3, SoundAnswerType DEF WholeInv, WholeAnswers, IInv, SoundPage
<1> QED
  BY <1>6, <1>7, <1>8, <1>9, <1>10 DEF WholeInv

-----------------------------------------------------------------------------
(***************************************************************************)
(* The page.                                                               *)
(***************************************************************************)
\* What b keeps of the finished answers of a.
Keeps(a, b) ==
    \A s \in DOMAIN a : ~a[s].streaming =>
        s \in DOMAIN b /\ ~b[s].streaming /\ b[s].text = a[s].text

\* Whatever event that is out reaches the reducer, and however often, the answers
\* it finishes are whole, and the finished ones stand.
LEMMA DispatchWhole ==
    ASSUME IInv, WholeInv, NEW e \in Out
    PROVE  /\ WholeAnswers(Dispatch(page, e).syntheses)
           /\ Keeps(page.syntheses, Dispatch(page, e).syntheses)
<1> DEFINE a == page.syntheses
<1>1. /\ PageShape(page) /\ SoundAnswers(a) /\ WholeAnswers(a)
      /\ e \in SoundEvent /\ TellsEnd(e) /\ RowTells(e)
  BY OutSound DEF IInv, SoundPage, WholeInv, EndsTell, RowsWhole
<1>2. PICK D \in SUBSET SynthesisId : a \in [D -> Answer]
  BY <1>1 DEF SoundAnswers, PFun
<1>3. ASSUME Dispatch(page, e).syntheses = a
      PROVE  WholeAnswers(Dispatch(page, e).syntheses) /\ Keeps(a, Dispatch(page, e).syntheses)
  BY <1>1, <1>3 DEF Keeps
<1>4. \A b : [page EXCEPT !.syntheses = b].syntheses = b
  BY <1>1 DEF PageShape
<1>5. CASE e.type = "card"
  <2>1. Dispatch(page, e).syntheses = a
    BY <1>1, <1>5 DEF Dispatch, Card, PageShape
  <2> QED
    BY <1>3, <2>1
<1>6. CASE e.type = "cardRetracted"
  <2> DEFINE b == Drop(a, Cascaded(page, e.id))
  <2>1. Dispatch(page, e).syntheses \in {a, b}
    BY <1>1, <1>6 DEF Dispatch, CardRetracted, PageShape
  <2>2. DOMAIN b = D \ Cascaded(page, e.id) /\ \A s \in DOMAIN b : b[s] = a[s]
    BY <1>2 DEF Drop, Restrict
  <2>3. \A s \in D : ~a[s].streaming => s \notin Cascaded(page, e.id)
    BY DEF Cascaded
  <2> HIDE DEF b
  <2>4. WholeAnswers(b) /\ Keeps(a, b)
    BY <1>1, <1>2, <2>2, <2>3 DEF WholeAnswers, Keeps
  <2> QED
    BY <1>3, <2>1, <2>4
<1>7. CASE e.type = "synthesisStart"
  <2> DEFINE r == [sources |-> e.sources, text |-> <<>>,
                   streaming |-> TRUE, pinned |-> FALSE]
             b == Put(a, e.id, r)
  <2>1. \/ Dispatch(page, e).syntheses = a
        \/ Dispatch(page, e).syntheses = b /\ e.id \notin DOMAIN a
    BY <1>4, <1>7 DEF Dispatch, SynthesisStart, Shown
  <2>2. /\ DOMAIN b = D \cup {e.id} /\ b[e.id] = r
        /\ \A s \in D : s # e.id => b[s] = a[s]
    BY <1>2 DEF Put
  <2>3. r.streaming /\ answerRow[e.id].status # "none"
    BY <1>1, <1>7 DEF RowTells
  <2> HIDE DEF r, b
  <2>4. CASE Dispatch(page, e).syntheses = b /\ e.id \notin DOMAIN a
    <3>1. WholeAnswers(b)
      BY <1>1, <1>2, <2>2, <2>3 DEF WholeAnswers
    <3>2. Keeps(a, b)
      BY <1>2, <2>2, <2>4 DEF Keeps
    <3> QED
      BY <2>4, <3>1, <3>2
  <2> QED
    BY <1>3, <2>1, <2>4
<1>8. CASE e.type = "synthesisDelta"
  <2>1. CASE Streaming(page, e.id)
    <3> DEFINE r == [a[e.id] EXCEPT !.text = @ \o e.chunks]
               b == [a EXCEPT ![e.id] = r]
    <3>1. e.id \in D /\ a[e.id].streaming /\ a[e.id] \in Answer
      BY <1>2, <2>1 DEF Streaming, Shown
    <3>2. r.streaming
      BY <3>1 DEF Answer
    <3>3. Dispatch(page, e).syntheses = b
      BY <1>1, <1>8, <2>1 DEF Dispatch, SynthesisDelta, PageShape
    <3> HIDE DEF r
    <3>4. DOMAIN b = D /\ b[e.id] = r /\ \A s \in D : s # e.id => b[s] = a[s]
      BY <1>2, <3>1
    <3> HIDE DEF b
    <3>5. WholeAnswers(b) /\ Keeps(a, b)
      BY <1>1, <1>2, <3>1, <3>2, <3>4 DEF WholeAnswers, Keeps
    <3> QED
      BY <3>3, <3>5
  <2>2. CASE ~Streaming(page, e.id)
    BY <1>3, <1>8, <2>2 DEF Dispatch, SynthesisDelta
  <2> QED
    BY <2>1, <2>2
<1>9. CASE e.type = "synthesisDone"
  <2>1. CASE Shown(page, e.id)
    <3> DEFINE r == [a[e.id] EXCEPT !.text = e.text, !.streaming = FALSE]
               b == [a EXCEPT ![e.id] = r]
    <3>1. e.id \in D /\ a[e.id] \in Answer
      BY <1>2, <2>1 DEF Shown
    <3>2. ~r.streaming /\ r.text = Prose(e.id)
      BY <1>1, <1>9, <3>1 DEF Answer, TellsEnd
    <3>3. /\ answerRow[e.id].status # "none" /\ answerRow[e.id].text = Prose(e.id)
          /\ ~a[e.id].streaming => a[e.id].text = Prose(e.id)
      BY <1>1, <1>2, <1>9, <3>1 DEF WholeAnswers, RowTells
    <3>4. Dispatch(page, e).syntheses = b
      BY <1>1, <1>9, <2>1 DEF Dispatch, SynthesisDone, PageShape
    <3> HIDE DEF r
    <3>5. DOMAIN b = D /\ b[e.id] = r /\ \A s \in D : s # e.id => b[s] = a[s]
      BY <1>2, <3>1
    <3> HIDE DEF b
    <3>6. WholeAnswers(b) /\ Keeps(a, b)
      BY <1>1, <1>2, <3>1, <3>2, <3>3, <3>5 DEF WholeAnswers, Keeps
    <3> QED
      BY <3>4, <3>6
  <2>2. CASE ~Shown(page, e.id)
    BY <1>3, <1>9, <2>2 DEF Dispatch, SynthesisDone
  <2> QED
    BY <2>1, <2>2
<1>10. CASE e.type = "synthesisRetracted"
  <2> DEFINE b == Drop(a, {e.id})
  <2>1. Dispatch(page, e).syntheses = b
    BY <1>1, <1>10 DEF Dispatch, SynthesisRetracted, PageShape
  <2>2. DOMAIN b = D \ {e.id} /\ \A s \in DOMAIN b : b[s] = a[s]
    BY <1>2 DEF Drop, Restrict
  <2>3. \A s \in D : ~a[s].streaming => s # e.id
    BY <1>1, <1>2, <1>10 DEF SoundAnswers, TellsEnd
  <2> HIDE DEF b
  <2>4. WholeAnswers(b) /\ Keeps(a, b)
    BY <1>1, <1>2, <2>2, <2>3 DEF WholeAnswers, Keeps
  <2> QED
    BY <2>1, <2>4
<1> QED
  BY <1>1, <1>5, <1>6, <1>7, <1>8, <1>9, <1>10 DEF SoundEvent

\* A step of the page: nothing more is out, and its answers stay whole.
LEMMA PageWhole ==
    ASSUME WholeInv, IInv, UNCHANGED <<queue, writing, log, answerRow, gen, verdict>>,
           net' \subseteq net, WholeAnswers(page'.syntheses)
    PROVE  WholeInv'
<1>1. Out' \subseteq Out
  BY DEF Out, Work
<1>2. OwnWork' /\ StartsFirst'
  BY <1>1 DEF WholeInv, OwnWork, Owned, StartsFirst, Untold, Work
<1>3. EndsTell' /\ RowsWhole'
  BY <1>1 DEF WholeInv, EndsTell, TellsEnd, RowsWhole, RowTells, Prose, Grounded
<1>4. WholeAnswers(page.syntheses)'
  BY DEF WholeAnswers, Prose
<1> QED
  BY <1>2, <1>3, <1>4 DEF WholeInv

LEMMA PageStepWhole ==
    ASSUME IInv, WholeInv, PageStep, UNCHANGED answerVars
    PROVE  /\ WholeInv'
           /\ phase = "live" => Keeps(page.syntheses, page'.syntheses)
<1> DEFINE a == page.syntheses
<1>1. /\ UNCHANGED <<queue, writing, log, answerRow, gen, verdict>> /\ net' \subseteq net
  BY DEF answerVars, PageStep, OpenPage, SeedCards, SeedAnswers, SeedTranscript, FetchRead,
     FetchFails, ApplyRow, Receive, PinAnswer, serverVars
<1>2. WholeAnswers(a) /\ Keeps(a, a) /\ PageShape(page)
  BY DEF WholeInv, Keeps, IInv, SoundPage
<1>3. ASSUME page'.syntheses = a
      PROVE  WholeInv' /\ (phase = "live" => Keeps(a, page'.syntheses))
  BY <1>1, <1>2, <1>3, PageWhole
<1>4. ASSUME NEW e \in Out, page' = Dispatch(page, e)
      PROVE  WholeInv' /\ (phase = "live" => Keeps(a, page'.syntheses))
  BY <1>1, <1>4, DispatchWhole, PageWhole
<1>5. CASE OpenPage \/ FetchRead \/ FetchFails
  <2>1. page' = page
    BY <1>5 DEF OpenPage, FetchRead, FetchFails
  <2> QED
    BY <1>3, <2>1
<1>6. CASE SeedCards \/ SeedTranscript
  <2>1. \/ page' = page \/ \E c : page' = [page EXCEPT !.cards = c]
        \/ \E t : page' = [page EXCEPT !.transcript = t]
    BY <1>6 DEF SeedCards, SeedTranscript
  <2>2. page'.syntheses = a
    BY <1>2, <2>1 DEF PageShape
  <2> QED
    BY <1>3, <2>2
<1>7. CASE SeedAnswers
  <2>1. phase # "live" /\ page' \in {[page EXCEPT !.syntheses = SeededAnswers], page}
    BY <1>7 DEF SeedAnswers
  <2>2. WholeAnswers(SeededAnswers)
    BY DEF SeededAnswers, WholeAnswers, WholeInv, RowsWhole
  <2>3. CASE page' = page
    BY <1>3, <2>3
  <2>4. CASE page' = [page EXCEPT !.syntheses = SeededAnswers]
    <3>1. page'.syntheses = SeededAnswers
      BY <1>2, <2>4 DEF PageShape
    <3> QED
      BY <1>1, <2>1, <2>2, <3>1, PageWhole
  <2> QED
    BY <2>1, <2>3, <2>4
<1>8. CASE ApplyRow
  <2>1. PICK i \in fetch.rows :
           IF Fresh(i) THEN Hand(i, log[i]) ELSE UNCHANGED <<applied, page, handed>>
    BY <1>8 DEF ApplyRow
  <2>2. log[i] \in Out
    BY <2>1 DEF IInv, WireInv, Out
  <2> QED
    BY <1>3, <1>4, <2>1, <2>2 DEF Hand
<1>9. ASSUME NEW m \in net, Receive(m)
      PROVE  WholeInv' /\ (phase = "live" => Keeps(a, page'.syntheses))
  <2>1. m.event \in Out
    BY DEF Out
  <2> QED
    BY <1>3, <1>4, <1>9, <2>1 DEF Receive, Hand
<1>10. ASSUME NEW s \in SynthesisId, PinAnswer(s)
       PROVE  WholeInv' /\ (phase = "live" => Keeps(a, page'.syntheses))
  <2> DEFINE r == [a[s] EXCEPT !.pinned = TRUE]
             b == [a EXCEPT ![s] = r]
  <2>1. s \in DOMAIN a /\ page' = [page EXCEPT !.syntheses = b]
    BY <1>2, <1>10 DEF PinAnswer, SynthesisPinned, Shown, PageShape
  <2>2. a[s] \in Answer
    BY <2>1, SoundAnswerType DEF IInv, SoundPage
  <2>3. r.streaming = a[s].streaming /\ r.text = a[s].text
    BY <2>2 DEF Answer
  <2> HIDE DEF r
  <2>4. DOMAIN b = DOMAIN a /\ b[s] = r /\ \A q \in DOMAIN a : q # s => b[q] = a[q]
    BY <2>1
  <2> HIDE DEF b
  <2>5. WholeAnswers(b) /\ Keeps(a, b)
    BY <1>2, <2>1, <2>3, <2>4 DEF WholeAnswers, Keeps
  <2>6. page'.syntheses = b
    BY <1>2, <2>1 DEF PageShape
  <2> QED
    BY <1>1, <2>5, <2>6, PageWhole
<1> QED
  BY <1>5, <1>6, <1>7, <1>8, <1>9, <1>10 DEF PageStep

-----------------------------------------------------------------------------
LEMMA InitWhole == Init => WholeInv
<1> SUFFICES ASSUME Init PROVE WholeInv
  OBVIOUS
<1>1. /\ queue \in Scripts /\ writing = [w \in Writer |-> Idle] /\ log = <<>> /\ net = {}
      /\ answerRow = [s \in SynthesisId |-> NoRow] /\ page.syntheses = <<>>
      /\ gen = [s \in SynthesisId |-> NotBegun]
  BY DEF Init, StreamInit, initialAppState
<1>2. Out = {}
  BY <1>1 DEF Out, Idle
<1>3. /\ \A s \in SynthesisId : queue[s] = <<>> /\ answerRow[s].status = "none"
      /\ SynthesisId \subseteq Writer
  BY <1>1, AnswersAssumption DEF AnswersAssumption, NoRow
<1>4. \A w \in Writer : \A e \in ToSet(queue[w]) : e.type \in CardType /\ w \notin SynthesisId
  <2> SUFFICES ASSUME NEW w \in Writer, NEW e \in ToSet(queue[w])
               PROVE  e.type \in CardType /\ w \notin SynthesisId
    OBVIOUS
  <2> DEFINE E == {CardEvent(c) : c \in CardId} \cup {CardRetractedEvent(c) : c \in CardId}
  <2>1. \A f \in E : f.type \in CardType
    BY DEF CardEvent, CardRetractedEvent, CardType
  <2>2. queue[w] \in Seq(E)
    BY <1>1, AnswersAssumption DEF AnswersAssumption
  <2> HIDE DEF E
  <2>3. e \in E
    BY <2>2, LenProperties DEF ToSet
  <2>4. w \notin SynthesisId
    BY <1>3, EmptySeq DEF ToSet
  <2> QED
    BY <2>1, <2>3, <2>4
<1>5. OwnWork
  BY <1>4 DEF OwnWork, Owned
<1>6. StartsFirst
  BY <1>2, <1>3 DEF StartsFirst, Untold
<1>7. EndsTell
  BY <1>2, <1>4 DEF EndsTell, TellsEnd, CardType
<1>8. RowsWhole
  BY <1>2, <1>3 DEF RowsWhole
<1>9. WholeAnswers(page.syntheses)
  BY <1>1 DEF WholeAnswers
<1> QED
  BY <1>5, <1>6, <1>7, <1>8, <1>9 DEF WholeInv

LEMMA NextWhole ==
    IInv /\ WholeInv /\ [Next]_vars =>
        /\ WholeInv'
        /\ phase = "live" => Keeps(page.syntheses, page'.syntheses)
<1> SUFFICES ASSUME IInv, WholeInv, [Next]_vars
             PROVE  WholeInv' /\ (phase = "live" => Keeps(page.syntheses, page'.syntheses))
  OBVIOUS
<1>1. ASSUME UNCHANGED page PROVE Keeps(page.syntheses, page'.syntheses)
  BY <1>1 DEF Keeps
<1>2. ASSUME NEW s \in SynthesisId,
             Begin(s) \/ TextDelta(s) \/ Finish(s) \/ SynthesizerFails(s)
      PROVE  WholeInv' /\ UNCHANGED page
  <2>1. UNCHANGED page
    <3>1. CASE Begin(s)
      BY <3>1 DEF Begin, streamVars
    <3>2. CASE TextDelta(s)
      BY <3>2 DEF TextDelta, Enqueue, pageVars
    <3>3. CASE Finish(s)
      BY <3>3 DEF Finish, Enqueue, pageVars
    <3>4. CASE SynthesizerFails(s)
      BY <3>4 DEF SynthesizerFails, Enqueue, streamVars, pageVars
    <3> QED
      BY <1>2, <3>1, <3>2, <3>3, <3>4
  <2> QED
    BY <1>2, <2>1, BeginWhole, TextDeltaWhole, FinishWhole, SynthesizerFailsWhole
<1>3. ASSUME NEW w \in Writer, AnswerWriterStep(w) PROVE WholeInv' /\ UNCHANGED page
  <2>1. UNCHANGED page
    BY <1>3 DEF AnswerWriterStep, WriterStep, WriteRow, RowFails, DrawId, Commit, InsertFails,
       Send, pageVars
  <2> QED
    BY <1>3, <2>1, WriterStepWhole
<1>4. CASE Crash
  BY <1>1, <1>4, CrashWhole DEF Crash, pageVars
<1>5. CASE PageStep /\ UNCHANGED answerVars
  BY <1>5, PageStepWhole
<1>6. CASE UNCHANGED vars
  <2>1. UNCHANGED <<queue, writing, log, answerRow, gen, verdict, net, page>>
    BY <1>6 DEF vars
  <2>2. WholeAnswers(page'.syntheses)
    BY <2>1 DEF WholeInv
  <2> QED
    BY <1>1, <2>1, <2>2, PageWhole
<1> QED
  BY <1>1, <1>2, <1>3, <1>4, <1>5, <1>6 DEF Next

\* What is known of the text of an answer from its chain to the page, in every
\* reachable state (the sink's chain, persistAndBroadcast and the page's reducer).
THEOREM WholeInductive == Spec => []WholeInv
<1>1. Init => IInv /\ WholeInv
  BY InitInv, InitWhole
<1>2. (IInv /\ WholeInv) /\ [Next]_vars => (IInv /\ WholeInv)'
  BY NextInv, NextWhole
<1> QED
  BY <1>1, <1>2, PTL DEF Spec

\* An answer the page shows as finished has the text of its row, for any number of
\* answers, chunks, losses, failed writes and restarts (synthesisDone carries the
\* full text, and its row is written before its event is stored).
THEOREM FinishedAnswersAreWhole == Spec => []FinishedAnswersWhole
<1>1. WholeInv => FinishedAnswersWhole
  BY DEF WholeInv, WholeAnswers, FinishedAnswersWhole, Finished, Shown
<1> QED
  BY <1>1, WholeInductive, PTL

\* Once the page is live, no replayed start, late delta, doubled done event or
\* retracted source card changes or removes a finished answer (the reducer's
\* synthesis cases and its retraction cascade).
THEOREM FinishedAnswersAlwaysStand == Spec => FinishedAnswersStand
<1>1. IInv /\ WholeInv /\ [Next]_vars =>
        [\A s \in SynthesisId :
            phase = "live" /\ Finished(page, s) =>
              Finished(page', s) /\ page'.syntheses[s].text = page.syntheses[s].text]_streamVars
  BY NextWhole DEF Keeps, Finished, Shown
<1> QED
  BY <1>1, Inductive, WholeInductive, PTL DEF Spec, FinishedAnswersStand

-----------------------------------------------------------------------------
(***************************************************************************)
(* The stream implements the feed: every step of the writers and the page  *)
(* publishes a row, opens the page, delivers a row that was not in the     *)
(* seed and is not among the last delivered, or leaves the feed as it is.  *)
(***************************************************************************)
\* An id belongs to one INSERT, and is visible once that has committed.
IdsInv ==
    /\ nextId \in Nat \ {0} /\ Visible \subseteq EventId /\ \A i \in Visible : i < nextId
    /\ writing \in [Writer -> [stage : {"idle", "row", "insert", "send"}, id : Nat]]
    /\ \A w \in Writer :
         /\ writing[w].stage \in {"idle", "row"} => writing[w].id = 0
         /\ writing[w].stage = "insert" =>
              writing[w].id \in EventId \ Visible /\ writing[w].id < nextId
         /\ writing[w].stage = "send" => writing[w].id \in Visible
    /\ \A v, w \in Writer :
         v # w /\ writing[v].stage = "insert" /\ writing[w].stage = "insert"
         => writing[v].id # writing[w].id

\* Only what is visible is on the wire, in a poll, seeded or handed on, and the seed
\* lies at or below the cursor.
ReachInv ==
    /\ \A m \in net : m.id = 0 \/ m.id \in Visible
    /\ fetch.rows \subseteq Visible /\ (fetch.rows # {} => phase = "live")
    /\ lastSeen \in Visible \cup {0}
    /\ seeded \subseteq Visible /\ \A i \in seeded : i <= lastSeen
    /\ handed \in [EventId -> Nat] /\ \A i \in EventId : handed[i] > 0 => i \in Visible

FeedInv == IdsInv /\ ReachInv

Seed == IF phase = "live" THEN seeded ELSE {}

\* What a step of the stream may be to the feed.
FeedStutters ==
    /\ Visible' = Visible /\ late' = late /\ Seed' = Seed
    /\ handed' = handed /\ applied' = applied
    /\ phase' = "live" <=> phase = "live"

FeedPublishes(i) ==
    /\ i \notin Visible /\ Visible' = Visible \cup {i}
    /\ late' = IF \E j \in Visible : i < j THEN late \cup {i} ELSE late
    /\ UNCHANGED <<phase, seeded, handed, applied>>

FeedOpens ==
    /\ phase # "live" /\ phase' = "live" /\ seeded' \subseteq Visible
    /\ Visible' = Visible /\ UNCHANGED <<late, handed, applied>>

FeedDelivers(i) ==
    /\ phase = "live" /\ i \in Visible \ seeded /\ Fresh(i)
    /\ handed' = [handed EXCEPT ![i] = handed[i] + 1]
    /\ applied' = MarkEventApplied(applied, i)
    /\ Visible' = Visible /\ UNCHANGED <<late, phase, seeded>>

LEMMA FeedInit ==
    ASSUME StreamAssumption, StreamInit
    PROVE  FeedInv /\ Visible = {} /\ late = {} /\ Seed = {} /\ phase # "live"
<1>1. Visible = {} /\ nextId = 1 /\ net = {} /\ fetch = NoFetch /\ seeded = {} /\ late = {}
      /\ handed = [i \in EventId |-> 0] /\ phase = "unopened" /\ lastSeen = 0
  BY DEF StreamInit, Visible
<1>2. writing = [w \in Writer |-> Idle] /\ Idle.stage = "idle" /\ Idle.id = 0
      /\ Idle \in [stage : {"idle", "row", "insert", "send"}, id : Nat]
  BY DEF StreamInit, Idle
<1>3. IdsInv
  BY <1>1, <1>2 DEF IdsInv
<1>4. ReachInv
  BY <1>1 DEF ReachInv, NoFetch
<1> QED
  BY <1>1, <1>3, <1>4 DEF FeedInv, Seed

\* The ids a writer may move on with.
LEMMA WriterIds ==
    ASSUME IdsInv, NEW w \in Writer, NEW r, writing' = [writing EXCEPT ![w] = r],
           r \in [stage : {"idle", "row", "insert", "send"}, id : Nat],
           UNCHANGED <<nextId, log>>,
           r.stage \in {"idle", "row"} => r.id = 0, r.stage # "insert",
           r.stage = "send" => r.id \in Visible
    PROVE  IdsInv'
<1>1. \A v \in Writer : writing'[v] = IF v = w THEN r ELSE writing[v]
  BY DEF IdsInv
<1>2. writing' \in [Writer -> [stage : {"idle", "row", "insert", "send"}, id : Nat]]
  BY DEF IdsInv
<1>3. Visible' = Visible
  BY DEF Visible
<1> QED
  BY <1>1, <1>2, <1>3 DEF IdsInv

LEMMA WriterFeeds ==
    ASSUME StreamAssumption, FeedInv, NEW w \in Writer, WriterStep(w)
    PROVE  FeedInv' /\ (FeedStutters \/ \E i \in EventId : FeedPublishes(i))
<1> DEFINE Stage == [stage : {"idle", "row", "insert", "send"}, id : Nat]
<1>1. UNCHANGED <<phase, fetch, lastSeen, applied, seeded, handed>>
  BY DEF WriterStep, WriteRow, RowFails, DrawId, Commit, InsertFails, Send, pageVars
<1>2. writing[w] \in Stage /\ writing \in [Writer -> Stage]
  BY DEF FeedInv, IdsInv
<1>3. ASSUME UNCHANGED <<log, late, net>> PROVE ReachInv' /\ FeedStutters
  BY <1>1, <1>3 DEF FeedInv, ReachInv, FeedStutters, Visible, Seed
<1>4. CASE WriteRow(w) \/ RowFails(w)
  <2>1. UNCHANGED <<nextId, log, late, net>> /\ writing[w].stage = "idle"
    BY <1>4 DEF WriteRow, RowFails, Idling
  <2>2. writing' = writing \/ writing' = [writing EXCEPT ![w].stage = "row"]
    BY <1>4 DEF WriteRow, RowFails
  <2> DEFINE r == [writing[w] EXCEPT !.stage = "row"]
  <2>3. r \in Stage /\ r.stage = "row" /\ r.id = 0
    BY <1>2, <2>1 DEF FeedInv, IdsInv
  <2>4. writing' = writing \/ writing' = [writing EXCEPT ![w] = r]
    BY <1>2, <2>2
  <2> HIDE DEF r
  <2>5. CASE writing' = writing
    BY <1>3, <2>1, <2>5 DEF FeedInv, IdsInv, Visible
  <2>6. CASE writing' = [writing EXCEPT ![w] = r]
    <3>1. IdsInv'
      BY <2>1, <2>3, <2>6, WriterIds DEF FeedInv
    <3> QED
      BY <1>3, <2>1, <3>1 DEF FeedInv
  <2> QED
    BY <2>4, <2>5, <2>6
<1>5. CASE InsertFails(w)
  <2>1. UNCHANGED <<nextId, log, late, net>> /\ writing' = [writing EXCEPT ![w] = Idle]
    BY <1>5 DEF InsertFails
  <2>2. Idle \in Stage /\ Idle.stage = "idle" /\ Idle.id = 0
    BY DEF Idle
  <2>3. IdsInv'
    BY <2>1, <2>2, WriterIds DEF FeedInv
  <2> QED
    BY <1>3, <2>1, <2>3 DEF FeedInv
<1>6. CASE DrawId(w)
  <2> DEFINE r == [stage |-> "insert", id |-> nextId]
  <2>1. /\ UNCHANGED <<log, late, net>> /\ writing' = [writing EXCEPT ![w] = r]
        /\ nextId <= MaxEventId /\ nextId' = nextId + 1
    BY <1>6 DEF DrawId
  <2>2. \A v \in Writer : writing'[v] = IF v = w THEN r ELSE writing[v]
    BY <1>2, <2>1
  <2>3. nextId \in Nat /\ nextId \notin Visible /\ r \in Stage /\ MaxEventId \in Nat
    BY StreamAssumption DEF FeedInv, IdsInv, StreamAssumption
  <2>4. IdsInv'
    <3>1. /\ writing' \in [Writer -> Stage] /\ nextId' \in Nat \ {0}
          /\ Visible' = Visible /\ Visible \subseteq EventId
      BY <1>2, <2>1, <2>3 DEF Visible, FeedInv, IdsInv
    <3>2. nextId \in EventId
      <4>1. nextId # 0
        BY DEF FeedInv, IdsInv
      <4> QED
        BY <2>1, <2>3, <4>1 DEF EventId
    <3>3. \A i \in Visible : i < nextId'
      BY <2>1, <2>3 DEF FeedInv, IdsInv, EventId
    <3>4. ASSUME NEW v \in Writer
          PROVE  /\ writing'[v].stage \in {"idle", "row"} => writing'[v].id = 0
                 /\ writing'[v].stage = "insert" =>
                      writing'[v].id \in EventId \ Visible /\ writing'[v].id < nextId'
                 /\ writing'[v].stage = "send" => writing'[v].id \in Visible
      <4>1. CASE v = w
        BY <2>1, <2>2, <2>3, <3>2, <4>1
      <4>2. CASE v # w
        BY <2>1, <2>2, <2>3, <4>2 DEF FeedInv, IdsInv
      <4> QED
        BY <4>1, <4>2
    <3>5. ASSUME NEW u \in Writer, NEW v \in Writer, u # v,
                 writing'[u].stage = "insert", writing'[v].stage = "insert"
          PROVE  writing'[u].id # writing'[v].id
      BY <2>2, <2>3, <3>5 DEF FeedInv, IdsInv
    <3> QED
      BY <3>1, <3>3, <3>4, <3>5 DEF IdsInv
  <2> QED
    BY <1>3, <2>1, <2>4 DEF FeedInv
<1>7. CASE Commit(w)
  <2> DEFINE i == writing[w].id
             r == [writing[w] EXCEPT !.stage = "send"]
  <2>1. /\ writing[w].stage = "insert" /\ log' = Put(log, i, Work(w))
        /\ writing' = [writing EXCEPT ![w].stage = "send"] /\ UNCHANGED <<nextId, net>>
        /\ late' = IF \E j \in Visible : i < j THEN late \cup {i} ELSE late
    BY <1>7 DEF Commit, Inserting, Visible
  <2>2. i \in EventId /\ i \notin Visible /\ i < nextId
    BY <2>1 DEF FeedInv, IdsInv
  <2>3. Visible' = Visible \cup {i}
    BY <2>1 DEF Visible, Put
  <2>4. r \in Stage /\ r.stage = "send" /\ r.id = i
    BY <1>2
  <2>5. writing' = [writing EXCEPT ![w] = r] /\ writing' \in [Writer -> Stage]
    BY <1>2, <2>1, <2>4
  <2>6. \A v \in Writer : writing'[v] = IF v = w THEN r ELSE writing[v]
    BY <1>2, <2>5
  <2> HIDE DEF i, r
  <2>7. IdsInv'
    <3>1. \A v \in Writer \ {w} : writing[v].stage = "insert" => writing[v].id # i
      BY <2>1 DEF FeedInv, IdsInv, i
    <3>2. nextId' \in Nat \ {0} /\ Visible' \subseteq EventId /\ \A j \in Visible' : j < nextId'
      BY <2>1, <2>2, <2>3 DEF FeedInv, IdsInv
    <3>3. ASSUME NEW v \in Writer
          PROVE  /\ writing'[v].stage \in {"idle", "row"} => writing'[v].id = 0
                 /\ writing'[v].stage = "insert" =>
                      writing'[v].id \in EventId \ Visible' /\ writing'[v].id < nextId'
                 /\ writing'[v].stage = "send" => writing'[v].id \in Visible'
      <4>1. CASE v = w
        BY <2>3, <2>4, <2>6, <4>1
      <4>2. CASE v # w
        BY <2>1, <2>3, <2>6, <3>1, <4>2 DEF FeedInv, IdsInv
      <4> QED
        BY <4>1, <4>2
    <3>4. ASSUME NEW u \in Writer, NEW v \in Writer, u # v,
                 writing'[u].stage = "insert", writing'[v].stage = "insert"
          PROVE  writing'[u].id # writing'[v].id
      BY <2>4, <2>6, <3>4 DEF FeedInv, IdsInv
    <3> QED
      BY <2>5, <3>2, <3>3, <3>4 DEF IdsInv
  <2>8. ReachInv'
    BY <1>1, <2>1, <2>3 DEF FeedInv, ReachInv
  <2>9. FeedPublishes(i)
    BY <1>1, <2>1, <2>2, <2>3 DEF FeedPublishes
  <2> QED
    BY <2>2, <2>7, <2>8, <2>9 DEF FeedInv
<1>8. CASE Send(w)
  <2>1. UNCHANGED <<nextId, log, late>> /\ writing' = [writing EXCEPT ![w] = Idle]
    BY <1>8 DEF Send
  <2>2. Idle \in Stage /\ Idle.stage = "idle" /\ Idle.id = 0
    BY DEF Idle
  <2>3. IdsInv'
    BY <2>1, <2>2, WriterIds DEF FeedInv
  <2>4. Visible' = Visible /\ FeedStutters
    BY <1>1, <2>1 DEF Visible, FeedStutters, Seed
  <2>5. writing[w].id = 0 \/ writing[w].id \in Visible
    BY <1>8 DEF Send, Idling, FeedInv, IdsInv
  <2>6. \A m \in net' : m \in net \/ m.id = writing[w].id
    BY <1>8 DEF Send
  <2>7. ReachInv'
    BY <1>1, <2>4, <2>5, <2>6 DEF FeedInv, ReachInv
  <2> QED
    BY <2>3, <2>4, <2>7 DEF FeedInv
<1> QED
  BY <1>4, <1>5, <1>6, <1>7, <1>8 DEF WriterStep

\* The row that became visible last.
LEMMA NewestRow ==
    ASSUME NEW n \in Nat, NEW S \in SUBSET (1..n), S # {}
    PROVE  Max(S) \in S /\ \A i \in S : i <= Max(S)
<1> DEFINE Bounds == {b \in Nat : \A i \in S : i <= b}
           R == OpToRel(<, Nat)
<1>1. n \in Bounds
  OBVIOUS
<1>2. \A c, b \in Nat : c < b => <<c, b>> \in R
  BY DEF OpToRel
<1>3. IsWellFoundedOn(R, Nat)
  BY NatLessThanWellFounded
<1> HIDE DEF R
<1>4. PICK b \in Bounds : \A c \in Bounds : ~(c < b)
  <2>1. Bounds \subseteq Nat /\ Bounds # {}
    BY <1>1
  <2> HIDE DEF Bounds
  <2>2. \E b \in Bounds : \A c \in Bounds : ~(<<c, b>> \in R)
    BY <1>3, <2>1, WFMin
  <2> QED
    BY <1>2, <2>1, <2>2
<1>5. b \in S
  <2> SUFFICES ASSUME b \notin S PROVE FALSE
    OBVIOUS
  <2>1. \A i \in S : i \in Nat /\ i <= b /\ i # b /\ i >= 1
    OBVIOUS
  <2>2. b \in Nat /\ b - 1 \in Nat
    <3>1. PICK i \in S : TRUE
      OBVIOUS
    <3>2. b \in Nat /\ i \in Nat /\ i >= 1 /\ i <= b
      BY <2>1
    <3> QED
      BY <3>2
  <2>3. b - 1 \in Bounds
    BY <2>1, <2>2
  <2> QED
    BY <1>4, <2>2, <2>3
<1>6. \E x \in S : \A y \in S : x >= y
  BY <1>4, <1>5
<1>7. Max(S) \in S /\ \A y \in S : Max(S) >= y
  BY <1>6 DEF Max
<1> QED
  BY <1>7

\* A row or a broadcast that is fresh is handed to the reducer: it was not seeded.
LEMMA HandFeeds ==
    ASSUME FeedInv, NEW i \in Visible, NEW e, Fresh(i), Hand(i, e), phase = "live",
           UNCHANGED <<log, late, phase, seeded>>
    PROVE  /\ handed' \in [EventId -> Nat] /\ \A j \in EventId : handed'[j] > 0 => j \in Visible
           /\ FeedDelivers(i)
<1>1. i \in EventId /\ handed \in [EventId -> Nat] /\ Visible \subseteq EventId
      /\ Visible' = Visible
  BY DEF FeedInv, IdsInv, ReachInv, Visible
<1>2. handed' = [handed EXCEPT ![i] = handed[i] + 1] /\ applied' = MarkEventApplied(applied, i)
  BY DEF Hand
<1>3. \A j \in EventId : handed'[j] = IF j = i THEN handed[i] + 1 ELSE handed[j]
  BY <1>1, <1>2
<1>4. handed' \in [EventId -> Nat]
  BY <1>1, <1>2
<1>5. \A j \in EventId : handed'[j] > 0 => j \in Visible
  BY <1>1, <1>3 DEF FeedInv, ReachInv
<1>6. i \notin seeded
  <2>1. i \in Nat /\ lastSeen \in Nat /\ i > lastSeen
    BY <1>1, StreamAssumption DEF StreamAssumption, EventId, FeedInv, ReachInv, Fresh
  <2>2. i \in seeded => i <= lastSeen
    BY DEF FeedInv, ReachInv
  <2> QED
    BY <2>1, <2>2
<1> QED
  BY <1>1, <1>2, <1>4, <1>5, <1>6 DEF FeedDelivers

LEMMA PageFeeds ==
    ASSUME FeedInv, PageStep
    PROVE  FeedInv' /\ (FeedStutters \/ FeedOpens \/ \E i \in EventId : FeedDelivers(i))
<1>1. UNCHANGED <<nextId, log, late, writing>>
  BY DEF PageStep, OpenPage, SeedCards, SeedAnswers, SeedTranscript, FetchRead, FetchFails,
     ApplyRow, Receive, PinAnswer, Hand, serverVars
<1>2. /\ IdsInv' /\ Visible' = Visible /\ Visible \subseteq EventId
      /\ \A i \in Visible : i \in Nat /\ i > 0
  <2>1. IdsInv' /\ Visible' = Visible /\ Visible \subseteq EventId
    BY <1>1 DEF FeedInv, IdsInv, Visible
  <2> QED
    BY <2>1, StreamAssumption DEF StreamAssumption, EventId
<1>3. ASSUME UNCHANGED <<phase, seeded, handed, applied>> PROVE FeedStutters
  BY <1>1, <1>2, <1>3 DEF FeedStutters, Seed
<1>4. CASE OpenPage
  <2>1. /\ UNCHANGED <<net, fetch, handed, applied>> /\ seeded' = Visible
        /\ phase = "unopened" /\ phase' \in {"cards", "live"}
        /\ lastSeen' = IF Visible = {} THEN 0 ELSE Max(Visible)
    BY <1>4 DEF OpenPage
  <2>2. lastSeen' \in Visible \cup {0} /\ \A i \in Visible : i <= lastSeen'
    <3>1. MaxEventId \in Nat /\ Visible \subseteq 1..MaxEventId
      BY <1>2, StreamAssumption DEF StreamAssumption, EventId
    <3>2. CASE Visible = {}
      BY <2>1, <3>2
    <3>3. CASE Visible # {}
      <4>1. Max(Visible) \in Visible /\ \A i \in Visible : i <= Max(Visible)
        BY <3>1, <3>3, NewestRow
      <4> QED
        BY <2>1, <3>3, <4>1
    <3> QED
      BY <3>2, <3>3
  <2>3. ReachInv'
    BY <1>2, <2>1, <2>2 DEF FeedInv, ReachInv
  <2>4. CASE phase' = "cards"
    <3>1. FeedStutters
      BY <1>1, <1>2, <2>1, <2>4 DEF FeedStutters, Seed
    <3> QED
      BY <1>2, <2>3, <3>1 DEF FeedInv
  <2>5. CASE phase' = "live"
    <3>1. FeedOpens
      BY <1>1, <1>2, <2>1, <2>5 DEF FeedOpens
    <3> QED
      BY <1>2, <2>3, <3>1 DEF FeedInv
  <2> QED
    BY <2>1, <2>4, <2>5
<1>5. CASE SeedCards \/ SeedAnswers
  <2>1. UNCHANGED <<net, fetch, lastSeen, seeded, handed, applied>>
        /\ phase # "live" /\ phase' # "live"
    BY <1>5 DEF SeedCards, SeedAnswers
  <2>2. ReachInv'
    BY <1>2, <2>1 DEF FeedInv, ReachInv
  <2>3. FeedStutters
    BY <1>1, <1>2, <2>1 DEF FeedStutters, Seed
  <2> QED
    BY <1>2, <2>2, <2>3 DEF FeedInv
<1>6. CASE SeedTranscript
  <2>1. /\ UNCHANGED <<net, fetch, lastSeen, seeded, handed, applied>>
        /\ phase = "transcript" /\ phase' = "live"
    BY <1>6 DEF SeedTranscript
  <2>2. ReachInv'
    BY <1>2, <2>1 DEF FeedInv, ReachInv
  <2>3. FeedOpens
    BY <1>1, <1>2, <2>1 DEF FeedOpens, FeedInv, ReachInv
  <2> QED
    BY <1>2, <2>2, <2>3 DEF FeedInv
<1>7. CASE FetchRead \/ FetchFails \/ \E s \in SynthesisId : PinAnswer(s)
  <2>1. UNCHANGED <<net, phase, lastSeen, seeded, handed, applied>>
    BY <1>7 DEF FetchRead, FetchFails, PinAnswer
  <2>2. fetch'.rows \subseteq Visible /\ (fetch'.rows # {} => phase = "live")
    <3>1. CASE FetchRead
      BY <3>1 DEF FetchRead, RowsAfter
    <3>2. CASE FetchFails
      BY <3>2 DEF FetchFails, NoFetch
    <3>3. ASSUME NEW s, PinAnswer(s) PROVE fetch' = fetch
      BY <3>3 DEF PinAnswer
    <3> QED
      BY <1>7, <3>1, <3>2, <3>3 DEF FeedInv, ReachInv
  <2>3. ReachInv'
    BY <1>2, <2>1, <2>2 DEF FeedInv, ReachInv
  <2> QED
    BY <1>2, <1>3, <2>1, <2>3 DEF FeedInv
<1>8. CASE ApplyRow
  <2>1. PICK i \in fetch.rows :
          /\ IF Fresh(i) THEN Hand(i, log[i]) ELSE UNCHANGED <<applied, page, handed>>
          /\ lastSeen' = IF i > lastSeen THEN i ELSE lastSeen
          /\ fetch' = [rows |-> fetch.rows \ {i}, applying |-> fetch.rows \ {i} # {}]
          /\ UNCHANGED <<phase, seeded, net>>
    BY <1>8 DEF ApplyRow
  <2>2. i \in Visible /\ i \in EventId /\ fetch'.rows \subseteq Visible /\ phase = "live"
    BY <1>2, <2>1 DEF FeedInv, ReachInv
  <2>3. lastSeen' \in Visible \cup {0} /\ \A j \in seeded : j <= lastSeen'
    <3>1. lastSeen \in Visible \cup {0} /\ lastSeen \in Nat /\ i \in Nat
          /\ \A j \in seeded : j \in Nat /\ j <= lastSeen
      BY <1>2, <2>2 DEF FeedInv, ReachInv
    <3> QED
      BY <2>1, <2>2, <3>1
  <2>4. CASE Fresh(i)
    <3>1. Hand(i, log[i])
      BY <2>1, <2>4
    <3>2. /\ handed' \in [EventId -> Nat] /\ \A j \in EventId : handed'[j] > 0 => j \in Visible
          /\ FeedDelivers(i)
      BY <1>1, <2>1, <2>2, <2>4, <3>1, HandFeeds
    <3> QED
      BY <1>2, <2>1, <2>2, <2>3, <3>2 DEF FeedInv, ReachInv
  <2>5. CASE ~Fresh(i)
    <3>1. ReachInv'
      BY <1>2, <2>1, <2>2, <2>3, <2>5 DEF FeedInv, ReachInv
    <3> QED
      BY <1>2, <1>3, <2>1, <2>5, <3>1 DEF FeedInv
  <2> QED
    BY <2>4, <2>5
<1>9. ASSUME NEW m \in net, Receive(m)
      PROVE  FeedInv' /\ (FeedStutters \/ \E i \in EventId : FeedDelivers(i))
  <2>1. /\ phase = "live" /\ net' = net \ {m}
        /\ UNCHANGED <<phase, lastSeen, fetch, seeded>>
        /\ \/ UNCHANGED <<handed, applied>>
           \/ m.id # 0 /\ Fresh(m.id) /\ Hand(m.id, m.event)
    BY <1>9 DEF Receive, Listening
  <2>2. CASE UNCHANGED <<handed, applied>>
    <3>1. ReachInv'
      BY <1>2, <2>1, <2>2 DEF FeedInv, ReachInv
    <3> QED
      BY <1>2, <1>3, <2>1, <2>2, <3>1 DEF FeedInv
  <2>3. CASE m.id # 0 /\ Fresh(m.id) /\ Hand(m.id, m.event)
    <3>1. m.id \in Visible /\ m.id \in EventId
      BY <1>2, <2>3 DEF FeedInv, ReachInv
    <3>2. /\ handed' \in [EventId -> Nat] /\ \A j \in EventId : handed'[j] > 0 => j \in Visible
          /\ FeedDelivers(m.id)
      BY <1>1, <2>1, <2>3, <3>1, HandFeeds
    <3> QED
      BY <1>2, <2>1, <3>1, <3>2 DEF FeedInv, ReachInv
  <2> QED
    BY <2>1, <2>2, <2>3
<1> QED
  BY <1>4, <1>5, <1>6, <1>7, <1>8, <1>9 DEF PageStep

\* Whatever is stored by the writers, in whatever order it becomes visible, reaches the
\* page by seed, broadcast or poll, is lost, fails or comes twice: a step of the stream
\* publishes one row, opens the page, delivers a row that was neither seeded nor is
\* among the last AppliedCap delivered, or is invisible to the feed (EventFeed). That
\* every row that is not late is delivered in the end is left to TLC.
THEOREM StreamImplementsFeed ==
    StreamSpec => Feed!Init /\ [][Feed!Next]_(Feed!vars)
<1>1. StreamInit => FeedInv /\ Feed!Init
  <2> SUFFICES ASSUME StreamInit PROVE FeedInv /\ Feed!Init
    OBVIOUS
  <2>1. handed = [i \in EventId |-> 0] /\ applied = <<>>
    BY DEF StreamInit
  <2> QED
    BY <2>1, FeedInit, StreamAssumption DEF Feed!Init, Seed
<1>2. FeedInv /\ [StreamNext]_streamVars => FeedInv' /\ [Feed!Next]_(Feed!vars)
  <2> SUFFICES ASSUME FeedInv, [StreamNext]_streamVars
               PROVE  FeedInv' /\ [Feed!Next]_(Feed!vars)
    OBVIOUS
  <2>1. ASSUME FeedStutters PROVE UNCHANGED Feed!vars
    <3>1. (phase' = "live") = (phase = "live")
      BY <2>1 DEF FeedStutters
    <3> QED
      BY <2>1, <3>1 DEF FeedStutters, Seed, Feed!vars
  <2>2. ASSUME NEW i \in EventId, FeedDelivers(i) PROVE Feed!Next
    <3>1. \A k \in DOMAIN applied : applied[k] # i
      BY <2>2 DEF FeedDelivers, Fresh, Contains
    <3>2. Feed!Deliver(i)
      BY <2>2, <3>1 DEF FeedDelivers, Fresh, MarkEventApplied, Feed!Deliver
    <3> QED
      BY <3>2 DEF Feed!Next
  <2>3. ASSUME NEW i \in EventId, FeedPublishes(i) PROVE Feed!Next
    <3>1. Feed!Publish(i)
      BY <2>3 DEF FeedPublishes, Feed!Publish
    <3> QED
      BY <3>1 DEF Feed!Next
  <2>4. ASSUME FeedOpens PROVE Feed!Next
    <3>1. seeded' \in SUBSET EventId
      BY <2>4 DEF FeedOpens, FeedInv, IdsInv
    <3>2. Feed!Open(seeded')
      BY <2>4 DEF FeedOpens, Feed!Open
    <3> QED
      BY <3>1, <3>2 DEF Feed!Next, Feed!OpenWithSome
  <2>5. CASE PageStep
    BY <2>1, <2>2, <2>4, <2>5, PageFeeds
  <2>6. ASSUME NEW w \in Writer, WriterStep(w) PROVE FeedInv' /\ [Feed!Next]_(Feed!vars)
    BY <2>1, <2>3, <2>6, StreamAssumption, WriterFeeds
  <2>7. CASE UNCHANGED streamVars
    <3>1. UNCHANGED <<nextId, log, late, writing, net, fetch, lastSeen, seeded, handed,
                      applied, phase>>
      BY <2>7 DEF streamVars
    <3>2. FeedInv' /\ FeedStutters
      BY <3>1 DEF FeedInv, IdsInv, ReachInv, FeedStutters, Seed, Visible
    <3> QED
      BY <2>1, <3>2
  <2> QED
    BY <2>5, <2>6, <2>7 DEF StreamNext
<1> QED
  BY <1>1, <1>2, PTL DEF StreamSpec

-----------------------------------------------------------------------------
(***************************************************************************)
(* What was taken back is gone. An answer whose retraction is stored is    *)
(* off the page once everything is quiet, or an empty shell: its           *)
(* retraction was seeded, or was handed to the reducer.                    *)
(***************************************************************************)
\* An event about answer s, and one that takes it back.
TellsOf(e, s) == e.type \in AnswerType /\ e.id = s

RetractionOf(e, s) == e.type = "synthesisRetracted" /\ e.id = s

TakenBack(S, s) == \E i \in S : RetractionOf(log[i], s)

\* A retraction is the last word of its chain.
LastWords ==
    \A s \in SynthesisId :
        /\ \A k \in DOMAIN queue[s] :
              queue[s][k].type = "synthesisRetracted" => k = Len(queue[s])
        /\ TakenBack(Visible, s) =>
              queue[s] = <<>> \/ (writing[s].stage = "send" /\ Len(queue[s]) = 1)

\* What is sent is what was stored.
SentAsStored ==
    /\ \A w \in Writer : writing[w].stage = "send" => log[writing[w].id] = Work(w)
    /\ \A m \in net : m.id \in Visible /\ m.event = log[m.id]

\* The cursor passes a row that was neither seeded nor handed to the reducer only if
\* it became visible late, and so does a poll.
CursorInv ==
    /\ applied \in Seq(EventId) /\ \A i \in ToSet(applied) : handed[i] > 0
    /\ phase # "live" => net = {}
    /\ phase = "unopened" => seeded = {}
    /\ phase # "unopened" =>
         \A i \in Visible \ late : i <= lastSeen => i \in seeded \/ handed[i] > 0
    /\ \A i \in fetch.rows : \A j \in Visible \ late :
         lastSeen < j /\ j < i => j \in fetch.rows

\* An answer whose retraction was handed to the reducer is gone for good.
Tombstones ==
    /\ \A s \in page.retractedSyntheses : s \notin DOMAIN page.syntheses
    /\ phase # "live" => page.retractedSyntheses = {}
    /\ \A i \in Visible :
         handed[i] > 0 /\ log[i].type = "synthesisRetracted"
         => log[i].id \in page.retractedSyntheses

\* An answer whose retraction was stored before the page opened is an empty shell
\* at most: every event about it is in the seed.
Shells ==
    /\ phase = "unopened" => DOMAIN page.syntheses = {}
    /\ \A s \in SynthesisId :
         answerRow[s].status = "running" => answerRow[s].text = <<>>
    /\ \A s \in SynthesisId : TakenBack(seeded, s) =>
         /\ \A i \in Visible : TellsOf(log[i], s) => i \in seeded
         /\ Shown(page, s) =>
              page.syntheses[s].text = <<>> /\ answerRow[s].status # "retracted"

GoneInv == LastWords /\ SentAsStored /\ CursorInv /\ Tombstones /\ Shells

\* The reducer: a tombstone stays and keeps its answer away, and an event about
\* something else gives an answer no prose.
LEMMA DispatchGone ==
    ASSUME NEW p, SoundPage(p), NEW e \in SoundEvent,
           \A s \in p.retractedSyntheses : s \notin DOMAIN p.syntheses
    PROVE  /\ p.retractedSyntheses \subseteq Dispatch(p, e).retractedSyntheses
           /\ \A s \in Dispatch(p, e).retractedSyntheses :
                s \notin DOMAIN Dispatch(p, e).syntheses
           /\ e.type = "synthesisRetracted" => e.id \in Dispatch(p, e).retractedSyntheses
           /\ \A s \in DOMAIN Dispatch(p, e).syntheses : ~TellsOf(e, s) =>
                /\ s \in DOMAIN p.syntheses
                /\ Dispatch(p, e).syntheses[s] = p.syntheses[s]
<1> DEFINE a == p.syntheses
<1>1. PageShape(p) /\ SoundAnswers(a)
  BY DEF SoundPage
<1>2. CASE e.type = "card"
  <2>1. Dispatch(p, e) = Card(p, e.id)
    BY <1>2 DEF Dispatch
  <2>2. Dispatch(p, e).syntheses = a /\ Dispatch(p, e).retractedSyntheses = p.retractedSyntheses
    BY <1>1, <2>1 DEF Card, PageShape
  <2> QED
    BY <1>2, <2>2
<1>3. CASE e.type = "cardRetracted"
  <2>1. Dispatch(p, e) = CardRetracted(p, e.id)
    BY <1>3 DEF Dispatch
  <2>2. /\ Dispatch(p, e).retractedSyntheses = p.retractedSyntheses
        /\ \/ Dispatch(p, e).syntheses = a
           \/ Dispatch(p, e).syntheses = Drop(a, Cascaded(p, e.id))
    BY <1>1, <2>1 DEF CardRetracted, PageShape
  <2>3. \A s \in DOMAIN Drop(a, Cascaded(p, e.id)) :
          s \in DOMAIN a /\ Drop(a, Cascaded(p, e.id))[s] = a[s]
    BY DEF Drop, Restrict
  <2> QED
    BY <1>3, <2>2, <2>3
<1>4. CASE e.type = "synthesisStart"
  <2>1. Dispatch(p, e) = SynthesisStart(p, e.id, e.sources)
    BY <1>4 DEF Dispatch
  <2> DEFINE r == [sources |-> e.sources, text |-> <<>>,
                   streaming |-> TRUE, pinned |-> FALSE]
  <2>2. CASE Shown(p, e.id) \/ e.id \in p.retractedSyntheses
    BY <1>4, <2>1, <2>2 DEF SynthesisStart
  <2>3. CASE ~(Shown(p, e.id) \/ e.id \in p.retractedSyntheses)
    <3>1. Dispatch(p, e) = [p EXCEPT !.syntheses = Put(a, e.id, r)]
      BY <1>1, <2>1, <2>3 DEF SynthesisStart, PageShape
    <3> HIDE DEF r
    <3>2. /\ Dispatch(p, e).syntheses = Put(a, e.id, r)
          /\ Dispatch(p, e).retractedSyntheses = p.retractedSyntheses
      BY <1>1, <3>1 DEF PageShape
    <3>3. /\ DOMAIN Put(a, e.id, r) = DOMAIN a \cup {e.id}
          /\ \A s \in DOMAIN a : s # e.id => Put(a, e.id, r)[s] = a[s]
      BY DEF Put
    <3> QED
      BY <1>4, <2>3, <3>2, <3>3 DEF TellsOf, AnswerType
  <2> QED
    BY <2>2, <2>3
<1>5. CASE e.type \in {"synthesisDelta", "synthesisDone"}
  <2>1. \/ Dispatch(p, e) = p
        \/ /\ e.id \in DOMAIN a
           /\ \E r : Dispatch(p, e) = [p EXCEPT !.syntheses = [a EXCEPT ![e.id] = r]]
    <3>1. CASE e.type = "synthesisDelta"
      <4>1. Dispatch(p, e) = SynthesisDelta(p, e.id, e.chunks)
        BY <3>1 DEF Dispatch
      <4> DEFINE r == [a[e.id] EXCEPT !.text = @ \o e.chunks]
      <4>2. Streaming(p, e.id) =>
               Dispatch(p, e) = [p EXCEPT !.syntheses = [a EXCEPT ![e.id] = r]]
        BY <1>1, <4>1 DEF SynthesisDelta, PageShape
      <4>3. ~Streaming(p, e.id) => Dispatch(p, e) = p
        BY <4>1 DEF SynthesisDelta
      <4> HIDE DEF r
      <4> QED
        BY <4>2, <4>3 DEF Streaming, Shown
    <3>2. CASE e.type = "synthesisDone"
      <4>1. Dispatch(p, e) = SynthesisDone(p, e.id, e.text)
        BY <3>2 DEF Dispatch
      <4> DEFINE r == [a[e.id] EXCEPT !.text = e.text, !.streaming = FALSE]
      <4>2. Shown(p, e.id) =>
               Dispatch(p, e) = [p EXCEPT !.syntheses = [a EXCEPT ![e.id] = r]]
        BY <1>1, <4>1 DEF SynthesisDone, PageShape
      <4>3. ~Shown(p, e.id) => Dispatch(p, e) = p
        BY <4>1 DEF SynthesisDone
      <4> HIDE DEF r
      <4> QED
        BY <4>2, <4>3 DEF Shown
    <3> QED
      BY <1>5, <3>1, <3>2
  <2>2. CASE Dispatch(p, e) = p
    BY <1>5, <2>2
  <2>3. ASSUME NEW r, Dispatch(p, e) = [p EXCEPT !.syntheses = [a EXCEPT ![e.id] = r]],
               e.id \in DOMAIN a
        PROVE  /\ Dispatch(p, e).retractedSyntheses = p.retractedSyntheses
               /\ DOMAIN Dispatch(p, e).syntheses = DOMAIN a
               /\ \A s \in DOMAIN a : s # e.id => Dispatch(p, e).syntheses[s] = a[s]
    <3>1. /\ Dispatch(p, e).syntheses = [a EXCEPT ![e.id] = r]
          /\ Dispatch(p, e).retractedSyntheses = p.retractedSyntheses
      BY <1>1, <2>3 DEF PageShape
    <3>2. PICK D \in SUBSET SynthesisId : a \in [D -> Answer]
      BY <1>1 DEF SoundAnswers, PFun
    <3> QED
      BY <3>1, <3>2
  <2>4. CASE Dispatch(p, e) # p
    <3>1. /\ Dispatch(p, e).retractedSyntheses = p.retractedSyntheses
          /\ DOMAIN Dispatch(p, e).syntheses = DOMAIN a
          /\ \A s \in DOMAIN a : s # e.id => Dispatch(p, e).syntheses[s] = a[s]
      BY <2>1, <2>3, <2>4
    <3> QED
      BY <1>5, <3>1 DEF TellsOf, AnswerType
  <2> QED
    BY <2>2, <2>4
<1>6. CASE e.type = "synthesisRetracted"
  <2>1. Dispatch(p, e) = SynthesisRetracted(p, e.id)
    BY <1>6 DEF Dispatch
  <2>2. /\ Dispatch(p, e).retractedSyntheses = p.retractedSyntheses \cup {e.id}
        /\ Dispatch(p, e).syntheses = Drop(a, {e.id})
    BY <1>1, <2>1 DEF SynthesisRetracted, PageShape
  <2>3. /\ DOMAIN Drop(a, {e.id}) = DOMAIN a \ {e.id}
        /\ \A s \in DOMAIN Drop(a, {e.id}) : Drop(a, {e.id})[s] = a[s]
    BY DEF Drop, Restrict
  <2> QED
    BY <2>2, <2>3
<1> QED
  BY <1>2, <1>3, <1>4, <1>5, <1>6 DEF SoundEvent

\* An answer that was taken back in the log is over, and was not grounded.
LEMMA TakenBackIsOver ==
    ASSUME WholeInv, NEW s \in SynthesisId, TakenBack(Visible, s)
    PROVE  gen[s].stage = "over" /\ s \notin Grounded
<1>1. PICK i \in Visible : RetractionOf(log[i], s)
  BY DEF TakenBack
<1>2. log[i] \in Out
  BY DEF Out, Visible
<1> QED
  BY <1>1, <1>2 DEF WholeInv, EndsTell, TellsEnd, RetractionOf

\* What a synthesis appends to its chain ends with the retraction, if there is one.
LEMMA AppendsLast ==
    ASSUME IInv, IInv', WholeInv, LastWords, NEW s \in SynthesisId, NEW S, NEW events \in Seq(S),
           gen[s].stage # "over", queue' = [queue EXCEPT ![s] = queue[s] \o events],
           UNCHANGED <<writing, log>>,
           \A k \in DOMAIN events : events[k].type = "synthesisRetracted" => k = Len(events)
    PROVE  LastWords'
<1>1. s \in Writer /\ queue[s] \in Seq(SoundEvent) /\ DOMAIN queue = Writer
  BY AnswersAssumption DEF AnswersAssumption, IInv, ServerInv
<1>2. queue'[s] = queue[s] \o events /\ \A w \in Writer \ {s} : queue'[w] = queue[w]
  BY <1>1
<1>3. \A r \in SynthesisId : TakenBack(Visible, r)' = TakenBack(Visible, r)
  BY DEF TakenBack, Visible, RetractionOf
<1>4. ASSUME NEW k \in DOMAIN queue'[s], queue'[s][k].type = "synthesisRetracted"
      PROVE  k = Len(queue'[s])
  <2>1. \A j \in DOMAIN queue[s] : queue[s][j].type # "synthesisRetracted"
    <3> SUFFICES ASSUME NEW j \in DOMAIN queue[s], queue[s][j].type = "synthesisRetracted"
                 PROVE  FALSE
      OBVIOUS
    <3>1. queue[s][j] \in ToSet(queue[s])
      BY DEF ToSet
    <3>2. queue[s][j].id = s /\ gen[queue[s][j].id].stage = "over"
      BY <1>1, <3>1 DEF WholeInv, OwnWork, Owned, EndsTell, TellsEnd
    <3> QED
      BY <3>2
  <2>2. PICK T : queue[s] \in Seq(T) /\ events \in Seq(T)
    <3>1. queue[s] \in Seq(SoundEvent \cup S) /\ events \in Seq(SoundEvent \cup S)
      BY <1>1, SeqMonotonic
    <3> QED
      BY <3>1
  <2>3. /\ Len(queue[s]) \in Nat /\ DOMAIN queue[s] = 1..Len(queue[s])
        /\ Len(events) \in Nat /\ DOMAIN events = 1..Len(events)
        /\ Len(queue'[s]) = Len(queue[s]) + Len(events)
        /\ DOMAIN queue'[s] = 1..(Len(queue[s]) + Len(events))
        /\ \A j \in 1..(Len(queue[s]) + Len(events)) :
              queue'[s][j] = IF j <= Len(queue[s]) THEN queue[s][j] ELSE events[j - Len(queue[s])]
    BY <1>2, <2>2, ConcatProperties, LenProperties
  <2>4. ~(k <= Len(queue[s]))
    BY <1>4, <2>1, <2>3
  <2>5. k - Len(queue[s]) \in DOMAIN events
        /\ events[k - Len(queue[s])].type = "synthesisRetracted"
    BY <1>4, <2>3, <2>4
  <2>6. k - Len(queue[s]) = Len(events)
    BY <2>5
  <2> QED
    BY <2>3, <2>6
<1>5. ~TakenBack(Visible, s)
  BY TakenBackIsOver
<1>6. SynthesisId \subseteq Writer
  BY AnswersAssumption DEF AnswersAssumption
<1> QED
  BY <1>2, <1>3, <1>4, <1>5, <1>6 DEF LastWords

\* A step that touches neither the log nor the rows nor the page.
LEMMA LogFrame ==
    ASSUME CursorInv, Tombstones, Shells, UNCHANGED pageVars, UNCHANGED <<log, late, answerRow>>,
           phase # "live" => net' = net
    PROVE  CursorInv' /\ Tombstones' /\ Shells'
<1>1. UNCHANGED <<phase, page, lastSeen, applied, fetch, seeded, handed, log, late,
                  answerRow>>
  BY DEF pageVars
<1>2. CursorInv'
  BY <1>1 DEF CursorInv, Visible
<1>3. Tombstones'
  BY <1>1 DEF Tombstones, Visible
<1>4. Shells'
  BY <1>1 DEF Shells, Visible, TakenBack, TellsOf, RetractionOf, Shown
<1> QED
  BY <1>2, <1>3, <1>4

LEMMA EnqueueGone ==
    ASSUME IInv, IInv', WholeInv, GoneInv, NEW s \in SynthesisId, NEW S, NEW events \in Seq(S),
           gen[s].stage # "over", Enqueue(s, events),
           \A k \in DOMAIN events : events[k].type = "synthesisRetracted" => k = Len(events)
    PROVE  GoneInv'
<1>1. /\ queue' = [queue EXCEPT ![s] = queue[s] \o events]
      /\ UNCHANGED <<writing, log, late, answerRow, net>> /\ UNCHANGED pageVars
  BY AnswersAssumption DEF AnswersAssumption, Enqueue, IInv, ServerInv
<1>2. LastWords'
  BY <1>1, AppendsLast DEF GoneInv
<1>3. SentAsStored'
  <2>1. \A w \in Writer : writing[w].stage = "send" => Head(queue'[w]) = Work(w)
    <3> SUFFICES ASSUME NEW w \in Writer, writing[w].stage = "send"
                 PROVE  Head(queue'[w]) = Work(w)
      OBVIOUS
    <3>1. queue \in [Writer -> Seq(SoundEvent)] /\ queue[w] # <<>>
      BY DEF IInv, ServerInv
    <3>2. CASE w # s
      BY <1>1, <3>1, <3>2 DEF Work
    <3>3. CASE w = s
      <4>1. queue'[s] = queue[s] \o events
        BY <1>1, <3>1, <3>3
      <4>2. queue[s] \in Seq(SoundEvent \cup S) /\ events \in Seq(SoundEvent \cup S)
        BY <3>1, <3>3, SeqMonotonic
      <4>3. /\ Len(queue[s]) \in Nat \ {0} /\ Len(events) \in Nat
            /\ \A i \in 1..(Len(queue[s]) + Len(events)) : (queue[s] \o events)[i] =
                 IF i <= Len(queue[s]) THEN queue[s][i] ELSE events[i - Len(queue[s])]
        BY <3>1, <3>3, <4>2, ConcatProperties, LenProperties, EmptySeq
      <4>4. queue'[s][1] = queue[s][1]
        BY <4>1, <4>3
      <4> QED
        BY <3>3, <4>4 DEF Work
    <3> QED
      BY <3>2, <3>3
  <2> QED
    BY <1>1, <2>1 DEF GoneInv, SentAsStored, Visible, Work
<1> QED
  BY <1>1, <1>2, <1>3, LogFrame DEF GoneInv

LEMMA StreamStutters == ASSUME GoneInv, UNCHANGED streamVars PROVE GoneInv'
<1>1. /\ UNCHANGED <<queue, writing, log, late, answerRow, net, phase>>
      /\ UNCHANGED pageVars
  BY DEF streamVars, pageVars
<1>2. LastWords' /\ SentAsStored'
  BY <1>1 DEF GoneInv, LastWords, SentAsStored, TakenBack, RetractionOf, Visible, Work
<1> QED
  BY <1>1, <1>2, LogFrame DEF GoneInv

\* The synthesis queues its retraction once, as the last of its events.
LEMMA SynthesisGone ==
    ASSUME IInv, IInv', WholeInv, GoneInv, NEW s \in SynthesisId,
           Begin(s) \/ TextDelta(s) \/ Finish(s) \/ SynthesizerFails(s)
    PROVE  GoneInv'
<1>1. gen[s].sent \in Nat /\ gen[s].arrived \in Nat /\ gen[s].sentence \in Nat
  BY DEF IInv, GenInv, AnswersTypeOK
<1>2. /\ TakeBack(s) \in Seq({RetractedEvent(s, gen[s].streaming)})
      /\ Len(TakeBack(s)) = 1 /\ DOMAIN TakeBack(s) = {1}
  BY DEF TakeBack
<1>3. CASE Begin(s)
  BY <1>3, StreamStutters DEF Begin
<1>4. CASE TextDelta(s)
  <2>1. /\ gen[s].stage # "over"
        /\ \E gate \in NextGates(gen[s].gate),
              arrived \in {gen[s].arrived, gen[s].arrived + 1} :
             \E sentence \in {gen[s].sentence, arrived} :
               Enqueue(s, IF gate = "answer"
                          THEN StartIfNeeded(s)
                                 \o Delta(s, gen[s].sent, FlushTo(s, gate, sentence))
                          ELSE <<>>)
    BY <1>4 DEF TextDelta
  <2>2. PICK gate \in NextGates(gen[s].gate), sentence \in Nat :
          Enqueue(s, IF gate = "answer"
                     THEN StartIfNeeded(s)
                            \o Delta(s, gen[s].sent, FlushTo(s, gate, sentence))
                     ELSE <<>>)
    BY <1>1, <2>1
  <2>3. CASE gate = "answer"
    <3>1. PICK from \in Nat, to \in Nat : from = gen[s].sent /\ to = FlushTo(s, gate, sentence)
      BY <1>1 DEF FlushTo
    <3>2. PICK events : events = Streamed(s, from, to)
      OBVIOUS
    <3>3. Enqueue(s, events)
      BY <2>2, <2>3, <3>1, <3>2 DEF Streamed
    <3>4. events \in Seq(SoundEvent') /\ StreamedFirst(s, events)
      BY <3>2, StreamedWork DEF IInv
    <3>5. \A k \in DOMAIN events : events[k].type # "synthesisRetracted"
      BY <3>4 DEF StreamedFirst
    <3> QED
      BY <2>1, <3>3, <3>4, <3>5, EnqueueGone
  <2>4. CASE gate # "answer"
    <3>1. PICK events : events = <<>>
      OBVIOUS
    <3>2. Enqueue(s, events) /\ events \in Seq({}) /\ DOMAIN events = {}
      BY <2>2, <2>4, <3>1, EmptySeq
    <3> QED
      BY <2>1, <3>2, EnqueueGone
  <2> QED
    BY <2>3, <2>4
<1>5. CASE Finish(s)
  <2>1. /\ gen[s].stage # "over"
        /\ \/ Enqueue(s, StartIfNeeded(s) \o Delta(s, gen[s].sent, gen[s].arrived)
                           \o <<DoneEvent(s, Chunks(0, gen[s].arrived))>>)
           \/ Enqueue(s, TakeBack(s))
    BY <1>5 DEF Finish
  <2>2. CASE Enqueue(s, TakeBack(s))
    <3>1. PICK events : events = TakeBack(s)
      OBVIOUS
    <3>2. /\ Enqueue(s, events) /\ events \in Seq({RetractedEvent(s, gen[s].streaming)})
          /\ \A k \in DOMAIN events : k = Len(events)
      BY <1>2, <2>2, <3>1
    <3> QED
      BY <2>1, <3>2, EnqueueGone
  <2>3. CASE Enqueue(s, StartIfNeeded(s) \o Delta(s, gen[s].sent, gen[s].arrived)
                          \o <<DoneEvent(s, Chunks(0, gen[s].arrived))>>)
    <3>1. PICK from \in Nat, to \in Nat : from = gen[s].sent /\ to = gen[s].arrived
      BY <1>1
    <3>2. PICK first : first = Streamed(s, from, to)
      OBVIOUS
    <3>3. PICK done : done = DoneEvent(s, Chunks(0, gen[s].arrived))
      OBVIOUS
    <3>4. done.type = "synthesisDone"
      BY <3>3 DEF DoneEvent
    <3>5. PICK events : events = first \o <<done>>
      OBVIOUS
    <3>6. Enqueue(s, events)
      BY <2>3, <3>1, <3>2, <3>3, <3>5 DEF Streamed
    <3>7. first \in Seq(SoundEvent') /\ StreamedFirst(s, first)
      BY <3>2, StreamedWork DEF IInv
    <3> DEFINE S == SoundEvent' \cup {done}
    <3>8. first \in Seq(S) /\ <<done>> \in Seq(S)
      BY <3>7, SeqMonotonic
    <3>9. /\ events \in Seq(S) /\ Len(events) = Len(first) + 1
          /\ \A k \in 1..(Len(first) + 1) :
                events[k] = IF k <= Len(first) THEN first[k] ELSE <<done>>[k - Len(first)]
      BY <3>5, <3>8, ConcatProperties
    <3>10. /\ DOMAIN events = 1..(Len(first) + 1) /\ DOMAIN first = 1..Len(first)
           /\ Len(first) \in Nat
      BY <3>8, <3>9, LenProperties
    <3>11. \A k \in DOMAIN events : events[k].type # "synthesisRetracted"
      <4> SUFFICES ASSUME NEW k \in DOMAIN events PROVE events[k].type # "synthesisRetracted"
        OBVIOUS
      <4>1. CASE k <= Len(first)
        BY <3>7, <3>9, <3>10, <4>1 DEF StreamedFirst
      <4>2. CASE ~(k <= Len(first))
        <5>1. k = Len(first) + 1
          BY <3>10, <4>2
        <5> QED
          BY <3>4, <3>9, <3>10, <5>1
      <4> QED
        BY <4>1, <4>2
    <3> QED
      BY <2>1, <3>6, <3>9, <3>11, EnqueueGone
  <2> QED
    BY <2>1, <2>2, <2>3
<1>6. CASE SynthesizerFails(s)
  <2>1. gen[s].stage # "over" /\ (Enqueue(s, TakeBack(s)) \/ UNCHANGED streamVars)
    BY <1>6 DEF SynthesizerFails
  <2>2. CASE Enqueue(s, TakeBack(s))
    <3>1. PICK events : events = TakeBack(s)
      OBVIOUS
    <3>2. /\ Enqueue(s, events) /\ events \in Seq({RetractedEvent(s, gen[s].streaming)})
          /\ \A k \in DOMAIN events : k = Len(events)
      BY <1>2, <2>2, <3>1
    <3> QED
      BY <2>1, <3>2, EnqueueGone
  <2> QED
    BY <2>1, <2>2, StreamStutters
<1> QED
  BY <1>3, <1>4, <1>5, <1>6

-----------------------------------------------------------------------------
\* A chain that goes on with its work, or drops the first of it.
LEMMA LastMoves ==
    ASSUME IInv, LastWords, NEW w \in Writer, queue[w] # <<>>, UNCHANGED log,
           \A v \in Writer \ {w} : queue'[v] = queue[v] /\ writing'[v] = writing[v],
           w \in SynthesisId =>
             \/ queue'[w] = queue[w] /\ writing[w].stage # "send"
             \/ queue'[w] = Tail(queue[w])
    PROVE  LastWords'
<1>1. SynthesisId \subseteq Writer /\ queue \in [Writer -> Seq(SoundEvent)]
  BY AnswersAssumption DEF AnswersAssumption, IInv, ServerInv
<1>2. \A r \in SynthesisId : TakenBack(Visible, r)' = TakenBack(Visible, r)
  BY DEF TakenBack, Visible, RetractionOf
<1>3. ASSUME w \in SynthesisId
      PROVE  /\ \A k \in DOMAIN queue'[w] :
                  queue'[w][k].type = "synthesisRetracted" => k = Len(queue'[w])
             /\ TakenBack(Visible, w) => queue'[w] = <<>>
  <2>1. CASE queue'[w] = queue[w] /\ writing[w].stage # "send"
    BY <1>3, <2>1 DEF LastWords
  <2>2. CASE queue'[w] = Tail(queue[w])
    <3>1. /\ queue[w] \in Seq(SoundEvent) /\ Len(queue[w]) \in Nat \ {0}
          /\ Tail(queue[w]) \in Seq(SoundEvent) /\ Len(Tail(queue[w])) = Len(queue[w]) - 1
      BY <1>1, HeadTailProperties, EmptySeq
    <3>2. \A k \in DOMAIN Tail(queue[w]) :
            k + 1 \in DOMAIN queue[w] /\ Tail(queue[w])[k] = queue[w][k + 1]
      BY <3>1, TailElements
    <3>3. DOMAIN Tail(queue[w]) = 1..Len(Tail(queue[w]))
      BY <3>1, LenProperties
    <3>4. \A k \in DOMAIN queue'[w] :
            queue'[w][k].type = "synthesisRetracted" => k + 1 = Len(queue[w])
      BY <1>3, <2>2, <3>2 DEF LastWords
    <3>5. TakenBack(Visible, w) => Len(queue[w]) = 1
      BY <1>3 DEF LastWords
    <3>6. Len(Tail(queue[w])) = 0 => Tail(queue[w]) = <<>>
      BY <3>1, EmptySeq
    <3> QED
      BY <2>2, <3>1, <3>3, <3>4, <3>5, <3>6
  <2> QED
    BY <1>3, <2>1, <2>2
<1> QED
  BY <1>1, <1>2, <1>3 DEF LastWords

\* A chain that does not insert: what is on the wire besides is what was stored.
LEMMA OrderMoves ==
    ASSUME SentAsStored, NEW w \in Writer, UNCHANGED log,
           \A v \in Writer \ {w} : queue'[v] = queue[v] /\ writing'[v] = writing[v],
           writing'[w].stage \notin {"insert", "send"},
           \A m \in net' : m \in net \/ (m.id \in Visible /\ m.event = log[m.id])
    PROVE  SentAsStored'
<1>1. Visible' = Visible
  BY DEF Visible
<1>2. \A v \in Writer \ {w} : Work(v)' = Work(v)
  BY DEF Work
<1> QED
  BY <1>1, <1>2 DEF SentAsStored

\* A writer's step: the row of an answer is written before anything of it is sent, a
\* row that becomes visible is late or the newest, and what is sent is what was stored.
LEMMA WriterGone ==
    ASSUME IInv, WholeInv, FeedInv, GoneInv, NEW w \in Writer, WriterStep(w)
    PROVE  GoneInv'
<1>1. /\ UNCHANGED <<phase, page, lastSeen, applied, fetch, seeded, handed>>
      /\ UNCHANGED pageVars
  BY DEF WriterStep, WriteRow, RowFails, DrawId, Commit, InsertFails, Send, pageVars
<1>2. /\ queue \in [Writer -> Seq(SoundEvent)]
      /\ writing \in [Writer -> [stage : {"idle", "row", "insert", "send"}, id : Nat]]
      /\ writing[w].stage # "idle" => queue[w] # <<>>
      /\ SynthesisId \subseteq Writer
  BY AnswersAssumption DEF AnswersAssumption, IInv, ServerInv
<1>3. queue[w] # <<>> =>
        /\ 1 \in DOMAIN queue[w] /\ Work(w) = queue[w][1]
        /\ Owned(w, Work(w)) /\ Work(w) \in SoundEvent
  BY OutSound DEF WholeInv, OwnWork
<1>4. Visible \subseteq EventId /\ EventId \subseteq Nat \ {0}
  BY DEF FeedInv, IdsInv, EventId
<1>5. CASE WriteRow(w)
  <2>1. /\ queue[w] # <<>> /\ writing[w].stage = "idle"
        /\ writing' = [writing EXCEPT ![w].stage = "row"]
        /\ UNCHANGED <<queue, log, late, net>>
    BY <1>5 DEF WriteRow, Idling
  <2>2. /\ \A v \in Writer \ {w} : queue'[v] = queue[v] /\ writing'[v] = writing[v]
        /\ queue'[w] = queue[w] /\ writing'[w].stage = "row"
    BY <1>2, <2>1
  <2>3. LastWords'
    BY <2>1, <2>2, LastMoves DEF GoneInv
  <2>4. SentAsStored'
    BY <2>1, <2>2, OrderMoves DEF GoneInv
  <2>5. CursorInv' /\ Tombstones'
    BY <1>1, <2>1 DEF GoneInv, CursorInv, Tombstones, Visible
  <2>6. /\ \A s \in SynthesisId : s # w => answerRow'[s] = answerRow[s]
        /\ \A s \in SynthesisId :
             answerRow'[s] = answerRow[s] \/ answerRow'[s] = WrittenAnswer(answerRow[s], Work(w))
    <3>1. CASE Work(w).type \in {"card", "cardRetracted"}
      BY <1>5, <3>1 DEF WriteRow
    <3>2. CASE Work(w).type \notin {"card", "cardRetracted"}
      <4>1. w \in SynthesisId /\ Work(w).id = w
        BY <1>3, <2>1, <3>2 DEF Owned, CardType
      <4>2. answerRow' = [answerRow EXCEPT ![w] = WrittenAnswer(answerRow[w], Work(w))]
        BY <1>5, <3>2, <4>1 DEF WriteRow, IInv, ServerInv
      <4> QED
        BY <4>1, <4>2 DEF IInv, ServerInv
    <3> QED
      BY <3>1, <3>2
  <2>7. ASSUME NEW s \in SynthesisId, answerRow'[s].status = "running"
        PROVE  answerRow'[s].text = <<>>
    <3>1. CASE answerRow'[s] = answerRow[s]
      BY <2>7, <3>1 DEF GoneInv, Shells
    <3>2. CASE answerRow'[s] = WrittenAnswer(answerRow[s], Work(w))
      <4>1. answerRow[s] \in AnswerRow
        BY DEF IInv, ServerInv
      <4>2. \/ answerRow'[s] = answerRow[s]
            \/ answerRow'[s].text = <<>>
            \/ answerRow'[s].status \in {"done", "retracted"}
        BY <3>2, <4>1 DEF WrittenAnswer, AnswerRow
      <4> QED
        BY <2>7, <3>1, <4>2
    <3> QED
      BY <2>6, <3>1, <3>2
  <2>8. \A s \in SynthesisId : TakenBack(seeded, s) => answerRow'[s] = answerRow[s]
    <3> SUFFICES ASSUME NEW s \in SynthesisId, TakenBack(seeded, s)
                 PROVE  answerRow'[s] = answerRow[s]
      OBVIOUS
    <3>1. TakenBack(Visible, s)
      BY DEF TakenBack, FeedInv, ReachInv
    <3>2. s # w
      BY <2>1, <3>1 DEF GoneInv, LastWords
    <3> QED
      BY <2>6, <3>2
  <2>9. Shells'
    BY <1>1, <2>1, <2>7, <2>8 DEF GoneInv, Shells, Visible, TakenBack, TellsOf, RetractionOf,
       Shown
  <2> QED
    BY <2>3, <2>4, <2>5, <2>9 DEF GoneInv
<1>6. CASE RowFails(w)
  <2>1. /\ queue[w] # <<>> /\ writing[w].stage = "idle"
        /\ UNCHANGED <<log, late, net, answerRow>>
    BY <1>6 DEF RowFails, Idling
  <2>2. \/ writing' = [writing EXCEPT ![w].stage = "row"] /\ UNCHANGED queue
        \/ queue' = [queue EXCEPT ![w] = Abandon(queue[w])] /\ UNCHANGED writing
    BY <1>2, <1>6 DEF RowFails
  <2>3. /\ \A v \in Writer \ {w} : queue'[v] = queue[v] /\ writing'[v] = writing[v]
        /\ writing'[w].stage \in {"row", "idle"}
        /\ queue'[w] = queue[w] \/ queue'[w] = Abandon(queue[w])
    BY <1>2, <2>1, <2>2
  <2>4. w \in SynthesisId => Abandon(queue[w]) = Tail(queue[w])
    <3>1. w \in SynthesisId => Work(w).type # "card"
      BY <1>3, <2>1 DEF Owned, AnswerType
    <3> QED
      BY <3>1 DEF Abandon, Work
  <2>5. LastWords'
    BY <2>1, <2>3, <2>4, LastMoves DEF GoneInv
  <2>6. SentAsStored'
    BY <2>1, <2>3, OrderMoves DEF GoneInv
  <2> QED
    BY <1>1, <2>1, <2>5, <2>6, LogFrame DEF GoneInv
<1>7. CASE DrawId(w)
  <2>1. /\ queue[w] # <<>> /\ writing[w].stage # "send"
        /\ writing' = [writing EXCEPT ![w] = [stage |-> "insert", id |-> nextId]]
        /\ UNCHANGED <<queue, log, late, net, answerRow>>
    BY <1>2, <1>7 DEF DrawId, Idling
  <2>2. /\ \A v \in Writer \ {w} : queue'[v] = queue[v] /\ writing'[v] = writing[v]
        /\ queue'[w] = queue[w] /\ writing'[w].stage = "insert" /\ writing'[w].id = nextId
    BY <1>2, <2>1
  <2>3. LastWords'
    BY <2>1, <2>2, LastMoves DEF GoneInv
  <2>4. SentAsStored'
    <3>1. Visible' = Visible
      BY <2>1 DEF Visible
    <3> QED
      BY <2>1, <2>2, <3>1 DEF GoneInv, SentAsStored, Work
  <2> QED
    BY <1>1, <2>1, <2>3, <2>4, LogFrame DEF GoneInv
<1>8. CASE Commit(w)
  <2> DEFINE id == writing[w].id
  <2>1. /\ writing[w].stage = "insert" /\ queue[w] # <<>>
        /\ late' = IF \E i \in Visible : id < i THEN late \cup {id} ELSE late
        /\ log' = Put(log, id, Work(w)) /\ writing' = [writing EXCEPT ![w].stage = "send"]
        /\ UNCHANGED <<queue, net, answerRow>>
    BY <1>2, <1>8 DEF Commit, Inserting, Visible
  <2>2. /\ \A v \in Writer \ {w} : writing'[v] = writing[v]
        /\ writing'[w].stage = "send" /\ writing'[w].id = id
    BY <1>2, <2>1
  <2>3. id \in EventId /\ id \notin Visible /\ (id \in late' \/ \A i \in Visible : ~(id < i))
    BY <2>1 DEF FeedInv, IdsInv
  <2>4. /\ Visible' = Visible \cup {id} /\ log'[id] = Work(w)
        /\ \A i \in Visible : log'[i] = log[i]
    BY <2>1, <2>3 DEF Visible, Put
  <2> HIDE DEF id
  <2>5. ASSUME NEW s \in SynthesisId, TellsOf(Work(w), s) PROVE s = w
    BY <1>3, <2>1, <2>5 DEF Owned, TellsOf, AnswerType, CardType
  <2>6. LastWords'
    <3> SUFFICES ASSUME NEW s \in SynthesisId, TakenBack(Visible, s)'
                 PROVE  queue[s] = <<>> \/ (writing'[s].stage = "send" /\ Len(queue[s]) = 1)
      BY <2>1 DEF GoneInv, LastWords
    <3>1. CASE TakenBack(Visible, s)
      <4>1. queue[s] = <<>> \/ (writing[s].stage = "send" /\ Len(queue[s]) = 1)
        BY <3>1 DEF GoneInv, LastWords
      <4> QED
        BY <1>2, <2>1, <2>2, <4>1
    <3>2. CASE ~TakenBack(Visible, s)
      <4>1. RetractionOf(Work(w), s)
        BY <2>4, <3>2 DEF TakenBack, RetractionOf
      <4>2. s = w
        BY <2>5, <4>1 DEF RetractionOf, TellsOf, AnswerType
      <4>3. 1 = Len(queue[w])
        BY <1>3, <2>1, <4>1, <4>2 DEF GoneInv, LastWords, RetractionOf
      <4> QED
        BY <2>2, <4>2, <4>3
    <3> QED
      BY <3>1, <3>2
  <2>7. SentAsStored'
    <3>1. ASSUME NEW v \in Writer, writing'[v].stage = "send"
          PROVE  log'[writing'[v].id] = Work(v)
      <4>1. CASE v = w
        BY <2>2, <2>4, <4>1
      <4>2. CASE v # w
        <5>1. writing[v].id \in Visible /\ log[writing[v].id] = Work(v)
          BY <2>2, <3>1, <4>2 DEF FeedInv, IdsInv, GoneInv, SentAsStored
        <5> QED
          BY <2>2, <2>4, <4>2, <5>1
      <4> QED
        BY <4>1, <4>2
    <3>2. \A m \in net : m.id \in Visible' /\ m.event = log'[m.id]
      BY <2>4 DEF GoneInv, SentAsStored
    <3>3. \A v \in Writer : Work(v)' = Work(v)
      BY <2>1 DEF Work
    <3> QED
      BY <2>1, <3>1, <3>2, <3>3 DEF SentAsStored
  <2>8. CursorInv'
    <3>1. id \in Nat /\ id > 0 /\ lastSeen \in Visible \cup {0}
          /\ \A i \in Visible : i \in Nat /\ i # id
      BY <1>4, <2>3 DEF FeedInv, ReachInv
    <3>2. late \subseteq late'
      BY <2>1
    <3>3. ASSUME phase # "unopened", NEW i \in Visible' \ late', i <= lastSeen
          PROVE  i \in seeded \/ handed[i] > 0
      <4>1. CASE i = id
        <5>1. lastSeen \in Visible /\ id < lastSeen
          BY <3>1, <3>3, <4>1
        <5> QED
          BY <2>3, <3>3, <4>1, <5>1
      <4>2. CASE i # id
        <5>1. i \in Visible \ late
          BY <2>4, <3>2, <3>3, <4>2
        <5> QED
          BY <3>3, <5>1 DEF GoneInv, CursorInv
      <4> QED
        BY <4>1, <4>2
    <3>4. ASSUME NEW i \in fetch.rows, NEW j \in Visible' \ late', lastSeen < j, j < i
          PROVE  j \in fetch.rows
      <4>1. i \in Visible
        BY DEF FeedInv, ReachInv
      <4>2. CASE j = id
        BY <2>3, <3>4, <4>1, <4>2
      <4>3. CASE j # id
        <5>1. j \in Visible \ late
          BY <2>4, <3>2, <3>4, <4>3
        <5> QED
          BY <3>4, <5>1 DEF GoneInv, CursorInv
      <4> QED
        BY <4>2, <4>3
    <3> QED
      BY <1>1, <2>1, <3>3, <3>4 DEF GoneInv, CursorInv
  <2>9. Tombstones'
    <3>1. ~(handed[id] > 0)
      BY <2>3 DEF FeedInv, ReachInv
    <3> QED
      BY <1>1, <2>4, <3>1 DEF GoneInv, Tombstones
  <2>10. Shells'
    <3>1. \A s \in SynthesisId : TakenBack(seeded, s)' <=> TakenBack(seeded, s)
      <4>1. \A i \in seeded : log'[i] = log[i]
        BY <2>4 DEF FeedInv, ReachInv
      <4> QED
        BY <1>1, <4>1 DEF TakenBack, RetractionOf
    <3>2. ASSUME NEW s \in SynthesisId, TakenBack(seeded, s),
                 NEW i \in Visible', TellsOf(log'[i], s)
          PROVE  i \in seeded
      <4>1. CASE i \in Visible
        BY <2>4, <3>2, <4>1 DEF GoneInv, Shells, TellsOf
      <4>2. CASE i \notin Visible
        <5>1. TellsOf(Work(w), s)
          BY <2>4, <3>2, <4>2 DEF TellsOf
        <5>2. s = w /\ TakenBack(Visible, s)
          BY <2>5, <3>2, <5>1 DEF TakenBack, FeedInv, ReachInv
        <5> QED
          BY <2>1, <5>2 DEF GoneInv, LastWords
      <4> QED
        BY <4>1, <4>2
    <3>3. \A s \in SynthesisId : \A i \in Visible' : TellsOf(log[i], s)' <=> TellsOf(log'[i], s)
      BY DEF TellsOf
    <3> QED
      BY <1>1, <2>1, <3>1, <3>2, <3>3 DEF GoneInv, Shells, Shown, TellsOf
  <2> QED
    BY <2>6, <2>7, <2>8, <2>9, <2>10 DEF GoneInv
<1>9. CASE InsertFails(w) \/ Send(w)
  <2>1. /\ queue[w] # <<>> /\ queue' = [queue EXCEPT ![w] = Tail(queue[w])]
        /\ writing' = [writing EXCEPT ![w] = Idle] /\ UNCHANGED <<log, late, answerRow>>
    <3>1. CASE InsertFails(w)
      BY <1>2, <3>1 DEF InsertFails, Inserting
    <3>2. CASE Send(w)
      BY <1>2, <3>2 DEF Send, Idling
    <3> QED
      BY <1>9, <3>1, <3>2
  <2>2. \A m \in net' : m \in net \/ (m.id \in Visible /\ m.event = log[m.id])
    <3>1. CASE InsertFails(w)
      BY <3>1 DEF InsertFails
    <3>2. CASE Send(w)
      <4>1. writing[w].stage = "send"
        BY <1>3, <2>1, <3>2 DEF Send, Transient, SoundEvent
      <4>2. writing[w].id \in Visible /\ log[writing[w].id] = Work(w)
        BY <4>1 DEF FeedInv, IdsInv, GoneInv, SentAsStored
      <4>3. \A m \in net' : m \in net \/ (m.id = writing[w].id /\ m.event = Work(w))
        BY <3>2 DEF Send
      <4> QED
        BY <4>2, <4>3
    <3> QED
      BY <1>9, <3>1, <3>2
  <2>3. phase # "live" => net' = net
    <3>1. CASE InsertFails(w)
      BY <3>1 DEF InsertFails
    <3>2. CASE Send(w)
      BY <3>2 DEF Send
    <3> QED
      BY <1>9, <3>1, <3>2
  <2>4. /\ \A v \in Writer \ {w} : queue'[v] = queue[v] /\ writing'[v] = writing[v]
        /\ queue'[w] = Tail(queue[w]) /\ writing'[w].stage = "idle"
    BY <1>2, <2>1 DEF Idle
  <2>5. LastWords'
    BY <2>1, <2>4, LastMoves DEF GoneInv
  <2>6. SentAsStored'
    BY <2>1, <2>2, <2>4, OrderMoves DEF GoneInv
  <2> QED
    BY <1>1, <2>1, <2>3, <2>5, <2>6, LogFrame DEF GoneInv
<1> QED
  BY <1>5, <1>6, <1>7, <1>8, <1>9 DEF WriterStep

\* A restart forgets what was queued.
LEMMA CrashGone == ASSUME GoneInv, Crash PROVE GoneInv'
<1>1. /\ queue' = [w \in Writer |-> <<>>] /\ writing' = [w \in Writer |-> Idle]
      /\ UNCHANGED <<log, late, answerRow, net>> /\ UNCHANGED pageVars
  BY DEF Crash
<1>2. \A w \in Writer : queue'[w] = <<>> /\ DOMAIN queue'[w] = {} /\ writing'[w].stage = "idle"
  BY <1>1 DEF Idle
<1>3. LastWords'
  BY <1>2, AnswersAssumption DEF AnswersAssumption, LastWords
<1>4. SentAsStored'
  BY <1>1, <1>2 DEF GoneInv, SentAsStored, Visible
<1> QED
  BY <1>1, <1>3, <1>4, LogFrame DEF GoneInv

-----------------------------------------------------------------------------
\* Marking an id applied adds no other id to the applied ones.
LEMMA MarkedIds ==
    ASSUME NEW ids \in Seq(EventId), NEW i \in EventId
    PROVE  /\ MarkEventApplied(ids, i) \in Seq(EventId)
           /\ \A j \in ToSet(MarkEventApplied(ids, i)) : j \in ToSet(ids) \cup {i}
<1>1. ASSUME NEW q \in Seq(EventId)
      PROVE  /\ Append(q, i) \in Seq(EventId)
             /\ \A j \in ToSet(Append(q, i)) : j \in ToSet(q) \cup {i}
  <2>1. /\ Append(q, i) \in Seq(EventId) /\ Len(Append(q, i)) = Len(q) + 1
        /\ \A k \in 1..Len(q) : Append(q, i)[k] = q[k]
        /\ Append(q, i)[Len(q) + 1] = i
    BY AppendProperties
  <2>2. /\ DOMAIN Append(q, i) = 1..(Len(q) + 1) /\ DOMAIN q = 1..Len(q) /\ Len(q) \in Nat
    BY <2>1, LenProperties
  <2>3. \A k \in DOMAIN Append(q, i) : k \in DOMAIN q \/ k = Len(q) + 1
    BY <2>2
  <2> QED
    BY <2>1, <2>2, <2>3 DEF ToSet
<1>2. CASE Contains(ids, i)
  BY <1>2 DEF MarkEventApplied
<1>3. CASE ~Contains(ids, i) /\ Len(ids) < AppliedCap
  BY <1>1, <1>3 DEF MarkEventApplied
<1>4. CASE ~Contains(ids, i) /\ ~(Len(ids) < AppliedCap)
  <2>1. ids # <<>>
    <3>1. AppliedCap \in Nat \ {0} /\ Len(ids) \in Nat /\ Len(<<>>) = 0
      BY StreamAssumption, LenProperties, EmptySeq DEF StreamAssumption
    <3> QED
      BY <1>4, <3>1
  <2>2. Tail(ids) \in Seq(EventId)
    BY <2>1, HeadTailProperties
  <2>3. \A j \in ToSet(Tail(ids)) : j \in ToSet(ids)
    BY <2>1, TailElements DEF ToSet
  <2>4. /\ Append(Tail(ids), i) \in Seq(EventId)
        /\ \A j \in ToSet(Append(Tail(ids), i)) : j \in ToSet(Tail(ids)) \cup {i}
    BY <1>1, <2>2
  <2>5. MarkEventApplied(ids, i) = Append(Tail(ids), i)
    BY <1>4 DEF MarkEventApplied
  <2> QED
    BY <2>3, <2>4, <2>5
<1> QED
  BY <1>2, <1>3, <1>4

\* A visible row is handed to the reducer for the first time.
LEMMA HandGone ==
    ASSUME IInv, FeedInv, GoneInv, NEW i \in Visible, Fresh(i), Hand(i, log[i]),
           phase = "live", UNCHANGED <<log, answerRow, phase, seeded>>
    PROVE  /\ applied' \in Seq(EventId) /\ \A j \in ToSet(applied') : handed'[j] > 0
           /\ \A j \in EventId : handed[j] > 0 => handed'[j] > 0
           /\ handed'[i] > 0
           /\ Tombstones' /\ Shells'
<1>1. i \in EventId /\ handed \in [EventId -> Nat] /\ seeded \subseteq Visible
      /\ Visible \subseteq EventId /\ Visible' = Visible
  BY DEF FeedInv, IdsInv, ReachInv, Visible
<1>2. /\ handed' = [handed EXCEPT ![i] = handed[i] + 1] /\ page' = Dispatch(page, log[i])
      /\ applied' = MarkEventApplied(applied, i)
  BY DEF Hand
<1>3. /\ \A j \in EventId : handed'[j] = IF j = i THEN handed[i] + 1 ELSE handed[j]
      /\ handed[i] \in Nat
  BY <1>1, <1>2
<1>4. handed'[i] > 0 /\ \A j \in EventId : handed[j] > 0 => handed'[j] > 0
  BY <1>1, <1>3
<1>5. /\ applied' \in Seq(EventId) /\ \A j \in ToSet(applied') : j \in ToSet(applied) \cup {i}
  BY <1>1, <1>2, MarkedIds DEF GoneInv, CursorInv
<1>6. \A j \in ToSet(applied) : j \in EventId
  BY DEF GoneInv, CursorInv, ToSet
<1>7. \A j \in ToSet(applied') : handed'[j] > 0
  BY <1>4, <1>5, <1>6 DEF GoneInv, CursorInv
<1>8. log[i] \in SoundEvent
  BY DEF IInv, ServerInv, Visible
<1>9. /\ page.retractedSyntheses \subseteq page'.retractedSyntheses
      /\ \A s \in page'.retractedSyntheses : s \notin DOMAIN page'.syntheses
      /\ log[i].type = "synthesisRetracted" => log[i].id \in page'.retractedSyntheses
      /\ \A s \in DOMAIN page'.syntheses : ~TellsOf(log[i], s) =>
           s \in DOMAIN page.syntheses /\ page'.syntheses[s] = page.syntheses[s]
  BY <1>2, <1>8, DispatchGone DEF IInv, GoneInv, Tombstones
<1>10. Tombstones'
  <2> SUFFICES ASSUME NEW j \in Visible, handed'[j] > 0, log[j].type = "synthesisRetracted"
               PROVE  log[j].id \in page'.retractedSyntheses
    BY <1>1, <1>9 DEF Tombstones
  <2>1. CASE j = i
    BY <1>9, <2>1
  <2>2. CASE j # i
    <3>1. handed[j] > 0
      BY <1>1, <1>3, <2>2
    <3> QED
      BY <1>9, <3>1 DEF GoneInv, Tombstones
  <2> QED
    BY <2>1, <2>2
<1>11. i \notin seeded
  <2>1. i > lastSeen /\ i \in Nat /\ lastSeen \in Nat
    BY <1>1 DEF Fresh, EventId, FeedInv, ReachInv
  <2>2. i \in seeded => i <= lastSeen
    BY DEF FeedInv, ReachInv
  <2> QED
    BY <2>1, <2>2
<1>12. ASSUME NEW s \in SynthesisId, TakenBack(seeded, s), Shown(page', s)
       PROVE  Shown(page, s) /\ page'.syntheses[s] = page.syntheses[s]
  <2>1. ~TellsOf(log[i], s)
    BY <1>11, <1>12 DEF GoneInv, Shells
  <2> QED
    BY <1>9, <1>12, <2>1 DEF Shown
<1>13. Shells'
  <2>1. \A s \in SynthesisId : TakenBack(seeded, s)' <=> TakenBack(seeded, s)
    BY DEF TakenBack, RetractionOf
  <2>2. \A s \in SynthesisId : TakenBack(seeded, s) =>
          /\ \A j \in Visible : TellsOf(log[j], s) => j \in seeded
          /\ Shown(page', s) =>
               page'.syntheses[s].text = <<>> /\ answerRow[s].status # "retracted"
    BY <1>12 DEF GoneInv, Shells
  <2>3. phase' # "unopened"
    OBVIOUS
  <2> QED
    BY <1>1, <2>1, <2>2, <2>3 DEF GoneInv, Shells, Shown, TellsOf
<1> QED
  BY <1>4, <1>5, <1>7, <1>10, <1>13

\* A poll reads the rows after the cursor without a gap.
LEMMA ReadsWithoutGap ==
    ASSUME FeedInv, NEW cursor \in Nat, NEW i \in RowsAfter(cursor), NEW j \in Visible,
           cursor < j, j < i
    PROVE  j \in RowsAfter(cursor)
<1> DEFINE Below(k) == {h \in Visible : cursor < h /\ h < k}
<1>1. /\ i \in Nat /\ j \in Nat /\ MaxEventId \in Nat
      /\ \A h \in Visible : h \in Nat /\ h <= MaxEventId
  BY StreamAssumption DEF StreamAssumption, RowsAfter, FeedInv, IdsInv, EventId
<1>2. Below(j) \subseteq Below(i)
  <2>1. \A h \in Visible : h < j => h < i
    BY <1>1
  <2> QED
    BY <2>1
<1>3. IsFiniteSet(Below(i))
  <2>1. Below(i) \in SUBSET Nat /\ \A h \in Below(i) : h <= MaxEventId
    BY <1>1
  <2> HIDE DEF Below
  <2> QED
    BY <1>1, <2>1, FS_BoundedSetOfNaturals
<1>4. /\ IsFiniteSet(Below(j)) /\ Cardinality(Below(j)) <= Cardinality(Below(i))
      /\ Cardinality(Below(j)) \in Nat /\ Cardinality(Below(i)) \in Nat
  BY <1>2, <1>3, FS_Subset, FS_CardinalityType
<1>5. Cardinality(Below(i)) < PollLimit /\ PollLimit \in Nat
  BY StreamAssumption DEF StreamAssumption, RowsAfter
<1>6. Cardinality(Below(j)) < PollLimit
  BY <1>4, <1>5
<1> QED
  BY <1>6 DEF RowsAfter

\* The page: what it hands to the reducer moves its cursor without a gap, and what it
\* seeds has no prose of an answer that was taken back.
LEMMA PageGone ==
    ASSUME IInv, WholeInv, FeedInv, GoneInv, PageStep PROVE GoneInv'
<1>1. UNCHANGED <<queue, writing, log, late, answerRow>> /\ net' \subseteq net
  BY DEF PageStep, OpenPage, SeedCards, SeedAnswers, SeedTranscript, FetchRead, FetchFails,
     ApplyRow, Receive, PinAnswer, serverVars
<1>2. LastWords' /\ SentAsStored'
  BY <1>1 DEF GoneInv, LastWords, SentAsStored, TakenBack, RetractionOf, Visible, Work
<1>3. /\ Visible' = Visible /\ Visible \subseteq EventId /\ EventId = 1..MaxEventId
      /\ MaxEventId \in Nat /\ lastSeen \in Nat
      /\ \A i \in Visible : i \in Nat /\ i > 0
  <2>1. /\ Visible' = Visible /\ Visible \subseteq EventId /\ EventId = 1..MaxEventId
        /\ MaxEventId \in Nat
    BY <1>1, StreamAssumption DEF StreamAssumption, Visible, FeedInv, IdsInv, EventId
  <2>2. \A i \in Visible : i \in Nat /\ i > 0
    BY <2>1
  <2> QED
    BY <2>1, <2>2 DEF FeedInv, ReachInv
<1>4. /\ seeded \subseteq Visible /\ fetch.rows \subseteq Visible
      /\ fetch.rows # {} => phase = "live"
  BY DEF FeedInv, ReachInv
<1>5. SUFFICES CursorInv' /\ Tombstones' /\ Shells'
  BY <1>2 DEF GoneInv
<1>6. CASE OpenPage
  <2>1. /\ phase = "unopened" /\ phase' \in {"cards", "live"} /\ seeded' = Visible
        /\ lastSeen' = IF Visible = {} THEN 0 ELSE Max(Visible)
        /\ UNCHANGED <<page, applied, fetch, handed, net, log, late, answerRow>>
    BY <1>1, <1>6 DEF OpenPage
  <2>2. net = {} /\ fetch.rows = {} /\ page.retractedSyntheses = {}
        /\ DOMAIN page.syntheses = {}
    BY <1>4, <2>1 DEF GoneInv, CursorInv, Tombstones, Shells
  <2>3. lastSeen' \in Visible \cup {0} /\ \A i \in Visible : i <= lastSeen'
    BY <1>3, <2>1, NewestRow
  <2>4. CursorInv'
    BY <1>3, <2>1, <2>2, <2>3 DEF GoneInv, CursorInv
  <2>5. Tombstones'
    BY <1>3, <2>1, <2>2 DEF GoneInv, Tombstones
  <2>6. Shells'
    BY <1>3, <2>1, <2>2 DEF GoneInv, Shells, Shown
  <2> QED
    BY <2>4, <2>5, <2>6
<1>7. CASE SeedCards \/ SeedTranscript
  <2>1. /\ phase \in {"cards", "transcript"} /\ phase' \in {"answers", "live"}
        /\ UNCHANGED <<lastSeen, applied, fetch, seeded, handed, net, log, late, answerRow>>
    BY <1>1, <1>7 DEF SeedCards, SeedTranscript
  <2>2. \/ page' = page \/ \E c : page' = [page EXCEPT !.cards = c]
        \/ \E t : page' = [page EXCEPT !.transcript = t]
    BY <1>7 DEF SeedCards, SeedTranscript
  <2>3. page'.syntheses = page.syntheses /\ page'.retractedSyntheses = page.retractedSyntheses
    BY <2>2 DEF IInv, SoundPage, PageShape
  <2>4. CursorInv'
    BY <1>3, <2>1 DEF GoneInv, CursorInv
  <2>5. Tombstones'
    BY <1>3, <2>1, <2>3 DEF GoneInv, Tombstones
  <2>6. Shells'
    BY <1>3, <2>1, <2>3 DEF GoneInv, Shells, TakenBack, RetractionOf, TellsOf, Shown
  <2> QED
    BY <2>4, <2>5, <2>6
<1>8. CASE SeedAnswers
  <2>1. /\ phase = "answers" /\ phase' = "transcript"
        /\ page' = [page EXCEPT !.syntheses = SeededAnswers] \/ page' = page
        /\ UNCHANGED <<lastSeen, applied, fetch, seeded, handed, net, log, late, answerRow>>
    BY <1>1, <1>8 DEF SeedAnswers
  <2>2. /\ page'.retractedSyntheses = page.retractedSyntheses
        /\ page'.syntheses = SeededAnswers \/ page'.syntheses = page.syntheses
    BY <2>1 DEF IInv, SoundPage, PageShape
  <2>3. page.retractedSyntheses = {}
    BY <2>1 DEF GoneInv, Tombstones
  <2>4. CursorInv'
    BY <1>3, <2>1 DEF GoneInv, CursorInv
  <2>5. Tombstones'
    BY <1>3, <2>1, <2>2, <2>3 DEF GoneInv, Tombstones
  <2>6. ASSUME NEW s \in SynthesisId, TakenBack(seeded, s), s \in DOMAIN SeededAnswers
        PROVE  SeededAnswers[s].text = <<>> /\ answerRow[s].status # "retracted"
    <3>1. answerRow[s].status \in {"running", "done"}
          /\ SeededAnswers[s].text = answerRow[s].text
      BY <2>6 DEF SeededAnswers
    <3>2. s \notin Grounded
      BY <1>4, <2>6, TakenBackIsOver DEF TakenBack
    <3>3. answerRow[s].status = "running"
      BY <3>1, <3>2 DEF IInv, ServerInv
    <3> QED
      BY <3>1, <3>3 DEF GoneInv, Shells
  <2>7. Shells'
    <3>1. \A s \in SynthesisId : TakenBack(seeded, s)' <=> TakenBack(seeded, s)
      BY <2>1 DEF TakenBack, RetractionOf
    <3>2. ASSUME NEW s \in SynthesisId, TakenBack(seeded, s), s \in DOMAIN page'.syntheses
          PROVE  page'.syntheses[s].text = <<>> /\ answerRow[s].status # "retracted"
      BY <2>2, <2>6, <3>2 DEF GoneInv, Shells, Shown
    <3> QED
      BY <1>3, <2>1, <3>1, <3>2 DEF GoneInv, Shells, TellsOf, Shown
  <2> QED
    BY <2>4, <2>5, <2>7
<1>9. CASE FetchRead \/ FetchFails
  <2>1. UNCHANGED <<phase, page, lastSeen, applied, seeded, handed, net, log, late, answerRow>>
    BY <1>1, <1>9 DEF FetchRead, FetchFails
  <2>2. \A i \in fetch'.rows : \A j \in Visible \ late :
          lastSeen < j /\ j < i => j \in fetch'.rows
    <3>1. CASE FetchRead
      BY <1>3, <3>1, ReadsWithoutGap DEF FetchRead
    <3>2. CASE FetchFails
      BY <3>2 DEF FetchFails, NoFetch
    <3> QED
      BY <1>9, <3>1, <3>2
  <2>3. CursorInv'
    BY <1>3, <2>1, <2>2 DEF GoneInv, CursorInv
  <2>4. Tombstones'
    BY <1>3, <2>1 DEF GoneInv, Tombstones
  <2>5. Shells'
    BY <1>3, <2>1 DEF GoneInv, Shells, TakenBack, RetractionOf, TellsOf, Shown
  <2> QED
    BY <2>3, <2>4, <2>5
<1>10. CASE ApplyRow
  <2>1. PICK i \in fetch.rows :
          /\ \A j \in fetch.rows \ {i} : i < j
          /\ IF Fresh(i) THEN Hand(i, log[i]) ELSE UNCHANGED <<applied, page, handed>>
          /\ lastSeen' = IF i > lastSeen THEN i ELSE lastSeen
          /\ fetch'.rows = fetch.rows \ {i}
          /\ UNCHANGED <<phase, seeded, net>>
    BY <1>10 DEF ApplyRow
  <2>2. i \in Visible /\ phase = "live" /\ i \in Nat
    BY <1>3, <1>4, <2>1
  <2>3. /\ applied' \in Seq(EventId) /\ \A j \in ToSet(applied') : handed'[j] > 0
        /\ \A j \in EventId : handed[j] > 0 => handed'[j] > 0
        /\ i > lastSeen => handed'[i] > 0
        /\ Tombstones' /\ Shells'
    <3>1. CASE Fresh(i)
      BY <1>1, <2>1, <2>2, <3>1, HandGone
    <3>2. CASE ~Fresh(i)
      <4>1. UNCHANGED <<applied, page, handed, phase, seeded, log, late, answerRow>>
        BY <1>1, <2>1, <3>2
      <4>2. i > lastSeen => i \in ToSet(applied)
        BY <3>2 DEF Fresh, Contains, ToSet
      <4>3. Tombstones'
        BY <1>3, <4>1 DEF GoneInv, Tombstones
      <4>4. Shells'
        BY <1>3, <4>1 DEF GoneInv, Shells, TakenBack, RetractionOf, TellsOf, Shown
      <4> QED
        BY <4>1, <4>2, <4>3, <4>4 DEF GoneInv, CursorInv
    <3> QED
      BY <3>1, <3>2
  <2>4. lastSeen' \in Nat
        /\ lastSeen' >= lastSeen /\ lastSeen' >= i
    BY <1>3, <2>1, <2>2
  <2>5. ASSUME NEW j \in Visible \ late, j <= lastSeen' PROVE j \in seeded \/ handed'[j] > 0
    <3>1. j \in Nat /\ j \in EventId
      BY <1>3
    <3>2. CASE j <= lastSeen
      <4>1. j \in seeded \/ handed[j] > 0
        BY <2>2, <3>2 DEF GoneInv, CursorInv
      <4> QED
        BY <2>3, <3>1, <4>1
    <3>3. CASE ~(j <= lastSeen)
      <4>1. lastSeen < j /\ j <= i /\ i > lastSeen
        BY <1>3, <2>1, <2>2, <2>5, <3>1, <3>3
      <4>2. j = i
        <5> SUFFICES ASSUME j # i PROVE FALSE
          OBVIOUS
        <5>1. j < i
          BY <2>2, <3>1, <4>1
        <5>2. j \in fetch.rows
          BY <2>1, <4>1, <5>1 DEF GoneInv, CursorInv
        <5>3. i < j
          BY <2>1, <5>2
        <5> QED
          BY <2>2, <3>1, <5>1, <5>3
      <4> QED
        BY <2>3, <4>1, <4>2
    <3> QED
      BY <3>2, <3>3
  <2>6. ASSUME NEW k \in fetch'.rows, NEW j \in Visible \ late, lastSeen' < j, j < k
        PROVE  j \in fetch'.rows
    <3>1. j \in Nat /\ lastSeen < j /\ j # i /\ k \in fetch.rows
      BY <1>3, <2>1, <2>2, <2>4, <2>6
    <3>2. j \in fetch.rows
      BY <2>6, <3>1 DEF GoneInv, CursorInv
    <3> QED
      BY <2>1, <3>1, <3>2
  <2>7. CursorInv'
    BY <1>1, <1>3, <2>1, <2>2, <2>3, <2>5, <2>6 DEF CursorInv
  <2> QED
    BY <2>3, <2>7
<1>11. ASSUME NEW m \in net, Receive(m) PROVE CursorInv' /\ Tombstones' /\ Shells'
  <2>1. /\ phase = "live" /\ net' = net \ {m} /\ m.id \in Visible /\ m.event = log[m.id]
        /\ m.id # 0
        /\ UNCHANGED <<phase, lastSeen, fetch, seeded, log, late, answerRow>>
    BY <1>1, <1>3, <1>11 DEF Receive, Listening, GoneInv, SentAsStored
  <2>2. /\ applied' \in Seq(EventId) /\ \A j \in ToSet(applied') : handed'[j] > 0
        /\ \A j \in EventId : handed[j] > 0 => handed'[j] > 0
        /\ Tombstones' /\ Shells'
    <3>1. CASE Fresh(m.id)
      <4>1. Hand(m.id, log[m.id])
        BY <1>11, <2>1, <3>1 DEF Receive
      <4> QED
        BY <2>1, <3>1, <4>1, HandGone
    <3>2. CASE ~Fresh(m.id)
      <4>1. UNCHANGED <<applied, page, handed, phase, seeded, log, late, answerRow>>
        BY <1>11, <2>1, <3>2 DEF Receive
      <4>2. Tombstones'
        BY <1>3, <4>1 DEF GoneInv, Tombstones
      <4>3. Shells'
        BY <1>3, <4>1 DEF GoneInv, Shells, TakenBack, RetractionOf, TellsOf, Shown
      <4> QED
        BY <4>1, <4>2, <4>3 DEF GoneInv, CursorInv
    <3> QED
      BY <3>1, <3>2
  <2>3. \A j \in Visible \ late : j <= lastSeen => j \in seeded \/ handed'[j] > 0
    BY <1>3, <2>1, <2>2 DEF GoneInv, CursorInv
  <2>4. CursorInv'
    BY <1>3, <2>1, <2>2, <2>3 DEF GoneInv, CursorInv
  <2> QED
    BY <2>2, <2>4
<1>12. ASSUME NEW s \in SynthesisId, PinAnswer(s) PROVE CursorInv' /\ Tombstones' /\ Shells'
  <2> DEFINE a == page.syntheses
             r == [a[s] EXCEPT !.pinned = TRUE]
             b == [a EXCEPT ![s] = r]
  <2>1. /\ s \in DOMAIN a /\ page' = [page EXCEPT !.syntheses = b] /\ phase = "live"
        /\ UNCHANGED <<phase, lastSeen, applied, fetch, seeded, handed, net, log, late, answerRow>>
    BY <1>1, <1>12 DEF PinAnswer, Listening, SynthesisPinned, Shown, IInv, SoundPage, PageShape
  <2>2. a[s] \in Answer
    BY <2>1, SoundAnswerType DEF IInv, SoundPage
  <2>3. r.text = a[s].text
    BY <2>2 DEF Answer
  <2> HIDE DEF r
  <2>4. DOMAIN b = DOMAIN a /\ \A q \in DOMAIN a : b[q].text = a[q].text
    <3>1. PICK D \in SUBSET SynthesisId : a \in [D -> Answer]
      BY DEF IInv, SoundPage, SoundAnswers, PFun
    <3> QED
      BY <2>1, <2>3, <3>1
  <2> HIDE DEF b
  <2>5. page'.syntheses = b /\ page'.retractedSyntheses = page.retractedSyntheses
    BY <2>1 DEF IInv, SoundPage, PageShape
  <2>6. CursorInv'
    BY <1>3, <2>1 DEF GoneInv, CursorInv
  <2>7. Tombstones'
    BY <1>3, <2>1, <2>4, <2>5 DEF GoneInv, Tombstones
  <2>8. Shells'
    BY <1>3, <2>1, <2>4, <2>5 DEF GoneInv, Shells, TakenBack, RetractionOf, TellsOf, Shown
  <2> QED
    BY <2>6, <2>7, <2>8
<1> QED
  BY <1>6, <1>7, <1>8, <1>9, <1>10, <1>11, <1>12 DEF PageStep

-----------------------------------------------------------------------------
LEMMA InitGone == Init => FeedInv /\ GoneInv
<1> SUFFICES ASSUME Init PROVE FeedInv /\ GoneInv
  OBVIOUS
<1>1. /\ queue \in Scripts /\ writing = [w \in Writer |-> Idle] /\ log = <<>> /\ net = {}
      /\ answerRow = [s \in SynthesisId |-> NoRow] /\ phase = "unopened"
      /\ page = initialAppState /\ lastSeen = 0 /\ applied = <<>> /\ fetch = NoFetch
      /\ seeded = {}
  BY DEF Init, StreamInit
<1>2. FeedInv /\ Visible = {}
  BY FeedInit, StreamAssumption DEF Init
<1>3. \A s \in SynthesisId : queue[s] = <<>> /\ DOMAIN queue[s] = {} /\ s \in Writer
  BY <1>1, AnswersAssumption DEF AnswersAssumption
<1>4. LastWords
  BY <1>2, <1>3 DEF LastWords, TakenBack
<1>5. SentAsStored
  BY <1>1, <1>2 DEF SentAsStored, Idle
<1>6. /\ DOMAIN page.syntheses = {} /\ page.retractedSyntheses = {}
  BY <1>1 DEF initialAppState
<1>7. CursorInv
  <2>1. applied \in Seq(EventId) /\ ToSet(applied) = {} /\ fetch.rows = {}
    BY <1>1, EmptySeq DEF ToSet, NoFetch
  <2> QED
    BY <1>1, <1>2, <2>1 DEF CursorInv
<1>8. Tombstones
  BY <1>1, <1>2, <1>6 DEF Tombstones
<1>9. Shells
  BY <1>1, <1>6 DEF Shells, TakenBack, NoRow
<1> QED
  BY <1>2, <1>4, <1>5, <1>7, <1>8, <1>9 DEF GoneInv

\* The steps of the synthesis and a restart leave the feed's invariant as it is.
LEMMA NextFeed == ASSUME FeedInv, [Next]_vars PROVE FeedInv'
<1>1. ASSUME UNCHANGED <<writing, nextId, log, net, fetch, lastSeen, seeded, handed, phase>>
      PROVE  FeedInv'
  BY <1>1 DEF FeedInv, IdsInv, ReachInv, Visible
<1>2. ASSUME NEW s \in SynthesisId,
             Begin(s) \/ TextDelta(s) \/ Finish(s) \/ SynthesizerFails(s)
      PROVE  FeedInv'
  <2>1. CASE Begin(s)
    BY <1>1, <2>1 DEF Begin, streamVars
  <2>2. CASE TextDelta(s)
    BY <1>1, <2>2 DEF TextDelta, Enqueue, pageVars
  <2>3. CASE Finish(s)
    BY <1>1, <2>3 DEF Finish, Enqueue, pageVars
  <2>4. CASE SynthesizerFails(s)
    BY <1>1, <2>4 DEF SynthesizerFails, Enqueue, streamVars, pageVars
  <2> QED
    BY <1>2, <2>1, <2>2, <2>3, <2>4
<1>3. ASSUME NEW w \in Writer, AnswerWriterStep(w) PROVE FeedInv'
  BY <1>3, WriterFeeds, StreamAssumption DEF AnswerWriterStep
<1>4. CASE Crash
  <2>1. /\ writing' = [w \in Writer |-> Idle]
        /\ UNCHANGED <<nextId, log, net, fetch, lastSeen, seeded, handed, phase>>
    BY <1>4 DEF Crash, pageVars
  <2>2. Idle.stage = "idle" /\ Idle.id = 0
        /\ Idle \in [stage : {"idle", "row", "insert", "send"}, id : Nat]
    BY DEF Idle
  <2>3. writing' \in [Writer -> [stage : {"idle", "row", "insert", "send"}, id : Nat]]
        /\ \A w \in Writer : writing'[w].stage = "idle" /\ writing'[w].id = 0
    BY <2>1, <2>2
  <2>4. IdsInv'
    BY <2>1, <2>3 DEF FeedInv, IdsInv, Visible
  <2> QED
    BY <2>1, <2>4 DEF FeedInv, ReachInv, Visible
<1>5. CASE PageStep /\ UNCHANGED answerVars
  BY <1>5, PageFeeds, StreamAssumption
<1>6. CASE UNCHANGED vars
  BY <1>1, <1>6 DEF vars
<1> QED
  BY <1>2, <1>3, <1>4, <1>5, <1>6 DEF Next

LEMMA NextGone ==
    ASSUME IInv, WholeInv, FeedInv, GoneInv, [Next]_vars PROVE GoneInv'
<1>1. IInv'
  BY NextInv
<1>2. ASSUME NEW s \in SynthesisId,
             Begin(s) \/ TextDelta(s) \/ Finish(s) \/ SynthesizerFails(s)
      PROVE  GoneInv'
  BY <1>1, <1>2, SynthesisGone
<1>3. ASSUME NEW w \in Writer, AnswerWriterStep(w) PROVE GoneInv'
  BY <1>3, WriterGone DEF AnswerWriterStep
<1>4. CASE Crash
  BY <1>4, CrashGone
<1>5. CASE PageStep /\ UNCHANGED answerVars
  BY <1>5, PageGone
<1>6. CASE UNCHANGED vars
  BY <1>6, StreamStutters DEF vars, streamVars
<1> QED
  BY <1>2, <1>3, <1>4, <1>5, <1>6 DEF Next

\* For any number of answers, losses, failed writes, restarts, forgotten ids and partial
\* polls, in whatever order the rows become visible: a retraction that is stored was
\* seeded, and every row about its answer with it, or has been handed to the reducer
\* once the cursor has passed it, unless it became visible late.
THEOREM GoneInductive == Spec => [](FeedInv /\ GoneInv)
<1>1. Init => FeedInv /\ GoneInv
  BY InitGone
<1>2. IInv /\ WholeInv /\ (FeedInv /\ GoneInv) /\ [Next]_vars => (FeedInv /\ GoneInv)'
  BY NextFeed, NextGone
<1> QED
  BY <1>1, <1>2, Inductive, WholeInductive, PTL DEF Spec

\* Once everything is quiet, no prose of an answer that was taken back in the log is
\* on the page, and the answer itself is gone unless its retraction did not reach its
\* row (sink-supabase.ts retracts the row, the log and the page one after another; the
\* page is seeded, told and polled in any order). A retraction that became visible
\* after a row with a higher id is excepted: the cursor may have passed it.
THEOREM RetractedProseGoesAlways == Spec => []RetractedProseGoes
<1>1. FeedInv /\ GoneInv => RetractedProseGoes
  <2> SUFFICES ASSUME FeedInv, GoneInv, Quiet, NEW s \in SynthesisId,
                      NEW i \in Visible \ late, log[i].type = "synthesisRetracted",
                      log[i].id = s, Shown(page, s)
               PROVE  page.syntheses[s].text = <<>> /\ answerRow[s].status # "retracted"
    BY DEF RetractedProseGoes
  <2>1. RetractionOf(log[i], s)
    BY DEF RetractionOf
  <2>2. i \in seeded \/ handed[i] > 0
    BY DEF Quiet, GoneInv, CursorInv
  <2>3. ~(handed[i] > 0)
    BY DEF GoneInv, Tombstones, Shown
  <2>4. TakenBack(seeded, s)
    BY <2>1, <2>2, <2>3 DEF TakenBack
  <2> QED
    BY <2>4 DEF GoneInv, Shells
<1> QED
  BY <1>1, GoneInductive, PTL
=============================================================================
