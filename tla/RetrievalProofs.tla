--------------------------- MODULE RetrievalProofs ---------------------------
(***************************************************************************)
(* For any number of messages, however their handlers interleave: ambient  *)
(* retrievals keep their distance, an answered question is not retrieved   *)
(* for again, and the questions that skip the cooldown keep their budgets. *)
(***************************************************************************)
EXTENDS Retrieval, FiniteSetTheorems, FunctionTheorems, TLAPS

-----------------------------------------------------------------------------
(***************************************************************************)
(* The inductive invariant.                                                *)
(***************************************************************************)
\* A handler has its fields, and its message came in at some earlier time.
Formed(h) ==
    /\ h = [stage |-> h.stage, text |-> h.text, query |-> h.query,
            at |-> h.at, effective |-> h.effective,
            vec |-> h.vec, ids |-> h.ids, docs |-> h.docs]
    /\ h.at \in Nat /\ h.at <= clock

HandlersFormed ==
    /\ clock \in Nat
    /\ DOMAIN handler = Message /\ handler = [m \in Message |-> handler[m]]
    /\ \A m \in Message : Formed(handler[m])

\* Only a question waits for its embedding.
QuestionsEmbed ==
    \A m \in Message : handler[m].stage = "embedding" => handler[m].text \in Question

\* What was fired is listed in the order of time, lastRetrievalAt is the time the
\* last of it computed with, and only a question computes with an older time than
\* that of its retrieval.
FiresInOrder ==
    /\ \E V : fires \in Seq(V)
    /\ lastRetrievalAt = IF fires = <<>> THEN -Cooldown ELSE fires[Len(fires)].at
    /\ \A i \in 1..Len(fires) :
          /\ fires[i].real \in Nat /\ fires[i].real <= clock /\ fires[i].at \in Nat
          /\ ~fires[i].question => fires[i].at = fires[i].real
    /\ \A i, j \in 1..Len(fires) : i <= j => fires[i].real <= fires[j].real

\* An answered question is in the ledger for as long as the window lasts.
AnswersRemembered ==
    \A m \in Message :
        handler[m].stage = "answered" /\ handler[m].text \in Question /\ handler[m].vec
        => \/ \E e \in answeredQuestions : e.query = handler[m].query /\ e.at = handler[m].at
           \/ clock - handler[m].at >= DupWindow

\* An answer stands.
AnsweredStays ==
    \A i \in 1..Len(fires) : \A m \in fires[i].answered :
        m \in Message /\ handler[m].stage = "answered"

IInv ==
    /\ HandlersFormed /\ QuestionsEmbed /\ FiresInOrder /\ AnswersRemembered /\ AnsweredStays
    /\ AmbientSpacing /\ NoLateRepeat

LEMMA OverFormed ==
    ASSUME clock \in Nat
    PROVE  Formed(NotArrived) /\ Formed(Over) /\ Over.stage = "over"
<1>1. NotArrived.at = 0 /\ 0 \in Nat /\ 0 <= clock
  BY DEF NotArrived
<1>2. Formed(NotArrived)
  BY <1>1 DEF Formed, NotArrived
<1>3. Over = [NotArrived EXCEPT !.stage = "over"]
  BY DEF Over
<1> QED
  BY <1>2, <1>3 DEF Formed

LEMMA InitHolds == ASSUME RetrievalAssumption, Init PROVE IInv
<1>1. fires = <<>> /\ fires \in Seq({}) /\ Len(fires) = 0 /\ 1..Len(fires) = {} /\ DOMAIN fires = {}
  BY DEF Init
<1>2. HandlersFormed
  <2>1. clock = 0 /\ handler = [m \in Message |-> NotArrived]
    BY DEF Init
  <2>2. Formed(NotArrived)
    BY <2>1, OverFormed
  <2> QED
    BY <2>1, <2>2 DEF HandlersFormed
<1>3. AnswersRemembered
  BY DEF Init, AnswersRemembered, NotArrived
<1>4. FiresInOrder
  BY <1>1 DEF Init, FiresInOrder
<1>5. QuestionsEmbed
  BY DEF Init, QuestionsEmbed, NotArrived
<1> QED
  BY <1>1, <1>2, <1>3, <1>4, <1>5 DEF IInv, AnsweredStays, AmbientSpacing, NoLateRepeat

-----------------------------------------------------------------------------
(***************************************************************************)
(* What a step leaves alone.                                               *)
(***************************************************************************)
LEMMA AnsweredFormed ==
    ASSUME NEW h, Formed(h)
    PROVE  /\ Formed(Answered(h)) /\ Answered(h).stage = "answered"
           /\ Answered(h).text = h.text /\ Answered(h).query = h.query
           /\ Answered(h).at = h.at /\ Answered(h).vec = h.vec
<1> DEFINE a == Answered(h)
<1>1. a = [stage |-> "answered", text |-> h.text, query |-> h.query, at |-> h.at,
           effective |-> <<>>, vec |-> h.vec, ids |-> "none", docs |-> {}]
  BY DEF Answered
<1> HIDE DEF a
<1>2. /\ a.stage = "answered" /\ a.text = h.text /\ a.query = h.query
      /\ a.at = h.at /\ a.vec = h.vec
      /\ a = [stage |-> a.stage, text |-> a.text, query |-> a.query, at |-> a.at,
              effective |-> a.effective, vec |-> a.vec, ids |-> a.ids, docs |-> a.docs]
  BY <1>1
<1>3. Formed(a)
  BY <1>2 DEF Formed
<1> QED
  BY <1>2, <1>3 DEF a

\* One handler moves on.
LEMMA HandlerMoves ==
    ASSUME HandlersFormed, NEW m \in Message, NEW h, Formed(h), clock' = clock,
           handler' = [handler EXCEPT ![m] = h]
    PROVE  HandlersFormed' /\ handler'[m] = h /\ \A n \in Message \ {m} : handler'[n] = handler[n]
BY DEF HandlersFormed, Formed

\* Nothing is fired, and no answer is forgotten.
LEMMA NothingFired ==
    ASSUME IInv, UNCHANGED <<fires, lastRetrievalAt>>, clock' \in Nat, clock' >= clock,
           \A n \in Message : handler[n].stage = "answered" => handler'[n] = handler[n]
    PROVE  FiresInOrder' /\ AnsweredStays' /\ AmbientSpacing' /\ NoLateRepeat'
<1>1. clock \in Nat
  BY DEF IInv, HandlersFormed
<1>2. FiresInOrder'
  BY <1>1 DEF IInv, FiresInOrder
<1>3. AnsweredStays'
  BY DEF IInv, AnsweredStays
<1>4. AmbientSpacing'
  BY DEF IInv, AmbientSpacing
<1>5. \A i \in DOMAIN fires : \A n \in fires[i].answered : handler'[n] = handler[n]
  <2>1. DOMAIN fires = 1..Len(fires)
    BY DEF IInv, FiresInOrder
  <2> QED
    BY <2>1 DEF IInv, AnsweredStays
<1>6. NoLateRepeat'
  BY <1>5 DEF IInv, NoLateRepeat
<1> QED
  BY <1>2, <1>3, <1>4, <1>6

\* Nothing is answered, and the ledger loses only what is out of its window.
LEMMA NothingAnswered ==
    ASSUME RetrievalAssumption, IInv, clock' \in Nat, clock' >= clock,
           \A n \in Message : handler'[n].stage = "answered" => handler'[n] = handler[n],
           \A e \in answeredQuestions : Within(e.at, clock, DupWindow) => e \in answeredQuestions'
    PROVE  AnswersRemembered'
<1> SUFFICES ASSUME NEW m \in Message, handler'[m].stage = "answered",
                    handler'[m].text \in Question, handler'[m].vec
             PROVE  \/ \E e \in answeredQuestions' :
                          e.query = handler'[m].query /\ e.at = handler'[m].at
                    \/ clock' - handler'[m].at >= DupWindow
  BY DEF AnswersRemembered
<1>1. handler'[m] = handler[m] /\ handler[m].at \in Nat /\ clock \in Nat /\ DupWindow \in Nat
  BY DEF IInv, HandlersFormed, Formed, RetrievalAssumption
<1>2. CASE clock - handler[m].at >= DupWindow
  BY <1>1, <1>2
<1>3. CASE ~(clock - handler[m].at >= DupWindow)
  <2>1. PICK e \in answeredQuestions : e.query = handler[m].query /\ e.at = handler[m].at
    BY <1>1, <1>3 DEF IInv, AnswersRemembered
  <2>2. Within(e.at, clock, DupWindow)
    BY <1>1, <1>3, <2>1 DEF Within
  <2> QED
    BY <1>1, <2>1, <2>2
<1> QED
  BY <1>2, <1>3

-----------------------------------------------------------------------------
(***************************************************************************)
(* What the gate does.                                                     *)
(***************************************************************************)
\* The record of a retrieval triggered for handler h.
Fire(h) ==
    [query |-> h.query, at |-> h.at, real |-> clock, nr |-> fireCount,
     question |-> h.text \in Question,
     free |-> ~MustRespectCooldown(h), vec |-> h.vec,
     answered |-> {n \in Message : handler[n].stage = "answered"}]

LEMMA AppendedOne ==
    ASSUME NEW V, NEW s \in Seq(V), NEW e
    PROVE  /\ Append(s, e) \in Seq(V \cup {e}) /\ Append(s, e) # <<>>
           /\ Len(Append(s, e)) = Len(s) + 1
           /\ Append(s, e)[Len(s) + 1] = e
           /\ \A i \in 1..Len(s) : Append(s, e)[i] = s[i]
<1>1. Append(s, e) \in Seq(V \cup {e}) /\ Len(Append(s, e)) = Len(s) + 1
  OBVIOUS
<1>2. Append(s, e)[Len(s) + 1] = e
  OBVIOUS
<1>3. \A i \in 1..Len(s) : Append(s, e)[i] = s[i]
  OBVIOUS
<1> QED
  BY <1>1, <1>2, <1>3

LEMMA PastCooldown ==
    \A now, at, wait \in Nat : ~(now - at < wait) => at + wait <= now
OBVIOUS

LEMMA NotWithin ==
    \A now, earlier, later, wait \in Nat :
        earlier <= later /\ later + wait <= now => ~(now - earlier < wait)
OBVIOUS

LEMMA StillLater ==
    \A now, at, earlier, window \in Nat :
        at <= now /\ ~(at - earlier < window) => now - earlier >= window
OBVIOUS

\* A retrieval is triggered: h passed the gate and, if it is a question with an
\* embedding, the duplicate check. The answers given so far stand.
LEMMA FiredOne ==
    ASSUME RetrievalAssumption, IInv, NEW h, Formed(h), UNCHANGED clock,
           fires' = Append(fires, Fire(h)), lastRetrievalAt' = h.at,
           MustRespectCooldown(h) => ~Within(lastRetrievalAt, h.at, Cooldown),
           h.text \notin Question => h.at = clock,
           h.vec => ~IsNearDuplicate(h.query, Near, h.at),
           \A n \in Message : handler[n].stage = "answered" => handler'[n] = handler[n]
    PROVE  FiresInOrder' /\ AnsweredStays' /\ AmbientSpacing' /\ NoLateRepeat'
<1> DEFINE n == Len(fires)
           f == Fire(h)
<1>1. PICK V : fires \in Seq(V)
  BY DEF IInv, FiresInOrder
<1>2. n \in Nat /\ DOMAIN fires = 1..n /\ (fires # <<>> => n >= 1)
  BY <1>1
<1>3. /\ fires' \in Seq(V \cup {f}) /\ fires' # <<>> /\ Len(fires') = n + 1
      /\ fires'[n + 1] = f /\ \A i \in 1..n : fires'[i] = fires[i]
  BY <1>1, AppendedOne
<1>4. DOMAIN fires' = 1..(n + 1) /\ \A i \in 1..(n + 1) : i \in 1..n \/ i = n + 1
  BY <1>2, <1>3
<1>5. clock \in Nat /\ h.at \in Nat /\ h.at <= clock /\ Cooldown \in Nat /\ DupWindow \in Nat
  BY DEF IInv, HandlersFormed, Formed, RetrievalAssumption
<1>6. f.at = h.at /\ f.real = clock /\ f.question = (h.text \in Question) /\ f.vec = h.vec
      /\ f.query = h.query /\ f.answered = {m \in Message : handler[m].stage = "answered"}
  BY DEF Fire
<1>7. \A i \in 1..n : fires[i].real \in Nat /\ fires[i].real <= clock /\ fires[i].at \in Nat
  BY DEF IInv, FiresInOrder
<1>7a. \A i \in 1..n : ~fires[i].question => fires[i].at = fires[i].real
  BY Zenon DEF IInv, FiresInOrder
<1>8. \A i, j \in 1..n : i <= j => fires[i].real <= fires[j].real
  BY DEF IInv, FiresInOrder
<1> HIDE DEF n, f
<1>9. FiresInOrder'
  <2>1. lastRetrievalAt' = fires'[n + 1].at
    BY <1>3, <1>6
  <2>2. \A i \in 1..(n + 1) :
           /\ fires'[i].real \in Nat /\ fires'[i].real <= clock /\ fires'[i].at \in Nat
           /\ ~fires'[i].question => fires'[i].at = fires'[i].real
    <3>1. \A i \in 1..n : fires'[i] = fires[i]
      BY <1>3
    <3>2. fires'[n + 1].real = clock /\ fires'[n + 1].at = h.at
          /\ (~fires'[n + 1].question => h.at = clock)
      BY <1>3, <1>6
    <3>3. ASSUME NEW i \in 1..(n + 1)
          PROVE  /\ fires'[i].real \in Nat /\ fires'[i].real <= clock /\ fires'[i].at \in Nat
                 /\ ~fires'[i].question => fires'[i].at = fires'[i].real
      <4>1. CASE i \in 1..n
        <5>1. fires'[i] = fires[i]
          BY <3>1, <4>1, Zenon
        <5>2. fires[i].real \in Nat /\ fires[i].real <= clock /\ fires[i].at \in Nat
          BY <1>7, <4>1, Zenon
        <5>3. ~fires[i].question => fires[i].at = fires[i].real
          BY <1>7a, <4>1, Zenon
        <5> QED
          BY <5>1, <5>2, <5>3, Zenon
      <4>2. clock <= clock
        BY <1>5
      <4>3. CASE i = n + 1
        BY <1>5, <3>2, <4>2, <4>3, Zenon
      <4> QED
        BY <1>4, <4>1, <4>3
    <3> QED
      BY <3>3
  <2>3. ASSUME NEW i \in 1..(n + 1), NEW j \in 1..(n + 1), i <= j
        PROVE  fires'[i].real <= fires'[j].real
    <3>1. CASE j \in 1..n
      <4>1. i \in 1..n
        BY <1>2, <2>3, <3>1
      <4> QED
        BY <1>3, <1>8, <2>3, <3>1, <4>1
    <3>2. CASE j = n + 1
      BY <1>3, <1>6, <2>2, <3>2
    <3> QED
      BY <1>4, <3>1, <3>2
  <2> QED
    BY <1>3, <2>1, <2>2, <2>3 DEF FiresInOrder
<1>10. \A i \in 1..(n + 1) : \A m \in fires'[i].answered :
          m \in Message /\ handler[m].stage = "answered"
  <2>1. \A i \in 1..n : \A m \in fires[i].answered : m \in Message /\ handler[m].stage = "answered"
    BY DEF n, IInv, AnsweredStays
  <2> QED
    BY <1>3, <1>4, <1>6, <2>1
<1>11. AnsweredStays'
  BY <1>3, <1>10 DEF AnsweredStays
<1>12. AmbientSpacing'
  <2> SUFFICES ASSUME NEW i \in 1..(n + 1), NEW j \in 1..(n + 1), i < j,
                      ~fires'[i].question, ~fires'[j].question,
                      fires'[j].real - fires'[i].real < Cooldown
               PROVE  \E k \in i..j : fires'[k].question /\ fires'[k].at + Cooldown <= fires'[j].real
    BY <1>4 DEF AmbientSpacing
  <2>1. i \in 1..n /\ fires'[i] = fires[i]
    BY <1>2, <1>3
  <2>2. CASE j \in 1..n
    <3>1. PICK k \in i..j : fires[k].question /\ fires[k].at + Cooldown <= fires[j].real
      BY <1>2, <1>3, <2>1, <2>2 DEF IInv, AmbientSpacing
    <3>2. k \in 1..n
      BY <1>2, <2>1, <2>2
    <3> QED
      BY <1>3, <2>2, <3>1, <3>2
  <2>3. CASE j = n + 1
    <3>1. n \in 1..n /\ i <= n /\ fires # <<>>
      BY <1>1, <1>2, <2>1 DEF n
    <3>2. lastRetrievalAt = fires[n].at
      BY <3>1 DEF n, IInv, FiresInOrder
    <3>3. h.text \notin Question /\ h.at = clock /\ fires'[j].real = clock
      BY <1>3, <1>6, <2>3
    <3>4. ~(clock - fires[n].at < Cooldown)
      BY <3>2, <3>3 DEF MustRespectCooldown, Within
    <3>5. fires[i].real <= fires[n].real
      BY <1>8, <2>1, <3>1
    <3>6. fires[i].real \in Nat /\ fires[n].real \in Nat /\ fires[n].at \in Nat
      BY <1>7, <2>1, <3>1, Zenon
    <3>6a. ~fires[n].question => fires[n].at = fires[n].real
      BY <1>7a, <3>1, Zenon
    <3>7. n \in i..j /\ fires'[n] = fires[n]
      BY <1>2, <1>3, <2>1, <2>3, <3>1
    <3>8. fires[n].at + Cooldown <= clock
      BY <1>5, <3>4, <3>6, PastCooldown, Zenon
    <3>9. clock - fires[i].real < Cooldown
      BY <2>1, <3>3
    <3>10. fires[n].question
      BY <1>5, <3>5, <3>6, <3>8, <3>9, <3>6a, NotWithin, Zenon
    <3> QED
      BY <3>3, <3>7, <3>8, <3>10
  <2> QED
    BY <1>4, <2>2, <2>3
<1>13. NoLateRepeat'
  <2> SUFFICES ASSUME NEW i \in 1..(n + 1), fires'[i].vec, NEW m \in fires'[i].answered,
                      handler'[m].text \in Question, handler'[m].vec,
                      handler'[m].query \in Near[fires'[i].query]
               PROVE  fires'[i].real - handler'[m].at >= DupWindow
    BY <1>4 DEF NoLateRepeat
  <2>1. m \in Message /\ handler[m].stage = "answered" /\ handler'[m] = handler[m]
    BY <1>10
  <2>2. CASE i \in 1..n
    BY <1>2, <1>3, <2>1, <2>2 DEF IInv, NoLateRepeat
  <2>3. CASE i = n + 1
    <3>1. handler[m].at \in Nat
      BY <2>1 DEF IInv, HandlersFormed, Formed
    <3>2. CASE clock - handler[m].at >= DupWindow
      BY <1>3, <1>6, <2>1, <2>3, <3>2
    <3>3. CASE ~(clock - handler[m].at >= DupWindow)
      <4>1. PICK e \in answeredQuestions : e.query = handler[m].query /\ e.at = handler[m].at
        BY <2>1, <3>3 DEF IInv, AnswersRemembered
      <4>2. e.query \in Near[h.query] /\ h.vec
        BY <1>3, <1>6, <2>1, <2>3, <4>1
      <4>3. ~Within(e.at, h.at, DupWindow)
        BY <4>2 DEF IsNearDuplicate
      <4>4. ~(h.at - handler[m].at < DupWindow)
        BY <4>1, <4>3 DEF Within
      <4> QED
        BY <1>5, <3>1, <3>3, <4>4, StillLater, Zenon
    <3> QED
      BY <3>2, <3>3
  <2> QED
    BY <1>4, <2>2, <2>3
<1> QED
  BY <1>9, <1>11, <1>12, <1>13

\* Handler m, which carries h and has not answered, is at the gate.
LEMMA AtTheGate ==
    ASSUME RetrievalAssumption, IInv, NEW m \in Message, NEW h, NEW count, Formed(h),
           Gate(m, h, count), UNCHANGED clock, handler[m].stage # "answered",
           h.text \notin Question => h.at = clock,
           h.vec => ~IsNearDuplicate(h.query, Near, h.at),
           \A e \in answeredQuestions : Within(e.at, clock, DupWindow) => e \in answeredQuestions'
    PROVE  IInv'
<1>1. CASE ~Refused(h, count)
  <2>1. /\ handler' = [handler EXCEPT ![m] = Fired(h)]
        /\ fires' = Append(fires, Fire(h)) /\ lastRetrievalAt' = h.at
    BY <1>1 DEF Gate, Fire
  <2>2. Formed(Fired(h)) /\ Fired(h).stage \notin {"answered", "embedding"}
    BY DEF Formed, Fired
  <2>3. HandlersFormed' /\ handler'[m] = Fired(h) /\ \A n \in Message \ {m} : handler'[n] = handler[n]
    BY <2>1, <2>2, HandlerMoves DEF IInv
  <2>4. MustRespectCooldown(h) => ~Within(lastRetrievalAt, h.at, Cooldown)
    BY <1>1 DEF Refused
  <2>5. FiresInOrder' /\ AnsweredStays' /\ AmbientSpacing' /\ NoLateRepeat'
    BY <2>1, <2>3, <2>4, FiredOne
  <2>6. AnswersRemembered'
    BY <2>2, <2>3, NothingAnswered DEF IInv, HandlersFormed
  <2>7. QuestionsEmbed'
    BY <2>2, <2>3 DEF IInv, QuestionsEmbed
  <2> QED
    BY <2>3, <2>5, <2>6, <2>7 DEF IInv
<1>2. CASE Refused(h, count)
  <2>1. handler' = [handler EXCEPT ![m] = Over] /\ UNCHANGED <<fires, lastRetrievalAt>>
    BY <1>2 DEF Gate
  <2>2. Formed(Over) /\ Over.stage = "over"
    BY OverFormed DEF IInv, HandlersFormed
  <2>3. HandlersFormed' /\ handler'[m] = Over /\ \A n \in Message \ {m} : handler'[n] = handler[n]
    BY <2>1, <2>2, HandlerMoves DEF IInv
  <2>4. FiresInOrder' /\ AnsweredStays' /\ AmbientSpacing' /\ NoLateRepeat'
    BY <2>1, <2>3, NothingFired DEF IInv, HandlersFormed
  <2>5. AnswersRemembered'
    BY <2>2, <2>3, NothingAnswered DEF IInv, HandlersFormed
  <2>6. QuestionsEmbed'
    BY <2>2, <2>3 DEF IInv, QuestionsEmbed
  <2> QED
    BY <2>3, <2>4, <2>5, <2>6 DEF IInv
<1> QED
  BY <1>1, <1>2

\* Handler m moves on to h without firing or answering.
LEMMA MovesOn ==
    ASSUME RetrievalAssumption, IInv, NEW m \in Message, NEW h, Formed(h), h.stage # "answered",
           h.stage = "embedding" => h.text \in Question,
           handler' = [handler EXCEPT ![m] = h], handler[m].stage # "answered",
           UNCHANGED <<clock, fires, lastRetrievalAt>>,
           \A e \in answeredQuestions : Within(e.at, clock, DupWindow) => e \in answeredQuestions'
    PROVE  IInv'
<1>1. HandlersFormed' /\ handler'[m] = h /\ \A n \in Message \ {m} : handler'[n] = handler[n]
  BY HandlerMoves DEF IInv
<1>2. clock \in Nat /\ clock' \in Nat /\ clock' >= clock
  BY DEF IInv, HandlersFormed
<1>3. FiresInOrder' /\ AnsweredStays' /\ AmbientSpacing' /\ NoLateRepeat'
  BY <1>1, <1>2, NothingFired
<1>4. AnswersRemembered'
  BY <1>1, <1>2, NothingAnswered
<1>5. QuestionsEmbed'
  BY <1>1 DEF IInv, QuestionsEmbed
<1> QED
  BY <1>1, <1>3, <1>4, <1>5 DEF IInv

-----------------------------------------------------------------------------
(***************************************************************************)
(* The induction.                                                          *)
(***************************************************************************)
LEMMA HandlerFormed ==
    ASSUME IInv, NEW m \in Message
    PROVE  Formed(handler[m]) /\ handler[m].at \in Nat /\ clock \in Nat
BY DEF IInv, HandlersFormed, Formed

LEMMA ArriveKeeps ==
    ASSUME RetrievalAssumption, IInv, NEW m \in Message, NEW t \in Text, NEW topic,
           Arrive(m, t, topic)
    PROVE  IInv'
<1> DEFINE finals == Latest(Append(recentFinals, t), WindowUtterances)
           effective == EffectiveWindow(finals, consumedFinals)
           query == IF t \in Question THEN BuildQuestionQuery(t, finals, topic) ELSE <<>>
           h == [stage |-> "embedding", text |-> t, query |-> query, at |-> clock,
                 effective |-> effective, vec |-> FALSE, ids |-> "none", docs |-> {}]
<1>1. Formed(h) /\ h.text = t /\ h.at = clock /\ h.vec = FALSE /\ h.stage = "embedding"
  <2>1. clock \in Nat /\ clock <= clock
    BY DEF IInv, HandlersFormed
  <2> QED
    BY <2>1 DEF Formed
<1>2. UNCHANGED clock /\ handler[m].stage # "answered"
  BY DEF Arrive
<1>3. CASE t \in Question
  <2>1. /\ handler' = [handler EXCEPT ![m] = h] /\ UNCHANGED <<fires, lastRetrievalAt>>
        /\ answeredQuestions' = {e \in answeredQuestions : Within(e.at, clock, DupWindow)}
    BY <1>3 DEF Arrive
  <2> HIDE DEF h
  <2> QED
    BY <1>1, <1>2, <1>3, <2>1, MovesOn
<1>4. CASE t \notin Question
  <2>1. Gate(m, h, sinceLast + 1) /\ UNCHANGED answeredQuestions
    BY <1>4 DEF Arrive
  <2> HIDE DEF h
  <2> QED
    BY <1>1, <1>2, <1>4, <2>1, AtTheGate
<1> QED
  BY <1>3, <1>4

LEMMA EmbedReturnsKeeps ==
    ASSUME RetrievalAssumption, IInv, NEW m \in Message, EmbedReturns(m)
    PROVE  IInv'
<1>1. handler[m].stage = "embedding" /\ UNCHANGED <<clock, answeredQuestions>>
  BY DEF EmbedReturns, ledgers
<1>2. PICK vec \in BOOLEAN :
        LET h == [handler[m] EXCEPT !.vec = vec] IN
        IF vec /\ IsNearDuplicate(h.query, Near, h.at)
        THEN handler' = [handler EXCEPT ![m] = Over] /\ UNCHANGED gates
        ELSE Gate(m, h, sinceLast)
  BY DEF EmbedReturns
<1> DEFINE h == [handler[m] EXCEPT !.vec = vec]
<1>3. Formed(h) /\ h.vec = vec /\ h.text \in Question
  <2>1. handler[m].text \in Question
    BY <1>1 DEF IInv, QuestionsEmbed
  <2>2. Formed(handler[m])
    BY HandlerFormed
  <2>3. h = [stage |-> handler[m].stage, text |-> handler[m].text,
             query |-> handler[m].query, at |-> handler[m].at,
             effective |-> handler[m].effective, vec |-> vec, ids |-> handler[m].ids,
             docs |-> handler[m].docs]
    BY <2>2 DEF Formed
  <2> HIDE DEF h
  <2>4. h.vec = vec /\ h.text = handler[m].text /\ h.at = handler[m].at
    BY <2>3
  <2>5. h = [stage |-> h.stage, text |-> h.text, query |-> h.query,
             at |-> h.at, effective |-> h.effective,
             vec |-> h.vec, ids |-> h.ids, docs |-> h.docs]
    BY <2>3
  <2> QED
    BY <2>1, <2>2, <2>4, <2>5 DEF Formed
<1>4. CASE vec /\ IsNearDuplicate(h.query, Near, h.at)
  BY <1>1, <1>2, <1>4, OverFormed, HandlerFormed, MovesOn DEF gates
<1>5. CASE ~(vec /\ IsNearDuplicate(h.query, Near, h.at))
  <2>1. Gate(m, h, sinceLast)
    BY <1>2, <1>5
  <2> QED
    BY <1>1, <1>3, <1>5, <2>1, AtTheGate
<1> QED
  BY <1>4, <1>5

\* A handler that waits for its scope, its search or its answer moves on.
LEMMA SearchKeeps ==
    ASSUME RetrievalAssumption, IInv, NEW m \in Message,
           \/ ScopeReturns(m) \/ FindsNothing(m) \/ Ungrounded(m)
           \/ \E docs \in SUBSET Doc \ {{}} : Surfaces(m, docs)
    PROVE  IInv'
<1>1. /\ handler[m].stage \in {"scoping", "searching", "answering"}
      /\ UNCHANGED <<clock, fires, lastRetrievalAt, answeredQuestions>>
  BY DEF ScopeReturns, FindsNothing, Ungrounded, Surfaces, gates, ledgers
<1>2. Formed(handler[m]) /\ Formed(Over) /\ Over.stage = "over"
  BY HandlerFormed, OverFormed
<1>3. CASE handler' = [handler EXCEPT ![m] = Over]
  BY <1>1, <1>2, <1>3, MovesOn
<1>4. CASE ScopeReturns(m)
  <2> DEFINE h == [handler[m] EXCEPT !.stage = "searching", !.ids = scope'.ids]
  <2>1. Formed(h) /\ h.stage = "searching"
    <3>1. h = [stage |-> "searching", text |-> handler[m].text,
               query |-> handler[m].query, at |-> handler[m].at,
               effective |-> handler[m].effective, vec |-> handler[m].vec,
               ids |-> scope'.ids, docs |-> handler[m].docs]
      <4>1. Formed(handler[m])
        BY <1>2
      <4>2. PICK s, t, q, a, e, v, i, d :
               handler[m] = [stage |-> s, text |-> t, query |-> q, at |-> a,
                             effective |-> e, vec |-> v,
                             ids |-> i, docs |-> d]
        BY <4>1, Zenon DEF Formed
      <4>3. /\ handler[m].text = t /\ handler[m].query = q /\ handler[m].at = a
            /\ handler[m].effective = e /\ handler[m].vec = v /\ handler[m].ids = i /\ handler[m].docs = d
        BY <4>2
      <4> DEFINE k == [handler[m] EXCEPT !.stage = "searching"]
      <4>4. k = [stage |-> "searching", text |-> t, query |-> q, at |-> a,
                 effective |-> e, vec |-> v,
                 ids |-> i, docs |-> d]
        BY <4>2
      <4>5. h = [k EXCEPT !.ids = scope'.ids]
        OBVIOUS
      <4> HIDE DEF h, k
      <4>6. h = [stage |-> "searching", text |-> t, query |-> q, at |-> a,
                 effective |-> e, vec |-> v,
                 ids |-> scope'.ids, docs |-> d]
        BY <4>4, <4>5
      <4> QED
        BY <4>3, <4>6, Zenon
    <3> HIDE DEF h
    <3>2. /\ h.stage = "searching" /\ h.at = handler[m].at
          /\ h = [stage |-> h.stage, text |-> h.text, query |-> h.query,
                  at |-> h.at, effective |-> h.effective,
                  vec |-> h.vec, ids |-> h.ids, docs |-> h.docs]
      BY <3>1
    <3> QED
      BY <1>2, <3>2 DEF Formed
  <2>2. handler' = [handler EXCEPT ![m] = h]
    BY <1>4 DEF ScopeReturns, IInv, HandlersFormed
  <2> HIDE DEF h
  <2> QED
    BY <1>1, <2>1, <2>2, MovesOn
<1>5. ASSUME NEW docs, Surfaces(m, docs), ~Repeats(handler[m], docs)
      PROVE  IInv'
  <2> DEFINE h == [handler[m] EXCEPT !.docs = docs, !.stage = "answering"]
  <2>1. Formed(h) /\ h.stage = "answering"
    <3>1. h = [stage |-> "answering", text |-> handler[m].text,
               query |-> handler[m].query, at |-> handler[m].at,
               effective |-> handler[m].effective, vec |-> handler[m].vec,
               ids |-> handler[m].ids, docs |-> docs]
      <4>1. Formed(handler[m])
        BY <1>2
      <4>2. PICK s, t, q, a, e, v, i, d :
               handler[m] = [stage |-> s, text |-> t, query |-> q, at |-> a,
                             effective |-> e, vec |-> v,
                             ids |-> i, docs |-> d]
        BY <4>1, Zenon DEF Formed
      <4>3. /\ handler[m].text = t /\ handler[m].query = q /\ handler[m].at = a
            /\ handler[m].effective = e /\ handler[m].vec = v /\ handler[m].ids = i /\ handler[m].docs = d
        BY <4>2
      <4> DEFINE k == [handler[m] EXCEPT !.docs = docs]
      <4>4. k = [stage |-> s, text |-> t, query |-> q, at |-> a,
                 effective |-> e, vec |-> v,
                 ids |-> i, docs |-> docs]
        BY <4>2
      <4>5. h = [k EXCEPT !.stage = "answering"]
        OBVIOUS
      <4> HIDE DEF h, k
      <4>6. h = [stage |-> "answering", text |-> t, query |-> q, at |-> a,
                 effective |-> e, vec |-> v,
                 ids |-> i, docs |-> docs]
        BY <4>4, <4>5
      <4> QED
        BY <4>3, <4>6, Zenon
    <3> HIDE DEF h
    <3>2. /\ h.stage = "answering" /\ h.at = handler[m].at
          /\ h = [stage |-> h.stage, text |-> h.text, query |-> h.query,
                  at |-> h.at, effective |-> h.effective,
                  vec |-> h.vec, ids |-> h.ids, docs |-> h.docs]
      BY <3>1
    <3> QED
      BY <1>2, <3>2 DEF Formed
  <2>2. handler' = [handler EXCEPT ![m] = h]
    BY <1>5 DEF Surfaces, IInv, HandlersFormed
  <2> HIDE DEF h
  <2> QED
    BY <1>1, <2>1, <2>2, MovesOn
<1>6. CASE FindsNothing(m) \/ Ungrounded(m)
  BY <1>3, <1>6 DEF FindsNothing, Ungrounded
<1>7. ASSUME NEW docs, Surfaces(m, docs), Repeats(handler[m], docs)
      PROVE  IInv'
  <2>1. handler' = [handler EXCEPT ![m] = Over]
    BY <1>7 DEF Surfaces, IInv, HandlersFormed
  <2> QED
    BY <1>3, <2>1
<1> QED
  BY <1>4, <1>5, <1>6, <1>7

LEMMA GroundedKeeps ==
    ASSUME RetrievalAssumption, IInv, NEW m \in Message, Grounded(m)
    PROVE  IInv'
<1> DEFINE h == Answered(handler[m])
<1>1. /\ handler[m].stage = "answering" /\ handler' = [handler EXCEPT ![m] = h]
      /\ UNCHANGED <<clock, fires, lastRetrievalAt>>
  BY DEF Grounded, gates, IInv, HandlersFormed
<1>2. Formed(h) /\ h.stage = "answered" /\ h.text = handler[m].text /\ h.at = handler[m].at
      /\ h.query = handler[m].query /\ h.vec = handler[m].vec
  BY HandlerFormed, AnsweredFormed
<1>3. /\ answeredQuestions \subseteq answeredQuestions'
      /\ handler[m].text \in Question /\ handler[m].vec
         => [query |-> handler[m].query, at |-> handler[m].at] \in answeredQuestions'
  BY DEF Grounded
<1> HIDE DEF h
<1>4. HandlersFormed' /\ handler'[m] = h /\ \A n \in Message \ {m} : handler'[n] = handler[n]
  BY <1>1, <1>2, HandlerMoves DEF IInv
<1>5. FiresInOrder' /\ AnsweredStays' /\ AmbientSpacing' /\ NoLateRepeat'
  BY <1>1, <1>4, NothingFired DEF IInv, HandlersFormed
<1>6. QuestionsEmbed'
  BY <1>2, <1>4 DEF IInv, QuestionsEmbed
<1>7. AnswersRemembered'
  <2> SUFFICES ASSUME NEW n \in Message, handler'[n].stage = "answered",
                      handler'[n].text \in Question, handler'[n].vec
               PROVE  \/ \E e \in answeredQuestions' :
                            e.query = handler'[n].query /\ e.at = handler'[n].at
                      \/ clock' - handler'[n].at >= DupWindow
    BY DEF AnswersRemembered
  <2>1. CASE n = m
    <3> DEFINE e == [query |-> handler[m].query, at |-> handler[m].at]
    <3>1. e \in answeredQuestions'
      BY <1>2, <1>3, <1>4, <2>1
    <3>2. e.query = handler'[n].query /\ e.at = handler'[n].at
      BY <1>2, <1>4, <2>1
    <3> QED
      BY <3>1, <3>2
  <2>2. CASE n # m
    BY <1>1, <1>3, <1>4, <2>2 DEF IInv, AnswersRemembered
  <2> QED
    BY <2>1, <2>2
<1> QED
  BY <1>4, <1>5, <1>6, <1>7 DEF IInv

\* The ledger grows or time passes, and no handler moves.
LEMMA NobodyMoves ==
    ASSUME RetrievalAssumption, IInv, UNCHANGED <<handler, fires, lastRetrievalAt>>,
           clock' = clock \/ clock' = clock + 1, answeredQuestions \subseteq answeredQuestions'
    PROVE  IInv'
<1>1. clock \in Nat /\ clock' \in Nat /\ clock' >= clock
  BY DEF IInv, HandlersFormed
<1>2. HandlersFormed'
  BY <1>1 DEF IInv, HandlersFormed, Formed
<1>3. FiresInOrder' /\ AnsweredStays' /\ AmbientSpacing' /\ NoLateRepeat'
  BY <1>1, NothingFired
<1>4. AnswersRemembered'
  BY <1>1, NothingAnswered
<1>5. QuestionsEmbed'
  BY DEF IInv, QuestionsEmbed
<1> QED
  BY <1>2, <1>3, <1>4, <1>5 DEF IInv

LEMMA StepKeeps ==
    ASSUME RetrievalAssumption, IInv, [Next]_vars
    PROVE  IInv'
<1>1. ASSUME NEW m \in Message, NEW t \in Text, NEW topic, Arrive(m, t, topic) PROVE IInv'
  BY <1>1, ArriveKeeps
<1>2. ASSUME NEW m \in Message, EmbedReturns(m) PROVE IInv'
  BY <1>2, EmbedReturnsKeeps
<1>3. ASSUME NEW m \in Message,
             \/ ScopeReturns(m) \/ FindsNothing(m) \/ Ungrounded(m)
             \/ \E docs \in SUBSET Doc \ {{}} : Surfaces(m, docs)
      PROVE  IInv'
  BY <1>3, SearchKeeps
<1>4. ASSUME NEW m \in Message, Grounded(m) PROVE IInv'
  BY <1>4, GroundedKeeps
<1>5. ASSUME NEW asked, LedgerEmbedReturns(asked) PROVE IInv'
  BY <1>5, NobodyMoves DEF LedgerEmbedReturns, gates
<1>6. CASE Tick
  BY <1>6, NobodyMoves DEF Tick, gates, ledgers
<1>7. CASE UNCHANGED vars
  BY <1>7, NobodyMoves DEF vars
<1> QED
  BY <1>1, <1>2, <1>3, <1>4, <1>5, <1>6, <1>7 DEF Next

LEMMA Inductive == Spec => []IInv
BY InitHolds, StepKeeps, RetrievalAssumption, PTL DEF Spec

\* However the handlers interleave and however long their embeddings take, two
\* ambient retrievals are a cooldown apart, unless a question that waited for its
\* embedding fired between them and set lastRetrievalAt back.
THEOREM AmbientSpacingAlways == Spec => []AmbientSpacing
BY Inductive, PTL DEF IInv

\* A question whose query is near that of a question answered within the window is not
\* retrieved for, whatever the ledger has forgotten meanwhile. The query is what the code
\* embeds: for a fragment, with its antecedent and its topic.
THEOREM NoLateRepeatAlways == Spec => []NoLateRepeat
BY Inductive, PTL DEF IInv

-----------------------------------------------------------------------------
(***************************************************************************)
(* The ceilings.                                                           *)
(***************************************************************************)
\* The questions fired are numbered in their order, and those that skipped the
\* cooldown have a number within the meeting's budget.
Numbered ==
    /\ fireCount \in Nat
    /\ \A i \in 1..Len(fires) :
         /\ fires[i].question => fires[i].nr \in Nat /\ fires[i].nr < fireCount
         /\ fires[i].free => fires[i].question /\ fires[i].nr < MaxPerMeeting
    /\ \A i, j \in 1..Len(fires) :
         i < j /\ fires[i].question /\ fires[j].question => fires[i].nr < fires[j].nr

\* What was fired within the window is still among the time stamps.
RecentKept ==
    /\ IsFiniteSet(fireTimes) /\ \A f \in fireTimes : f.at \in Nat
    /\ \A i \in 1..Len(fires) :
         fires[i].question /\ clock - fires[i].at < RateWindow
         => [nr |-> fires[i].nr, at |-> fires[i].at] \in fireTimes

\* The questions that fire i counts against its ceiling of the last minute.
Counting(i, real) ==
    {j \in 1..(i - 1) : fires[j].question /\ real - fires[j].at < RateWindow}

MinuteHolds ==
    \A i \in 1..Len(fires) : fires[i].free => Cardinality(Counting(i, fires[i].real)) < MaxPerMin

CeilingsInv == Numbered /\ RecentKept /\ MinuteHolds

\* A stamp that is outside the window for an older message is outside it now.
LEMMA LongAgo ==
    \A at, now, clk, window \in Nat : now <= clk /\ clk - at < window => now - at < window
OBVIOUS

LEMMA SameRank ==
    \A j, k, a, b \in Nat : (j < k => a < b) /\ (k < j => b < a) /\ a = b => j = k
OBVIOUS

LEMMA OneMore ==
    /\ \A c \in Nat : c + 1 \in Nat /\ c + 1 >= c /\ c >= c /\ c < c + 1
    /\ \A a, c, d \in Nat : a < c /\ d >= c => a < d
OBVIOUS

LEMMA BelowFinite ==
    ASSUME NEW n \in Nat, NEW S, S \subseteq 1..(n + 1 - 1) PROVE IsFiniteSet(S)
<1>1. IsFiniteSet(1..(n + 1 - 1))
  BY FS_Interval
<1> QED
  BY <1>1, FS_Subset

\* Nothing is fired, and the stamps lose only what has left the window.
LEMMA CeilingsUnfired ==
    ASSUME RetrievalAssumption, IInv, CeilingsInv, UNCHANGED <<fires, fireCount>>,
           clock' \in Nat, clock' >= clock, fireTimes' \subseteq fireTimes,
           \A f \in fireTimes : clock - f.at < RateWindow => f \in fireTimes'
    PROVE  CeilingsInv'
<1>1. clock \in Nat /\ RateWindow \in Nat /\ \A i \in 1..Len(fires) : fires[i].at \in Nat
  BY DEF IInv, HandlersFormed, FiresInOrder, RetrievalAssumption
<1>2. Numbered'
  BY DEF CeilingsInv, Numbered
<1>3. RecentKept'
  <2>1. IsFiniteSet(fireTimes') /\ \A f \in fireTimes' : f.at \in Nat
    BY FS_Subset DEF CeilingsInv, RecentKept
  <2>2. ASSUME NEW i \in 1..Len(fires), fires[i].question, clock' - fires[i].at < RateWindow
        PROVE  [nr |-> fires[i].nr, at |-> fires[i].at] \in fireTimes'
    <3>1. clock - fires[i].at < RateWindow
      <4>1. fires[i].at \in Nat /\ clock \in Nat /\ clock' \in Nat /\ clock' >= clock
        BY <1>1
      <4> QED
        BY <1>1, <2>2, <4>1, LongAgo
    <3>2. [nr |-> fires[i].nr, at |-> fires[i].at] \in fireTimes
      BY <2>2, <3>1 DEF CeilingsInv, RecentKept
    <3> QED
      BY <3>1, <3>2
  <2> QED
    BY <2>1, <2>2 DEF RecentKept
<1>4. MinuteHolds'
  BY DEF CeilingsInv, MinuteHolds, Counting
<1> QED
  BY <1>2, <1>3, <1>4 DEF CeilingsInv

\* No more questions of the last minute were fired than stamps are left of it.
LEMMA StampsCount ==
    ASSUME RetrievalAssumption, IInv, CeilingsInv, NEW now \in Nat, now <= clock
    PROVE  Cardinality(Counting(Len(fires) + 1, clock)) <= Cardinality(Pruned(now))
<1> DEFINE C == Counting(Len(fires) + 1, clock)
           stamp == [j \in C |-> [nr |-> fires[j].nr, at |-> fires[j].at]]
<1>1. clock \in Nat /\ RateWindow \in Nat /\ \A i \in 1..Len(fires) : fires[i].at \in Nat
  BY DEF IInv, HandlersFormed, FiresInOrder, RetrievalAssumption
<1>1a. Len(fires) \in Nat
  BY DEF IInv, FiresInOrder
<1>2. \A j \in C : j \in 1..Len(fires) /\ fires[j].question /\ clock - fires[j].at < RateWindow
  BY <1>1a DEF Counting
<1>3. \A j \in C : stamp[j] \in Pruned(now)
  <2> SUFFICES ASSUME NEW j \in C PROVE stamp[j] \in Pruned(now)
    OBVIOUS
  <2>1. stamp[j] \in fireTimes /\ stamp[j].at = fires[j].at
    BY <1>2 DEF CeilingsInv, RecentKept
  <2>2. now - fires[j].at < RateWindow
    BY <1>1, <1>2, LongAgo
  <2> QED
    BY <2>1, <2>2 DEF Pruned, Within
<1>4. \A j, k \in C : stamp[j] = stamp[k] => j = k
  <2> SUFFICES ASSUME NEW j \in C, NEW k \in C, stamp[j] = stamp[k] PROVE j = k
    OBVIOUS
  <2>1. fires[j].nr = fires[k].nr /\ fires[j].nr \in Nat
    <3>1. stamp[j].nr = fires[j].nr /\ stamp[k].nr = fires[k].nr
      OBVIOUS
    <3> QED
      BY <1>2, <3>1 DEF CeilingsInv, Numbered
  <2>2. j \in 1..Len(fires) /\ k \in 1..Len(fires) /\ fires[j].question /\ fires[k].question
    BY <1>2
  <2>3. /\ j < k => fires[j].nr < fires[k].nr
        /\ k < j => fires[k].nr < fires[j].nr
    BY <2>2 DEF CeilingsInv, Numbered
  <2>4. j \in Nat /\ k \in Nat
    BY <1>1a, <2>2
  <2>5. fires[j].nr \in Nat /\ fires[k].nr \in Nat /\ fires[j].nr = fires[k].nr
    BY <2>1
  <2> QED
    BY <2>3, <2>4, <2>5, SameRank
<1> HIDE DEF C
<1>5. stamp \in Injection(C, Pruned(now))
  BY <1>3, <1>4, Fun_IsInj
<1>6. IsFiniteSet(Pruned(now))
  BY FS_Subset DEF Pruned, CeilingsInv, RecentKept
<1> QED
  BY <1>5, <1>6, FS_Injection DEF C

\* A retrieval is triggered within its ceilings, and stamped if it is a question.
LEMMA CeilingsFired ==
    ASSUME RetrievalAssumption, IInv, CeilingsInv, NEW h, Formed(h), UNCHANGED clock,
           fires' = Append(fires, Fire(h)),
           fireCount' = IF h.text \in Question THEN fireCount + 1 ELSE fireCount,
           fireTimes' = IF h.text \in Question
                        THEN Pruned(h.at) \cup {[nr |-> fireCount, at |-> h.at]}
                        ELSE Pruned(h.at)
    PROVE  CeilingsInv'
<1> DEFINE n == Len(fires)
           f == Fire(h)
<1>1. PICK V : fires \in Seq(V)
  BY DEF IInv, FiresInOrder
<1>2. n \in Nat /\ Len(fires') = n + 1 /\ fires'[n + 1] = f
      /\ \A i \in 1..n : fires'[i] = fires[i]
  BY <1>1, AppendedOne
<1>3. \A i \in 1..(n + 1) : i \in 1..n \/ i = n + 1
  BY <1>2
<1>4. /\ clock \in Nat /\ h.at \in Nat /\ h.at <= clock /\ fireCount \in Nat
      /\ RateWindow \in Nat /\ MaxPerMin \in Nat /\ MaxPerMeeting \in Nat
      /\ \A i \in 1..n : fires[i].at \in Nat
  BY DEF IInv, HandlersFormed, FiresInOrder, Formed, CeilingsInv, Numbered, RetrievalAssumption
<1>5. /\ f.at = h.at /\ f.real = clock /\ f.nr = fireCount
      /\ f.question <=> h.text \in Question
      /\ f.free <=> ~MustRespectCooldown(h)
  BY DEF Fire
<1>6. f.free => /\ f.question /\ fireCount < MaxPerMeeting
                /\ Cardinality(Pruned(h.at)) < MaxPerMin
  <2>1. IsFiniteSet(Pruned(h.at)) /\ Cardinality(Pruned(h.at)) \in Nat
    <3>1. IsFiniteSet(Pruned(h.at))
      BY FS_Subset DEF Pruned, CeilingsInv, RecentKept
    <3> QED
      BY <3>1, FS_CardinalityType
  <2> QED
    <3>1. SUFFICES ASSUME f.free PROVE f.question /\ fireCount < MaxPerMeeting
                                        /\ Cardinality(Pruned(h.at)) < MaxPerMin
      OBVIOUS
    <3>2. h.text \in Question /\ ~OverQuestionCeiling(h.at)
      BY <1>5, <3>1, Zenon DEF MustRespectCooldown
    <3>3. ~(Cardinality(Pruned(h.at)) >= MaxPerMin) /\ ~(fireCount >= MaxPerMeeting)
      BY <3>2, Zenon DEF OverQuestionCeiling
    <3>4. \A a, b \in Nat : ~(a >= b) => a < b
      OBVIOUS
    <3> QED
      BY <1>4, <1>5, <2>1, <3>2, <3>3, <3>4, Zenon
<1> HIDE DEF n, f
<1>7. Numbered'
  <2>1. fireCount' \in Nat /\ fireCount' >= fireCount
        /\ (h.text \in Question => fireCount < fireCount')
    <3>1. CASE h.text \in Question
      BY <1>4, <3>1, OneMore, Zenon
    <3>2. CASE h.text \notin Question
      BY <1>4, <3>2, OneMore, Zenon
    <3> QED
      BY <3>1, <3>2
  <2>2. ASSUME NEW i \in 1..(n + 1)
        PROVE  /\ fires'[i].question => fires'[i].nr \in Nat /\ fires'[i].nr < fireCount'
               /\ fires'[i].free => fires'[i].question /\ fires'[i].nr < MaxPerMeeting
    <3>1. CASE i \in 1..n
      <4>1. /\ fires[i].question => fires[i].nr \in Nat /\ fires[i].nr < fireCount
            /\ fires[i].free => fires[i].question /\ fires[i].nr < MaxPerMeeting
        BY <3>1 DEF n, CeilingsInv, Numbered
      <4>2. fires'[i] = fires[i]
        BY <1>2, <3>1
      <4> QED
        BY <1>4, <2>1, <4>1, <4>2, OneMore, Zenon
    <3>2. CASE i = n + 1
      BY <1>2, <1>4, <1>5, <1>6, <2>1, <3>2
    <3> QED
      BY <1>3, <3>1, <3>2
  <2>3. ASSUME NEW i \in 1..(n + 1), NEW j \in 1..(n + 1), i < j,
               fires'[i].question, fires'[j].question
        PROVE  fires'[i].nr < fires'[j].nr
    <3>1. i \in 1..n
      BY <1>2, <2>3
    <3>2. CASE j \in 1..n
      BY <1>2, <2>3, <3>1, <3>2 DEF n, CeilingsInv, Numbered
    <3>3. CASE j = n + 1
      BY <1>2, <1>5, <2>3, <3>1, <3>3 DEF n, CeilingsInv, Numbered
    <3> QED
      BY <1>3, <3>2, <3>3
  <2> QED
    BY <1>2, <2>1, <2>2, <2>3 DEF Numbered
<1>8. RecentKept'
  <2>1a. \A x \in fireTimes' : x.at \in Nat
    <3>1. \A x \in Pruned(h.at) : x.at \in Nat
      BY DEF Pruned, CeilingsInv, RecentKept
    <3>2. [nr |-> fireCount, at |-> h.at].at = h.at
      OBVIOUS
    <3>3. \A x \in fireTimes' : x \in Pruned(h.at) \/ x = [nr |-> fireCount, at |-> h.at]
      BY Zenon
    <3> QED
      BY <1>4, <3>1, <3>2, <3>3, Zenon
  <2>1. IsFiniteSet(fireTimes')
    <3>1. IsFiniteSet(Pruned(h.at))
      BY FS_Subset DEF Pruned, CeilingsInv, RecentKept
    <3>2. CASE h.text \in Question
      <4> DEFINE x == [nr |-> fireCount, at |-> h.at]
                 T == Pruned(h.at)
      <4> HIDE DEF x, T
      <4>1. IsFiniteSet(T) => IsFiniteSet(T \cup {x})
        BY FS_AddElement
      <4> QED
        BY <3>1, <3>2, <4>1, Zenon DEF x, T
    <3>3. CASE h.text \notin Question
      BY <3>1, <3>3
    <3> QED
      BY <3>2, <3>3
  <2>2. ASSUME NEW i \in 1..(n + 1), fires'[i].question, clock - fires'[i].at < RateWindow
        PROVE  [nr |-> fires'[i].nr, at |-> fires'[i].at] \in fireTimes'
    <3>1. CASE i \in 1..n
      <4>1. fires'[i] = fires[i] /\ fires[i].at \in Nat
        BY <1>2, <1>4, <3>1
      <4>2. [nr |-> fires[i].nr, at |-> fires[i].at] \in fireTimes
        BY <2>2, <3>1, <4>1 DEF n, CeilingsInv, RecentKept
      <4>3. h.at - fires[i].at < RateWindow
        BY <1>4, <2>2, <4>1, LongAgo
      <4>4. [nr |-> fires[i].nr, at |-> fires[i].at] \in Pruned(h.at)
        BY <4>2, <4>3 DEF Pruned, Within
      <4> QED
        BY <4>1, <4>4
    <3>2. CASE i = n + 1
      BY <1>2, <1>5, <2>2, <3>2
    <3> QED
      BY <1>3, <3>1, <3>2
  <2> QED
    BY <1>2, <2>1, <2>1a, <2>2 DEF RecentKept
<1>9. MinuteHolds'
  <2>1. \A i \in 1..(n + 1) : \A real :
           {j \in 1..(i - 1) : fires'[j].question /\ real - fires'[j].at < RateWindow}
             = Counting(i, real)
    <3> SUFFICES ASSUME NEW i \in 1..(n + 1), NEW j \in 1..(i - 1)
                 PROVE  fires'[j] = fires[j]
      BY DEF Counting
    <3> QED
      BY <1>2
  <2>2. ASSUME NEW i \in 1..(n + 1), fires'[i].free
        PROVE  Cardinality(Counting(i, fires'[i].real)) < MaxPerMin
    <3>1. CASE i \in 1..n
      BY <1>2, <2>2, <3>1 DEF n, CeilingsInv, MinuteHolds
    <3>2. CASE i = n + 1
      <4>1. fires'[i].real = clock /\ Cardinality(Pruned(h.at)) < MaxPerMin
        BY <1>2, <1>5, <1>6, <2>2, <3>2
      <4>2. Cardinality(Counting(n + 1, clock)) <= Cardinality(Pruned(h.at))
        BY <1>4, StampsCount DEF n
      <4>3. Cardinality(Pruned(h.at)) \in Nat /\ Cardinality(Counting(n + 1, clock)) \in Nat
        <5>1. IsFiniteSet(Pruned(h.at))
          BY FS_Subset DEF Pruned, CeilingsInv, RecentKept
        <5>2. IsFiniteSet(Counting(n + 1, clock))
          <6>1. \A k, t : Counting(k, t) \subseteq 1..(k - 1)
            BY DEF Counting
          <6> QED
            BY <1>2, <6>1, BelowFinite
        <5> QED
          BY <5>1, <5>2, FS_CardinalityType
      <4> QED
        BY <1>4, <3>2, <4>1, <4>2, <4>3
    <3> QED
      BY <1>3, <3>1, <3>2
  <2> QED
    <3>1. \A i \in 1..(n + 1) : \A real : Counting(i, real)' = Counting(i, real)
      BY <2>1 DEF Counting
    <3> QED
      BY <1>2, <2>2, <3>1 DEF MinuteHolds
<1> QED
  BY <1>7, <1>8, <1>9 DEF CeilingsInv

LEMMA GateCeilings ==
    ASSUME RetrievalAssumption, IInv, CeilingsInv, NEW m, NEW h, NEW count, Formed(h),
           Gate(m, h, count), UNCHANGED clock
    PROVE  CeilingsInv'
<1>1. clock \in Nat /\ h.at \in Nat /\ h.at <= clock /\ RateWindow \in Nat
  BY DEF IInv, HandlersFormed, Formed, RetrievalAssumption
<1>2. CASE ~Refused(h, count)
  BY <1>2, CeilingsFired DEF Gate, Fire
<1>3. CASE Refused(h, count)
  <2>1. fireTimes' = Pruned(h.at) /\ UNCHANGED <<fires, fireCount>>
    BY <1>3 DEF Gate
  <2> QED
    <3>1. fireTimes' \subseteq fireTimes
      BY <2>1 DEF Pruned
    <3>2. ASSUME NEW f \in fireTimes, clock - f.at < RateWindow PROVE f \in fireTimes'
      <4>1. h.at - f.at < RateWindow
        BY <1>1, <3>2, LongAgo, Zenon DEF CeilingsInv, RecentKept
      <4> QED
        BY <2>1, <4>1 DEF Pruned, Within
    <3>3. clock' \in Nat /\ clock' >= clock
      BY <1>1
    <3> QED
      BY <2>1, <3>1, <3>2, <3>3, CeilingsUnfired
<1> QED
  BY <1>2, <1>3

LEMMA CeilingsStep ==
    ASSUME RetrievalAssumption, IInv, CeilingsInv, [Next]_vars PROVE CeilingsInv'
<1>1. clock \in Nat
  BY DEF IInv, HandlersFormed
<1>2. ASSUME UNCHANGED gates, clock' = clock \/ clock' = clock + 1 PROVE CeilingsInv'
  <2>1. clock' \in Nat /\ clock' >= clock
    BY <1>1, <1>2
  <2> QED
    BY <1>2, <2>1, CeilingsUnfired DEF gates
<1>3. ASSUME NEW m \in Message, NEW t \in Text, NEW topic, Arrive(m, t, topic) PROVE CeilingsInv'
  <2> DEFINE finals == Latest(Append(recentFinals, t), WindowUtterances)
             effective == EffectiveWindow(finals, consumedFinals)
             query == IF t \in Question THEN BuildQuestionQuery(t, finals, topic) ELSE <<>>
             h == [stage |-> "embedding", text |-> t, query |-> query, at |-> clock,
                   effective |-> effective, vec |-> FALSE, ids |-> "none", docs |-> {}]
  <2>1. UNCHANGED clock
    BY <1>3 DEF Arrive
  <2>2. CASE t \in Question
    <3>1. UNCHANGED <<fires, fireCount, fireTimes>>
      BY <1>3, <2>2 DEF Arrive
    <3> QED
      BY <1>1, <2>1, <3>1, CeilingsUnfired
  <2>3. CASE t \notin Question
    <3>1. Gate(m, h, sinceLast + 1)
      BY <1>3, <2>3 DEF Arrive
    <3>2. Formed(h)
      BY <1>1 DEF Formed
    <3> QED
      BY <2>1, <3>1, <3>2, GateCeilings
  <2> QED
    BY <2>2, <2>3
<1>4. ASSUME NEW m \in Message, EmbedReturns(m) PROVE CeilingsInv'
  <2>1. UNCHANGED clock /\ Formed(handler[m])
    BY <1>4, HandlerFormed DEF EmbedReturns
  <2>2. PICK vec \in BOOLEAN :
          \/ UNCHANGED gates
          \/ Gate(m, [handler[m] EXCEPT !.vec = vec], sinceLast)
    BY <1>4 DEF EmbedReturns
  <2>3. Formed([handler[m] EXCEPT !.vec = vec])
    <3> DEFINE h == [handler[m] EXCEPT !.vec = vec]
    <3>1. h = [stage |-> handler[m].stage, text |-> handler[m].text,
               query |-> handler[m].query, at |-> handler[m].at,
               effective |-> handler[m].effective, vec |-> vec, ids |-> handler[m].ids,
               docs |-> handler[m].docs]
      BY <2>1 DEF Formed
    <3> HIDE DEF h
    <3>2. /\ h.at = handler[m].at
          /\ h = [stage |-> h.stage, text |-> h.text, query |-> h.query,
                  at |-> h.at, effective |-> h.effective,
                  vec |-> h.vec, ids |-> h.ids, docs |-> h.docs]
      BY <3>1
    <3>3. Formed(h)
      BY <2>1, <3>2 DEF Formed
    <3> QED
      BY <3>3 DEF h
  <2> QED
    BY <1>2, <2>1, <2>2, <2>3, GateCeilings
<1>5. ASSUME NEW m \in Message,
             \/ ScopeReturns(m) \/ FindsNothing(m) \/ Grounded(m) \/ Ungrounded(m)
             \/ \E docs \in SUBSET Doc \ {{}} : Surfaces(m, docs)
      PROVE  CeilingsInv'
  <2>1. UNCHANGED gates /\ UNCHANGED clock
    <3>1. CASE ScopeReturns(m)
      BY <3>1 DEF ScopeReturns
    <3>2. CASE FindsNothing(m) \/ Grounded(m) \/ Ungrounded(m)
      BY <3>2 DEF FindsNothing, Grounded, Ungrounded
    <3>3. ASSUME NEW docs, Surfaces(m, docs) PROVE UNCHANGED gates /\ UNCHANGED clock
      BY <3>3 DEF Surfaces
    <3> QED
      BY <1>5, <3>1, <3>2, <3>3
  <2> QED
    BY <1>2, <2>1
<1>6. ASSUME NEW asked, LedgerEmbedReturns(asked) PROVE CeilingsInv'
  BY <1>2, <1>6 DEF LedgerEmbedReturns
<1>7. CASE Tick
  BY <1>2, <1>7 DEF Tick
<1>8. CASE UNCHANGED vars
  BY <1>2, <1>8 DEF vars, gates
<1> QED
  BY <1>3, <1>4, <1>5, <1>6, <1>7, <1>8 DEF Next

LEMMA CeilingsInit == ASSUME Init PROVE CeilingsInv
<1>1. fires = <<>> /\ Len(fires) = 0 /\ fireCount = 0 /\ fireTimes = {}
  BY DEF Init
<1>2. IsFiniteSet({})
  BY FS_EmptySet
<1> QED
  BY <1>1, <1>2 DEF CeilingsInv, Numbered, RecentKept, MinuteHolds

LEMMA CeilingsInductive == Spec => []CeilingsInv
<1>1. IInv /\ CeilingsInv /\ [Next]_vars => CeilingsInv'
  BY CeilingsStep, RetrievalAssumption
<1> QED
  BY <1>1, CeilingsInit, Inductive, PTL DEF Spec

\* However many questions wait for their embeddings together, and however late these
\* come: a question that skips the cooldown finds fewer than MaxPerMin questions of the
\* last minute fired, and at most MaxPerMeeting of a meeting skip it.
THEOREM QuestionCeilingsAlways == Spec => []QuestionCeilingsHold
<1>1. ASSUME IInv, CeilingsInv PROVE QuestionCeilingsHold
  <2> DEFINE B == {i \in DOMAIN fires : fires[i].free}
             number == [i \in B |-> fires[i].nr]
             numbers == 0..(MaxPerMeeting - 1)
  <2>1. DOMAIN fires = 1..Len(fires) /\ Len(fires) \in Nat /\ MaxPerMeeting \in Nat
    BY <1>1, RetrievalAssumption DEF IInv, FiresInOrder, RetrievalAssumption
  <2>2. \A i \in B : /\ i \in 1..Len(fires) /\ fires[i].question
                     /\ fires[i].nr \in Nat /\ fires[i].nr < MaxPerMeeting
    BY <1>1, <2>1 DEF CeilingsInv, Numbered
  <2>3. \A i, j \in B : number[i] = number[j] => i = j
    <3> SUFFICES ASSUME NEW i \in B, NEW j \in B, fires[i].nr = fires[j].nr PROVE i = j
      OBVIOUS
    <3>1. /\ i < j => fires[i].nr < fires[j].nr
          /\ j < i => fires[j].nr < fires[i].nr
      BY <1>1, <2>2 DEF CeilingsInv, Numbered
    <3>2. i \in Nat /\ j \in Nat
      BY <2>1, <2>2
    <3> QED
      BY <2>2, <3>1, <3>2, SameRank
  <2>4. number \in [B -> numbers]
    BY <2>1, <2>2
  <2>5. IsFiniteSet(numbers) /\ Cardinality(numbers) = MaxPerMeeting
    <3>1. MaxPerMeeting - 1 \in Int /\ ~(0 > MaxPerMeeting - 1)
          /\ MaxPerMeeting - 1 - 0 + 1 = MaxPerMeeting
      BY <2>1, RetrievalAssumption DEF RetrievalAssumption
    <3> QED
      BY <3>1, FS_Interval
  <2> HIDE DEF B, numbers
  <2>6. Cardinality(B) <= MaxPerMeeting
    <3> HIDE DEF number
    <3>1. number \in Injection(B, numbers)
      BY <2>3, <2>4, Fun_IsInj
    <3> QED
      BY <2>5, <3>1, FS_Injection
  <2>7. \A i \in B : Cardinality({j \in 1..(i - 1) : fires[j].question
                          /\ fires[i].real - fires[j].at < RateWindow}) < MaxPerMin
    BY <1>1, <2>1 DEF B, CeilingsInv, MinuteHolds, Counting
  <2> QED
    BY <2>6, <2>7 DEF B, QuestionCeilingsHold
<1> QED
  BY <1>1, Inductive, CeilingsInductive, PTL

=============================================================================
