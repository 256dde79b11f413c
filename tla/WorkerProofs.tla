---------------------------- MODULE WorkerProofs ----------------------------
(***************************************************************************)
(* For any number of runs, actions, documents and runtimes: at most one    *)
(* card of a document stays, and a pinned card is not retracted. For any   *)
(* number of speakers and drifting starts: the lines of the page settle.   *)
(***************************************************************************)
EXTENDS Worker, SequenceTheorems, TLAPS

-----------------------------------------------------------------------------
(***************************************************************************)
(* The inductive invariant.                                                *)
(***************************************************************************)
\* A handler keeps a runtime that was made.
HandlersOK == \A h \in handlers : h.rt \in 0..made

\* A run past the map has a prior card.
PriorsKnown ==
    \A p \in Run : run[p].at \in {"check", "retract", "tell"} => run[p].prior \in CardId

\* A card about to be retracted is not pinned, unless it was after the check.
RetractingUnpinned ==
    \A p \in Run : At(p, "retract") /\ cards[run[p].prior].pinned => run[p].prior \in late

\* A retraction that is announced was made.
ToldIsRetracted ==
    \A p \in Run : At(p, "tell") => cards[run[p].prior].retracted # "no"

\* A card that stays and that no exception covers is the one the map holds.
StayingIsMapped ==
    \A c \in CardId \ (spared \cup InHand) :
        cards[c].retracted = "no" => runtime # 0 /\ live[runtime][cards[c].doc] = c

Formed ==
    /\ made \in Nat /\ runtime \in 0..made
    /\ DOMAIN run = Run /\ DOMAIN action = Actor
    /\ CardsTypeOK /\ HandlersOK /\ PriorsKnown

IInv == Formed /\ RetractingUnpinned /\ ToldIsRetracted /\ StayingIsMapped /\ PinnedStands

LEMMA InitHolds == Init => IInv
<1> SUFFICES ASSUME Init PROVE IInv
  OBVIOUS
<1>1. /\ cards = <<>> /\ live = <<>> /\ handlers = {} /\ made = 0 /\ runtime = 0
      /\ run = [p \in Run |-> None] /\ action = [a \in Actor |-> None] /\ spared = {} /\ late = {}
  BY DEF Init, RuntimeInit, TranscriptInit, CardsInit
<1>2. \A S : <<>> \in Seq(S)
  OBVIOUS
<1>3. DOMAIN cards = {} /\ Len(live) = 0
  BY <1>1
<1>4. CardsTypeOK
  BY <1>1, <1>2, <1>3 DEF CardsTypeOK, CardId
<1>5. \A p \in Run : run[p].at = "none"
  BY <1>1 DEF None
<1> QED
  BY <1>1, <1>3, <1>4, <1>5 DEF IInv, Formed, HandlersOK, PriorsKnown, RetractingUnpinned,
     ToldIsRetracted, StayingIsMapped, PinnedStands, At, CardId

\* Of two cards of a document that stay, both are the one the map holds.
LEMMA OneStays == IInv => OneLivePerDoc
BY DEF IInv, StayingIsMapped, OneLivePerDoc

-----------------------------------------------------------------------------
(***************************************************************************)
(* The transcript, which keeps runtimes and cards as they are.             *)
(***************************************************************************)
LEMMA CardsUntouched ==
    ASSUME IInv, UNCHANGED cardVars, UNCHANGED <<runtime, made>>, HandlersOK'
    PROVE  IInv'
BY DEF IInv, Formed, CardsTypeOK, PriorsKnown, RetractingUnpinned, ToldIsRetracted,
   StayingIsMapped, PinnedStands, cardVars, InHand, CardId, At

LEMMA TranscriptKeeps ==
    ASSUME IInv, TranscriptNext, UNCHANGED cardVars
    PROVE  IInv'
<1>1. HandlersOK /\ made \in Nat /\ runtime \in 0..made
  BY DEF IInv, Formed
<1>2. UNCHANGED <<runtime, made>>
  BY DEF TranscriptNext, Unheard, Arrive, Disconnect, FlipReturns, Show, Lose
<1>3. ASSUME NEW s \in Speaker, NEW isFinal \in BOOLEAN, NEW d \in Drift, Arrive(s, isFinal, d)
      PROVE  HandlersOK'
  BY <1>1, <1>2, <1>3 DEF Arrive, Resolve, ResolveFinal, ResolvePartial, HandlersOK
<1>4. ASSUME NEW h \in handlers, FlipReturns(h) PROVE HandlersOK'
  BY <1>1, <1>2, <1>4 DEF FlipReturns, Resolve, ResolveFinal, ResolvePartial, HandlersOK
<1>5. HandlersOK'
  BY <1>1, <1>2, <1>3, <1>4 DEF TranscriptNext, Unheard, Disconnect, Show, Lose, HandlersOK
<1> QED
  BY <1>2, <1>5, CardsUntouched

-----------------------------------------------------------------------------
(***************************************************************************)
(* The shape of the state, and what a step does to a run.                  *)
(***************************************************************************)
LEMMA RowsFormed ==
    ASSUME Formed
    PROVE  /\ CardId = 1..Len(cards) /\ Len(cards) \in Nat
           /\ \A c \in CardId : cards[c] \in Row /\ cards[c].doc \in Doc
<1>1. cards \in Seq(Row)
  BY DEF Formed, CardsTypeOK
<1>2. CardId = 1..Len(cards) /\ Len(cards) \in Nat /\ \A c \in CardId : cards[c] \in Row
  BY <1>1 DEF CardId
<1>3. \A x \in Row : x.doc \in Doc
  BY DEF Row
<1> QED
  BY <1>2, <1>3

LEMMA MapsFormed ==
    ASSUME Formed
    PROVE  DOMAIN live = 1..made /\ \A r \in 1..made : live[r] \in [Doc -> CardId \cup {0}]
BY DEF Formed, CardsTypeOK

RunFormed(r) ==
    \/ r = None
    \/ r \in [at : {"insert"}, rt : 1..made, docs : SUBSET Doc]
    \/ r \in [at : Emitting, rt : 1..made, docs : SUBSET Doc, card : CardId, prior : CardId \cup {0}]

LEMMA RunsFormed == ASSUME Formed PROVE \A p \in Run : RunFormed(run[p])
BY DEF Formed, CardsTypeOK, RunFormed

LEMMA EmittingRun ==
    ASSUME Formed, NEW p \in Run, run[p].at \in Emitting
    PROVE  /\ run[p] \in [at : Emitting, rt : 1..made, docs : SUBSET Doc,
                          card : CardId, prior : CardId \cup {0}]
           /\ run[p].rt \in 1..made /\ run[p].docs \subseteq Doc /\ run[p].card \in CardId
           /\ run[p].prior \in CardId \cup {0} /\ cards[run[p].card].doc \in Doc
<1>1. run[p] \in [at : Emitting, rt : 1..made, docs : SUBSET Doc,
                  card : CardId, prior : CardId \cup {0}]
  <2>1. RunFormed(run[p])
    BY RunsFormed
  <2>2. run[p] # None
    BY DEF None, Emitting
  <2>3. run[p] \notin [at : {"insert"}, rt : 1..made, docs : SUBSET Doc]
    BY DEF Emitting
  <2> QED
    BY <2>1, <2>2, <2>3 DEF RunFormed
<1> QED
  BY <1>1, RowsFormed

LEMMA InsertingRun ==
    ASSUME Formed, NEW p \in Run, At(p, "insert")
    PROVE  run[p].rt \in 1..made /\ run[p].docs \subseteq Doc
BY RunsFormed DEF RunFormed, None, Emitting, At

LEMMA RunSet ==
    ASSUME Formed, NEW p \in Run, NEW r, SetRun(p, r)
    PROVE  DOMAIN run' = Run /\ run'[p] = r /\ \A q \in Run \ {p} : run'[q] = run[q]
BY DEF Formed, SetRun

LEMMA OnwardFormed ==
    ASSUME NEW r \in 1..made, NEW docs \in SUBSET Doc
    PROVE  RunFormed(Onward(r, docs)) /\ Onward(r, docs).at \in {"none", "insert"}
BY DEF RunFormed, Onward, None

\* A card of the map is replaced by the run's.
Sets(r, d, c) == live' = [live EXCEPT ![r] = [@ EXCEPT ![d] = c]]

OnlySet(r, d, c) ==
    /\ live' \in Seq([Doc -> CardId \cup {0}]) /\ Len(live') = Len(live)
    /\ live'[r][d] = c
    /\ \A s \in 1..made, e \in Doc : s # r \/ e # d => live'[s][e] = live[s][e]

LEMMA MapReplaced ==
    ASSUME Formed, NEW r \in 1..made, NEW d \in Doc, NEW c \in CardId, Sets(r, d, c)
    PROVE  OnlySet(r, d, c)
<1>1. live \in Seq([Doc -> CardId \cup {0}]) /\ Len(live) = made /\ made \in Nat
  BY DEF Formed, CardsTypeOK
<1> DEFINE f == [live[r] EXCEPT ![d] = c]
<1>2. f \in [Doc -> CardId \cup {0}] /\ f[d] = c /\ \A e \in Doc \ {d} : f[e] = live[r][e]
  BY MapsFormed
<1>3. live' = [live EXCEPT ![r] = f]
  BY <1>1 DEF Sets
<1> HIDE DEF f
<1> QED
  BY <1>1, <1>2, <1>3 DEF OnlySet

\* What sets the map keeps the invariant, if the prior card, when it is still
\* the one the map holds, was retracted or is left as it is.
LEMMA RememberKeeps ==
    ASSUME IInv, NEW p \in Run, run[p].at \in Emitting, NEW left \in SUBSET CardId,
           Remember(p, left), UNCHANGED <<cards, runtime, made, handlers, action, late>>,
           LET m == live[run[p].rt][cards[run[p].card].doc]
           IN m = run[p].prior => m = 0 \/ m \in left \/ cards[m].retracted # "no"
    PROVE  IInv'
<1> DEFINE r == run[p].rt
           c == run[p].card
           d == cards[c].doc
           m == live[r][d]
           k == Onward(r, run[p].docs)
<1>0. Formed /\ CardId' = CardId
  BY DEF IInv, CardId
<1>1. /\ r \in 1..made /\ run[p].docs \in SUBSET Doc /\ c \in CardId /\ d \in Doc
      /\ made \in Nat /\ runtime \in 0..made
  BY <1>0, EmittingRun DEF Formed
<1>2. m \in CardId \cup {0}
  BY <1>0, <1>1, MapsFormed
<1>3. live' = [live EXCEPT ![r] = [@ EXCEPT ![d] = c]] /\ SetRun(p, k)
  BY DEF Remember
<1>4. /\ spared \subseteq spared' /\ left \subseteq spared' /\ spared' \subseteq CardId \cup {0}
      /\ m # run[p].prior => m \in spared'
      /\ r # runtime => c \in spared'
  <2>1. spared' = spared \cup left \cup ({m} \ {run[p].prior})
                         \cup (IF r = runtime THEN {} ELSE {c})
    BY DEF Remember
  <2>2. spared \subseteq CardId \cup {0}
    BY <1>0 DEF Formed, CardsTypeOK
  <2> QED
    BY <2>1, <2>2, <1>1, <1>2
<1>5. /\ live' \in Seq([Doc -> CardId \cup {0}]) /\ Len(live') = Len(live) /\ live'[r][d] = c
      /\ \A s \in 1..made, e \in Doc : s # r \/ e # d => live'[s][e] = live[s][e]
  <2> HIDE DEF r, c, d, m, k
  <2>1. Sets(r, d, c)
    BY <1>3 DEF Sets
  <2>2. OnlySet(r, d, c)
    BY <1>0, <1>1, <2>1, MapReplaced
  <2> QED
    BY <2>2 DEF OnlySet
<1>6. DOMAIN run' = Run /\ run'[p] = k /\ \A q \in Run \ {p} : run'[q] = run[q]
  BY <1>0, <1>3, RunSet
<1>7. RunFormed(k) /\ k.at \in {"none", "insert"}
  BY <1>1, OnwardFormed
<1> HIDE DEF k, m, d
<1>8. Formed'
  <2>1. \A q \in Run : RunFormed(run'[q])
    BY <1>0, <1>6, <1>7, RunsFormed
  <2>2. CardsTypeOK'
    BY <1>0, <1>4, <1>5, <2>1 DEF Formed, CardsTypeOK, RunFormed
  <2>3. PriorsKnown'
    BY <1>0, <1>6, <1>7 DEF Formed, PriorsKnown
  <2> QED
    BY <1>0, <1>6, <2>2, <2>3 DEF Formed, HandlersOK
<1>9. RetractingUnpinned' /\ ToldIsRetracted' /\ PinnedStands'
  BY <1>0, <1>6, <1>7 DEF IInv, RetractingUnpinned, ToldIsRetracted, PinnedStands, At
<1>10. \A x \in InHand : x = c \/ x \in InHand'
  BY <1>6, <1>7 DEF InHand
<1>11. StayingIsMapped'
  <2> SUFFICES ASSUME NEW x \in CardId, x \notin spared', x \notin InHand',
                      cards[x].retracted = "no"
               PROVE  runtime # 0 /\ live'[runtime][cards[x].doc] = x
    BY <1>0 DEF StayingIsMapped
  <2>1. CASE x = c
    BY <2>1, <1>1, <1>4, <1>5 DEF d
  <2>2. CASE x # c
    <3>1. runtime # 0 /\ live[runtime][cards[x].doc] = x
      BY <2>2, <1>4, <1>10 DEF IInv, StayingIsMapped
    <3>2. ~(runtime = r /\ cards[x].doc = d)
      <4> SUFFICES ASSUME runtime = r, cards[x].doc = d PROVE FALSE
        OBVIOUS
      <4>1. m = x
        BY <3>1 DEF m
      <4>2. x # 0
        BY <1>0, RowsFormed
      <4>3. m = run[p].prior => m = 0 \/ m \in left \/ cards[m].retracted # "no"
        BY DEF m, d
      <4> QED
        BY <4>1, <4>2, <4>3, <1>4
    <3>3. runtime \in 1..made /\ cards[x].doc \in Doc
      BY <3>1, <1>0, <1>1, RowsFormed
    <3> QED
      BY <3>1, <3>2, <3>3, <1>5
  <2> QED
    BY <2>1, <2>2
<1> QED
  BY <1>8, <1>9, <1>11 DEF IInv

-----------------------------------------------------------------------------
(***************************************************************************)
(* Steps that only move a run.                                             *)
(***************************************************************************)
\* The run has no card in hand, before and after, or the same one.
SameInHand(k, r) ==
    \/ k.at \in {"none", "insert"} /\ r.at \in {"none", "insert"}
    \/ k.at \in Emitting /\ r.at \in Emitting /\ r.card = k.card

\* What the invariant says of a run.
RunSound(r) ==
    /\ RunFormed(r)
    /\ r.at \in {"check", "retract", "tell"} => r.prior \in CardId
    /\ r.at = "retract" /\ cards[r.prior].pinned => r.prior \in late
    /\ r.at = "tell" => cards[r.prior].retracted # "no"

LEMMA HandKept ==
    ASSUME Formed, NEW p \in Run, NEW r, SetRun(p, r), SameInHand(run[p], r)
    PROVE  InHand' = InHand
<1>1. DOMAIN run' = Run /\ run'[p] = r /\ \A q \in Run \ {p} : run'[q] = run[q]
  BY RunSet
<1>2. \A x : x \in InHand => x \in InHand'
  BY <1>1 DEF InHand, SameInHand, Emitting
<1>3. \A x : x \in InHand' => x \in InHand
  BY <1>1 DEF InHand, SameInHand, Emitting
<1> QED
  BY <1>2, <1>3

LEMMA HandlersSame ==
    ASSUME IInv, UNCHANGED <<made, handlers>>
    PROVE  HandlersOK'
BY DEF IInv, Formed, HandlersOK

LEMMA RunMoves ==
    ASSUME IInv, NEW p \in Run, NEW r, SetRun(p, r), RunSound(r), SameInHand(run[p], r),
           UNCHANGED <<runtime, made, cards, live, action, spared, late>>, HandlersOK'
    PROVE  IInv'
<1>1. Formed /\ CardId' = CardId
  BY DEF IInv, CardId
<1>2. DOMAIN run' = Run /\ run'[p] = r /\ \A q \in Run \ {p} : run'[q] = run[q]
  BY <1>1, RunSet
<1>3. InHand' = InHand
  BY <1>1, HandKept
<1>4. Formed'
  <2>1. \A q \in Run : RunFormed(run'[q])
    BY <1>1, <1>2, RunsFormed DEF RunSound
  <2>2. CardsTypeOK'
    BY <1>1, <2>1 DEF Formed, CardsTypeOK, RunFormed
  <2>3. PriorsKnown'
    BY <1>1, <1>2 DEF Formed, PriorsKnown, RunSound
  <2> QED
    BY <1>1, <1>2, <2>2, <2>3 DEF Formed
<1>5. RetractingUnpinned' /\ ToldIsRetracted' /\ PinnedStands'
  BY <1>1, <1>2 DEF IInv, RetractingUnpinned, ToldIsRetracted, PinnedStands, At, RunSound
<1>6. StayingIsMapped'
  BY <1>1, <1>3 DEF IInv, StayingIsMapped
<1> QED
  BY <1>4, <1>5, <1>6 DEF IInv

LEMMA InsertFailsKeeps ==
    ASSUME IInv, UNCHANGED transcriptVars, NEW p \in Run, NEW d \in Doc, InsertFails(p, d)
    PROVE  IInv'
<1> DEFINE r == Onward(run[p].rt, run[p].docs \ {d})
<1>1. Formed /\ At(p, "insert") /\ SetRun(p, r)
  BY DEF IInv, InsertFails
<1>2. run[p].rt \in 1..made /\ run[p].docs \ {d} \in SUBSET Doc
  BY <1>1, InsertingRun
<1>3. RunFormed(r) /\ r.at \in {"none", "insert"}
  BY <1>2, OnwardFormed
<1> HIDE DEF r
<1>4. RunSound(r) /\ SameInHand(run[p], r)
  BY <1>1, <1>3 DEF RunSound, SameInHand, At
<1> QED
  BY <1>1, <1>4, RunMoves, HandlersSame DEF InsertFails, transcriptVars

LEMMA AnnouncedKeeps ==
    ASSUME IInv, UNCHANGED transcriptVars, NEW p \in Run, Announced(p)
    PROVE  IInv'
<1> DEFINE prior == live[run[p].rt][cards[run[p].card].doc]
           r == [run[p] EXCEPT !.at = "check", !.prior = prior]
<1>1. Formed /\ At(p, "announce") /\ run[p].at \in Emitting
  BY DEF IInv, Announced, At, Emitting
<1>2. UNCHANGED <<runtime, made, cards, handlers, action, late>>
  BY DEF Announced, transcriptVars
<1>3. CASE prior = 0
  <2>1. Remember(p, {})
    BY <1>3 DEF Announced
  <2> QED
    BY <1>1, <1>2, <1>3, <2>1, RememberKeeps
<1>4. CASE prior # 0
  <2>1. SetRun(p, r) /\ UNCHANGED <<live, spared>>
    BY <1>4 DEF Announced
  <2>2. prior \in CardId
    BY <1>1, <1>4, EmittingRun, MapsFormed
  <2> HIDE DEF prior
  <2> DEFINE k == [run[p] EXCEPT !.at = "check"]
             F == [at : Emitting, rt : 1..made, docs : SUBSET Doc, card : CardId,
                   prior : CardId \cup {0}]
  <2>3. run[p] \in F
    BY <1>1, EmittingRun
  <2>4. k \in F /\ k.at = "check" /\ k.card = run[p].card
    BY <2>3 DEF Emitting
  <2>5. r = [k EXCEPT !.prior = prior]
    OBVIOUS
  <2> HIDE DEF k, r
  <2>6. r \in F /\ r.at = "check" /\ r.card = run[p].card /\ r.prior = prior
    BY <2>2, <2>4, <2>5
  <2>7. RunSound(r) /\ SameInHand(run[p], r)
    BY <1>1, <2>2, <2>6 DEF RunSound, RunFormed, SameInHand, Emitting
  <2> QED
    BY <1>2, <2>1, <2>7, RunMoves, HandlersSame
<1> QED
  BY <1>3, <1>4

LEMMA CheckKeeps ==
    ASSUME IInv, UNCHANGED transcriptVars, NEW p \in Run, Check(p)
    PROVE  IInv'
<1> DEFINE r == [run[p] EXCEPT !.at = "retract"]
<1>1. Formed /\ At(p, "check") /\ run[p].at \in Emitting /\ run[p].prior \in CardId
  BY DEF IInv, Formed, PriorsKnown, Check, At, Emitting
<1>2. UNCHANGED <<runtime, made, cards, handlers, action, late>>
  BY DEF Check, transcriptVars
<1>3. CASE cards[run[p].prior].pinned
  <2>1. Remember(p, {run[p].prior})
    BY <1>3 DEF Check, Sacred
  <2> QED
    BY <1>1, <1>2, <2>1, RememberKeeps
<1>4. CASE ~cards[run[p].prior].pinned
  <2>1. SetRun(p, r) /\ UNCHANGED <<live, spared>>
    BY <1>4 DEF Check, Sacred
  <2> DEFINE F == [at : Emitting, rt : 1..made, docs : SUBSET Doc, card : CardId,
                   prior : CardId \cup {0}]
  <2>2. r \in F /\ r.at = "retract" /\ r.card = run[p].card /\ r.prior = run[p].prior
    BY <1>1, EmittingRun DEF Emitting
  <2> HIDE DEF r
  <2>3. RunSound(r)
    BY <1>1, <1>4, <2>2 DEF RunSound, RunFormed
  <2>4. SameInHand(run[p], r)
    BY <1>1, <2>2 DEF SameInHand, Emitting
  <2> QED
    BY <1>2, <2>1, <2>3, <2>4, RunMoves, HandlersSame
<1> QED
  BY <1>3, <1>4

LEMMA CheckFailsKeeps ==
    ASSUME IInv, UNCHANGED transcriptVars, NEW p \in Run, CheckFails(p)
    PROVE  IInv'
<1>1. run[p].at \in Emitting /\ run[p].prior \in CardId
  BY DEF IInv, Formed, PriorsKnown, CheckFails, At, Emitting
<1>2. UNCHANGED <<runtime, made, cards, handlers, action, late>> /\ Remember(p, {run[p].prior})
  BY DEF CheckFails, transcriptVars
<1> QED
  BY <1>1, <1>2, RememberKeeps

LEMMA ToldKeeps ==
    ASSUME IInv, UNCHANGED transcriptVars, NEW p \in Run, Told(p)
    PROVE  IInv'
<1>1. run[p].at \in Emitting /\ cards[run[p].prior].retracted # "no"
  BY DEF IInv, ToldIsRetracted, Told, At, Emitting
<1>2. UNCHANGED <<runtime, made, cards, handlers, action, late>> /\ Remember(p, {})
  BY DEF Told, transcriptVars
<1> QED
  BY <1>1, <1>2, RememberKeeps

-----------------------------------------------------------------------------
(***************************************************************************)
(* Steps that change a row.                                                *)
(***************************************************************************)
RowSets(c, h) == cards' = [cards EXCEPT ![c] = h]

OnlyRow(c, h) ==
    /\ cards' \in Seq(Row) /\ CardId' = CardId
    /\ cards'[c] = h /\ \A x \in CardId \ {c} : cards'[x] = cards[x]

LEMMA RowReplaced ==
    ASSUME Formed, NEW c \in CardId, NEW h \in Row, RowSets(c, h)
    PROVE  OnlyRow(c, h)
<1>1. cards \in Seq(Row) /\ c \in DOMAIN cards
  BY DEF Formed, CardsTypeOK, CardId
<1>2. cards' \in Seq(Row) /\ DOMAIN cards' = DOMAIN cards
      /\ cards'[c] = h /\ \A x \in DOMAIN cards \ {c} : cards'[x] = cards[x]
  BY <1>1 DEF RowSets
<1> QED
  BY <1>2 DEF OnlyRow, CardId

\* A row that keeps its document and is not taken back leaves the map right.
LEMMA RowChanges ==
    ASSUME IInv, NEW c \in CardId, NEW h \in Row, RowSets(c, h), h.doc = cards[c].doc,
           h.retracted = "no" => cards[c].retracted = "no",
           UNCHANGED <<runtime, live, spared>>, InHand' = InHand
    PROVE  StayingIsMapped'
<1>1. OnlyRow(c, h)
  BY RowReplaced DEF IInv
<1>2. \A x \in CardId : /\ cards'[x].doc = cards[x].doc
                        /\ cards'[x].retracted = "no" => cards[x].retracted = "no"
  BY <1>1 DEF OnlyRow
<1> QED
  BY <1>1, <1>2 DEF IInv, StayingIsMapped, OnlyRow

LEMMA RetractKeeps ==
    ASSUME IInv, UNCHANGED transcriptVars, NEW p \in Run, Retract(p)
    PROVE  IInv'
<1> DEFINE m == run[p].prior
           s == IF cards[m].retracted = "no" THEN "stale" ELSE cards[m].retracted
           h == [cards[m] EXCEPT !.retracted = s]
           r == [run[p] EXCEPT !.at = "tell"]
           F == [at : Emitting, rt : 1..made, docs : SUBSET Doc, card : CardId,
                 prior : CardId \cup {0}]
<1>1. Formed /\ At(p, "retract") /\ run[p].at \in Emitting /\ m \in CardId
  BY DEF IInv, Formed, PriorsKnown, Retract, At, Emitting
<1>2. /\ UNCHANGED <<runtime, made, live, handlers, action, spared, late>>
      /\ cards' = [cards EXCEPT ![m] = h] /\ SetRun(p, r)
  <2>1. UNCHANGED <<runtime, made, live, handlers, action, spared, late>> /\ SetRun(p, r)
    BY DEF Retract, transcriptVars
  <2>2. cards' = [cards EXCEPT ![m] = h]
    BY DEF Retract
  <2> QED
    BY <2>1, <2>2
<1>3. r \in F /\ r.at = "tell" /\ r.card = run[p].card /\ r.prior = m
  BY <1>1, EmittingRun DEF Emitting
<1>4. /\ h \in Row /\ h.doc = cards[m].doc /\ h.pinned = cards[m].pinned /\ h.retracted # "no"
  BY <1>1, RowsFormed DEF Row
<1> HIDE DEF r, h
<1>5. RowSets(m, h) /\ OnlyRow(m, h)
  BY <1>1, <1>2, <1>4, RowReplaced DEF RowSets
<1>6. DOMAIN run' = Run /\ run'[p] = r /\ \A q \in Run \ {p} : run'[q] = run[q]
  BY <1>1, <1>2, RunSet
<1>7. InHand' = InHand
  BY <1>1, <1>2, <1>3, HandKept DEF SameInHand, Emitting
<1>8. StayingIsMapped'
  BY <1>1, <1>2, <1>4, <1>5, <1>7, RowChanges
<1>9. Formed'
  <2>1. \A q \in Run : RunFormed(run'[q])
    BY <1>1, <1>3, <1>6, RunsFormed DEF RunFormed
  <2>2. CardsTypeOK'
    BY <1>1, <1>2, <1>5, <2>1 DEF Formed, CardsTypeOK, RunFormed, OnlyRow
  <2>3. PriorsKnown'
    BY <1>1, <1>3, <1>5, <1>6 DEF Formed, PriorsKnown, OnlyRow
  <2> QED
    BY <1>1, <1>2, <1>6, <2>2, <2>3 DEF Formed, HandlersOK
<1>10. RetractingUnpinned'
  <2>1. \A x \in CardId : cards'[x].pinned = cards[x].pinned
    BY <1>4, <1>5 DEF OnlyRow
  <2>2. PriorsKnown
    BY <1>1 DEF Formed
  <2> QED
    BY <1>2, <1>3, <1>6, <2>1, <2>2 DEF IInv, RetractingUnpinned, PriorsKnown, At
<1>11. ToldIsRetracted'
  <2>1. \A x \in CardId : cards[x].retracted # "no" => cards'[x].retracted # "no"
    BY <1>4, <1>5 DEF OnlyRow
  <2>2. cards'[m].retracted # "no"
    BY <1>4, <1>5 DEF OnlyRow
  <2>3. PriorsKnown
    BY <1>1 DEF Formed
  <2> QED
    BY <1>3, <1>6, <2>1, <2>2, <2>3 DEF IInv, ToldIsRetracted, PriorsKnown, At
<1>12. PinnedStands'
  <2>1. cards[m].pinned => m \in late
    BY <1>1 DEF IInv, RetractingUnpinned
  <2> QED
    BY <1>2, <1>4, <1>5, <2>1 DEF IInv, PinnedStands, OnlyRow
<1> QED
  BY <1>8, <1>9, <1>10, <1>11, <1>12 DEF IInv

LEMMA InsertCardKeeps ==
    ASSUME IInv, UNCHANGED transcriptVars, NEW p \in Run, NEW d \in Doc, InsertCard(p, d)
    PROVE  IInv'
<1> DEFINE c == Len(cards) + 1
           r == [at |-> "announce", rt |-> run[p].rt, docs |-> run[p].docs \ {d},
                 card |-> c, prior |-> 0]
<1>1. Formed /\ At(p, "insert") /\ run[p].rt \in 1..made /\ run[p].docs \subseteq Doc
  BY InsertingRun DEF IInv, InsertCard
<1>2. /\ UNCHANGED <<runtime, made, live, handlers, action, spared, late>>
      /\ cards' = Append(cards, NewRow(d)) /\ SetRun(p, r)
  BY DEF InsertCard, transcriptVars
<1>3. /\ cards' \in Seq(Row) /\ CardId' = CardId \cup {c} /\ c \notin CardId
      /\ \A x \in CardId : cards'[x] = cards[x]
      /\ cards'[c] = NewRow(d)
  <2>1. cards \in Seq(Row) /\ NewRow(d) \in Row
    BY <1>1 DEF Formed, CardsTypeOK, Row, NewRow
  <2> QED
    BY <1>2, <2>1 DEF CardId
<1>4. /\ r.at = "announce" /\ r.card = c
      /\ r \in [at : Emitting, rt : 1..made, docs : SUBSET Doc, card : CardId', prior : CardId' \cup {0}]
  <2> HIDE DEF c
  <2> QED
    BY <1>1, <1>3 DEF Emitting
<1>5. DOMAIN run' = Run /\ run'[p] = r /\ \A q \in Run \ {p} : run'[q] = run[q]
  BY <1>1, <1>2, RunSet
<1> HIDE DEF r, c
<1>6. c \in InHand' /\ \A x \in InHand : x \in InHand'
  BY <1>1, <1>4, <1>5 DEF InHand, At
<1>7. Formed'
  <2>1. \A q \in Run : (RunFormed(run[q]))'
    <3>1. ASSUME NEW q \in Run \ {p} PROVE (RunFormed(run[q]))'
      <4>1. run'[q] = run[q] /\ RunFormed(run[q])
        BY <1>1, <1>5, RunsFormed
      <4> QED
        BY <1>2, <1>3, <4>1 DEF RunFormed
    <3>2. (RunFormed(run[p]))'
      BY <1>2, <1>4, <1>5 DEF RunFormed
    <3> QED
      BY <3>1, <3>2
  <2>2. live' \in Seq([Doc -> CardId' \cup {0}]) /\ Len(live') = made'
    <3>1. live \in Seq([Doc -> CardId \cup {0}]) /\ Len(live) = made
      BY <1>1 DEF Formed, CardsTypeOK
    <3>2. [Doc -> CardId \cup {0}] \subseteq [Doc -> CardId' \cup {0}]
      BY <1>3
    <3> QED
      BY <1>2, <3>1, <3>2
  <2>3. CardsTypeOK'
    <3>1. \A a \in Actor : action'[a] = None
                           \/ action'[a] \in [at : {"pin", "unpin", "dismiss"}, card : CardId']
      BY <1>1, <1>2, <1>3 DEF Formed, CardsTypeOK
    <3>2. spared' \subseteq CardId' \cup {0} /\ late' \subseteq CardId'
      BY <1>1, <1>2, <1>3 DEF Formed, CardsTypeOK
    <3> QED
      BY <1>3, <2>1, <2>2, <3>1, <3>2 DEF CardsTypeOK, RunFormed
  <2>4. PriorsKnown'
    BY <1>1, <1>3, <1>4, <1>5 DEF Formed, PriorsKnown
  <2> QED
    BY <1>1, <1>2, <1>5, <2>3, <2>4 DEF Formed, HandlersOK
<1>8. RetractingUnpinned' /\ ToldIsRetracted'
  <2>1. ASSUME NEW q \in Run, run'[q].at \in {"retract", "tell"}
        PROVE  run'[q] = run[q] /\ cards'[run[q].prior] = cards[run[q].prior]
    <3>1. q # p
      BY <1>4, <1>5, <2>1
    <3>2. run'[q] = run[q] /\ run[q].prior \in CardId
      BY <1>1, <1>5, <2>1, <3>1 DEF Formed, PriorsKnown
    <3> QED
      BY <1>3, <3>2
  <2> QED
    BY <1>2, <2>1 DEF IInv, RetractingUnpinned, ToldIsRetracted, At
<1>9. PinnedStands'
  <2>1. cards'[c].retracted = "no"
    BY <1>3 DEF NewRow
  <2>2. \A x \in CardId' : cards'[x].retracted = "stale" => x \in CardId /\ cards'[x] = cards[x]
    BY <1>3, <2>1
  <2> QED
    BY <1>2, <2>2 DEF IInv, PinnedStands
<1>10. StayingIsMapped'
  BY <1>2, <1>3, <1>6 DEF IInv, StayingIsMapped
<1> QED
  BY <1>7, <1>8, <1>9, <1>10 DEF IInv

-----------------------------------------------------------------------------
(***************************************************************************)
(* The server actions.                                                     *)
(***************************************************************************)
LEMMA LookupKeeps ==
    ASSUME IInv, UNCHANGED transcriptVars, NEW a \in Actor, NEW c \in CardId,
           NEW what \in {"pin", "unpin", "dismiss"}, Lookup(a, c, what)
    PROVE  IInv'
<1>1. Formed /\ CardId' = CardId
  BY DEF IInv, Lookup, CardId
<1>2. UNCHANGED <<runtime, made, cards, live, handlers, run, spared, late>>
  BY DEF Lookup, transcriptVars
<1>3. /\ action' = [action EXCEPT ![a] = [at |-> what, card |-> c]]
      /\ DOMAIN action = Actor
  BY <1>1 DEF Lookup, Formed
<1>4. /\ DOMAIN action' = Actor /\ action'[a] = [at |-> what, card |-> c]
      /\ \A b \in Actor \ {a} : action'[b] = action[b]
  BY <1>3
<1>5. [at |-> what, card |-> c] \in [at : {"pin", "unpin", "dismiss"}, card : CardId]
  OBVIOUS
<1>6. CardsTypeOK'
  BY <1>1, <1>2, <1>4, <1>5 DEF Formed, CardsTypeOK
<1>7. Formed'
  BY <1>1, <1>2, <1>4, <1>6 DEF Formed, HandlersOK, PriorsKnown
<1> QED
  BY <1>1, <1>2, <1>7 DEF IInv, RetractingUnpinned, ToldIsRetracted, PinnedStands,
     StayingIsMapped, InHand, At

\* An action that has found its row updates it and is over.
LEMMA ActionKeeps ==
    ASSUME IInv, NEW a \in Actor, NEW c \in CardId, NEW h \in Row, RowSets(c, h),
           h.doc = cards[c].doc, h.retracted = "no" => cards[c].retracted = "no",
           action' = [action EXCEPT ![a] = None], late \subseteq late', late' \subseteq CardId,
           UNCHANGED <<runtime, made, live, handlers, run, spared>>
    PROVE  Formed' /\ StayingIsMapped' /\ ToldIsRetracted'
<1>1. Formed /\ OnlyRow(c, h) /\ DOMAIN action = Actor
  BY RowReplaced DEF IInv, Formed
<1>2. DOMAIN action' = Actor /\ \A b \in Actor : action'[b] = None \/ action'[b] = action[b]
  BY <1>1
<1>3. CardId' = CardId /\ InHand' = InHand
  BY <1>1 DEF OnlyRow, InHand
<1>4. StayingIsMapped'
  BY <1>3, RowChanges
<1>5. CardsTypeOK'
  BY <1>1, <1>2, <1>3 DEF Formed, CardsTypeOK, OnlyRow
<1>6. Formed'
  BY <1>1, <1>2, <1>3, <1>5 DEF Formed, HandlersOK, PriorsKnown
<1>7. ToldIsRetracted'
  <2>1. \A x \in CardId : cards[x].retracted # "no" => cards'[x].retracted # "no"
    BY <1>1 DEF OnlyRow
  <2> QED
    BY <1>1, <2>1 DEF IInv, Formed, ToldIsRetracted, PriorsKnown, At
<1> QED
  BY <1>4, <1>6, <1>7

LEMMA PinKeeps ==
    ASSUME IInv, UNCHANGED transcriptVars, NEW a \in Actor, Pin(a)
    PROVE  IInv'
<1> DEFINE c == action[a].card
           pinned == action[a].at = "pin"
           h == [cards[c] EXCEPT !.pinned = pinned]
<1>1. Formed /\ action[a].at # "none" /\ UNCHANGED <<runtime, made, live, handlers, run, spared>>
  BY DEF IInv, Pin, transcriptVars
<1>2. c \in CardId
  BY <1>1 DEF Formed, CardsTypeOK, None
<1>3. cards' = [cards EXCEPT ![c] = h] /\ action' = [action EXCEPT ![a] = None]
  BY DEF Pin
<1>4. late' = late \cup {x \in {c} : pinned /\ PastCheck(x)}
  BY DEF Pin
<1>5. /\ h \in Row /\ h.doc = cards[c].doc /\ h.retracted = cards[c].retracted
      /\ h.pinned = pinned
  <2>1. cards[c] \in Row /\ pinned \in BOOLEAN
    BY <1>1, <1>2, RowsFormed
  <2> HIDE DEF c, pinned
  <2> QED
    BY <2>1 DEF Row
<1> HIDE DEF c, pinned, h
<1>6. late \subseteq late' /\ late' \subseteq CardId /\ (pinned /\ PastCheck(c) => c \in late')
  BY <1>1, <1>2, <1>4 DEF Formed, CardsTypeOK
<1>7. RowSets(c, h) /\ OnlyRow(c, h)
  BY <1>1, <1>2, <1>3, <1>5, RowReplaced DEF RowSets
<1>8. Formed' /\ StayingIsMapped' /\ ToldIsRetracted'
  BY <1>1, <1>2, <1>3, <1>5, <1>6, <1>7, ActionKeeps
<1>9. RetractingUnpinned'
  <2> SUFFICES ASSUME NEW q \in Run, run[q].at = "retract", cards'[run[q].prior].pinned
               PROVE  run[q].prior \in late'
    BY <1>1 DEF RetractingUnpinned, At
  <2>1. run[q].prior \in CardId
    BY <1>1 DEF Formed, PriorsKnown
  <2>2. CASE run[q].prior = c
    <3>1. PastCheck(c)
      BY <2>2 DEF PastCheck, At
    <3>2. pinned
      BY <2>2, <1>5, <1>7 DEF OnlyRow
    <3> QED
      BY <3>1, <3>2, <1>6, <2>2
  <2>3. CASE run[q].prior # c
    <3>1. cards'[run[q].prior] = cards[run[q].prior]
      BY <2>1, <2>3, <1>7 DEF OnlyRow
    <3> QED
      BY <3>1, <1>6 DEF IInv, RetractingUnpinned, At
  <2> QED
    BY <2>2, <2>3
<1>10. PinnedStands'
  <2> SUFFICES ASSUME NEW x \in CardId, cards'[x].retracted = "stale", cards'[x].pinned
               PROVE  x \in late'
    BY <1>7 DEF PinnedStands, OnlyRow
  <2>1. CASE x = c
    <3>1. PastCheck(c) /\ pinned
      BY <2>1, <1>5, <1>7 DEF PastCheck, OnlyRow
    <3> QED
      BY <3>1, <1>6, <2>1
  <2>2. CASE x # c
    <3>1. cards'[x] = cards[x]
      BY <2>2, <1>7 DEF OnlyRow
    <3> QED
      BY <3>1, <1>6 DEF IInv, PinnedStands
  <2> QED
    BY <2>1, <2>2
<1> QED
  BY <1>8, <1>9, <1>10 DEF IInv

LEMMA DismissKeeps ==
    ASSUME IInv, UNCHANGED transcriptVars, NEW a \in Actor, Dismiss(a)
    PROVE  IInv'
<1> DEFINE c == action[a].card
           h == [cards[c] EXCEPT !.retracted = "dismissed"]
<1>1. /\ Formed /\ action[a].at # "none"
      /\ UNCHANGED <<runtime, made, live, handlers, run, spared, late>>
  BY DEF IInv, Dismiss, transcriptVars
<1>2. c \in CardId
  BY <1>1 DEF Formed, CardsTypeOK, None
<1>3. cards' = [cards EXCEPT ![c] = h] /\ action' = [action EXCEPT ![a] = None]
  BY DEF Dismiss
<1>4. /\ h \in Row /\ h.doc = cards[c].doc /\ h.pinned = cards[c].pinned
      /\ h.retracted = "dismissed"
  <2>1. cards[c] \in Row
    BY <1>1, <1>2, RowsFormed
  <2> HIDE DEF c
  <2> QED
    BY <2>1 DEF Row
<1> HIDE DEF c, h
<1>5. RowSets(c, h) /\ OnlyRow(c, h)
  BY <1>1, <1>2, <1>3, <1>4, RowReplaced DEF RowSets
<1>6. late \subseteq late' /\ late' \subseteq CardId
  BY <1>1 DEF Formed, CardsTypeOK
<1>7. Formed' /\ StayingIsMapped' /\ ToldIsRetracted'
  BY <1>1, <1>2, <1>3, <1>4, <1>5, <1>6, ActionKeeps
<1>8. RetractingUnpinned'
  <2>1. \A x \in CardId : cards'[x].pinned = cards[x].pinned
    BY <1>4, <1>5 DEF OnlyRow
  <2> QED
    BY <1>1, <2>1 DEF IInv, Formed, PriorsKnown, RetractingUnpinned, At
<1>9. PinnedStands'
  <2>1. \A x \in CardId : cards'[x].retracted = "stale" => cards'[x] = cards[x]
    BY <1>4, <1>5 DEF OnlyRow
  <2> QED
    BY <1>1, <1>5, <2>1 DEF IInv, PinnedStands, OnlyRow
<1> QED
  BY <1>7, <1>8, <1>9 DEF IInv

-----------------------------------------------------------------------------
(***************************************************************************)
(* The steps the transcript and the cards take together.                   *)
(***************************************************************************)
LEMMA HandleFinalKeeps ==
    ASSUME IInv, NEW h \in handlers, HandleFinal(h)
    PROVE  IInv'
<1>1. Formed /\ HandlersOK /\ h.rt \in 0..made
  BY DEF IInv, Formed, HandlersOK
<1>2. UNCHANGED <<runtime, made>> /\ handlers' = handlers \ {h}
  BY DEF HandleFinal, Store, StoreFails
<1>3. HandlersOK'
  BY <1>1, <1>2 DEF HandlersOK
<1>4. CASE UNCHANGED cardVars
  BY <1>2, <1>3, <1>4, CardsUntouched
<1>5. ASSUME NEW docs \in SUBSET Doc, h.rt # 0, StartRun(h.rt, docs)
      PROVE  IInv'
  <2>1. PICK p \in Run : /\ At(p, "none") /\ SetRun(p, Onward(h.rt, docs))
                         /\ UNCHANGED <<cards, live, action, spared, late>>
    BY <1>5 DEF StartRun
  <2> DEFINE r == Onward(h.rt, docs)
  <2>2. h.rt \in 1..made
    BY <1>1, <1>5 DEF Formed
  <2>3. RunFormed(r) /\ r.at \in {"none", "insert"}
    BY <2>2, OnwardFormed
  <2>4. SetRun(p, r)
    BY <2>1
  <2> HIDE DEF r
  <2>5. RunSound(r) /\ SameInHand(run[p], r)
    BY <2>1, <2>3 DEF RunSound, SameInHand, At
  <2> QED
    BY <1>2, <1>3, <2>1, <2>4, <2>5, RunMoves
<1> QED
  BY <1>4, <1>5 DEF HandleFinal

LEMMA ConnectsKeeps == ASSUME IInv, Connects PROVE IInv'
<1>1. Formed /\ UNCHANGED <<cards, run, action, spared, late, handlers>>
  BY DEF IInv, Connects, Connect
<1>2. CASE runtime # 0
  <2>1. UNCHANGED cardVars /\ UNCHANGED <<runtime, made>>
    BY <1>1, <1>2 DEF Connects, Connect, Register, cardVars
  <2>2. HandlersOK'
    BY <1>1, <2>1 DEF Formed, HandlersOK
  <2> QED
    BY <2>1, <2>2, CardsUntouched
<1>3. CASE runtime = 0
  <2>1. /\ made' = made + 1 /\ runtime' = made + 1
        /\ live' = Append(live, [d \in Doc |-> 0])
    BY <1>3 DEF Connects, Connect, Register
  <2>2. made \in Nat /\ made' \in Nat /\ runtime' \in 0..made' /\ \A n \in 0..made : n \in 0..made'
    BY <1>1, <2>1 DEF Formed
  <2>3. 1..made \subseteq 1..made'
    BY <2>1, <2>2
  <2>4. CardId' = CardId /\ InHand' = InHand
    BY <1>1 DEF CardId, InHand
  <2>5. live' \in Seq([Doc -> CardId' \cup {0}]) /\ Len(live') = made'
    <3>1. live \in Seq([Doc -> CardId \cup {0}]) /\ Len(live) = made
      BY <1>1 DEF Formed, CardsTypeOK
    <3>2. [d \in Doc |-> 0] \in [Doc -> CardId \cup {0}]
      OBVIOUS
    <3> QED
      BY <2>1, <2>2, <2>4, <3>1, <3>2
  <2>6. \A p \in Run : (RunFormed(run[p]))'
    <3>1. ASSUME NEW p \in Run PROVE (RunFormed(run[p]))'
      <4>1. run'[p] = run[p] /\ RunFormed(run[p])
        BY <1>1, RunsFormed
      <4> QED
        BY <2>3, <2>4, <4>1 DEF RunFormed
    <3> QED
      BY <3>1
  <2>7. CardsTypeOK'
    BY <1>1, <2>4, <2>5, <2>6 DEF Formed, CardsTypeOK, RunFormed
  <2>8. Formed'
    BY <1>1, <2>2, <2>4, <2>7 DEF Formed, HandlersOK, PriorsKnown
  <2>9. StayingIsMapped'
    BY <1>1, <1>3, <2>4 DEF IInv, StayingIsMapped
  <2> QED
    BY <1>1, <2>4, <2>8, <2>9 DEF IInv, RetractingUnpinned, ToldIsRetracted, PinnedStands, At
<1> QED
  BY <1>2, <1>3

\* Without a runtime no card counts as staying: what its map held is spared.
LEMMA MappedSpared ==
    ASSUME IInv, runtime' = 0, UNCHANGED <<cards, live>>, spared \cup Mapped \subseteq spared',
           InHand \subseteq spared' \cup InHand'
    PROVE  StayingIsMapped'
<1> SUFFICES ASSUME NEW x \in CardId, x \notin spared', x \notin InHand', cards[x].retracted = "no"
             PROVE  FALSE
  BY DEF StayingIsMapped, CardId
<1>1. runtime # 0 /\ live[runtime][cards[x].doc] = x
  BY DEF IInv, StayingIsMapped
<1>2. x \in Mapped
  BY <1>1 DEF Mapped
<1> QED
  BY <1>2

LEMMA EndKeeps == ASSUME IInv, End PROVE IInv'
<1>1. Formed /\ runtime' = 0 /\ UNCHANGED <<made, cards, live, run, action, late, handlers>>
      /\ spared' = spared \cup Mapped
  BY DEF IInv, End, Forget, EndCards, EndTranscript
<1>2. CardId' = CardId /\ InHand' = InHand
  BY <1>1 DEF CardId, InHand
<1>3. spared' \subseteq CardId \cup {0}
  BY <1>1 DEF Formed, CardsTypeOK, Mapped
<1>4. CardsTypeOK'
  BY <1>1, <1>2, <1>3 DEF Formed, CardsTypeOK
<1>5. Formed'
  BY <1>1, <1>2, <1>4 DEF Formed, HandlersOK, PriorsKnown
<1>6. StayingIsMapped'
  BY <1>1, <1>2, MappedSpared
<1> QED
  BY <1>1, <1>2, <1>5, <1>6 DEF IInv, RetractingUnpinned, ToldIsRetracted, PinnedStands, At

LEMMA RestartKeeps == ASSUME IInv, Restart PROVE IInv'
<1>1. /\ Formed /\ runtime' = 0 /\ UNCHANGED <<made, cards, live, action, late>>
      /\ handlers' = {} /\ run' = [p \in Run |-> None]
      /\ spared' = spared \cup Mapped \cup InHand
  BY DEF IInv, Restart, Forget, RestartCards, RestartTranscript
<1>2. CardId' = CardId /\ \A p \in Run : run'[p] = None /\ run'[p].at = "none"
  BY <1>1 DEF CardId, None
<1>3. InHand \subseteq CardId
  <2> SUFFICES ASSUME NEW p \in Run, run[p].at \notin {"none", "insert"}
               PROVE  run[p].card \in CardId
    BY DEF InHand
  <2>1. RunFormed(run[p])
    BY <1>1, RunsFormed
  <2>2. run[p].at \in Emitting
    BY <2>1 DEF RunFormed, None
  <2> QED
    BY <1>1, <2>2, EmittingRun
<1>4. spared' \subseteq CardId \cup {0}
  BY <1>1, <1>3 DEF Formed, CardsTypeOK, Mapped
<1>5. CardsTypeOK'
  BY <1>1, <1>2, <1>4 DEF Formed, CardsTypeOK
<1>6. Formed'
  BY <1>1, <1>2, <1>5 DEF Formed, HandlersOK, PriorsKnown
<1>7. StayingIsMapped'
  BY <1>1, MappedSpared
<1> QED
  BY <1>1, <1>2, <1>6, <1>7 DEF IInv, RetractingUnpinned, ToldIsRetracted, PinnedStands, At

-----------------------------------------------------------------------------
(***************************************************************************)
(* The theorems.                                                           *)
(***************************************************************************)
LEMMA CardsKeep == ASSUME IInv, CardsNext, UNCHANGED transcriptVars PROVE IInv'
<1>1. ASSUME NEW p \in Run, NEW d \in Doc, InsertCard(p, d) \/ InsertFails(p, d) PROVE IInv'
  BY <1>1, InsertCardKeeps, InsertFailsKeeps
<1>2. ASSUME NEW p \in Run, Announced(p) \/ Check(p) \/ CheckFails(p) \/ Retract(p) \/ Told(p)
      PROVE  IInv'
  BY <1>2, AnnouncedKeeps, CheckKeeps, CheckFailsKeeps, RetractKeeps, ToldKeeps
<1>3. ASSUME NEW a \in Actor, NEW c \in CardId, NEW what \in {"pin", "unpin", "dismiss"},
             Lookup(a, c, what)
      PROVE  IInv'
  BY <1>3, LookupKeeps
<1>4. ASSUME NEW a \in Actor, Pin(a) \/ Dismiss(a) PROVE IInv'
  BY <1>4, PinKeeps, DismissKeeps
<1> QED
  BY <1>1, <1>2, <1>3, <1>4 DEF CardsNext

LEMMA StepKeeps == ASSUME IInv, [Next]_vars PROVE IInv'
<1>1. CASE UNCHANGED vars
  <2>1. UNCHANGED cardVars /\ UNCHANGED <<runtime, made, handlers>>
    BY <1>1 DEF vars, cardVars, runtimeVars, transcriptVars
  <2>2. HandlersOK'
    BY <2>1 DEF IInv, Formed, HandlersOK
  <2> QED
    BY <2>1, <2>2, CardsUntouched
<1>2. CASE Next
  BY <1>2, TranscriptKeeps, CardsKeep, ConnectsKeeps, HandleFinalKeeps, EndKeeps, RestartKeeps DEF Next
<1> QED
  BY <1>1, <1>2

LEMMA Inductive == Spec => []IInv
BY InitHolds, StepKeeps, PTL DEF Spec

\* However runs, pins, ends and restarts interleave, of the cards of a
\* document at most one stays that no exception covers (emitCard, index.ts).
THEOREM OneLivePerDocAlways == Spec => []OneLivePerDoc
BY Inductive, OneStays, PTL

\* A card that is pinned when it is checked is not retracted as stale
\* (retractIfNotPinned).
THEOREM PinnedStandsAlways == Spec => []PinnedStands
<1>1. IInv => PinnedStands
  BY DEF IInv
<1> QED
  BY <1>1, Inductive, PTL

-----------------------------------------------------------------------------
(***************************************************************************)
(* The lines of the transcript: the invariant. What it says of a speaker   *)
(* relates the messages that wait, the finals that are resolved and the    *)
(* open segments; what it says of the page rests on that.                  *)
(***************************************************************************)
\* The messages of s whose handler waits for the flip.
Waiting(s) == {h \in handlers : h.at = "flip" /\ h.m.id.speaker = s}

\* The finals that are resolved: stored, or about to be.
Finals == log \cup {h.line : h \in {x \in handlers : x.at = "store"}}

FinalsOf(s) == {f \in Finals : f.id.speaker = s}

\* The runtimes a message of s may still be resolved with.
Usable(s) == ({runtime} \ {0}) \cup {h.rt : h \in Waiting(s)}

Utterance(r, s) == segments[r][s].id.utterance

\* What is under way has the shape of what was sent.
WellSent ==
    /\ TranscriptTypeOK /\ made \in Nat /\ runtime \in {0, made}
    /\ segments = [r \in 1..made |-> segments[r]]
    /\ \A r \in 1..made : \A s \in DOMAIN segments[r] : segments[r][s].id.speaker = s
    /\ \A f \in Finals : f.isFinal
    /\ \A l \in net : l.isFinal => l \in log
    /\ \A id \in DOMAIN lines : lines[id].id = id /\ (lines[id].isFinal => lines[id] \in log)

\* The messages of a speaker wait in the order in which they were sent.
InOrder(s) ==
    \A h \in Waiting(s) :
        /\ h.m.n <= speech[s].sent /\ h.m.text <= speech[s].over + 1
        /\ h.m.isFinal => h.m.text <= speech[s].over
        /\ h.m.id.utterance = h.m.text
        /\ \A g \in Waiting(s) :
             /\ g.m.n = h.m.n => g = h
             /\ h.m.n < g.m.n =>
                  /\ h.rt <= g.rt /\ h.m.text <= g.m.text
                  /\ h.m.isFinal => h.m.text < g.m.text

\* A final that is resolved is behind whatever waits.
FinalsPast(s) ==
    \A f \in FinalsOf(s) :
        /\ f.id.utterance <= f.text /\ f.text <= speech[s].over
        /\ \A h \in Waiting(s) : f.text < h.m.text
        /\ \A g \in FinalsOf(s) : g.id = f.id => g.text = f.text

\* A segment that may still be used is past every final and not past what waits,
\* and what waits leaves the segments of later runtimes unopened.
SegmentsAhead(s) ==
    /\ \A r \in Usable(s) : Open(r, s) =>
         /\ Utterance(r, s) <= speech[s].over + 1
         /\ \A f \in FinalsOf(s) : f.id.utterance < Utterance(r, s)
         /\ \A h \in Waiting(s) : Utterance(r, s) <= h.m.text
    /\ \A h \in Waiting(s) : \A r \in 1..made : h.rt < r => ~Open(r, s)

\* Utterance u is not over, or its final waits.
Pending(s, u) ==
    u = speech[s].over + 1 \/ \E g \in Waiting(s) : g.m.isFinal /\ g.m.text = u

\* A speaker nothing was cut of is in the middle of an utterance in the runtime only.
HereOnly(s) ==
    /\ \A h \in Waiting(s) : h.rt = runtime /\ Pending(s, h.m.text)
    /\ \A r \in 1..made : Open(r, s) => r = runtime /\ Pending(s, Utterance(r, s))

Steady(s) == s \notin overtaken

Whole(s) == s \notin overtaken \cup cut

SpeakerOK(s) ==
    /\ InOrder(s)
    /\ Steady(s) => FinalsPast(s) /\ SegmentsAhead(s)
    /\ Whole(s) => HereOnly(s)

\* A stored line is on its way to the page, or settled there.
Settled(a) == a.id \in DOMAIN lines /\ lines[a.id].isFinal /\ lines[a.id].text = a.text

StoredArrive == \A a \in log : Steady(a.id.speaker) => a \in net \/ Settled(a)

\* An interim line has its final, or is the one its segment is at.
Followed(l) ==
    /\ l.text = l.id.utterance
    /\ \/ \E f \in Finals : f.id = l.id
       \/ \E r \in 1..made : Open(r, l.id.speaker) /\ segments[r][l.id.speaker].id = l.id

ToShow == net \cup {lines[id] : id \in DOMAIN lines}

InterimsFollowed == \A l \in ToShow : Whole(l.id.speaker) /\ ~l.isFinal => Followed(l)

LinesInv == WellSent /\ (\A s \in Speaker : SpeakerOK(s)) /\ StoredArrive /\ InterimsFollowed

-----------------------------------------------------------------------------
(***************************************************************************)
(* What waits, what is resolved and what is open have their types.         *)
(***************************************************************************)
Sent == [n : Nat, isFinal : BOOLEAN, text : Nat, id : Id]

Segment == [id : Id, rev : Nat]

LEMMA IdFields ==
    ASSUME NEW i \in Id
    PROVE  i.speaker \in Speaker /\ i.utterance \in Nat
BY DEF Id

LEMMA SentFields ==
    ASSUME NEW m \in Sent
    PROVE  /\ m.n \in Nat /\ m.isFinal \in BOOLEAN /\ m.text \in Nat /\ m.id \in Id
           /\ m.id.speaker \in Speaker /\ m.id.utterance \in Nat
<1>1. m.n \in Nat /\ m.isFinal \in BOOLEAN /\ m.text \in Nat /\ m.id \in Id
  BY DEF Sent
<1> QED
  BY <1>1, IdFields

LEMMA LineFields ==
    ASSUME NEW l \in LineSet
    PROVE  /\ l.id \in Id /\ l.isFinal \in BOOLEAN /\ l.rev \in Nat /\ l.text \in Nat
           /\ l.id.speaker \in Speaker /\ l.id.utterance \in Nat
<1>1. l.id \in Id /\ l.isFinal \in BOOLEAN /\ l.rev \in Nat /\ l.text \in Nat
  BY DEF LineSet
<1> QED
  BY <1>1, IdFields

LEMMA LineIsLine ==
    ASSUME NEW m \in Sent, NEW i \in Id, NEW k \in Nat
    PROVE  /\ Line(m, i, k) \in LineSet
           /\ Line(m, i, k).id = i /\ Line(m, i, k).text = m.text
           /\ Line(m, i, k).isFinal <=> m.isFinal
BY SentFields DEF Line, LineSet

\* A handler, by where it is.
HandlerFormed(h) ==
    \/ h \in [at : {"flip"}, rt : 1..made, m : Sent]
    \/ h \in [at : {"store"}, rt : 0..made, line : LineSet]

LEMMA HandlersFormed == ASSUME WellSent PROVE \A h \in handlers : HandlerFormed(h)
BY DEF WellSent, TranscriptTypeOK, HandlerFormed, Sent

LEMMA FlipFormed ==
    ASSUME WellSent, NEW h \in handlers, h.at = "flip"
    PROVE  h.rt \in 1..made /\ h.m \in Sent
<1>1. HandlerFormed(h)
  BY HandlersFormed
<1>2. h \notin [at : {"store"}, rt : 0..made, line : LineSet]
  OBVIOUS
<1> QED
  BY <1>1, <1>2 DEF HandlerFormed

LEMMA StoreFormed ==
    ASSUME WellSent, NEW h \in handlers, h.at = "store"
    PROVE  h.rt \in 0..made /\ h.line \in LineSet
<1>1. HandlerFormed(h)
  BY HandlersFormed
<1>2. h \notin [at : {"flip"}, rt : 1..made, m : Sent]
  OBVIOUS
<1> QED
  BY <1>1, <1>2 DEF HandlerFormed

LEMMA WaitingFormed ==
    ASSUME WellSent, NEW s \in Speaker
    PROVE  \A h \in Waiting(s) :
              /\ h \in handlers /\ h.at = "flip" /\ h.rt \in 1..made
              /\ h.m \in Sent /\ h.m.id.speaker = s
BY FlipFormed DEF Waiting

LEMMA WaitingNumbers ==
    ASSUME WellSent, NEW s \in Speaker
    PROVE  \A h \in Waiting(s) :
              /\ h.rt \in 1..made /\ h.m.n \in Nat /\ h.m.text \in Nat
              /\ h.m.isFinal \in BOOLEAN /\ h.m.id.utterance \in Nat
BY WaitingFormed, SentFields

LEMMA FinalsFormed == ASSUME WellSent PROVE Finals \subseteq LineSet
<1>1. log \subseteq LineSet
  BY DEF WellSent, TranscriptTypeOK
<1> QED
  BY <1>1, StoreFormed DEF Finals

LEMMA FinalNumbers ==
    ASSUME WellSent, NEW s \in Speaker
    PROVE  \A f \in FinalsOf(s) : f.text \in Nat /\ f.id.utterance \in Nat
BY FinalsFormed, LineFields DEF FinalsOf

LEMMA SegmentFormed ==
    ASSUME WellSent, NEW r \in 1..made, NEW s, Open(r, s)
    PROVE  /\ s \in Speaker /\ segments[r][s] \in Segment
           /\ segments[r][s].id \in Id /\ segments[r][s].rev \in Nat
           /\ segments[r][s].id.speaker = s /\ Utterance(r, s) \in Nat
<1>1. /\ s \in DOMAIN segments[r] /\ DOMAIN segments[r] \subseteq Speaker
      /\ segments[r][s] \in [id : Id, rev : Nat]
  BY DEF WellSent, TranscriptTypeOK, Open
<1>2. segments[r][s].id \in Id /\ segments[r][s].rev \in Nat
  BY <1>1
<1>3. segments[r][s].id.speaker = s
  BY <1>1 DEF WellSent
<1> QED
  BY <1>1, <1>2, <1>3, IdFields DEF Utterance, Segment

LEMMA SpeechFormed ==
    ASSUME WellSent, NEW s \in Speaker
    PROVE  speech[s].sent \in Nat /\ speech[s].partials \in 0..MaxPartials /\ speech[s].over \in Nat
<1>1. speech[s] \in [sent : Nat, partials : 0..MaxPartials, over : Nat]
  BY DEF WellSent, TranscriptTypeOK
<1> QED
  BY <1>1

LEMMA UsableMade ==
    ASSUME WellSent, NEW s \in Speaker
    PROVE  Usable(s) \subseteq 1..made
<1>1. runtime \in {0, made} /\ made \in Nat
  BY DEF WellSent
<1> QED
  BY <1>1, WaitingFormed DEF Usable

\* The numbers of a speaker's messages, finals and segments are numbers.
Numbers(s) ==
    /\ speech[s].over \in Nat
    /\ \A h \in Waiting(s) : h.rt \in 1..made /\ h.m.text \in Nat
    /\ Usable(s) \subseteq 1..made

LEMMA NumbersHold == WellSent => \A s \in Speaker : Numbers(s)
BY SpeechFormed, WaitingNumbers, UsableMade DEF Numbers

LEMMA NumbersNext == ASSUME WellSent' PROVE \A s \in Speaker : Numbers(s)'
<1>1. WellSent' => (\A s \in Speaker : Numbers(s))'
  BY NumbersHold, PTL
<1> QED
  BY <1>1

-----------------------------------------------------------------------------
(***************************************************************************)
(* What a message does to the segments.                                    *)
(***************************************************************************)
\* No segment but that of s in runtime r is touched.
Elsewhere(r, s) ==
    \A q \in 1..made : \A t : q # r \/ t # s =>
        /\ Open(q, t)' <=> Open(q, t)
        /\ Open(q, t) => segments'[q][t] = segments[q][t]

SegmentEnds(r, s) ==
    /\ segments' = [q \in 1..made |-> segments'[q]]
    /\ Elsewhere(r, s) /\ (r # 0 => ~Open(r, s)')

SegmentGoesOn(m, r) ==
    LET s == m.id.speaker
    IN /\ segments' = [q \in 1..made |-> segments'[q]] /\ Elsewhere(r, s)
       /\ Open(r, s)' /\ segments'[r][s] \in Segment
       /\ segments'[r][s].id = IF Open(r, s) THEN segments[r][s].id ELSE m.id
       /\ net' # net => \E k \in Nat : net' = net \cup {Line(m, segments'[r][s].id, k)}

LEMMA PutSegment ==
    ASSUME DOMAIN segments = 1..made, NEW r \in 1..made, NEW s, NEW v,
           segments' = [segments EXCEPT ![r] = Put(@, s, v)]
    PROVE  /\ segments' = [q \in 1..made |-> segments'[q]] /\ Elsewhere(r, s)
           /\ Open(r, s)' /\ segments'[r][s] = v
<1>1. segments' = [q \in 1..made |-> segments'[q]] /\ segments'[r] = Put(segments[r], s, v)
      /\ \A q \in 1..made \ {r} : segments'[q] = segments[q]
  OBVIOUS
<1>2. /\ DOMAIN segments'[r] = DOMAIN segments[r] \cup {s}
      /\ segments'[r][s] = v
      /\ \A t \in DOMAIN segments[r] \ {s} : segments'[r][t] = segments[r][t]
  BY <1>1 DEF Put
<1> QED
  BY <1>1, <1>2 DEF Elsewhere, Open

LEMMA DropSegment ==
    ASSUME DOMAIN segments = 1..made, NEW r \in 1..made, NEW s, segments' = Closed(r, s)
    PROVE  SegmentEnds(r, s)
<1>1. segments' = [q \in 1..made |-> segments'[q]] /\ segments'[r] = Drop(segments[r], {s})
      /\ \A q \in 1..made \ {r} : segments'[q] = segments[q]
  BY DEF Closed
<1>2. /\ DOMAIN segments'[r] = DOMAIN segments[r] \ {s}
      /\ \A t \in DOMAIN segments[r] \ {s} : segments'[r][t] = segments[r][t]
  BY <1>1 DEF Drop, Restrict
<1> QED
  BY <1>1, <1>2 DEF SegmentEnds, Elsewhere, Open

LEMMA PartialGoesOn ==
    ASSUME WellSent, NEW m \in Sent, NEW r \in 1..made, ResolvePartial(m, r)
    PROVE  SegmentGoesOn(m, r)
<1> DEFINE s == m.id.speaker
           next == [id |-> segments[r][s].id, rev |-> segments[r][s].rev + 1]
<1>1. /\ DOMAIN segments = 1..made /\ m.id \in Id
      /\ segments = [q \in 1..made |-> segments[q]]
  BY SentFields DEF WellSent, TranscriptTypeOK
<1>2. CASE /\ ~Open(r, s)
           /\ segments' = [segments EXCEPT ![r] = Put(@, s, [id |-> m.id, rev |-> 0])]
           /\ net' = net \cup {Line(m, m.id, 0)}
  <2> DEFINE v == [id |-> m.id, rev |-> 0]
  <2>1. v \in Segment /\ v.id = m.id /\ 0 \in Nat
    BY <1>1 DEF Segment
  <2>2. segments' = [segments EXCEPT ![r] = Put(@, s, v)]
    BY <1>2
  <2> HIDE DEF v
  <2>3. /\ segments' = [q \in 1..made |-> segments'[q]] /\ Elsewhere(r, s)
        /\ Open(r, s)' /\ segments'[r][s] = v
    BY <1>1, <2>2, PutSegment
  <2> QED
    BY <1>2, <2>1, <2>3 DEF SegmentGoesOn
<1>3. CASE /\ Open(r, s)
           /\ segments' = [segments EXCEPT ![r] = Put(@, s, next)]
           /\ net' = net \cup {Line(m, next.id, next.rev)}
  <2>1. next \in Segment /\ next.id = segments[r][s].id /\ next.rev \in Nat
    BY <1>3, SegmentFormed DEF Segment
  <2> HIDE DEF next
  <2>2. /\ segments' = [q \in 1..made |-> segments'[q]] /\ Elsewhere(r, s)
        /\ Open(r, s)' /\ segments'[r][s] = next
    BY <1>1, <1>3, PutSegment
  <2> QED
    BY <1>3, <2>1, <2>2 DEF SegmentGoesOn
<1>4. CASE Open(r, s) /\ UNCHANGED <<segments, net>>
  <2>1. segments[r][s] \in Segment
    BY <1>4, SegmentFormed
  <2> QED
    BY <1>1, <1>4, <2>1 DEF SegmentGoesOn, Elsewhere, Open
<1> QED
  BY <1>2, <1>3, <1>4 DEF ResolvePartial

-----------------------------------------------------------------------------
(***************************************************************************)
(* A message in its turn: nothing of its speaker that came before waits.   *)
(***************************************************************************)
\* The handlers left when a message is resolved, the ones that store among them.
Left(others) == others \subseteq handlers /\ \A x \in handlers : x.at = "store" => x \in others

WaitingIn(others, t) == {h \in others : h.at = "flip" /\ h.m.id.speaker = t}

LEMMA FinalHandedOn ==
    ASSUME NEW others, Left(others), NEW r, NEW l, UNCHANGED log,
           handlers' = others \cup {[at |-> "store", rt |-> r, line |-> l]}
    PROVE  Finals' = Finals \cup {l} /\ \A t : Waiting(t)' = WaitingIn(others, t)
<1> DEFINE x == [at |-> "store", rt |-> r, line |-> l]
<1>1. x.at = "store" /\ x.line = l
  OBVIOUS
<1> HIDE DEF x
<1>2. handlers' = others \cup {x}
  BY DEF x
<1>3. Finals' = Finals \cup {l}
  BY <1>1, <1>2 DEF Finals, Left
<1>4. ASSUME NEW t PROVE Waiting(t)' = WaitingIn(others, t)
  BY <1>1, <1>2 DEF Waiting, WaitingIn
<1> QED
  BY <1>3, <1>4

LEMMA HandlerDone ==
    ASSUME NEW others, Left(others), handlers' = others, UNCHANGED log
    PROVE  Finals' = Finals /\ \A t : Waiting(t)' = WaitingIn(others, t)
<1>1. Finals' = Finals
  BY DEF Finals, Left
<1> QED
  BY <1>1 DEF Waiting, WaitingIn

\* The message is m, resolved with runtime r.
InTurn(m, r) ==
    LET s == m.id.speaker
    IN /\ m.id.utterance = m.text /\ m.text <= speech'[s].over + 1
       /\ m.isFinal => m.text <= speech'[s].over
       /\ \A f \in FinalsOf(s) : f.text < m.text
       /\ \A g \in Waiting(s)' : /\ r <= g.rt /\ m.text <= g.m.text
                                 /\ m.isFinal => m.text < g.m.text
       /\ r # 0 /\ Open(r, s) =>
            /\ Utterance(r, s) <= m.text
            /\ \A f \in FinalsOf(s) : f.id.utterance < Utterance(r, s)
       /\ \A q \in Usable(s)' \ {r} : ~Open(q, s)
       /\ Waiting(s)' \subseteq Waiting(s) /\ speech[s].over <= speech'[s].over

LEMMA FinalLineFormed ==
    ASSUME WellSent, NEW m \in Sent, m.isFinal, NEW r \in 0..made
    PROVE  LET l == FinalLine(m, r)
           IN l \in LineSet /\ l.isFinal /\ l.text = m.text /\ l.id.speaker = m.id.speaker
<1> DEFINE s == m.id.speaker
           g == segments[r][s]
<1>1. CASE r # 0 /\ Open(r, s)
  <2>1. r \in 1..made
    BY <1>1 DEF WellSent
  <2>2. g.id \in Id /\ g.rev + 1 \in Nat /\ g.id.speaker = s
    BY <1>1, <2>1, SegmentFormed
  <2>3. FinalLine(m, r) = Line(m, g.id, g.rev + 1)
    BY <1>1 DEF FinalLine
  <2> HIDE DEF g
  <2> QED
    BY <2>2, <2>3, LineIsLine
<1>2. CASE ~(r # 0 /\ Open(r, s))
  <2>1. FinalLine(m, r) = Line(m, m.id, 0)
    BY <1>2 DEF FinalLine
  <2> QED
    BY <2>1, LineIsLine, SentFields
<1> QED
  BY <1>1, <1>2

\* The id of a final is that of no earlier one.
LEMMA FinalIsNew ==
    ASSUME WellSent, NEW s \in Speaker, NEW m \in Sent, m.isFinal, m.id.speaker = s,
           NEW r \in 0..made, FinalsPast(s), InTurn(m, r)
    PROVE  /\ FinalLine(m, r).id.utterance <= m.text
           /\ \A f \in FinalsOf(s) : f.id # FinalLine(m, r).id
<1> DEFINE l == FinalLine(m, r)
<1>1. m.text \in Nat /\ m.id.utterance = m.text
  BY SentFields DEF InTurn
<1>2. \A f \in FinalsOf(s) : /\ f.id.utterance \in Nat /\ f.text \in Nat
                            /\ f.id.utterance <= f.text /\ f.text < m.text
  BY FinalNumbers DEF FinalsPast, InTurn
<1>3. CASE r # 0 /\ Open(r, s)
  <2>1. r \in 1..made
    BY <1>3 DEF WellSent
  <2>2. l.id = segments[r][s].id /\ Utterance(r, s) \in Nat
    BY <1>3, <2>1, SegmentFormed DEF FinalLine, Line
  <2>3. l.id.utterance = Utterance(r, s)
    BY <2>2 DEF Utterance
  <2>4. /\ Utterance(r, s) <= m.text
        /\ \A f \in FinalsOf(s) : f.id.utterance < Utterance(r, s)
    BY <1>3 DEF InTurn
  <2> QED
    BY <1>2, <2>2, <2>3, <2>4
<1>4. CASE ~(r # 0 /\ Open(r, s))
  <2>1. l.id = m.id
    BY <1>4 DEF FinalLine, Line
  <2> QED
    BY <1>1, <1>2, <2>1
<1> QED
  BY <1>3, <1>4

LEMMA FinalTurn ==
    ASSUME WellSent, WellSent', NEW s \in Speaker, NEW m \in Sent, m.isFinal, m.id.speaker = s,
           NEW r \in 0..made, FinalsPast(s), SegmentsAhead(s), InTurn(m, r),
           UNCHANGED <<runtime, made>>, SegmentEnds(r, s),
           FinalsOf(s)' = FinalsOf(s) \cup {FinalLine(m, r)}
    PROVE  FinalsPast(s)' /\ SegmentsAhead(s)'
<1> DEFINE l == FinalLine(m, r)
<1>1. /\ l.text = m.text /\ l.id.utterance <= m.text
      /\ \A f \in FinalsOf(s) : f.id # l.id
      /\ l.id.utterance \in Nat /\ l.text \in Nat /\ m.text \in Nat
  <2>1. l \in LineSet
    BY FinalLineFormed
  <2> QED
    BY <2>1, FinalLineFormed, FinalIsNew, LineFields
<1> HIDE DEF l
<1>2. FinalsOf(s)' = FinalsOf(s) \cup {l}
  BY DEF l
<1>3. /\ speech[s].over \in Nat /\ speech'[s].over \in Nat /\ speech[s].over <= speech'[s].over
      /\ m.text <= speech'[s].over /\ Waiting(s)' \subseteq Waiting(s)
  <2>1. speech'[s].over \in Nat
    BY NumbersNext DEF Numbers
  <2> QED
    BY <2>1, SpeechFormed DEF InTurn
<1>4. FinalsPast(s)'
  <2>1. ASSUME NEW f \in FinalsOf(s)
        PROVE  /\ f.id.utterance <= f.text /\ f.text <= speech'[s].over
               /\ \A h \in Waiting(s)' : f.text < h.m.text
    BY <1>3, FinalNumbers DEF FinalsPast
  <2>2. /\ l.id.utterance <= l.text /\ l.text <= speech'[s].over
        /\ \A h \in Waiting(s)' : l.text < h.m.text
    BY <1>1, <1>3 DEF InTurn
  <2>3. ASSUME NEW f \in FinalsOf(s)', NEW g \in FinalsOf(s)', g.id = f.id
        PROVE  g.text = f.text
    BY <1>1, <1>2, <2>3 DEF FinalsPast
  <2> QED
    BY <1>2, <2>1, <2>2, <2>3 DEF FinalsPast
<1>5. Usable(s)' \subseteq 1..made
  BY NumbersNext DEF Numbers
<1>6. \A q \in Usable(s)' : ~Open(q, s)'
  <2>1. \A q \in 1..made : q # r => (Open(q, s)' <=> Open(q, s))
    BY DEF SegmentEnds, Elsewhere
  <2>2. r # 0 => ~Open(r, s)'
    BY DEF SegmentEnds
  <2>3. \A q \in Usable(s)' : q # 0
    BY <1>5
  <2> QED
    BY <1>5, <2>1, <2>2, <2>3 DEF InTurn
<1>7. \A h \in Waiting(s)' : \A q \in 1..made : h.rt < q => ~Open(q, s)'
  <2>1. \A q \in 1..made : Open(q, s)' => Open(q, s)
    <3>1. \A q \in 1..made : q # 0
      OBVIOUS
    <3> QED
      BY <3>1 DEF SegmentEnds, Elsewhere
  <2> QED
    BY <1>3, <2>1 DEF SegmentsAhead
<1> QED
  BY <1>4, <1>6, <1>7 DEF SegmentsAhead

LEMMA PartialTurn ==
    ASSUME WellSent, WellSent', NEW s \in Speaker, NEW m \in Sent, m.id.speaker = s,
           NEW r \in 1..made, FinalsPast(s), SegmentsAhead(s), InTurn(m, r),
           UNCHANGED <<runtime, made>>, SegmentGoesOn(m, r), FinalsOf(s)' = FinalsOf(s)
    PROVE  FinalsPast(s)' /\ SegmentsAhead(s)'
<1>1. /\ speech[s].over \in Nat /\ speech'[s].over \in Nat /\ speech[s].over <= speech'[s].over
      /\ m.text <= speech'[s].over + 1 /\ Waiting(s)' \subseteq Waiting(s)
      /\ m.text \in Nat /\ m.id.utterance = m.text
  <2>1. speech'[s].over \in Nat
    BY NumbersNext DEF Numbers
  <2> QED
    BY <2>1, SpeechFormed, SentFields DEF InTurn
<1>2. FinalsPast(s)'
  BY <1>1, FinalNumbers DEF FinalsPast
<1>3. Usable(s)' \subseteq 1..made
  BY NumbersNext DEF Numbers
<1>4. \A q \in 1..made : q # r => (Open(q, s)' <=> Open(q, s))
  BY DEF SegmentGoesOn, Elsewhere
<1>5. /\ Utterance(r, s)' \in Nat /\ Utterance(r, s)' <= m.text
      /\ \A f \in FinalsOf(s) : f.id.utterance < Utterance(r, s)'
  <2>1. CASE Open(r, s)
    <3>1. Utterance(r, s)' = Utterance(r, s)
      BY <2>1 DEF SegmentGoesOn, Utterance
    <3> QED
      BY <2>1, <3>1, SegmentFormed DEF InTurn
  <2>2. CASE ~Open(r, s)
    <3>1. Utterance(r, s)' = m.text
      BY <1>1, <2>2 DEF SegmentGoesOn, Utterance
    <3>2. \A f \in FinalsOf(s) : f.id.utterance <= f.text /\ f.text < m.text
      BY DEF FinalsPast, InTurn
    <3> QED
      BY <1>1, <3>1, <3>2, FinalNumbers
  <2> QED
    BY <2>1, <2>2
<1>6. \A g \in Waiting(s)' : g.rt \in 1..made /\ g.m.text \in Nat
  BY NumbersNext DEF Numbers
<1>7. ASSUME NEW q \in Usable(s)', Open(q, s)'
      PROVE  /\ Utterance(q, s)' <= speech'[s].over + 1
             /\ \A f \in FinalsOf(s)' : f.id.utterance < Utterance(q, s)'
             /\ \A h \in Waiting(s)' : Utterance(q, s)' <= h.m.text
  <2>1. q = r
    BY <1>3, <1>4, <1>7 DEF InTurn
  <2>2. \A h \in Waiting(s)' : m.text <= h.m.text
    BY DEF InTurn
  <2> QED
    BY <1>1, <1>5, <1>6, <2>1, <2>2
<1>8. ASSUME NEW h \in Waiting(s)', NEW q \in 1..made, h.rt < q
      PROVE  ~Open(q, s)'
  <2>1. r <= h.rt
    BY DEF InTurn
  <2>2. q # r
    BY <1>6, <1>8, <2>1
  <2> QED
    BY <1>1, <1>4, <1>8, <2>2 DEF SegmentsAhead
<1> QED
  BY <1>2, <1>7, <1>8 DEF SegmentsAhead

LEMMA MessageFormed ==
    ASSUME WellSent, NEW s \in Speaker, NEW isFinal \in BOOLEAN, NEW d \in Drift
    PROVE  LET m == Message(s, isFinal, d)
           IN /\ m \in Sent /\ m.id.speaker = s /\ (m.isFinal <=> isFinal)
              /\ m.n = speech[s].sent + 1 /\ m.text = speech[s].over + 1
              /\ m.id.utterance = m.text
<1>1. speech[s].sent + 1 \in Nat /\ speech[s].over + 1 \in Nat
  BY SpeechFormed
<1> QED
  BY <1>1 DEF Message, Sent, Id

\* What Recall counts of a speaker: one message more, and a final ends the utterance.
LEMMA SpeechGrows ==
    ASSUME WellSent, NEW s \in Speaker, NEW isFinal \in BOOLEAN, Says(s, isFinal)
    PROVE  /\ \A t \in Speaker \ {s} : speech'[t] = speech[t]
           /\ speech'[s].sent = speech[s].sent + 1
           /\ speech'[s].over = IF isFinal THEN speech[s].over + 1 ELSE speech[s].over
           /\ speech' \in [Speaker -> [sent : Nat, partials : 0..MaxPartials, over : Nat]]
<1> DEFINE v == IF isFinal
                THEN [sent |-> speech[s].sent + 1, partials |-> 0, over |-> speech[s].over + 1]
                ELSE [sent |-> speech[s].sent + 1, partials |-> speech[s].partials + 1,
                      over |-> speech[s].over]
<1>1. speech \in [Speaker -> [sent : Nat, partials : 0..MaxPartials, over : Nat]]
  BY DEF WellSent, TranscriptTypeOK
<1>2. speech' = [speech EXCEPT ![s] = v] /\ (isFinal \/ speech[s].partials < MaxPartials)
  BY DEF Says
<1>3. /\ v \in [sent : Nat, partials : 0..MaxPartials, over : Nat]
      /\ v.sent = speech[s].sent + 1
      /\ v.over = IF isFinal THEN speech[s].over + 1 ELSE speech[s].over
  <2>1. /\ speech[s].sent \in Nat /\ speech[s].partials \in 0..MaxPartials
        /\ speech[s].over \in Nat /\ MaxPartials \in Nat
    BY SpeechFormed, TranscriptAssumption
  <2>2. CASE isFinal
    BY <2>1, <2>2
  <2>3. CASE ~isFinal
    BY <1>2, <2>1, <2>3
  <2> QED
    BY <2>2, <2>3
<1> HIDE DEF v
<1> QED
  BY <1>1, <1>2, <1>3

LEMMA OrderKept ==
    ASSUME WellSent, NEW s \in Speaker, InOrder(s), Waiting(s)' \subseteq Waiting(s),
           speech'[s].sent \in Nat, speech[s].sent <= speech'[s].sent,
           speech'[s].over \in Nat, speech[s].over <= speech'[s].over
    PROVE  InOrder(s)'
BY WaitingNumbers, SpeechFormed DEF InOrder

\* A message that is resolved as it comes in is in its turn if nothing waits.
LEMMA ArrivesInTurn ==
    ASSUME WellSent, NEW s \in Speaker, NEW isFinal \in BOOLEAN, NEW d \in Drift,
           NEW m, m = Message(s, isFinal, d), NEW r, r = runtime,
           Says(s, isFinal), Waiting(s) = {}, Waiting(s)' = {}, FinalsPast(s), SegmentsAhead(s),
           UNCHANGED <<runtime, made>>
    PROVE  InTurn(m, r)
<1>1. /\ m.id.speaker = s /\ (m.isFinal <=> isFinal) /\ m.text = speech[s].over + 1
      /\ m.id.utterance = m.text
  BY MessageFormed
<1>2. /\ speech[s].over \in Nat /\ m.text \in Nat /\ speech[s].over <= speech'[s].over
      /\ m.text <= speech'[s].over + 1 /\ (m.isFinal => m.text <= speech'[s].over)
  BY <1>1, SpeechFormed, SpeechGrows
<1>3. \A f \in FinalsOf(s) : f.text < m.text
  BY <1>1, <1>2, FinalNumbers DEF FinalsPast
<1>4. r # 0 => r \in Usable(s)
  BY DEF Usable
<1>5. r # 0 /\ Open(r, s) => /\ Utterance(r, s) <= m.text
                            /\ \A f \in FinalsOf(s) : f.id.utterance < Utterance(r, s)
  BY <1>1, <1>4 DEF SegmentsAhead
<1>6. Usable(s)' \ {r} = {}
  BY DEF Usable
<1> QED
  BY <1>1, <1>2, <1>3, <1>5, <1>6 DEF InTurn

\* The rest of its speaker's messages come after h.
First(s, h) ==
    \A g \in Waiting(s) \ {h} : /\ h.rt <= g.rt /\ h.m.text <= g.m.text
                                /\ h.m.isFinal => h.m.text < g.m.text

LEMMA NothingPassed ==
    ASSUME WellSent, NEW s \in Speaker, InOrder(s), NEW h \in Waiting(s),
           \A g \in Waiting(s) \ {h} : ~(g.m.n < h.m.n)
    PROVE  First(s, h)
<1> SUFFICES ASSUME NEW g \in Waiting(s) \ {h}
             PROVE  /\ h.rt <= g.rt /\ h.m.text <= g.m.text
                    /\ h.m.isFinal => h.m.text < g.m.text
  BY DEF First
<1>1. g.m.n \in Nat /\ h.m.n \in Nat /\ g.m.n # h.m.n
  BY WaitingNumbers DEF InOrder
<1>2. h.m.n < g.m.n
  BY <1>1
<1> QED
  BY <1>2 DEF InOrder

LEMMA ReturnsInTurn ==
    ASSUME WellSent, NEW s \in Speaker, InOrder(s), FinalsPast(s), SegmentsAhead(s),
           NEW h \in Waiting(s), First(s, h), Waiting(s)' = Waiting(s) \ {h},
           UNCHANGED <<runtime, made, speech>>
    PROVE  InTurn(h.m, h.rt)
<1> DEFINE m == h.m
           r == h.rt
<1>1. /\ r \in 1..made /\ m.text \in Nat /\ m.id.speaker = s /\ speech[s].over \in Nat
      /\ made \in Nat /\ runtime \in {0, made} /\ r \in Usable(s)
  BY WaitingFormed, WaitingNumbers, SpeechFormed DEF WellSent, Usable
<1>2. /\ m.id.utterance = m.text /\ m.text <= speech[s].over + 1
      /\ m.isFinal => m.text <= speech[s].over
  BY DEF InOrder
<1>3. \A f \in FinalsOf(s) : f.text < m.text
  BY DEF FinalsPast
<1>4. \A g \in Waiting(s)' : r <= g.rt /\ m.text <= g.m.text /\ (m.isFinal => m.text < g.m.text)
  BY DEF First
<1>5. Open(r, s) => /\ Utterance(r, s) <= m.text
                    /\ \A f \in FinalsOf(s) : f.id.utterance < Utterance(r, s)
  BY <1>1 DEF SegmentsAhead
<1>6. ASSUME NEW q \in Usable(s)' \ {r} PROVE ~Open(q, s)
  <2>1. q \in 1..made /\ r < q
    <3>1. (q = runtime /\ runtime # 0) \/ \E g \in Waiting(s)' : q = g.rt
      BY <1>6 DEF Usable
    <3>2. \A g \in Waiting(s)' : g.rt \in 1..made
      BY WaitingNumbers
    <3> QED
      BY <1>1, <1>4, <1>6, <3>1, <3>2
  <2> QED
    BY <2>1 DEF SegmentsAhead
<1> QED
  BY <1>1, <1>2, <1>3, <1>4, <1>5, <1>6 DEF InTurn

-----------------------------------------------------------------------------
(***************************************************************************)
(* What a step keeps of a speaker.                                         *)
(***************************************************************************)
\* The message is of the utterance that the runtime is in the middle of.
InUtterance(m, r) ==
    LET s == m.id.speaker
    IN /\ r = runtime
       /\ r # 0 /\ Open(r, s) => Utterance(r, s) = m.text
       /\ ~m.isFinal => Pending(s, m.text)'
       /\ \A g \in Waiting(s)' : g.rt = runtime /\ Pending(s, g.m.text)'

LEMMA ArrivesInUtterance ==
    ASSUME WellSent, NEW s \in Speaker, NEW isFinal \in BOOLEAN, NEW d \in Drift,
           NEW m, m = Message(s, isFinal, d), NEW r, r = runtime,
           Says(s, isFinal), Waiting(s) = {}, Waiting(s)' = {}, HereOnly(s)
    PROVE  InUtterance(m, r)
<1>1. /\ m.id.speaker = s /\ (m.isFinal <=> isFinal) /\ m.text = speech[s].over + 1
  BY MessageFormed
<1>2. ~isFinal => Pending(s, m.text)'
  BY <1>1, SpeechGrows DEF Pending
<1>3. r # 0 => r \in 1..made
  BY DEF WellSent
<1>4. r # 0 /\ Open(r, s) => Utterance(r, s) = m.text
  BY <1>1, <1>3 DEF HereOnly, Pending
<1> QED
  BY <1>1, <1>2, <1>4 DEF InUtterance

LEMMA ReturnsInUtterance ==
    ASSUME WellSent, NEW s \in Speaker, InOrder(s), SegmentsAhead(s), HereOnly(s),
           NEW h \in Waiting(s), First(s, h), Waiting(s)' = Waiting(s) \ {h},
           UNCHANGED <<runtime, made, speech>>
    PROVE  InUtterance(h.m, h.rt)
<1>1. /\ h.rt \in 1..made /\ h.m.text \in Nat /\ h.m.id.speaker = s /\ speech[s].over \in Nat
      /\ h.rt = runtime /\ h.rt \in Usable(s) /\ h.m.text <= speech[s].over + 1
  BY WaitingFormed, WaitingNumbers, SpeechFormed DEF Usable, HereOnly, InOrder
<1>2. \A g \in Waiting(s) : g.m.text \in Nat /\ h.m.text <= g.m.text
  BY <1>1, WaitingNumbers DEF First
<1>3. ASSUME NEW u, Pending(s, u), ~h.m.isFinal \/ u # h.m.text PROVE Pending(s, u)'
  BY <1>3 DEF Pending
<1>4. Open(h.rt, s) => Utterance(h.rt, s) = h.m.text
  <2> SUFFICES ASSUME Open(h.rt, s) PROVE Utterance(h.rt, s) = h.m.text
    OBVIOUS
  <2>1. /\ Utterance(h.rt, s) \in Nat /\ Utterance(h.rt, s) <= h.m.text
        /\ Pending(s, Utterance(h.rt, s))
    BY <1>1, SegmentFormed DEF SegmentsAhead, HereOnly
  <2> QED
    BY <1>1, <1>2, <2>1 DEF Pending
<1>5. ~h.m.isFinal => Pending(s, h.m.text)'
  BY <1>3 DEF HereOnly
<1>6. ASSUME NEW g \in Waiting(s)' PROVE g.rt = runtime /\ Pending(s, g.m.text)'
  <2>1. h.m.isFinal => h.m.text < g.m.text
    BY DEF First
  <2>2. ~h.m.isFinal \/ g.m.text # h.m.text
    BY <1>1, <2>1
  <2> QED
    BY <1>3, <2>2 DEF HereOnly
<1> QED
  BY <1>1, <1>4, <1>5, <1>6 DEF InUtterance

\* A message resolved in its turn keeps what is known of its speaker.
LEMMA TurnKeeps ==
    ASSUME WellSent, WellSent', NEW s \in Speaker, NEW m \in Sent, m.id.speaker = s,
           NEW r \in 0..made, m.isFinal \/ r # 0, SpeakerOK(s), InOrder(s)',
           Steady(s)' => InTurn(m, r), Whole(s)' => InUtterance(m, r),
           overtaken \subseteq overtaken', UNCHANGED <<runtime, made, cut>>,
           m.isFinal => SegmentEnds(r, s) /\ FinalsOf(s)' = FinalsOf(s) \cup {FinalLine(m, r)},
           ~m.isFinal => SegmentGoesOn(m, r) /\ FinalsOf(s)' = FinalsOf(s)
    PROVE  SpeakerOK(s)'
<1>0. /\ Steady(s)' => Steady(s) /\ FinalsPast(s) /\ SegmentsAhead(s)
      /\ Whole(s)' => Whole(s) /\ HereOnly(s)
  BY DEF SpeakerOK, Steady, Whole
<1>1. made \in Nat /\ runtime \in {0, made}
  BY DEF WellSent
<1>2. ASSUME Steady(s)' PROVE FinalsPast(s)' /\ SegmentsAhead(s)'
  <2>1. CASE m.isFinal
    BY <1>0, <1>2, <2>1, FinalTurn
  <2>2. CASE ~m.isFinal
    <3>1. r \in 1..made
      BY <1>1, <2>2
    <3> QED
      BY <1>0, <1>2, <2>2, <3>1, PartialTurn
  <2> QED
    BY <2>1, <2>2
<1>3. ASSUME Whole(s)' PROVE HereOnly(s)'
  <2>1. /\ r = runtime /\ HereOnly(s)
        /\ ~m.isFinal => Pending(s, m.text)'
        /\ \A g \in Waiting(s)' : g.rt = runtime /\ Pending(s, g.m.text)'
        /\ r # 0 /\ Open(r, s) => Utterance(r, s) = m.text
    BY <1>0, <1>3 DEF InUtterance
  <2>2. ASSUME NEW q \in 1..made, Open(q, s)'
        PROVE  q = runtime /\ ~m.isFinal /\ Utterance(q, s)' = m.text
    <3>1. q = r
      <4>1. Elsewhere(r, s)
        BY DEF SegmentEnds, SegmentGoesOn
      <4> QED
        BY <2>1, <2>2, <4>1 DEF Elsewhere, HereOnly
    <3>2. ~m.isFinal
      BY <2>2, <3>1 DEF SegmentEnds
    <3>3. m.id.utterance = m.text
      BY <1>3 DEF InTurn, Whole, Steady
    <3> QED
      BY <2>1, <2>2, <3>1, <3>2, <3>3 DEF SegmentGoesOn, Utterance
  <2>3. ASSUME NEW q \in 1..made, Open(q, s)' PROVE Pending(s, Utterance(q, s))'
    BY <2>1, <2>2, <2>3 DEF Pending
  <2> QED
    BY <2>1, <2>2, <2>3 DEF HereOnly
<1> QED
  BY <1>2, <1>3 DEF SpeakerOK

\* What a speaker's part of the state is left as it was.
Apart(t) ==
    /\ speech'[t] = speech[t] /\ Waiting(t)' = Waiting(t) /\ FinalsOf(t)' \subseteq FinalsOf(t)
    /\ \A q \in 1..made : /\ Open(q, t)' <=> Open(q, t)
                          /\ Open(q, t) => segments'[q][t] = segments[q][t]

LEMMA ApartKeeps ==
    ASSUME WellSent, NEW t \in Speaker, SpeakerOK(t), Apart(t), UNCHANGED <<runtime, made>>,
           overtaken \subseteq overtaken', cut \subseteq cut'
    PROVE  SpeakerOK(t)'
<1>1. /\ speech'[t] = speech[t] /\ Waiting(t)' = Waiting(t) /\ FinalsOf(t)' \subseteq FinalsOf(t)
      /\ \A q \in 1..made : /\ Open(q, t)' <=> Open(q, t)
                            /\ Open(q, t) => segments'[q][t] = segments[q][t]
  BY DEF Apart
<1>2. Usable(t)' = Usable(t) /\ Usable(t) \subseteq 1..made
  BY <1>1, UsableMade DEF Usable
<1>3. \A q \in 1..made : Open(q, t) => Utterance(q, t)' = Utterance(q, t)
  BY <1>1 DEF Utterance
<1>4. InOrder(t)'
  BY <1>1 DEF SpeakerOK, InOrder
<1>5. FinalsPast(t) => FinalsPast(t)'
  BY <1>1 DEF FinalsPast
<1>6. SegmentsAhead(t) => SegmentsAhead(t)'
  BY <1>1, <1>2, <1>3 DEF SegmentsAhead
<1>7. HereOnly(t) => HereOnly(t)'
  <2>1. ASSUME NEW u PROVE Pending(t, u)' <=> Pending(t, u)
    BY <1>1 DEF Pending
  <2>2. \A h \in Waiting(t) : Pending(t, h.m.text)' <=> Pending(t, h.m.text)
    BY <2>1
  <2>3. \A q \in 1..made : Open(q, t) =>
           (Pending(t, Utterance(q, t))' <=> Pending(t, Utterance(q, t)))
    BY <1>1, <1>3 DEF Pending
  <2> QED
    BY <1>1, <1>3, <2>2, <2>3 DEF HereOnly
<1>8. (Steady(t)' => Steady(t)) /\ (Whole(t)' => Whole(t))
  BY DEF Steady, Whole
<1> QED
  BY <1>4, <1>5, <1>6, <1>7, <1>8 DEF SpeakerOK

\* More may be said and less may wait or be resolved, as long as no utterance ends.
LEMMA OverKept ==
    ASSUME WellSent, NEW s \in Speaker, SpeakerOK(s), InOrder(s)', Waiting(s)' = Waiting(s),
           speech'[s].over = speech[s].over, FinalsOf(s)' = FinalsOf(s),
           UNCHANGED <<runtime, made, segments, overtaken, cut>>
    PROVE  SpeakerOK(s)'
<1>1. Usable(s)' = Usable(s) /\ \A q : Open(q, s)' <=> Open(q, s)
  BY DEF Usable, Open
<1>2. FinalsPast(s) => FinalsPast(s)'
  BY DEF FinalsPast
<1>3. SegmentsAhead(s) => SegmentsAhead(s)'
  BY <1>1 DEF SegmentsAhead, Utterance
<1>4. HereOnly(s) => HereOnly(s)'
  BY <1>1 DEF HereOnly, Pending, Utterance
<1> QED
  BY <1>2, <1>3, <1>4 DEF SpeakerOK, Steady, Whole

-----------------------------------------------------------------------------
(***************************************************************************)
(* The messages: arriving, and returning from the flip.                    *)
(***************************************************************************)
\* What resolving a message does, whatever its kind.
LEMMA ResolveDoes ==
    ASSUME WellSent, NEW m \in Sent, NEW r \in 0..made, m.isFinal \/ r # 0,
           NEW others, Left(others), Resolve(m, r, others), UNCHANGED log
    PROVE  LET s == m.id.speaker
           IN /\ m.isFinal => /\ SegmentEnds(r, s) /\ Finals' = Finals \cup {FinalLine(m, r)}
                              /\ net' = net
                              /\ handlers' = others \cup
                                    {[at |-> "store", rt |-> r, line |-> FinalLine(m, r)]}
              /\ ~m.isFinal => SegmentGoesOn(m, r) /\ Finals' = Finals /\ handlers' = others
              /\ \A t : Waiting(t)' = WaitingIn(others, t)
              /\ overtaken \subseteq overtaken' /\ overtaken' \subseteq Speaker /\ cut' = cut
              /\ Steady(s)' => Steady(s) /\ \A h \in WaitingIn(others, s) : ~(h.m.n < m.n)
<1> DEFINE s == m.id.speaker
<1>1. /\ made \in Nat /\ segments = [q \in 1..made |-> segments[q]]
      /\ overtaken \subseteq Speaker /\ s \in Speaker
  BY SentFields DEF WellSent, TranscriptTypeOK
<1>2. /\ overtaken \subseteq overtaken' /\ overtaken' \subseteq Speaker /\ cut' = cut
      /\ Steady(s)' => Steady(s) /\ \A h \in WaitingIn(others, s) : ~(h.m.n < m.n)
  <2>1. /\ cut' = cut
        /\ overtaken' = overtaken \cup
              (IF \E h \in others : h.at = "flip" /\ h.m.id.speaker = s /\ h.m.n < m.n
               THEN {s} ELSE {})
    BY DEF Resolve
  <2> HIDE DEF s
  <2> QED
    BY <1>1, <2>1 DEF Steady, WaitingIn
<1>3. CASE m.isFinal
  <2>1. /\ net' = net /\ segments' = IF r = 0 THEN segments ELSE Closed(r, s)
        /\ handlers' = others \cup {[at |-> "store", rt |-> r, line |-> FinalLine(m, r)]}
    BY <1>3 DEF Resolve, ResolveFinal
  <2>2. SegmentEnds(r, s)
    <3>1. CASE r = 0
      BY <1>1, <2>1, <3>1 DEF SegmentEnds, Elsewhere, Open
    <3>2. CASE r # 0
      <4>1. r \in 1..made
        BY <1>1, <3>2
      <4> HIDE DEF s
      <4> QED
        BY <1>1, <2>1, <3>2, <4>1, DropSegment
    <3> QED
      BY <3>1, <3>2
  <2>3. Finals' = Finals \cup {FinalLine(m, r)} /\ \A t : Waiting(t)' = WaitingIn(others, t)
    <3> DEFINE l == FinalLine(m, r)
    <3>1. PICK k : k = l
      OBVIOUS
    <3>2. handlers' = others \cup {[at |-> "store", rt |-> r, line |-> k]}
      BY <2>1, <3>1
    <3>3. Finals' = Finals \cup {k} /\ \A t : Waiting(t)' = WaitingIn(others, t)
      BY <3>2, FinalHandedOn
    <3> QED
      BY <3>1, <3>3
  <2> QED
    BY <1>2, <1>3, <2>1, <2>2, <2>3
<1>4. CASE ~m.isFinal
  <2>1. ResolvePartial(m, r) /\ handlers' = others /\ r \in 1..made
    BY <1>1, <1>4 DEF Resolve
  <2>2. SegmentGoesOn(m, r)
    BY <2>1, PartialGoesOn
  <2>3. Finals' = Finals /\ \A t : Waiting(t)' = WaitingIn(others, t)
    BY <2>1, HandlerDone
  <2> QED
    BY <1>2, <1>4, <2>1, <2>2, <2>3
<1> QED
  BY <1>3, <1>4

\* The state has its shape after a message is resolved.
LEMMA ResolveFormed ==
    ASSUME WellSent, NEW m \in Sent, NEW r \in 0..made, m.isFinal \/ r # 0,
           NEW others, Left(others), Resolve(m, r, others),
           UNCHANGED <<runtime, made, log, lines>>, socket' \in BOOLEAN, marked' \subseteq 1..made,
           speech' \in [Speaker -> [sent : Nat, partials : 0..MaxPartials, over : Nat]],
           m.isFinal => FinalLine(m, r) \in LineSet /\ FinalLine(m, r).isFinal
    PROVE  WellSent'
<1> DEFINE s == m.id.speaker
<1>1. /\ TranscriptTypeOK /\ s \in Speaker /\ m.id \in Id /\ m.id.speaker = s
      /\ made \in Nat /\ runtime \in {0, made}
  BY SentFields DEF WellSent
<1>2. /\ m.isFinal => /\ SegmentEnds(r, s) /\ Finals' = Finals \cup {FinalLine(m, r)}
                      /\ net' = net
                      /\ handlers' = others \cup
                            {[at |-> "store", rt |-> r, line |-> FinalLine(m, r)]}
      /\ ~m.isFinal => SegmentGoesOn(m, r) /\ Finals' = Finals /\ handlers' = others
      /\ overtaken' \subseteq Speaker /\ cut' = cut
  BY ResolveDoes
<1> HIDE DEF s
<1>3. \A q \in 1..made : \A t : Open(q, t)' =>
         t \in Speaker /\ segments'[q][t] \in Segment /\ segments'[q][t].id.speaker = t
  <2> SUFFICES ASSUME NEW q \in 1..made, NEW t, Open(q, t)'
               PROVE  /\ t \in Speaker /\ segments'[q][t] \in Segment
                      /\ segments'[q][t].id.speaker = t
    OBVIOUS
  <2>1. CASE q # r \/ t # s
    <3>1. Elsewhere(r, s)
      BY <1>1, <1>2 DEF SegmentEnds, SegmentGoesOn
    <3>2. Open(q, t) /\ segments'[q][t] = segments[q][t]
      BY <2>1, <3>1 DEF Elsewhere
    <3> QED
      BY <3>2, SegmentFormed
  <2>2. CASE q = r /\ t = s
    <3>1. ~m.isFinal
      BY <1>2, <2>2 DEF SegmentEnds
    <3>2. /\ segments'[r][s] \in Segment
          /\ segments'[r][s].id = IF Open(r, s) THEN segments[r][s].id ELSE m.id
      BY <1>1, <1>2, <3>1 DEF SegmentGoesOn
    <3> QED
      BY <1>1, <2>2, <3>2, SegmentFormed
  <2> QED
    BY <2>1, <2>2
<1>4. segments' = [q \in 1..made |-> segments'[q]] /\ DOMAIN segments' = 1..made
  BY <1>2 DEF SegmentEnds, SegmentGoesOn
<1>5. \A h \in handlers' : HandlerFormed(h)
  <2>1. \A h \in others : HandlerFormed(h)
    BY HandlersFormed DEF Left
  <2>2. m.isFinal => HandlerFormed([at |-> "store", rt |-> r, line |-> FinalLine(m, r)])
    <3> DEFINE k == FinalLine(m, r)
    <3>1. m.isFinal => k \in LineSet
      OBVIOUS
    <3> HIDE DEF k
    <3>2. m.isFinal => HandlerFormed([at |-> "store", rt |-> r, line |-> k])
      BY <3>1 DEF HandlerFormed
    <3> QED
      BY <3>2 DEF k
  <2> QED
    BY <1>2, <2>1, <2>2
<1>6. net' \subseteq LineSet /\ \A l \in net' : l.isFinal => l \in log
  <2>1. net \subseteq LineSet /\ \A l \in net : l.isFinal => l \in log
    BY <1>1 DEF WellSent, TranscriptTypeOK
  <2>2. CASE net' = net
    BY <2>1, <2>2
  <2>3. CASE net' # net
    <3>1. ~m.isFinal /\ segments'[r][s] \in Segment
      BY <1>1, <1>2, <2>3 DEF SegmentGoesOn
    <3>2. PICK k \in Nat : net' = net \cup {Line(m, segments'[r][s].id, k)}
      BY <1>1, <1>2, <2>3, <3>1 DEF SegmentGoesOn
    <3>3. segments'[r][s].id \in Id
      BY <3>1 DEF Segment
    <3>4. /\ Line(m, segments'[r][s].id, k) \in LineSet
          /\ ~Line(m, segments'[r][s].id, k).isFinal
      BY <3>1, <3>3, LineIsLine
    <3> QED
      BY <2>1, <3>2, <3>4
  <2> QED
    BY <2>2, <2>3
<1>7. \A f \in Finals' : f.isFinal
  <2>1. \A f \in Finals : f.isFinal
    BY DEF WellSent
  <2> QED
    BY <1>2, <2>1
<1>8. TranscriptTypeOK'
  <2>1. \A q \in 1..made : /\ DOMAIN segments'[q] \subseteq Speaker
                           /\ \A t \in DOMAIN segments'[q] :
                                 segments'[q][t] \in [id : Id, rev : Nat]
    BY <1>3 DEF Open, Segment
  <2>2. \A h \in handlers' :
           \/ h \in [at : {"flip"}, rt : 1..made,
                     m : [n : Nat, isFinal : BOOLEAN, text : Nat, id : Id]]
           \/ h \in [at : {"store"}, rt : 0..made, line : LineSet]
    BY <1>5 DEF HandlerFormed, Sent
  <2> QED
    BY <1>1, <1>2, <1>4, <1>6, <2>1, <2>2 DEF TranscriptTypeOK
<1>9. \A q \in 1..made : \A t \in DOMAIN segments'[q] : segments'[q][t].id.speaker = t
  BY <1>3 DEF Open
<1> QED
  BY <1>1, <1>4, <1>6, <1>7, <1>8, <1>9 DEF WellSent

\* What the page knows of, once a message was resolved.
LEMMA ResolvePage ==
    ASSUME LinesInv, WellSent', NEW s \in Speaker, NEW m \in Sent, m.id.speaker = s,
           NEW r \in 0..made, m.isFinal \/ r # 0, UNCHANGED <<runtime, made, log, lines, cut>>,
           overtaken \subseteq overtaken', Whole(s)' => InTurn(m, r) /\ InUtterance(m, r),
           m.isFinal => /\ SegmentEnds(r, s) /\ Finals' = Finals \cup {FinalLine(m, r)}
                        /\ net' = net,
           ~m.isFinal => SegmentGoesOn(m, r) /\ Finals' = Finals
    PROVE  StoredArrive' /\ InterimsFollowed'
<1>1. WellSent /\ StoredArrive /\ InterimsFollowed /\ made \in Nat
  BY DEF LinesInv, WellSent
<1>2. net \subseteq net'
  BY DEF SegmentGoesOn
<1>3. StoredArrive'
  BY <1>1, <1>2 DEF StoredArrive, Steady, Settled
<1>4. Finals \subseteq Finals' /\ Elsewhere(r, s)
  BY DEF SegmentEnds, SegmentGoesOn
<1>5. ASSUME NEW l, Followed(l) PROVE Followed(l)'
  <2>1. l.text = l.id.utterance
    BY <1>5 DEF Followed
  <2>2. CASE \E f \in Finals : f.id = l.id
    BY <1>4, <2>1, <2>2 DEF Followed
  <2>3. CASE \E q \in 1..made : Open(q, l.id.speaker) /\ segments[q][l.id.speaker].id = l.id
    <3>1. PICK q \in 1..made : Open(q, l.id.speaker) /\ segments[q][l.id.speaker].id = l.id
      BY <2>3
    <3>2. CASE q # r \/ l.id.speaker # s
      <4>1. Open(q, l.id.speaker)' /\ segments'[q][l.id.speaker].id = l.id
        BY <1>4, <3>1, <3>2 DEF Elsewhere
      <4> QED
        BY <2>1, <4>1 DEF Followed
    <3>3. CASE q = r /\ l.id.speaker = s /\ m.isFinal
      <4>1. FinalLine(m, r).id = segments[r][s].id
        BY <3>1, <3>3 DEF FinalLine, Line
      <4> QED
        BY <2>1, <3>1, <3>3, <4>1 DEF Followed
    <3>4. CASE q = r /\ l.id.speaker = s /\ ~m.isFinal
      <4>1. Open(r, s)' /\ segments'[r][s].id = l.id
        BY <3>1, <3>4 DEF SegmentGoesOn
      <4> QED
        BY <2>1, <3>4, <4>1 DEF Followed
    <3> QED
      BY <3>2, <3>3, <3>4
  <2> QED
    BY <1>5, <2>2, <2>3 DEF Followed
<1>6. ASSUME NEW l \in ToShow', l \notin ToShow, Whole(l.id.speaker)' PROVE Followed(l)'
  <2>1. net' # net /\ l \in net' \ net
    BY <1>6 DEF ToShow
  <2>2. SegmentGoesOn(m, r) /\ ~m.isFinal /\ r \in 1..made
    BY <1>1, <2>1
  <2>3. PICK k \in Nat : net' = net \cup {Line(m, segments'[r][s].id, k)}
    BY <2>1, <2>2 DEF SegmentGoesOn
  <2>4. l.id = segments'[r][s].id /\ l.text = m.text
    BY <2>1, <2>3 DEF Line
  <2>5. Open(r, s)' /\ segments'[r][s].id = IF Open(r, s) THEN segments[r][s].id ELSE m.id
    BY <2>2 DEF SegmentGoesOn
  <2>6. l.id.speaker = s
    BY <1>1, <2>2, <2>4, <2>5, SegmentFormed
  <2>7. l.id.utterance = m.text
    <3>1. m.id.utterance = m.text /\ (r # 0 /\ Open(r, s) => Utterance(r, s) = m.text)
      BY <1>6, <2>6 DEF InTurn, InUtterance
    <3> QED
      BY <2>2, <2>4, <2>5, <3>1 DEF Utterance
  <2> QED
    BY <2>2, <2>4, <2>5, <2>6, <2>7 DEF Followed
<1>7. \A t : Whole(t)' => Whole(t)
  BY DEF Whole
<1> QED
  BY <1>1, <1>3, <1>5, <1>6, <1>7 DEF InterimsFollowed

\* A speaker whose message this is not is left as it was.
LEMMA OthersApart ==
    ASSUME WellSent, NEW s \in Speaker, NEW t \in Speaker \ {s}, NEW r \in 0..made,
           speech'[t] = speech[t], Waiting(t)' = Waiting(t), Elsewhere(r, s),
           \/ Finals' = Finals
           \/ \E l : Finals' = Finals \cup {l} /\ l.id.speaker = s
    PROVE  Apart(t)
<1>1. FinalsOf(t)' \subseteq FinalsOf(t)
  BY DEF FinalsOf
<1> QED
  BY <1>1 DEF Apart, Elsewhere

\* A message resolved keeps the invariant, if its speaker's messages wait in order
\* and it is in its turn whenever it overtakes none.
LEMMA ResolveKeeps ==
    ASSUME LinesInv, NEW s \in Speaker, NEW m \in Sent, m.id.speaker = s,
           NEW r \in 0..made, m.isFinal \/ r # 0, NEW others, Left(others),
           Resolve(m, r, others), UNCHANGED <<runtime, made, log, lines>>,
           socket' \in BOOLEAN, marked' \subseteq 1..made,
           speech' \in [Speaker -> [sent : Nat, partials : 0..MaxPartials, over : Nat]],
           \A t \in Speaker \ {s} : speech'[t] = speech[t] /\ WaitingIn(others, t) = Waiting(t),
           InOrder(s)', Steady(s)' => InTurn(m, r), Whole(s)' => InUtterance(m, r)
    PROVE  LinesInv'
<1>1. WellSent /\ made \in Nat
  BY DEF LinesInv, WellSent
<1>2. /\ m.isFinal => /\ SegmentEnds(r, s) /\ Finals' = Finals \cup {FinalLine(m, r)}
                      /\ net' = net
      /\ ~m.isFinal => SegmentGoesOn(m, r) /\ Finals' = Finals
      /\ \A t : Waiting(t)' = WaitingIn(others, t)
      /\ overtaken \subseteq overtaken' /\ cut' = cut
  BY <1>1, ResolveDoes
<1>3. m.isFinal => /\ FinalLine(m, r) \in LineSet /\ FinalLine(m, r).isFinal
                   /\ FinalLine(m, r).id.speaker = s
  BY <1>1, FinalLineFormed
<1>4. WellSent'
  BY <1>1, <1>3, ResolveFormed
<1>5. SpeakerOK(s)'
  <2>1. m.isFinal => FinalsOf(s)' = FinalsOf(s) \cup {FinalLine(m, r)}
    BY <1>2, <1>3 DEF FinalsOf
  <2>2. ~m.isFinal => FinalsOf(s)' = FinalsOf(s)
    BY <1>2 DEF FinalsOf
  <2>3. SpeakerOK(s)
    BY DEF LinesInv
  <2> QED
    BY <1>1, <1>2, <1>4, <2>1, <2>2, <2>3, TurnKeeps
<1>6. ASSUME NEW t \in Speaker \ {s} PROVE SpeakerOK(t)'
  <2>1. Elsewhere(r, s)
    BY <1>2 DEF SegmentEnds, SegmentGoesOn
  <2>2. Finals' = Finals \/ \E l : Finals' = Finals \cup {l} /\ l.id.speaker = s
    BY <1>2, <1>3
  <2>3. Apart(t)
    BY <1>1, <1>2, <2>1, <2>2, OthersApart
  <2> QED
    BY <1>1, <1>2, <2>3, ApartKeeps DEF LinesInv
<1>7. StoredArrive' /\ InterimsFollowed'
  <2>1. Whole(s)' => Steady(s)'
    BY DEF Whole, Steady
  <2> QED
    BY <1>2, <1>4, <2>1, ResolvePage
<1> QED
  BY <1>4, <1>5, <1>6, <1>7 DEF LinesInv

\* A message that has to wait goes to the end of its speaker's queue.
LEMMA WaitsInOrder ==
    ASSUME LinesInv, NEW s \in Speaker, NEW isFinal \in BOOLEAN, NEW d \in Drift,
           NEW m, m = Message(s, isFinal, d), NEW h, h = [at |-> "flip", rt |-> runtime, m |-> m],
           runtime \in 1..made, Says(s, isFinal),
           UNCHANGED <<runtime, made, segments, overtaken, cut>>,
           Waiting(s)' = Waiting(s) \cup {h}, FinalsOf(s)' = FinalsOf(s)
    PROVE  SpeakerOK(s)'
<1>1. /\ WellSent /\ SpeakerOK(s) /\ made \in Nat /\ runtime = made
      /\ speech[s].sent \in Nat /\ speech[s].over \in Nat
  <2>1. WellSent
    BY DEF LinesInv
  <2> QED
    BY <2>1, SpeechFormed DEF LinesInv, WellSent
<1>2. /\ h.rt = made /\ h.m = m /\ m.n = speech[s].sent + 1 /\ m.text = speech[s].over + 1
      /\ m.id.utterance = m.text /\ (m.isFinal <=> isFinal)
  BY <1>1, MessageFormed
<1>3. /\ speech'[s].sent = speech[s].sent + 1 /\ speech[s].over <= speech'[s].over
      /\ speech'[s].over = IF isFinal THEN speech[s].over + 1 ELSE speech[s].over
      /\ speech'[s].over \in Nat
  BY <1>1, SpeechGrows
<1>4. \A g \in Waiting(s) : /\ g.rt \in 1..made /\ g.m.n \in Nat /\ g.m.text \in Nat
                            /\ g.m.n <= speech[s].sent /\ g.m.text <= speech[s].over + 1
                            /\ g.m.isFinal => g.m.text <= speech[s].over
  BY <1>1, WaitingNumbers DEF SpeakerOK, InOrder
<1>5. InOrder(s)'
  <2>1. ASSUME NEW g \in Waiting(s)'
        PROVE  /\ g.m.n <= speech'[s].sent /\ g.m.text <= speech'[s].over + 1
               /\ g.m.isFinal => g.m.text <= speech'[s].over
               /\ g.m.id.utterance = g.m.text
    <3>1. CASE g = h
      BY <1>1, <1>2, <1>3, <3>1
    <3>2. CASE g \in Waiting(s)
      BY <1>1, <1>3, <1>4, <3>2 DEF SpeakerOK, InOrder
    <3> QED
      BY <3>1, <3>2
  <2>2. ASSUME NEW g \in Waiting(s)', NEW k \in Waiting(s)'
        PROVE  /\ k.m.n = g.m.n => k = g
               /\ g.m.n < k.m.n => /\ g.rt <= k.rt /\ g.m.text <= k.m.text
                                   /\ g.m.isFinal => g.m.text < k.m.text
    <3>1. CASE g \in Waiting(s) /\ k \in Waiting(s)
      BY <1>1, <3>1 DEF SpeakerOK, InOrder
    <3>2. CASE g = h /\ k \in Waiting(s)
      BY <1>1, <1>2, <1>4, <3>2
    <3>3. CASE k = h /\ g \in Waiting(s)
      BY <1>1, <1>2, <1>4, <3>3
    <3>4. CASE g = h /\ k = h
      BY <1>1, <1>2, <3>4
    <3> QED
      BY <3>1, <3>2, <3>3, <3>4
  <2> QED
    BY <2>1, <2>2 DEF InOrder
<1>6. ASSUME Steady(s) PROVE FinalsPast(s)' /\ SegmentsAhead(s)'
  <2>1. FinalsPast(s) /\ SegmentsAhead(s)
    BY <1>1, <1>6 DEF SpeakerOK
  <2>2. FinalsPast(s)'
    BY <1>1, <1>2, <1>3, <2>1, FinalNumbers DEF FinalsPast
  <2>3. Usable(s)' = Usable(s) /\ Usable(s) \subseteq 1..made
    <3>1. Usable(s)' = Usable(s)
      BY <1>1, <1>2 DEF Usable
    <3> QED
      BY <1>1, <3>1, UsableMade
  <2>4. \A q \in 1..made : /\ Open(q, s)' <=> Open(q, s)
                           /\ Utterance(q, s)' = Utterance(q, s)
    BY DEF Open, Utterance
  <2>5. ASSUME NEW q \in Usable(s)', Open(q, s)'
        PROVE  /\ Utterance(q, s)' <= speech'[s].over + 1
               /\ \A f \in FinalsOf(s)' : f.id.utterance < Utterance(q, s)'
               /\ \A g \in Waiting(s)' : Utterance(q, s)' <= g.m.text
    <3>1. q \in 1..made /\ q \in Usable(s) /\ Open(q, s) /\ Utterance(q, s)' = Utterance(q, s)
      BY <2>3, <2>4, <2>5
    <3>2. /\ Utterance(q, s) <= speech[s].over + 1 /\ Utterance(q, s) \in Nat
          /\ \A f \in FinalsOf(s) : f.id.utterance < Utterance(q, s)
          /\ \A g \in Waiting(s) : Utterance(q, s) <= g.m.text
      BY <1>1, <2>1, <3>1, SegmentFormed DEF SegmentsAhead
    <3> QED
      BY <1>1, <1>2, <1>3, <3>1, <3>2
  <2>6. \A g \in Waiting(s)' : \A q \in 1..made : g.rt < q => ~Open(q, s)'
    BY <1>1, <1>2, <2>1, <2>4 DEF SegmentsAhead
  <2> QED
    BY <2>2, <2>5, <2>6 DEF SegmentsAhead
<1>7. ASSUME Whole(s) PROVE HereOnly(s)'
  <2>1. HereOnly(s)
    BY <1>1, <1>7 DEF SpeakerOK
  <2>2. ASSUME NEW u, Pending(s, u) PROVE Pending(s, u)'
    BY <1>2, <1>3, <2>2 DEF Pending
  <2>3. Pending(s, m.text)'
    BY <1>2, <1>3 DEF Pending
  <2>4. ASSUME NEW q \in 1..made, Open(q, s)'
        PROVE  q = runtime /\ Pending(s, Utterance(q, s))'
    <3>1. PICK u : u = Utterance(q, s)
      OBVIOUS
    <3>2. q = runtime /\ Pending(s, u)
      BY <2>1, <2>4, <3>1 DEF HereOnly, Open
    <3>3. Pending(s, u)' /\ Utterance(q, s)' = u
      BY <2>2, <3>1, <3>2 DEF Utterance
    <3> QED
      BY <3>2, <3>3 DEF Pending
  <2> QED
    BY <1>1, <1>2, <2>1, <2>2, <2>3, <2>4 DEF HereOnly
<1> QED
  BY <1>5, <1>6, <1>7 DEF SpeakerOK, Steady, Whole

LEMMA ArriveKeeps ==
    ASSUME LinesInv, NEW s \in Speaker, NEW isFinal \in BOOLEAN, NEW d \in Drift,
           Arrive(s, isFinal, d)
    PROVE  LinesInv'
<1>1. PICK m : m = Message(s, isFinal, d)
  OBVIOUS
<1>2. PICK r : r = runtime
  OBVIOUS
<1>3. /\ WellSent /\ StoredArrive /\ InterimsFollowed /\ made \in Nat /\ r \in 0..made
      /\ (r # 0 => r \in 1..made)
  BY <1>2 DEF LinesInv, WellSent
<1>4. Says(s, isFinal) /\ UNCHANGED <<runtime, made, socket, marked, log, lines>>
  BY DEF Arrive
<1>5. /\ m \in Sent /\ m.id.speaker = s /\ (m.isFinal <=> isFinal)
      /\ m.n = speech[s].sent + 1
  BY <1>1, <1>3, MessageFormed
<1>6. /\ \A t \in Speaker \ {s} : speech'[t] = speech[t]
      /\ speech'[s].sent = speech[s].sent + 1
      /\ speech'[s].over = IF isFinal THEN speech[s].over + 1 ELSE speech[s].over
      /\ speech' \in [Speaker -> [sent : Nat, partials : 0..MaxPartials, over : Nat]]
      /\ speech[s].sent \in Nat /\ speech[s].over \in Nat
  BY <1>3, <1>4, SpeechGrows, SpeechFormed
<1>7. ASSUME Waiting(s)' \subseteq Waiting(s) PROVE InOrder(s)'
  BY <1>3, <1>6, <1>7, OrderKept DEF LinesInv, SpeakerOK
<1>8. CASE runtime # 0 /\ runtime \notin marked
  <2> DEFINE k == [at |-> "flip", rt |-> r, m |-> m]
  <2>1. handlers' = handlers \cup {k} /\ UNCHANGED <<segments, net, overtaken, cut>>
    BY <1>1, <1>2, <1>8 DEF Arrive
  <2>2. PICK h : h = k
    OBVIOUS
  <2>3. /\ h.at = "flip" /\ h.m = m /\ HandlerFormed(h)
        /\ handlers' = handlers \cup {h}
    BY <1>2, <1>3, <1>5, <1>8, <2>1, <2>2 DEF HandlerFormed
  <2>4. Finals' = Finals /\ Waiting(s)' = Waiting(s) \cup {h}
        /\ \A t \in Speaker \ {s} : Waiting(t)' = Waiting(t)
    BY <1>4, <1>5, <2>3 DEF Finals, Waiting
  <2>5. TranscriptTypeOK'
    BY <1>3, <1>4, <1>6, <2>1, <2>3 DEF WellSent, TranscriptTypeOK, HandlerFormed, Sent
  <2>6. WellSent'
    BY <1>3, <1>4, <2>1, <2>4, <2>5 DEF WellSent
  <2>7. SpeakerOK(s)'
    BY <1>1, <1>2, <1>3, <1>4, <1>8, <2>1, <2>2, <2>4, WaitsInOrder DEF FinalsOf
  <2>8. ASSUME NEW t \in Speaker \ {s} PROVE SpeakerOK(t)'
    <3>1. Apart(t)
      BY <1>6, <2>1, <2>4 DEF Apart, FinalsOf, Open
    <3> QED
      BY <1>3, <1>4, <2>1, <3>1, ApartKeeps DEF LinesInv
  <2>9. StoredArrive' /\ InterimsFollowed'
    BY <1>3, <1>4, <2>1, <2>4
       DEF StoredArrive, InterimsFollowed, Followed, Settled, Steady, Whole, ToShow, Open
  <2> QED
    BY <2>6, <2>7, <2>8, <2>9 DEF LinesInv
<1>9. CASE runtime = 0 /\ ~isFinal
  <2>1. UNCHANGED <<segments, handlers, net, overtaken, cut>>
    BY <1>9 DEF Arrive
  <2>2. Finals' = Finals /\ \A t : Waiting(t)' = Waiting(t)
    BY <1>4, <2>1 DEF Finals, Waiting
  <2>3. WellSent'
    BY <1>3, <1>4, <1>6, <2>1, <2>2 DEF WellSent, TranscriptTypeOK
  <2>4. ASSUME NEW t \in Speaker \ {s} PROVE SpeakerOK(t)'
    <3>1. Apart(t)
      BY <1>6, <2>1, <2>2 DEF Apart, FinalsOf, Open
    <3> QED
      BY <1>3, <1>4, <2>1, <3>1, ApartKeeps DEF LinesInv
  <2>5. SpeakerOK(s)'
    BY <1>3, <1>4, <1>6, <1>7, <1>9, <2>1, <2>2, OverKept DEF LinesInv, FinalsOf
  <2>6. StoredArrive' /\ InterimsFollowed'
    BY <1>3, <1>4, <2>1, <2>2
       DEF StoredArrive, InterimsFollowed, Followed, Settled, Steady, Whole, ToShow, Open
  <2> QED
    BY <2>3, <2>4, <2>5, <2>6 DEF LinesInv
<1>10. CASE Resolve(Message(s, isFinal, d), runtime, handlers) /\ (runtime # 0 \/ isFinal)
  <2>1. Resolve(m, r, handlers) /\ Left(handlers) /\ (m.isFinal \/ r # 0)
    BY <1>1, <1>2, <1>5, <1>10 DEF Left
  <2>2. /\ \A t : WaitingIn(handlers, t) = Waiting(t) /\ Waiting(t)' = WaitingIn(handlers, t)
        /\ Steady(s)' => Steady(s) /\ \A h \in Waiting(s) : ~(h.m.n < m.n)
        /\ cut' = cut
    <3>1. \A t : WaitingIn(handlers, t) = Waiting(t)
      BY DEF Waiting, WaitingIn
    <3> QED
      BY <1>3, <1>4, <1>5, <2>1, <3>1, ResolveDoes
  <2>3. Steady(s)' => Waiting(s) = {}
    <3> SUFFICES ASSUME Steady(s)', NEW h \in Waiting(s) PROVE FALSE
      OBVIOUS
    <3>1. h.m.n \in Nat /\ h.m.n <= speech[s].sent
      BY <1>3, WaitingNumbers DEF LinesInv, SpeakerOK, InOrder
    <3> QED
      BY <1>5, <1>6, <2>2, <3>1
  <2>4. Steady(s)' => InTurn(m, r)
    BY <1>1, <1>2, <1>3, <1>4, <2>2, <2>3, ArrivesInTurn DEF LinesInv, SpeakerOK
  <2>5. Whole(s)' => InUtterance(m, r)
    BY <1>1, <1>2, <1>3, <1>4, <2>2, <2>3, ArrivesInUtterance DEF LinesInv, SpeakerOK, Whole, Steady
  <2>6. InOrder(s)'
    BY <1>7, <2>2
  <2>7. socket' \in BOOLEAN /\ marked' \subseteq 1..made
    BY <1>3, <1>4 DEF WellSent, TranscriptTypeOK
  <2> QED
    BY <1>3, <1>4, <1>5, <1>6, <2>1, <2>2, <2>4, <2>5, <2>6, <2>7, ResolveKeeps
<1> QED
  BY <1>8, <1>9, <1>10 DEF Arrive

LEMMA FlipReturnsKeeps == ASSUME LinesInv, NEW h \in handlers, FlipReturns(h) PROVE LinesInv'
<1> DEFINE m == h.m
           r == h.rt
           s == h.m.id.speaker
           others == handlers \ {h}
<1>1. /\ WellSent /\ h.at = "flip" /\ Resolve(m, r, others) /\ marked' = marked \cup {r}
      /\ UNCHANGED <<runtime, made, budget, speech, socket, log, lines>>
  BY DEF LinesInv, FlipReturns
<1>2. r \in 1..made /\ m \in Sent /\ s \in Speaker /\ made \in Nat
  BY <1>1, FlipFormed, SentFields DEF WellSent
<1>3. h \in Waiting(s) /\ Left(others)
  BY <1>1 DEF Waiting, Left
<1>4. /\ \A t \in Speaker \ {s} : WaitingIn(others, t) = Waiting(t)
      /\ WaitingIn(others, s) = Waiting(s) \ {h}
  BY DEF Waiting, WaitingIn
<1>5. /\ Waiting(s)' = Waiting(s) \ {h} /\ cut' = cut
      /\ Steady(s)' => Steady(s) /\ \A g \in Waiting(s) \ {h} : ~(g.m.n < m.n)
  <2>1. r \in 0..made /\ r # 0
    BY <1>2
  <2> HIDE DEF others
  <2>2. /\ \A t : Waiting(t)' = WaitingIn(others, t)
        /\ cut' = cut
        /\ Steady(s)' => Steady(s) /\ \A g \in WaitingIn(others, s) : ~(g.m.n < m.n)
    BY <1>1, <1>2, <1>3, <2>1, ResolveDoes
  <2> QED
    BY <1>4, <2>2
<1>6. SpeakerOK(s)
  BY <1>2 DEF LinesInv
<1>7. Steady(s)' => First(s, h) /\ FinalsPast(s) /\ SegmentsAhead(s)
  BY <1>1, <1>2, <1>3, <1>5, <1>6, NothingPassed DEF SpeakerOK
<1>8. Steady(s)' => InTurn(m, r)
  BY <1>1, <1>2, <1>3, <1>5, <1>6, <1>7, ReturnsInTurn DEF SpeakerOK
<1>9. Whole(s)' => InUtterance(m, r)
  <2>1. Whole(s)' => Steady(s)' /\ Whole(s)
    BY <1>5, <1>7 DEF Whole, Steady
  <2> QED
    BY <1>1, <1>2, <1>3, <1>5, <1>6, <1>7, <2>1, ReturnsInUtterance DEF SpeakerOK
<1>10. InOrder(s)'
  <2>1. speech[s].sent \in Nat /\ speech[s].over \in Nat
    BY <1>1, <1>2, SpeechFormed
  <2> QED
    BY <1>1, <1>2, <1>5, <1>6, <2>1, OrderKept DEF SpeakerOK
<1>11. /\ socket' \in BOOLEAN /\ marked' \subseteq 1..made
       /\ speech' \in [Speaker -> [sent : Nat, partials : 0..MaxPartials, over : Nat]]
  BY <1>1, <1>2 DEF WellSent, TranscriptTypeOK
<1>12. r \in 0..made /\ r # 0
  BY <1>2
<1> HIDE DEF others
<1> QED
  BY <1>1, <1>2, <1>3, <1>4, <1>8, <1>9, <1>10, <1>11, <1>12, ResolveKeeps

-----------------------------------------------------------------------------
(***************************************************************************)
(* The steps that resolve no message.                                      *)
(***************************************************************************)
\* What is left as it was by every step below that is not the page's.
LEMMA PageUntouched ==
    ASSUME LinesInv, UNCHANGED <<made, segments, log, net, lines>>, Finals' \subseteq Finals,
           overtaken \subseteq overtaken', cut \subseteq cut',
           \A f \in Finals : Whole(f.id.speaker)' => f \in Finals'
    PROVE  StoredArrive' /\ InterimsFollowed'
<1>1. StoredArrive /\ InterimsFollowed
  BY DEF LinesInv
<1>2. StoredArrive'
  BY <1>1 DEF StoredArrive, Settled, Steady
<1>3. ASSUME NEW l \in ToShow', Whole(l.id.speaker)', ~l.isFinal PROVE Followed(l)'
  <2>1. Followed(l)
    BY <1>1, <1>3 DEF InterimsFollowed, ToShow, Whole
  <2> QED
    BY <1>3, <2>1 DEF Followed, Open
<1> QED
  BY <1>2, <1>3 DEF InterimsFollowed

LEMMA StoreKeeps ==
    ASSUME LinesInv, NEW h \in handlers, Store(h)
    PROVE  LinesInv'
<1>1. /\ h.at = "store" /\ handlers' = handlers \ {h}
      /\ log' = log \cup {h.line} /\ net' = net \cup {h.line}
      /\ UNCHANGED <<runtime, made, speech, socket, marked, segments, lines, overtaken, cut>>
  BY DEF Store
<1>2. WellSent /\ h.line \in LineSet /\ StoredArrive /\ InterimsFollowed
  BY <1>1, StoreFormed DEF LinesInv
<1>3. Finals' = Finals /\ h.line \in Finals /\ \A t : Waiting(t)' = Waiting(t)
  BY <1>1 DEF Finals, Waiting
<1>4. h.line.isFinal
  BY <1>2, <1>3 DEF WellSent
<1>5. TranscriptTypeOK'
  BY <1>1, <1>2 DEF WellSent, TranscriptTypeOK
<1>6. WellSent'
  BY <1>1, <1>2, <1>3, <1>5 DEF WellSent
<1>7. ASSUME NEW t \in Speaker PROVE SpeakerOK(t)'
  <2>1. Apart(t)
    BY <1>1, <1>3 DEF Apart, FinalsOf, Open
  <2> QED
    BY <1>1, <1>2, <2>1, ApartKeeps DEF LinesInv
<1>8. StoredArrive'
  BY <1>1, <1>2 DEF StoredArrive, Settled, Steady
<1>9. InterimsFollowed'
  BY <1>1, <1>2, <1>3, <1>4 DEF InterimsFollowed, Followed, ToShow, Whole, Open
<1> QED
  BY <1>6, <1>7, <1>8, <1>9 DEF LinesInv

LEMMA StoreFailsKeeps ==
    ASSUME LinesInv, NEW h \in handlers, StoreFails(h)
    PROVE  LinesInv'
<1>1. /\ h.at = "store" /\ handlers' = handlers \ {h} /\ cut' = cut \cup {h.line.id.speaker}
      /\ UNCHANGED <<runtime, made, speech, socket, marked, segments, log, net, lines, overtaken>>
  BY DEF StoreFails
<1>2. WellSent /\ h.line.id.speaker \in Speaker
  <2>1. WellSent
    BY DEF LinesInv
  <2> QED
    BY <1>1, <2>1, StoreFormed, LineFields
<1>3. /\ Finals' \subseteq Finals /\ \A t : Waiting(t)' = Waiting(t)
      /\ \A f \in Finals : f = h.line \/ f \in Finals'
  BY <1>1 DEF Finals, Waiting
<1>4. TranscriptTypeOK'
  BY <1>1, <1>2 DEF WellSent, TranscriptTypeOK
<1>5. WellSent'
  BY <1>1, <1>2, <1>3, <1>4 DEF WellSent
<1>6. ASSUME NEW t \in Speaker PROVE SpeakerOK(t)'
  <2>1. Apart(t)
    BY <1>1, <1>3 DEF Apart, FinalsOf, Open
  <2> QED
    BY <1>1, <1>2, <2>1, ApartKeeps DEF LinesInv
<1>7. StoredArrive' /\ InterimsFollowed'
  BY <1>1, <1>3, PageUntouched DEF Whole
<1> QED
  BY <1>5, <1>6, <1>7 DEF LinesInv

\* What is said while the socket is down only counts.
LEMMA UnheardKeeps ==
    ASSUME LinesInv, NEW s \in Speaker, NEW isFinal \in BOOLEAN, Unheard(s, isFinal)
    PROVE  LinesInv'
<1>1. /\ Says(s, isFinal) /\ cut' = cut \cup {s}
      /\ UNCHANGED <<runtime, made, socket, marked, segments, handlers, log, net, lines, overtaken>>
  BY DEF Unheard
<1>2. WellSent
  BY DEF LinesInv
<1>3. /\ \A t \in Speaker \ {s} : speech'[t] = speech[t]
      /\ speech'[s].sent = speech[s].sent + 1
      /\ speech'[s].over = IF isFinal THEN speech[s].over + 1 ELSE speech[s].over
      /\ speech' \in [Speaker -> [sent : Nat, partials : 0..MaxPartials, over : Nat]]
      /\ speech[s].sent \in Nat /\ speech[s].over \in Nat
  BY <1>1, <1>2, SpeechGrows, SpeechFormed
<1>4. Finals' = Finals /\ \A t : Waiting(t)' = Waiting(t)
  BY <1>1 DEF Finals, Waiting
<1>5. WellSent'
  BY <1>1, <1>2, <1>3, <1>4 DEF WellSent, TranscriptTypeOK
<1>6. ASSUME NEW t \in Speaker \ {s} PROVE SpeakerOK(t)'
  <2>1. Apart(t)
    BY <1>1, <1>3, <1>4 DEF Apart, FinalsOf, Open
  <2> QED
    BY <1>1, <1>2, <2>1, ApartKeeps DEF LinesInv
<1>7. SpeakerOK(s)'
  <2>1. SpeakerOK(s)
    BY DEF LinesInv
  <2>2. InOrder(s)'
    BY <1>2, <1>3, <1>4, <2>1, OrderKept DEF SpeakerOK
  <2>3. FinalsPast(s) => FinalsPast(s)'
    BY <1>2, <1>3, <1>4, FinalNumbers DEF FinalsPast, FinalsOf
  <2>4. SegmentsAhead(s) => SegmentsAhead(s)'
    <3> SUFFICES ASSUME SegmentsAhead(s) PROVE SegmentsAhead(s)'
      OBVIOUS
    <3>1. Usable(s)' = Usable(s) /\ Usable(s) \subseteq 1..made
      BY <1>1, <1>2, <1>4, UsableMade DEF Usable
    <3>2. ASSUME NEW q \in Usable(s), Open(q, s)
          PROVE  Utterance(q, s) <= speech'[s].over + 1
      <4>1. Utterance(q, s) \in Nat /\ Utterance(q, s) <= speech[s].over + 1
        BY <1>2, <3>1, <3>2, SegmentFormed DEF SegmentsAhead
      <4> QED
        BY <1>3, <4>1
    <3> QED
      BY <1>1, <1>4, <3>1, <3>2 DEF SegmentsAhead, FinalsOf, Utterance, Open
  <2>5. ~Whole(s)' /\ (Steady(s)' => Steady(s))
    BY <1>1 DEF Whole, Steady
  <2> QED
    BY <2>1, <2>2, <2>3, <2>4, <2>5 DEF SpeakerOK
<1>8. StoredArrive' /\ InterimsFollowed'
  BY <1>1, <1>4, PageUntouched
<1> QED
  BY <1>5, <1>6, <1>7, <1>8 DEF LinesInv

\* The socket aside, the transcript is left as it was.
LEMMA StillKeeps ==
    ASSUME LinesInv, socket' \in BOOLEAN,
           UNCHANGED <<runtime, made, speech, marked, segments, handlers, log, net, lines,
                       overtaken, cut>>
    PROVE  LinesInv'
<1>1. WellSent
  BY DEF LinesInv
<1>2. Finals' = Finals /\ \A t : Waiting(t)' = Waiting(t)
  BY DEF Finals, Waiting
<1>3. WellSent'
  BY <1>1, <1>2 DEF WellSent, TranscriptTypeOK
<1>4. ASSUME NEW t \in Speaker PROVE SpeakerOK(t)'
  <2>1. Apart(t)
    BY <1>2 DEF Apart, FinalsOf, Open
  <2> QED
    BY <1>1, <2>1, ApartKeeps DEF LinesInv
<1>5. StoredArrive' /\ InterimsFollowed'
  BY <1>2, PageUntouched
<1> QED
  BY <1>3, <1>4, <1>5 DEF LinesInv

\* The page changes nothing of what is resolved.
LEMMA SpeakersKept ==
    ASSUME LinesInv, UNCHANGED <<runtime, made, speech, segments, handlers, log, overtaken, cut>>
    PROVE  \A t \in Speaker : SpeakerOK(t)'
<1> SUFFICES ASSUME NEW t \in Speaker PROVE SpeakerOK(t)'
  OBVIOUS
<1>1. Apart(t)
  BY DEF Apart, FinalsOf, Finals, Waiting, Open
<1> QED
  BY <1>1, ApartKeeps DEF LinesInv

LEMMA ShowKeeps == ASSUME LinesInv, NEW l \in net, Show(l) PROVE LinesInv'
<1>1. /\ net' = net \ {l}
      /\ lines' = IF l.id \in DOMAIN lines /\ Superseded(lines[l.id], l) THEN lines
                  ELSE Put(lines, l.id, l)
      /\ UNCHANGED <<runtime, made, speech, socket, marked, segments, handlers, log,
                     overtaken, cut>>
  BY DEF Show
<1>2. WellSent /\ StoredArrive /\ InterimsFollowed /\ l \in LineSet /\ (l.isFinal => l \in log)
  BY DEF LinesInv, WellSent, TranscriptTypeOK
<1>3. l.id \in Id /\ l.isFinal \in BOOLEAN /\ l.id.speaker \in Speaker
  BY <1>2, LineFields
<1>4. \/ lines' = lines /\ l.id \in DOMAIN lines /\ Superseded(lines[l.id], l)
      \/ /\ DOMAIN lines' = DOMAIN lines \cup {l.id} /\ lines'[l.id] = l
         /\ \A i \in DOMAIN lines \ {l.id} : lines'[i] = lines[i]
         /\ l.id \in DOMAIN lines => ~Superseded(lines[l.id], l)
  BY <1>1 DEF Put
<1>5. Finals' = Finals
  BY <1>1 DEF Finals
<1>6. /\ \A i \in DOMAIN lines : /\ lines[i] \in LineSet /\ lines[i].id = i
                                 /\ lines[i].isFinal => lines[i] \in log
      /\ DOMAIN lines \subseteq Id
  BY <1>2 DEF WellSent, TranscriptTypeOK
<1>7. /\ \A i \in DOMAIN lines' : /\ lines'[i] \in LineSet /\ lines'[i].id = i
                                  /\ lines'[i].isFinal => lines'[i] \in log
      /\ DOMAIN lines' \subseteq Id
  BY <1>2, <1>3, <1>4, <1>6
<1>8. WellSent'
  <2>1. TranscriptTypeOK'
    BY <1>1, <1>2, <1>7 DEF WellSent, TranscriptTypeOK
  <2> QED
    BY <1>1, <1>2, <1>5, <1>7, <2>1 DEF WellSent
<1>9. ToShow' \subseteq ToShow
  BY <1>1, <1>4 DEF ToShow
<1>10. InterimsFollowed'
  BY <1>1, <1>2, <1>5, <1>9 DEF InterimsFollowed, Followed, Whole, Open
<1>11. StoredArrive'
  <2> SUFFICES ASSUME NEW a \in log, Steady(a.id.speaker), a \notin net' PROVE Settled(a)'
    BY <1>1 DEF StoredArrive, Steady
  <2>1. a.isFinal /\ a \in LineSet /\ a \in Finals
    BY <1>2 DEF WellSent, TranscriptTypeOK, Finals
  <2>2. a.id.speaker \in Speaker /\ FinalsPast(a.id.speaker)
    BY <2>1, LineFields DEF LinesInv, SpeakerOK
  <2>3. \A b \in log : b.id = a.id => b.text = a.text
    <3> DEFINE s == a.id.speaker
    <3>1. \A b \in log : b.id = a.id => b \in FinalsOf(s)
      BY DEF FinalsOf, Finals
    <3>2. a \in FinalsOf(s)
      BY <2>1 DEF FinalsOf
    <3> QED
      BY <2>2, <3>1, <3>2 DEF FinalsPast
  <2>4. CASE a = l
    <3>1. CASE lines' = lines /\ l.id \in DOMAIN lines /\ Superseded(lines[l.id], l)
      <4>1. lines[l.id].isFinal /\ lines[l.id].id = l.id
        BY <1>6, <2>1, <2>4, <3>1 DEF Superseded
      <4>2. lines[l.id].text = a.text
        BY <1>6, <2>3, <2>4, <3>1, <4>1
      <4> QED
        BY <2>4, <3>1, <4>1, <4>2 DEF Settled
    <3>2. CASE l.id \in DOMAIN lines' /\ lines'[l.id] = l
      BY <2>1, <2>4, <3>2 DEF Settled
    <3> QED
      BY <1>4, <3>1, <3>2
  <2>5. CASE a # l
    <3>1. a.id \in DOMAIN lines /\ lines[a.id].isFinal /\ lines[a.id].text = a.text
      BY <1>1, <1>2, <2>5 DEF StoredArrive, Settled
    <3>2. CASE lines' = lines
      BY <3>1, <3>2 DEF Settled
    <3>3. CASE /\ DOMAIN lines' = DOMAIN lines \cup {l.id} /\ lines'[l.id] = l
               /\ \A i \in DOMAIN lines \ {l.id} : lines'[i] = lines[i]
               /\ l.id \in DOMAIN lines => ~Superseded(lines[l.id], l)
      <4>1. CASE l.id # a.id
        BY <3>1, <3>3, <4>1 DEF Settled
      <4>2. CASE l.id = a.id
        <5>1. l.isFinal
          BY <1>3, <3>1, <3>3, <4>2 DEF Superseded
        <5>2. l.text = a.text
          BY <1>2, <2>3, <4>2, <5>1
        <5> QED
          BY <3>1, <3>3, <4>2, <5>1, <5>2 DEF Settled
      <4> QED
        BY <4>1, <4>2
    <3> QED
      BY <1>4, <3>2, <3>3
  <2> QED
    BY <2>4, <2>5
<1> QED
  BY <1>1, <1>8, <1>10, <1>11, SpeakersKept DEF LinesInv

LEMMA LoseKeeps == ASSUME LinesInv, NEW l \in net, Lose(l) PROVE LinesInv'
<1>1. /\ ~l.isFinal /\ net' = net \ {l}
      /\ UNCHANGED <<runtime, made, speech, socket, marked, segments, handlers, log, lines,
                     overtaken, cut>>
  BY DEF Lose
<1>2. WellSent /\ StoredArrive /\ InterimsFollowed
  BY DEF LinesInv
<1>3. Finals' = Finals
  BY <1>1 DEF Finals
<1>4. TranscriptTypeOK'
  BY <1>1, <1>2 DEF WellSent, TranscriptTypeOK
<1>5. WellSent'
  BY <1>1, <1>2, <1>3, <1>4 DEF WellSent
<1>6. StoredArrive'
  <2>1. \A a \in log : a.isFinal
    BY <1>2 DEF WellSent, Finals
  <2> QED
    BY <1>1, <1>2, <2>1 DEF StoredArrive, Settled, Steady
<1>7. InterimsFollowed'
  BY <1>1, <1>2, <1>3 DEF InterimsFollowed, Followed, ToShow, Whole, Open
<1> QED
  BY <1>1, <1>5, <1>6, <1>7, SpeakersKept DEF LinesInv

\* A new runtime has no open segments; whoever was whole has none open elsewhere.
LEMMA ConnectsLines == ASSUME LinesInv, Connects PROVE LinesInv'
<1>1. /\ Connect /\ WellSent /\ StoredArrive /\ InterimsFollowed
      /\ made \in Nat /\ runtime \in {0, made}
      /\ DOMAIN segments = 1..made /\ segments = [q \in 1..made |-> segments[q]]
  BY DEF Connects, LinesInv, WellSent, TranscriptTypeOK
<1>2. CASE runtime # 0
  <2>1. /\ socket' = TRUE
        /\ UNCHANGED <<runtime, made, speech, marked, segments, handlers, log, net, lines,
                       overtaken, cut>>
    BY <1>1, <1>2 DEF Connect, Register
  <2> QED
    BY <2>1, StillKeeps
<1>3. CASE runtime = 0
  <2>1. /\ socket' = TRUE /\ made' = made + 1 /\ runtime' = made + 1
        /\ segments' = Append(segments, <<>>)
        /\ UNCHANGED <<speech, marked, handlers, log, net, lines, overtaken, cut>>
    BY <1>1, <1>3 DEF Connect, Register
  <2>2. /\ segments' = [q \in 1..(made + 1) |-> segments'[q]]
        /\ segments'[made + 1] = <<>> /\ \A q \in 1..made : segments'[q] = segments[q]
    <3> DEFINE V == {segments[q] : q \in 1..made} \cup {<<>>}
    <3>1. segments \in [1..made -> V]
      BY <1>1
    <3>2. <<>> \in V
      OBVIOUS
    <3> HIDE DEF V
    <3>3. segments \in Seq(V) /\ Len(segments) = made
      BY <1>1, <3>1
    <3> QED
      BY <1>1, <2>1, <3>2, <3>3
  <2>3. DOMAIN segments' = 1..made' /\ segments' = [q \in 1..made' |-> segments'[q]]
    BY <2>1, <2>2
  <2>4. \A q \in 1..made' : q \in 1..made \/ (q = made + 1 /\ DOMAIN segments'[q] = {})
    BY <1>1, <2>1, <2>2
  <2>5. \A q \in 1..made : q \in 1..made' /\ q # made + 1
    BY <1>1, <2>1
  <2>6. Finals' = Finals /\ \A t : Waiting(t)' = Waiting(t)
    BY <2>1 DEF Finals, Waiting
  <2>7. \A q \in 1..made' : \A t : Open(q, t)' =>
           q \in 1..made /\ Open(q, t) /\ segments'[q] = segments[q]
    BY <2>2, <2>4 DEF Open
  <2>8. WellSent'
    <3>1. TranscriptTypeOK'
      <4>1. marked' \subseteq 1..made'
        BY <1>1, <2>1, <2>5 DEF WellSent, TranscriptTypeOK
      <4>2. \A q \in 1..made' :
               /\ DOMAIN segments'[q] \subseteq Speaker
               /\ \A t \in DOMAIN segments'[q] : segments'[q][t] \in [id : Id, rev : Nat]
        BY <1>1, <2>2, <2>4 DEF WellSent, TranscriptTypeOK
      <4>3. \A h \in handlers' :
               \/ h \in [at : {"flip"}, rt : 1..made',
                         m : [n : Nat, isFinal : BOOLEAN, text : Nat, id : Id]]
               \/ h \in [at : {"store"}, rt : 0..made', line : LineSet]
        <5>1. 1..made \subseteq 1..made' /\ 0..made \subseteq 0..made'
          BY <1>1, <2>1
        <5>2. \A h \in handlers : HandlerFormed(h)
          BY <1>1, HandlersFormed
        <5> QED
          BY <2>1, <5>1, <5>2 DEF HandlerFormed, Sent
      <4> QED
        BY <1>1, <2>1, <2>3, <4>1, <4>2, <4>3 DEF WellSent, TranscriptTypeOK
    <3>2. made' \in Nat /\ runtime' \in {0, made'}
      BY <1>1, <2>1
    <3>3. \A q \in 1..made' : \A t \in DOMAIN segments'[q] : segments'[q][t].id.speaker = t
      BY <1>1, <2>2, <2>4 DEF WellSent
    <3> QED
      BY <1>1, <2>1, <2>3, <2>6, <3>1, <3>2, <3>3 DEF WellSent
  <2>9. ASSUME NEW t \in Speaker PROVE SpeakerOK(t)'
    <3>1. SpeakerOK(t) /\ FinalsOf(t)' = FinalsOf(t) /\ Waiting(t)' = Waiting(t)
      BY <2>6 DEF LinesInv, FinalsOf
    <3>2. InOrder(t)'
      BY <2>1, <3>1 DEF SpeakerOK, InOrder
    <3>3. FinalsPast(t) => FinalsPast(t)'
      BY <2>1, <3>1 DEF FinalsPast
    <3>4. SegmentsAhead(t) => SegmentsAhead(t)'
      <4>0. PICK n : n = made + 1
        OBVIOUS
      <4>1. Usable(t)' \subseteq Usable(t) \cup {n} /\ Usable(t) \subseteq 1..made
        BY <1>1, <2>1, <3>1, <4>0, UsableMade DEF Usable
      <4>2. ~Open(n, t)'
        BY <2>2, <4>0 DEF Open
      <4>3. \A q \in 1..made : Utterance(q, t)' = Utterance(q, t)
        BY <2>2 DEF Utterance
      <4>4. \A q \in Usable(t)' : Open(q, t)' =>
               q \in Usable(t) /\ Open(q, t) /\ Utterance(q, t)' = Utterance(q, t)
        <5>1. \A q \in Usable(t)' : Open(q, t)' => q \in Usable(t) /\ q \in 1..made
          BY <4>1, <4>2
        <5> QED
          BY <2>2, <4>3, <5>1 DEF Open
      <4>5. SegmentsAhead(t) =>
               \A h \in Waiting(t)' : \A q \in 1..made' : h.rt < q => ~Open(q, t)'
        BY <2>7, <3>1 DEF SegmentsAhead
      <4> QED
        BY <2>1, <3>1, <4>4, <4>5 DEF SegmentsAhead
    <3>5. HereOnly(t) => HereOnly(t)'
      <4> SUFFICES ASSUME HereOnly(t) PROVE HereOnly(t)'
        OBVIOUS
      <4>1. Waiting(t) = {}
        BY <1>1, <1>3, WaitingNumbers DEF HereOnly
      <4>2. \A q \in 1..made : ~Open(q, t)
        BY <1>3 DEF HereOnly
      <4> QED
        BY <2>7, <3>1, <4>1, <4>2 DEF HereOnly
    <3> QED
      BY <2>1, <3>1, <3>2, <3>3, <3>4, <3>5 DEF SpeakerOK, Steady, Whole
  <2>10. StoredArrive'
    BY <1>1, <2>1 DEF StoredArrive, Settled, Steady
  <2>11. InterimsFollowed'
    <3> SUFFICES ASSUME NEW l \in ToShow, Whole(l.id.speaker), Followed(l) PROVE Followed(l)'
      BY <1>1, <2>1 DEF InterimsFollowed, ToShow, Whole
    <3>1. CASE \E f \in Finals : f.id = l.id
      BY <2>6, <3>1 DEF Followed
    <3>2. CASE \E q \in 1..made : Open(q, l.id.speaker) /\ segments[q][l.id.speaker].id = l.id
      BY <2>2, <2>5, <3>2 DEF Followed, Open
    <3> QED
      BY <3>1, <3>2 DEF Followed
  <2> QED
    BY <2>8, <2>9, <2>10, <2>11 DEF LinesInv
<1> QED
  BY <1>2, <1>3

\* An end or a restart cuts every speaker it finds in the middle of an utterance.
LEMMA EndsKeepLines ==
    ASSUME LinesInv, runtime' = 0, cut' = cut \cup MidUtterance, socket' \in BOOLEAN,
           handlers' = handlers \/ handlers' = {},
           UNCHANGED <<made, speech, marked, segments, log, net, lines, overtaken>>
    PROVE  LinesInv'
<1>1. WellSent /\ made \in Nat /\ runtime \in {0, made}
  BY DEF LinesInv, WellSent
<1>2. /\ Finals' \subseteq Finals /\ \A t : Waiting(t)' \subseteq Waiting(t)
      /\ \A f \in Finals : f \in log \/ f.id.speaker \in MidUtterance
      /\ log \subseteq Finals'
  BY DEF Finals, Waiting, MidUtterance
<1>3. MidUtterance \subseteq Speaker
  <2>1. \A h \in handlers : h.at = "flip" => h.m.id.speaker \in Speaker
    BY <1>1, FlipFormed, SentFields
  <2>2. \A h \in handlers : h.at = "store" => h.line.id.speaker \in Speaker
    BY <1>1, StoreFormed, LineFields
  <2>3. runtime # 0 => DOMAIN segments[runtime] \subseteq Speaker
    BY <1>1 DEF WellSent, TranscriptTypeOK
  <2> QED
    BY <2>1, <2>2, <2>3 DEF MidUtterance
<1>4. TranscriptTypeOK'
  BY <1>1, <1>3 DEF WellSent, TranscriptTypeOK
<1>5. WellSent'
  BY <1>1, <1>2, <1>4 DEF WellSent
<1>6. ASSUME NEW t \in Speaker PROVE SpeakerOK(t)'
  <2>1. SpeakerOK(t) /\ FinalsOf(t)' \subseteq FinalsOf(t) /\ Waiting(t)' \subseteq Waiting(t)
    BY <1>2 DEF LinesInv, FinalsOf
  <2>2. Usable(t)' \subseteq Usable(t)
    BY <2>1 DEF Usable
  <2>3. InOrder(t)'
    BY <2>1 DEF SpeakerOK, InOrder
  <2>4. FinalsPast(t) => FinalsPast(t)'
    BY <2>1 DEF FinalsPast
  <2>5. SegmentsAhead(t) => SegmentsAhead(t)'
    BY <2>1, <2>2 DEF SegmentsAhead, Utterance, Open
  <2>6. Whole(t)' => HereOnly(t)'
    <3> SUFFICES ASSUME Whole(t)' PROVE HereOnly(t)'
      OBVIOUS
    <3>1. Whole(t) /\ t \notin MidUtterance /\ HereOnly(t)
      BY <2>1 DEF Whole, SpeakerOK
    <3>2. Waiting(t)' = {}
      BY <2>1, <3>1 DEF Waiting, MidUtterance
    <3>3. \A q \in 1..made : ~Open(q, t)
      <4> SUFFICES ASSUME NEW q \in 1..made, Open(q, t) PROVE FALSE
        OBVIOUS
      <4>1. q = runtime /\ runtime # 0
        BY <1>1, <3>1 DEF HereOnly
      <4> QED
        BY <3>1, <4>1 DEF MidUtterance, Open
    <3> QED
      BY <3>2, <3>3 DEF HereOnly, Open
  <2> QED
    BY <2>1, <2>3, <2>4, <2>5, <2>6 DEF SpeakerOK, Steady
<1>7. StoredArrive' /\ InterimsFollowed'
  <2>1. \A f \in Finals : Whole(f.id.speaker)' => f \in Finals'
    BY <1>2 DEF Whole
  <2> QED
    BY <1>2, <2>1, PageUntouched
<1> QED
  BY <1>5, <1>6, <1>7 DEF LinesInv

-----------------------------------------------------------------------------
(***************************************************************************)
(* The lines settle.                                                       *)
(***************************************************************************)
LEMMA LinesInit == Init => LinesInv
<1> SUFFICES ASSUME Init PROVE LinesInv
  OBVIOUS
<1>1. /\ runtime = 0 /\ made = 0
      /\ speech = [s \in Speaker |-> [sent |-> 0, partials |-> 0, over |-> 0]]
      /\ socket = FALSE /\ marked = {} /\ segments = <<>> /\ handlers = {} /\ log = {}
      /\ net = {} /\ lines = <<>> /\ overtaken = {} /\ cut = {}
  BY DEF Init, RuntimeInit, TranscriptInit
<1>2. Finals = {} /\ \A s : Waiting(s) = {} /\ FinalsOf(s) = {} /\ Usable(s) = {}
  BY <1>1 DEF Finals, FinalsOf, Waiting, Usable
<1>3. DOMAIN segments = {} /\ DOMAIN lines = {} /\ 1..made = {}
  BY <1>1
<1>4. speech \in [Speaker -> [sent : Nat, partials : 0..MaxPartials, over : Nat]]
  BY <1>1, TranscriptAssumption
<1>5. TranscriptTypeOK
  BY <1>1, <1>3, <1>4 DEF TranscriptTypeOK
<1>6. segments = [r \in 1..made |-> segments[r]]
  BY <1>1, <1>3
<1>7. WellSent
  BY <1>1, <1>2, <1>3, <1>5, <1>6 DEF WellSent
<1>8. \A s \in Speaker : SpeakerOK(s)
  BY <1>2, <1>3 DEF SpeakerOK, InOrder, FinalsPast, SegmentsAhead, HereOnly
<1>9. StoredArrive /\ InterimsFollowed
  BY <1>1, <1>3 DEF StoredArrive, InterimsFollowed, ToShow
<1> QED
  BY <1>7, <1>8, <1>9 DEF LinesInv

LEMMA LinesStep == ASSUME LinesInv, [Next]_vars PROVE LinesInv'
<1>1. socket \in BOOLEAN
  BY DEF LinesInv, WellSent, TranscriptTypeOK
<1>2. ASSUME TranscriptNext PROVE LinesInv'
  <2>1. ASSUME NEW s \in Speaker, NEW isFinal \in BOOLEAN,
               Unheard(s, isFinal) \/ \E d \in Drift : Arrive(s, isFinal, d)
        PROVE  LinesInv'
    BY <2>1, UnheardKeeps, ArriveKeeps
  <2>2. ASSUME NEW h \in handlers, FlipReturns(h) PROVE LinesInv'
    BY <2>2, FlipReturnsKeeps
  <2>3. ASSUME NEW l \in net, Show(l) \/ Lose(l) PROVE LinesInv'
    BY <2>3, ShowKeeps, LoseKeeps
  <2>4. ASSUME Disconnect PROVE LinesInv'
    <3>1. /\ socket' = FALSE
          /\ UNCHANGED <<runtime, made, speech, marked, segments, handlers, log, net, lines,
                         overtaken, cut>>
      BY <2>4 DEF Disconnect
    <3> QED
      BY <3>1, StillKeeps
  <2> QED
    BY <1>2, <2>1, <2>2, <2>3, <2>4 DEF TranscriptNext
<1>3. ASSUME CardsNext, UNCHANGED transcriptVars PROVE LinesInv'
  <2>1. UNCHANGED <<runtime, made>>
    <3>1. ASSUME NEW p \in Run, NEW d \in Doc, InsertCard(p, d) \/ InsertFails(p, d)
          PROVE  UNCHANGED <<runtime, made>>
      BY <3>1 DEF InsertCard, InsertFails
    <3>2. ASSUME NEW p \in Run,
                 Announced(p) \/ Check(p) \/ CheckFails(p) \/ Retract(p) \/ Told(p)
          PROVE  UNCHANGED <<runtime, made>>
      BY <3>2 DEF Announced, Check, CheckFails, Retract, Told
    <3>3. ASSUME NEW a \in Actor, NEW c \in CardId, NEW what \in {"pin", "unpin", "dismiss"},
                 Lookup(a, c, what)
          PROVE  UNCHANGED <<runtime, made>>
      BY <3>3 DEF Lookup
    <3>4. ASSUME NEW a \in Actor, Pin(a) \/ Dismiss(a) PROVE UNCHANGED <<runtime, made>>
      BY <3>4 DEF Pin, Dismiss
    <3> QED
      BY <1>3, <3>1, <3>2, <3>3, <3>4 DEF CardsNext
  <2> QED
    BY <1>1, <1>3, <2>1, StillKeeps DEF transcriptVars
<1>4. ASSUME UNCHANGED vars PROVE LinesInv'
  BY <1>1, <1>4, StillKeeps DEF vars, runtimeVars, transcriptVars
<1>5. ASSUME NEW h \in handlers, HandleFinal(h) PROVE LinesInv'
  BY <1>5, StoreKeeps, StoreFailsKeeps DEF HandleFinal
<1>6. ASSUME End PROVE LinesInv'
  BY <1>1, <1>6, EndsKeepLines DEF End, Forget, EndTranscript
<1>7. ASSUME Restart PROVE LinesInv'
  BY <1>1, <1>7, EndsKeepLines DEF Restart, Forget, RestartTranscript
<1> QED
  BY <1>2, <1>3, <1>4, <1>5, <1>6, <1>7, ConnectsLines DEF Next

\* When nothing waits and nothing is under way, what was promised has arrived.
LEMMA LinesAreSettled == LinesInv => LinesSettle
<1> SUFFICES ASSUME LinesInv, handlers = {}, net = {}
             PROVE  /\ \A a \in log : a.id.speaker \notin overtaken =>
                          /\ a.id \in DOMAIN lines /\ lines[a.id].isFinal
                          /\ lines[a.id].text = a.text
                    /\ \A id \in DOMAIN lines :
                          \/ lines[id].isFinal \/ id.speaker \in cut \cup overtaken
                          \/ lines[id].text = speech[id.speaker].over + 1
  BY DEF LinesSettle, Quiet
<1>1. WellSent /\ StoredArrive /\ InterimsFollowed
  BY DEF LinesInv
<1>2. \A a \in log : Steady(a.id.speaker) => Settled(a)
  BY <1>1 DEF StoredArrive
<1>3. ASSUME NEW id \in DOMAIN lines, ~lines[id].isFinal, id.speaker \notin cut \cup overtaken
      PROVE  lines[id].text = speech[id.speaker].over + 1
  <2> DEFINE s == id.speaker
  <2>1. lines[id].id = id /\ id \in Id /\ s \in Speaker /\ Whole(s) /\ Steady(s)
    BY <1>1, <1>3, IdFields DEF WellSent, TranscriptTypeOK, Whole, Steady
  <2>2. lines[id].text = id.utterance /\ Followed(lines[id])
    BY <1>1, <1>3, <2>1 DEF InterimsFollowed, ToShow, Followed
  <2>3. Finals = log /\ Waiting(s) = {}
    BY DEF Finals, Waiting
  <2>4. ~\E f \in Finals : f.id = id
    BY <1>2, <1>3, <2>1, <2>3 DEF Settled
  <2>5. PICK r \in 1..made : Open(r, s) /\ segments[r][s].id = id
    BY <2>1, <2>2, <2>4 DEF Followed
  <2>6. Pending(s, Utterance(r, s))
    BY <2>1, <2>5 DEF LinesInv, SpeakerOK, HereOnly
  <2> QED
    BY <2>2, <2>3, <2>5, <2>6 DEF Pending, Utterance
<1> QED
  BY <1>2, <1>3 DEF Steady, Settled

LEMMA LinesInductive == Spec => []LinesInv
BY LinesInit, LinesStep, PTL DEF Spec

\* Once all is delivered the page shows every stored line settled and no interim
\* line of an utterance that is over, whatever late partial, drifting start,
\* reconnect, end or restart came between; a speaker whose messages overtook each
\* other is excepted, and for interim lines one whose utterance was cut
\* (segment-tracker.ts, index.ts and TRANSCRIPT_UTTERANCE of app-state.tsx).
THEOREM LinesSettleAlways == Spec => []LinesSettle
BY LinesInductive, LinesAreSettled, PTL
=============================================================================
