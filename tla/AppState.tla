------------------------------ MODULE AppState ------------------------------
(***************************************************************************)
(* The reducer of the live page (packages/hud-ui/src/state/app-state.tsx): *)
(* a page is the fold of the events it was handed, and the same event may  *)
(* be handed over by a Realtime broadcast, by the catch-up poll, or by the *)
(* row the page was seeded from, in any order.                             *)
(*                                                                         *)
(* A page is a record of the reducer's control state:                      *)
(*   cards          the cards on the page, each mapped to its pinned flag  *)
(*   syntheses      the answers on the page: sources, text, streaming, pin *)
(*   retractedCards, retractedSyntheses   the tombstones                   *)
(*   transcript     the lines on the page: finality and revision           *)
(* An answer's text is the sequence of the numbers of its chunks. Scores,  *)
(* titles, citations, the announce region, the connection status and the   *)
(* failure streak are left out: no property tells them apart.              *)
(***************************************************************************)
EXTENDS Functions, Sequences

Put(f, k, v) == [x \in DOMAIN f \cup {k} |-> IF x = k THEN v ELSE f[x]]

Drop(f, S) == Restrict(f, DOMAIN f \ S)

initialAppState ==
    [cards |-> <<>>, syntheses |-> <<>>, transcript |-> <<>>,
     retractedCards |-> {}, retractedSyntheses |-> {}]

Shown(page, s) == s \in DOMAIN page.syntheses

Streaming(page, s) == Shown(page, s) /\ page.syntheses[s].streaming

Finished(page, s) == Shown(page, s) /\ ~page.syntheses[s].streaming

(***************************************************************************)
(* The events the page reduces, as the bot-worker's sink writes them.      *)
(***************************************************************************)
CardEvent(c) == [type |-> "card", id |-> c]

CardRetractedEvent(c) == [type |-> "cardRetracted", id |-> c]

StartEvent(s, sources) == [type |-> "synthesisStart", id |-> s, sources |-> sources]

DeltaEvent(s, chunks) == [type |-> "synthesisDelta", id |-> s, chunks |-> chunks]

DoneEvent(s, text) == [type |-> "synthesisDone", id |-> s, text |-> text]

\* streamed: the retraction updates the row of a streamed answer instead of
\* inserting one (synthesisRetract against synthesisRefusal).
RetractedEvent(s, streamed) ==
    [type |-> "synthesisRetracted", id |-> s, streamed |-> streamed]

\* rev is the utterance's revision; only finals are stored in meeting_events.
UtteranceEvent(u, isFinal, rev) ==
    [type |-> "transcript", id |-> u, isFinal |-> isFinal, rev |-> rev]

-----------------------------------------------------------------------------
(***************************************************************************)
(* One operator per reducer case.                                          *)
(***************************************************************************)
Card(page, c) ==
    IF c \in page.retractedCards THEN page
    ELSE [page EXCEPT !.cards = Put(@, c, c \in DOMAIN @ /\ @[c])]

CascadedFinishedToo(page, c) ==
    {s \in DOMAIN page.syntheses :
        ~page.syntheses[s].pinned /\ c \in page.syntheses[s].sources}

\* The still-streaming unpinned answers that a retraction of c takes with it.
Cascaded(page, c) ==
    {s \in DOMAIN page.syntheses :
        /\ page.syntheses[s].streaming
        /\ ~page.syntheses[s].pinned
        /\ c \in page.syntheses[s].sources}

CardRetracted(page, c) ==
    IF c \notin DOMAIN page.cards
    THEN [page EXCEPT !.retractedCards = @ \cup {c}]
    ELSE LET kept  == Drop(page.syntheses, Cascaded(page, c))
             cited == \E s \in DOMAIN kept : c \in kept[s].sources
         IN [page EXCEPT !.retractedCards = @ \cup {c},
                         !.syntheses = kept,
                         !.cards = IF cited THEN @ ELSE Drop(@, {c})]

SynthesisStart(page, s, sources) ==
    IF Shown(page, s) \/ s \in page.retractedSyntheses THEN page
    ELSE [page EXCEPT !.syntheses =
            Put(@, s, [sources |-> sources, text |-> <<>>,
                       streaming |-> TRUE, pinned |-> FALSE])]

SynthesisDelta(page, s, chunks) ==
    IF Streaming(page, s)
    THEN [page EXCEPT !.syntheses[s].text = @ \o chunks]
    ELSE page

SynthesisDoneKeepsText(page, s, text) ==
    IF Shown(page, s) THEN [page EXCEPT !.syntheses[s] = [@ EXCEPT !.streaming = FALSE]]
    ELSE page

SynthesisDone(page, s, text) ==
    IF Shown(page, s)
    THEN [page EXCEPT !.syntheses[s] = [@ EXCEPT !.text = text, !.streaming = FALSE]]
    ELSE page

SynthesisRetractedTombstoneOnly(page, s) ==
    [page EXCEPT !.retractedSyntheses = @ \cup {s}]

SynthesisRetracted(page, s) ==
    [page EXCEPT !.retractedSyntheses = @ \cup {s},
                 !.syntheses = Drop(@, {s})]

SynthesisPinned(page, s, pinned) ==
    IF Shown(page, s) THEN [page EXCEPT !.syntheses[s].pinned = pinned] ELSE page

SupersededSameOnly(line, u) == line.isFinal = u.isFinal /\ u.rev <= line.rev

\* A partial never overwrites a final, and within one finality only a higher
\* revision does.
Superseded(line, u) ==
    \/ line.isFinal /\ ~u.isFinal
    \/ line.isFinal = u.isFinal /\ u.rev <= line.rev

TranscriptUtterance(page, u) ==
    IF u.id \in DOMAIN page.transcript /\ Superseded(page.transcript[u.id], u)
    THEN page
    ELSE [page EXCEPT !.transcript =
            Put(@, u.id, [isFinal |-> u.isFinal, rev |-> u.rev])]

\* dispatchBroadcast: the reducer action each event type is mapped to.
Dispatch(page, e) ==
    CASE e.type = "card"               -> Card(page, e.id)
      [] e.type = "cardRetracted"      -> CardRetracted(page, e.id)
      [] e.type = "synthesisStart"     -> SynthesisStart(page, e.id, e.sources)
      [] e.type = "synthesisDelta"     -> SynthesisDelta(page, e.id, e.chunks)
      [] e.type = "synthesisDone"      -> SynthesisDone(page, e.id, e.text)
      [] e.type = "synthesisRetracted" -> SynthesisRetracted(page, e.id)
      [] e.type = "transcript"         -> TranscriptUtterance(page, e)
=============================================================================
