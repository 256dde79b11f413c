------------------------------- MODULE Answers -------------------------------
(***************************************************************************)
(* The synthesis of an answer (core.ts, runSynthesis) on top of the stream *)
(* that carries it to the page: grounded or nothing.                       *)
(*                                                                         *)
(* The model's output opens with a STATUS line. As soon as it reads        *)
(* "answer", the prose behind it is streamed sentence by sentence; whether *)
(* the answer is a refusal, is grounded in its sources or is not is known  *)
(* only when the output is complete. What was streamed is then finished or *)
(* retracted; what was not streamed is revealed whole or refused. Every    *)
(* call of the sink only appends work to the sink's chain, which           *)
(* MeetingStream writes and broadcasts later: one chain per answer.        *)
(***************************************************************************)
EXTENDS MeetingStream

CONSTANTS
    Sources,     \* Sources[s]: the cards answer s is synthesized from
    MaxChunks    \* bound on the chunks of prose of one answer

ASSUME AnswersAssumption ==
    /\ SynthesisId \subseteq Writer
    /\ Sources \in [SynthesisId -> SUBSET CardId]
    /\ MaxChunks \in Nat \ {0}
    /\ Scripts \subseteq
          [Writer -> Seq({CardEvent(c) : c \in CardId}
                            \cup {CardRetractedEvent(c) : c \in CardId})]
    /\ \A script \in Scripts : \A s \in SynthesisId : script[s] = <<>>

VARIABLES
    gen,         \* gen[s]: the synthesizer's output so far and what was streamed
    verdict,     \* verdict[s]: what the complete output was found to be
    misses,      \* misses[s]: the knowledge gap recorded for s, if any
    reported     \* the answers handed to onGroundedAnswer

answerVars == <<gen, verdict, misses, reported>>
vars == <<queue, writing, failures, nextId, log, late, cardRow, answerRow, net,
          phase, page, lastSeen, applied, fetch, seeded, handed,
          gen, verdict, misses, reported>>

\* gate: what stripStatusPrefix makes of the output so far. arrived counts the
\* chunks of prose, sentence the chunks up to the last sentence boundary, sent
\* the chunks already streamed (streamedLen).
NotBegun == [stage |-> "idle", gate |-> "forming", arrived |-> 0, sentence |-> 0,
             sent |-> 0, streaming |-> FALSE]

Init ==
    /\ StreamInit
    /\ gen = [s \in SynthesisId |-> NotBegun]
    /\ verdict = [s \in SynthesisId |-> "none"]
    /\ misses = [s \in SynthesisId |-> "none"]
    /\ reported = {}

-----------------------------------------------------------------------------
Chunks(from, to) == [k \in 1..(to - from) |-> from + k]

\* Prose from chunk `from` (exclusive) to chunk `to`, if there is any.
Delta(s, from, to) ==
    IF to > from THEN <<DeltaEvent(s, Chunks(from, to))>> ELSE <<>>

Enqueue(s, events) ==
    /\ queue' = [queue EXCEPT ![s] = @ \o events]
    /\ UNCHANGED <<writing, failures, nextId, log, late, cardRow, answerRow, net>>
    /\ UNCHANGED pageVars

\* startStreamingIfNeeded
StartIfNeeded(s) ==
    IF gen[s].streaming THEN <<>> ELSE <<StartEvent(s, Sources[s])>>

Begin(s) ==
    /\ gen[s].stage = "idle"
    /\ gen' = [gen EXCEPT ![s].stage = "reading"]
    /\ UNCHANGED <<verdict, misses, reported>> /\ UNCHANGED streamVars

\* What the gate may make of a longer output: a resolved refusal stays one, an
\* output that diverged from the protocol may still turn out to be a refusal.
NextGates(gate) ==
    CASE gate = "forming" -> {"forming", "answer", "refusal"}
      [] gate = "answer"  -> {"answer", "refusal"}
      [] gate = "refusal" -> {"refusal"}

\* Up to which chunk the prose is streamed: whole sentences, of an answer only.
FlushTo(s, gate, sentence) ==
    IF gate = "answer" /\ sentence > gen[s].sent THEN sentence ELSE gen[s].sent

\* A textDelta that resolves the gate or brings more prose. Whole sentences of
\* an answer are streamed at once; anything else is held back.
TextDelta(s) ==
    /\ gen[s].stage = "reading"
    /\ \E gate \in NextGates(gen[s].gate),
          arrived \in {gen[s].arrived, gen[s].arrived + 1} :
        \E sentence \in {gen[s].sentence, arrived} :
          LET flushTo == FlushTo(s, gate, sentence)
          IN /\ arrived <= MaxChunks
             /\ gen' = [gen EXCEPT ![s] =
                    [stage |-> "reading", gate |-> gate, arrived |-> arrived,
                     sentence |-> sentence, sent |-> flushTo,
                     streaming |-> @.streaming \/ gate = "answer"]]
             /\ Enqueue(s, IF gate = "answer"
                           THEN StartIfNeeded(s) \o Delta(s, gen[s].sent, flushTo)
                           ELSE <<>>)
    /\ UNCHANGED <<verdict, misses, reported>>

\* What parseSynthesisOutput and the citation check may find at the end: a gate
\* that resolved to a refusal is one, and an answer without prose cites nothing.
Verdicts(s) ==
    IF gen[s].gate = "refusal" THEN {"refusal"}
    ELSE {"refusal", "ungrounded"} \cup
         IF gen[s].arrived > 0 THEN {"grounded"} ELSE {}

TakeBackAfterDone(s) ==
    <<DoneEvent(s, Chunks(0, gen[s].arrived)), RetractedEvent(s, gen[s].streaming)>>

TakeBackUnannounced(s) == <<>>

\* synthesisRetract of a streamed answer, synthesisRefusal of one that was not.
TakeBack(s) == <<RetractedEvent(s, gen[s].streaming)>>

\* The `done` chunk: the rest is flushed and finished, or all is taken back.
Finish(s) ==
    /\ gen[s].stage = "reading"
    /\ \E v \in Verdicts(s) :
        /\ verdict' = [verdict EXCEPT ![s] = v]
        /\ IF v = "grounded"
           THEN /\ Enqueue(s, StartIfNeeded(s) \o Delta(s, gen[s].sent, gen[s].arrived)
                                \o <<DoneEvent(s, Chunks(0, gen[s].arrived))>>)
                /\ UNCHANGED misses
           ELSE /\ Enqueue(s, TakeBack(s))
                /\ misses' = [misses EXCEPT ![s] = v]
    /\ gen' = [gen EXCEPT ![s].stage = "over"]
    /\ UNCHANGED reported

\* The synthesizer throws, at once or in mid-stream.
SynthesizerFails(s) ==
    /\ gen[s].stage = "reading"
    /\ gen' = [gen EXCEPT ![s].stage = "over"]
    /\ verdict' = [verdict EXCEPT ![s] = "failed"]
    /\ IF gen[s].streaming
       THEN Enqueue(s, TakeBack(s)) /\ misses' = [misses EXCEPT ![s] = "refusal"]
       ELSE UNCHANGED misses /\ UNCHANGED streamVars
    /\ UNCHANGED reported

\* A writer's step; once the done event is dealt with (stored or not), the sink
\* reports the grounded answer.
AnswerWriterStep(w) ==
    /\ WriterStep(w)
    /\ reported' = IF /\ writing[w].stage \in {"insert", "send"}
                      /\ queue'[w] # queue[w]
                      /\ Work(w).type = "synthesisDone"
                   THEN reported \cup {Work(w).id} ELSE reported
    /\ UNCHANGED <<gen, verdict, misses>>

\* The bot-worker restarts: what its chains held in memory is gone.
Crash ==
    /\ Fail
    /\ queue' = [w \in Writer |-> <<>>]
    /\ writing' = [w \in Writer |-> Idle]
    /\ gen' = [s \in SynthesisId |-> [gen[s] EXCEPT !.stage = "over"]]
    /\ UNCHANGED <<nextId, log, late, cardRow, answerRow, net, verdict, misses, reported>>
    /\ UNCHANGED pageVars

Next ==
    \/ \E s \in SynthesisId : Begin(s) \/ TextDelta(s) \/ Finish(s) \/ SynthesizerFails(s)
    \/ \E w \in Writer : AnswerWriterStep(w)
    \/ Crash
    \/ PageStep /\ UNCHANGED answerVars

\* The provider's stream ends and the sink's chain runs on.
Fairness ==
    /\ \A s \in SynthesisId : WF_vars(Finish(s) \/ SynthesizerFails(s))
    /\ \A w \in Writer : WF_vars(AnswerWriterStep(w))

Spec == Init /\ [][Next]_vars /\ Fairness

-----------------------------------------------------------------------------
(***************************************************************************)
(* Properties.                                                             *)
(***************************************************************************)
\* The synthesizer's bookkeeping keeps its types, and no more prose was streamed
\* than arrived.
AnswersTypeOK ==
    /\ gen \in [SynthesisId ->
           [stage : {"idle", "reading", "over"}, gate : {"forming", "answer", "refusal"},
            arrived : 0..MaxChunks, sentence : 0..MaxChunks, sent : 0..MaxChunks,
            streaming : BOOLEAN]]
    /\ \A s \in SynthesisId : gen[s].sent <= gen[s].arrived
    /\ verdict \in [SynthesisId -> {"none", "grounded", "ungrounded", "refusal", "failed"}]
    /\ misses \in [SynthesisId -> {"none", "ungrounded", "refusal"}]
    /\ reported \subseteq SynthesisId

\* Grounded or nothing (R1): a page never shows an answer as finished, and no
\* row is marked done, unless its complete output was found grounded, whatever
\* was lost, replayed, seeded or reordered on the way.
GroundedOrNothing ==
    \A s \in SynthesisId :
        Finished(page, s) \/ answerRow[s].status = "done" => verdict[s] = "grounded"

\* An answer the dedup ledger and the summarizer hear of (onGroundedAnswer) was
\* grounded, and is never recorded as a knowledge gap as well.
ReportedIsNoGap ==
    \A s \in reported : verdict[s] = "grounded" /\ misses[s] = "none"

\* Unless a write fails or the bot-worker dies, every answer whose streaming was
\* begun is eventually finished or taken back in the log.
StreamedAnswersEnd ==
    \A s \in SynthesisId :
        gen[s].streaming ~>
            \/ Stored("synthesisDone", s) \/ Stored("synthesisRetracted", s)
            \/ failures > 0
=============================================================================
