----------------------------- MODULE Transcript -----------------------------
(***************************************************************************)
(* How speech becomes lines: Recall sends partials of what is being said   *)
(* and one final of each utterance, in order over one socket; the worker   *)
(* pins the first partial's id as the id of the line (segment-tracker.ts), *)
(* sends partials to the page and stores finals; the page morphs a line    *)
(* until its final settles it.                                             *)
(*                                                                         *)
(* Until a runtime is marked, the handler of a message waits for the       *)
(* status flip it asked for itself, and handlers come back in any order.   *)
(* The id Recall gives a message is bound to the start of the utterance,   *)
(* which drifts. A line's text is the number of its utterance.             *)
(***************************************************************************)
EXTENDS Runtime, AppState

CONSTANTS
    Speaker,
    Drift,      \* the starts Recall may report of one utterance
    MaxPartials \* bound on the partials of one utterance

ASSUME TranscriptAssumption == MaxPartials \in Nat

VARIABLES
    speech,     \* per speaker: messages sent, partials of this utterance, utterances over
    socket,     \* Recall's socket is open
    marked,     \* the runtimes whose status flip is behind them
    segments,   \* segments[r]: the open segments of runtime r, by speaker
    handlers,   \* the messages whose handler waits
    log,        \* the stored lines
    net,        \* lines on their way to the page
    lines,      \* the page's transcript, by id
    overtaken,  \* history: speakers with a message resolved before an earlier one
    cut      \* history: speakers with an utterance whose thread was cut

transcriptVars ==
    <<speech, socket, marked, segments, handlers, log, net, lines, overtaken, cut>>

TranscriptInit ==
    /\ speech = [s \in Speaker |-> [sent |-> 0, partials |-> 0, over |-> 0]]
    /\ socket = FALSE /\ marked = {} /\ segments = <<>>
    /\ handlers = {} /\ log = {} /\ net = {} /\ lines = <<>>
    /\ overtaken = {} /\ cut = {}

Line(m, id, rev) == [id |-> id, isFinal |-> m.isFinal, rev |-> rev, text |-> m.text]

-----------------------------------------------------------------------------
(***************************************************************************)
(* resolvePartial and resolveFinal, on the segments of runtime r.          *)
(***************************************************************************)
Open(r, s) == s \in DOMAIN segments[r]

\* The first partial opens a segment under its own id; a later one is sent
\* under that id with the next revision, or throttled and dropped.
ResolvePartial(m, r) ==
    LET s    == m.id.speaker
        next == [id |-> segments[r][s].id, rev |-> segments[r][s].rev + 1]
    IN \/ /\ ~Open(r, s)
          /\ segments' = [segments EXCEPT ![r] = Put(@, s, [id |-> m.id, rev |-> 0])]
          /\ net' = net \cup {Line(m, m.id, 0)}
       \/ /\ Open(r, s)
          /\ segments' = [segments EXCEPT ![r] = Put(@, s, next)]
          /\ net' = net \cup {Line(m, next.id, next.rev)}
       \/ /\ Open(r, s)
          /\ UNCHANGED <<segments, net>>

\* A final takes over the id of the open segment, and clears it.
FinalLine(m, r) ==
    IF r # 0 /\ Open(r, m.id.speaker)
    THEN LET seg == segments[r][m.id.speaker] IN Line(m, seg.id, seg.rev + 1)
    ELSE Line(m, m.id, 0)

Closed(r, s) == [segments EXCEPT ![r] = Drop(@, {s})]

ResolveFinal(m, r, others) ==
    /\ handlers' = others \cup {[at |-> "store", rt |-> r, line |-> FinalLine(m, r)]}
    /\ segments' = IF r = 0 THEN segments ELSE Closed(r, m.id.speaker)
    /\ UNCHANGED net

\* The handler past the status flip; others are the handlers still waiting.
Resolve(m, r, others) ==
    /\ IF m.isFinal THEN ResolveFinal(m, r, others)
       ELSE ResolvePartial(m, r) /\ handlers' = others
    /\ LET passed == \E h \in others : /\ h.at = "flip" /\ h.m.id.speaker = m.id.speaker
                                       /\ h.m.n < m.n
           late == IF passed THEN {m.id.speaker} ELSE {}
       IN overtaken' = overtaken \cup late
    /\ UNCHANGED cut

-----------------------------------------------------------------------------
(***************************************************************************)
(* Recall and its socket.                                                  *)
(***************************************************************************)
\* The next message of speaker s: it belongs to utterance over + 1.
Message(s, isFinal, d) ==
    [n |-> speech[s].sent + 1, isFinal |-> isFinal, text |-> speech[s].over + 1,
     id |-> [speaker |-> s, utterance |-> speech[s].over + 1, start |-> d]]

Says(s, isFinal) ==
    /\ Spend(IF isFinal THEN "finals" ELSE "partials")
    /\ isFinal \/ speech[s].partials < MaxPartials
    /\ speech' = [speech EXCEPT ![s] =
          IF isFinal THEN [sent |-> @.sent + 1, partials |-> 0, over |-> @.over + 1]
          ELSE [sent |-> @.sent + 1, partials |-> @.partials + 1, over |-> @.over]]

\* Without a runtime a partial is skipped and a final keeps its id.
Arrive(s, isFinal, d) ==
    /\ socket /\ Says(s, isFinal)
    /\ LET m == Message(s, isFinal, d) IN
         IF runtime # 0 /\ runtime \notin marked
         THEN /\ handlers' = handlers \cup {[at |-> "flip", rt |-> runtime, m |-> m]}
              /\ UNCHANGED <<segments, net, overtaken, cut>>
         ELSE IF runtime = 0 /\ ~isFinal
         THEN UNCHANGED <<segments, handlers, net, overtaken, cut>>
         ELSE Resolve(m, runtime, handlers)
    /\ UNCHANGED <<runtime, made, socket, marked, log, lines>>

\* What is said while the socket is down is not sent again.
Unheard(s, isFinal) ==
    /\ ~socket /\ Says(s, isFinal)
    /\ cut' = cut \cup {s}
    /\ UNCHANGED <<runtime, made, socket, marked, segments, handlers, log, net, lines, overtaken>>

Connect ==
    /\ ~socket /\ socket' = TRUE /\ Register
    /\ segments' = IF runtime = 0 THEN Append(segments, <<>>) ELSE segments
    /\ UNCHANGED <<budget, speech, marked, handlers, log, net, lines, overtaken, cut>>

Disconnect ==
    /\ socket /\ socket' = FALSE /\ Spend("ends")
    /\ UNCHANGED <<runtime, made, speech, marked, segments, handlers, log, net, lines,
                   overtaken, cut>>

-----------------------------------------------------------------------------
(***************************************************************************)
(* The handler.                                                            *)
(***************************************************************************)
\* markRecordingIfFirst returns, flipped or not: the runtime is marked.
FlipReturns(h) ==
    /\ h \in handlers /\ h.at = "flip"
    /\ marked' = marked \cup {h.rt}
    /\ Resolve(h.m, h.rt, handlers \ {h})
    /\ UNCHANGED <<runtime, made, budget, speech, socket, log, lines>>

\* persistAndBroadcast of a final.
Store(h) ==
    /\ h \in handlers /\ h.at = "store"
    /\ handlers' = handlers \ {h}
    /\ log' = log \cup {h.line}
    /\ net' = net \cup {h.line}
    /\ UNCHANGED <<runtime, made, budget, speech, socket, marked, segments, lines,
                   overtaken, cut>>

StoreFails(h) ==
    /\ h \in handlers /\ h.at = "store" /\ Fails
    /\ handlers' = handlers \ {h}
    /\ cut' = cut \cup {h.line.id.speaker}
    /\ UNCHANGED <<runtime, made, speech, socket, marked, segments, log, net, lines, overtaken>>

\* Speakers whose utterance the runtime is in the middle of.
MidUtterance ==
    {h.m.id.speaker : h \in {x \in handlers : x.at = "flip"}}
        \cup {h.line.id.speaker : h \in {x \in handlers : x.at = "store"}}
        \cup (IF runtime = 0 THEN {} ELSE DOMAIN segments[runtime])

\* The end of the meeting leaves the socket and the waiting handlers.
EndTranscript ==
    /\ cut' = cut \cup MidUtterance
    /\ UNCHANGED <<speech, socket, marked, segments, handlers, log, net, lines, overtaken>>

\* The end of the process takes them, and a line stored but not yet sent is
\* left to the page's poll.
RestartTranscript ==
    /\ cut' = cut \cup MidUtterance
    /\ socket' = FALSE /\ handlers' = {}
    /\ UNCHANGED <<speech, marked, segments, log, net, lines, overtaken>>

-----------------------------------------------------------------------------
(***************************************************************************)
(* The page. A stored line reaches it by broadcast or by poll (EventFeed); *)
(* a partial is only broadcast, and may be lost.                           *)
(***************************************************************************)
Show(l) ==
    /\ l \in net /\ net' = net \ {l}
    /\ lines' = IF l.id \in DOMAIN lines /\ Superseded(lines[l.id], l) THEN lines
                ELSE Put(lines, l.id, l)
    /\ UNCHANGED <<runtime, made, budget, speech, socket, marked, segments, handlers, log,
                   overtaken, cut>>

Lose(l) ==
    /\ l \in net /\ ~l.isFinal /\ net' = net \ {l}
    /\ UNCHANGED <<runtime, made, budget, speech, socket, marked, segments, handlers, log,
                   lines, overtaken, cut>>

TranscriptNext ==
    \/ \E s \in Speaker, isFinal \in BOOLEAN :
          Unheard(s, isFinal) \/ \E d \in Drift : Arrive(s, isFinal, d)
    \/ Disconnect
    \/ \E h \in handlers : FlipReturns(h)
    \/ \E l \in net : Show(l) \/ Lose(l)

-----------------------------------------------------------------------------
(***************************************************************************)
(* Properties.                                                             *)
(***************************************************************************)
Id == [speaker : Speaker, utterance : Nat, start : Drift]
LineSet == [id : Id, isFinal : BOOLEAN, rev : Nat, text : Nat]

TranscriptTypeOK ==
    /\ speech \in [Speaker -> [sent : Nat, partials : 0..MaxPartials, over : Nat]]
    /\ socket \in BOOLEAN /\ marked \subseteq 1..made
    /\ DOMAIN segments = 1..made
    /\ \A r \in 1..made : /\ DOMAIN segments[r] \subseteq Speaker
                          /\ \A s \in DOMAIN segments[r] : segments[r][s] \in [id : Id, rev : Nat]
    /\ \A h \in handlers :
          \/ h \in [at : {"flip"}, rt : 1..made,
                    m : [n : Nat, isFinal : BOOLEAN, text : Nat, id : Id]]
          \/ h \in [at : {"store"}, rt : 0..made, line : LineSet]
    /\ log \subseteq LineSet /\ net \subseteq LineSet
    /\ DOMAIN lines \subseteq Id /\ \A id \in DOMAIN lines : lines[id] \in LineSet
    /\ overtaken \subseteq Speaker /\ cut \subseteq Speaker

Quiet == handlers = {} /\ net = {}

\* Once all is delivered the page shows every stored line, settled, whatever
\* late partial came after it; and no interim line is left of an utterance that
\* is over, since its final took the line's place. Excepted is a speaker with an
\* overtaken message, and for the interim line one whose utterance was cut by a
\* reconnect, an end, a restart or a failed insert.
LinesSettle ==
    Quiet =>
        /\ \A a \in log : a.id.speaker \notin overtaken =>
              a.id \in DOMAIN lines /\ lines[a.id].isFinal /\ lines[a.id].text = a.text
        /\ \A id \in DOMAIN lines :
              \/ lines[id].isFinal \/ id.speaker \in cut \cup overtaken
              \/ lines[id].text = speech[id.speaker].over + 1
=============================================================================
