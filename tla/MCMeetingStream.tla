--------------------------- MODULE MCMeetingStream ---------------------------
(***************************************************************************)
(* Small instances of MeetingStream for TLC: an answer that is streamed    *)
(* and finished, one that is streamed and retracted, a card that replaces  *)
(* another, and a line of transcript with its interim.                     *)
(***************************************************************************)
EXTENDS MeetingStream

Cards == {"c1"}
Answers == {"s1", "s2"}
Writers == {"w1", "w2"}

\* An answer finished while the card it rests on is retracted by another
\* pipeline run; an answer retracted while lines of transcript come in.
MixedScripts ==
    {[w1 |-> <<CardEvent("c1"), StartEvent("s1", {"c1"}), DoneEvent("s1", <<1>>)>>,
      w2 |-> <<CardRetractedEvent("c1")>>],
     [w1 |-> <<StartEvent("s1", {}), DeltaEvent("s1", <<1>>), DoneEvent("s1", <<1, 2>>)>>,
      w2 |-> <<RetractedEvent("s2", FALSE)>>],
     [w1 |-> <<StartEvent("s1", {}), DeltaEvent("s1", <<1>>), RetractedEvent("s1", TRUE)>>,
      w2 |-> <<UtteranceEvent("u1", FALSE, 0), UtteranceEvent("u1", TRUE, 1)>>]}

\* One answer, start to end, and nothing else.
OneAnswer ==
    {[w1 |-> <<StartEvent("s1", {}), DoneEvent("s1", <<1>>)>>, w2 |-> <<>>]}

\* Lines of transcript, stored by two messages at the same time.
Lines ==
    {[w1 |-> <<UtteranceEvent("u1", TRUE, 1), UtteranceEvent("u2", TRUE, 1)>>,
      w2 |-> <<UtteranceEvent("u3", TRUE, 1)>>]}
=============================================================================
