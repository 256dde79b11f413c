------------------------------- MODULE Worker -------------------------------
(***************************************************************************)
(* The bot-worker in one meeting (index.ts): the transcript and the cards  *)
(* share the runtime, and a final that has been handled may start a run of *)
(* the retrieval pipeline on the runtime its handler found. Whether it     *)
(* does, and with which documents, is the subject of Retrieval.            *)
(***************************************************************************)
EXTENDS Transcript, Cards

vars == <<runtimeVars, transcriptVars, cardVars>>

Init == RuntimeInit /\ TranscriptInit /\ CardsInit

\* A runtime the connection makes has an empty map.
Connects ==
    /\ Connect
    /\ live' = IF runtime = 0 THEN Append(live, [d \in Doc |-> 0]) ELSE live
    /\ UNCHANGED <<cards, run, action, spared, late>>

\* The line is stored, or its insert failed; retrieval comes after either.
HandleFinal(h) ==
    /\ Store(h) \/ StoreFails(h)
    /\ \/ UNCHANGED cardVars
       \/ h.rt # 0 /\ budget.cards > 0
          /\ \E docs \in SUBSET Doc \ {{}} : StartRun(h.rt, docs)

End == Spend("ends") /\ runtime # 0 /\ Forget /\ EndTranscript /\ EndCards

Restart == Spend("ends") /\ Forget /\ RestartTranscript /\ RestartCards

Next ==
    \/ TranscriptNext /\ UNCHANGED cardVars
    \/ CardsNext /\ UNCHANGED transcriptVars
    \/ Connects
    \/ \E h \in handlers : HandleFinal(h)
    \/ End \/ Restart

Spec == Init /\ [][Next]_vars

\* What each variable holds.
WorkerTypeOK == RuntimeTypeOK /\ TranscriptTypeOK /\ CardsTypeOK
=============================================================================
