-------------------------------- MODULE Cards --------------------------------
(***************************************************************************)
(* The rows of cards in one meeting. A pipeline run surfaces its documents *)
(* (distinct ones: dedupeByDoc of core.ts, on unless it is switched off)   *)
(* one after the other (emitCard of sink-supabase.ts); a new card of a     *)
(* document retracts the document's earlier one, which the runtime         *)
(* remembers, unless that is pinned. Runs interleave at every await. The   *)
(* portal's server actions pin and dismiss cards beside them.              *)
(*                                                                         *)
(* Cards are numbered as they are inserted. How the events of a card are   *)
(* logged and reach a page is the subject of MeetingStream.                *)
(***************************************************************************)
EXTENDS Runtime, Sequences

CONSTANTS
    Doc,
    Run,     \* the slots for pipeline runs in flight
    Actor    \* the slots for server actions in flight

VARIABLES
    cards,   \* the rows, by card
    live,    \* live[r]: liveCardByDocId of runtime r; 0 where it has no card
    run,     \* the pipeline runs in flight
    action,  \* the server actions in flight
    spared,  \* history: cards no later card of their document will retract
    late     \* history: cards pinned after the check of their retraction

cardVars == <<cards, live, run, action, spared, late>>

None == [at |-> "none"]
CardId == DOMAIN cards

CardsInit ==
    /\ cards = <<>> /\ live = <<>>
    /\ run = [p \in Run |-> None] /\ action = [a \in Actor |-> None]
    /\ spared = {} /\ late = {}

NewRow(d) == [doc |-> d, pinned |-> FALSE, retracted |-> "no"]

SetRun(p, r) == run' = [run EXCEPT ![p] = r]
At(p, stage) == run[p].at = stage

-----------------------------------------------------------------------------
(***************************************************************************)
(* A run emits a card for each of its documents.                           *)
(***************************************************************************)
\* What is left of a run with these documents to come.
Onward(r, docs) ==
    IF docs = {} THEN None ELSE [at |-> "insert", rt |-> r, docs |-> docs]

StartRun(r, docs) ==
    \E p \in Run : /\ At(p, "none") /\ SetRun(p, Onward(r, docs))
                   /\ UNCHANGED <<cards, live, action, spared, late>>

InsertCard(p, d) ==
    /\ At(p, "insert") /\ d \in run[p].docs /\ Spend("cards")
    /\ cards' = Append(cards, NewRow(d))
    /\ SetRun(p, [at |-> "announce", rt |-> run[p].rt, docs |-> run[p].docs \ {d},
                  card |-> Len(cards) + 1, prior |-> 0])
    /\ UNCHANGED <<runtime, made, live, action, spared, late>>

InsertFails(p, d) ==
    /\ At(p, "insert") /\ d \in run[p].docs /\ Fails
    /\ SetRun(p, Onward(run[p].rt, run[p].docs \ {d}))
    /\ UNCHANGED <<runtime, made, cards, live, action, spared, late>>

RememberFirst(p, left) ==
    LET c == run[p].card
        m == live[run[p].rt][cards[c].doc]
    IN /\ live' = IF m = 0 THEN [live EXCEPT ![run[p].rt] = [@ EXCEPT ![cards[c].doc] = c]]
                  ELSE live
       /\ SetRun(p, Onward(run[p].rt, run[p].docs))
       /\ spared' = spared \cup left \cup ({m} \ {run[p].prior})
                           \cup (IF run[p].rt = runtime THEN {} ELSE {c})

\* liveCardByDocId.set. What the map held is forgotten: the prior card, which
\* was retracted or is left, or a card another run has set since prior was
\* read. Nobody looks into the map of a runtime that was given up.
Remember(p, left) ==
    LET c == run[p].card
        m == live[run[p].rt][cards[c].doc]
    IN /\ live' = [live EXCEPT ![run[p].rt] = [@ EXCEPT ![cards[c].doc] = c]]
       /\ SetRun(p, Onward(run[p].rt, run[p].docs))
       /\ spared' = spared \cup left \cup ({m} \ {run[p].prior})
                           \cup (IF run[p].rt = runtime THEN {} ELSE {c})

\* persistAndBroadcast of the card returns, and the map is read.
Announced(p) ==
    /\ At(p, "announce")
    /\ LET prior == live[run[p].rt][cards[run[p].card].doc]
       IN IF prior = 0 THEN Remember(p, {})
          ELSE /\ SetRun(p, [run[p] EXCEPT !.at = "check", !.prior = prior])
               /\ UNCHANGED <<live, spared>>
    /\ UNCHANGED <<runtime, made, budget, cards, action, late>>

SacredNever(c) == FALSE

Sacred(c) == cards[c].pinned

\* retractIfNotPinned: whether the prior card is pinned.
Check(p) ==
    /\ At(p, "check")
    /\ IF Sacred(run[p].prior) THEN Remember(p, {run[p].prior})
       ELSE SetRun(p, [run[p] EXCEPT !.at = "retract"]) /\ UNCHANGED <<live, spared>>
    /\ UNCHANGED <<runtime, made, budget, cards, action, late>>

\* Its query or its update fails: the prior card is left as it is.
CheckFails(p) ==
    /\ At(p, "check") \/ At(p, "retract")
    /\ Fails /\ Remember(p, {run[p].prior})
    /\ UNCHANGED <<runtime, made, cards, action, late>>

\* The update, of a row that is not retracted yet.
Retract(p) ==
    /\ At(p, "retract")
    /\ cards' = [cards EXCEPT ![run[p].prior].retracted = IF @ = "no" THEN "stale" ELSE @]
    /\ SetRun(p, [run[p] EXCEPT !.at = "tell"])
    /\ UNCHANGED <<runtime, made, budget, live, action, spared, late>>

\* persistAndBroadcast of cardRetracted returns, whether or not a row was
\* updated.
Told(p) ==
    /\ At(p, "tell") /\ Remember(p, {})
    /\ UNCHANGED <<runtime, made, budget, cards, action, late>>

-----------------------------------------------------------------------------
(***************************************************************************)
(* pinCardAction and dismissCardAction: a query, then an update without a  *)
(* condition. The live page hands them to its cards; none is rendered at   *)
(* this commit, so that pins come from the endpoints themselves.           *)
(***************************************************************************)
Lookup(a, c, what) ==
    /\ action[a].at = "none" /\ c \in CardId /\ Spend("acts")
    /\ cards[c].retracted = "no"
    /\ action' = [action EXCEPT ![a] = [at |-> what, card |-> c]]
    /\ UNCHANGED <<runtime, made, cards, live, run, spared, late>>

\* Past the check of its retraction: about to be retracted, or retracted.
PastCheck(c) ==
    \/ cards[c].retracted # "no"
    \/ \E p \in Run : At(p, "retract") /\ run[p].prior = c

Pin(a) ==
    /\ action[a].at \in {"pin", "unpin"}
    /\ LET c == action[a].card
           pinned == action[a].at = "pin"
       IN /\ cards' = [cards EXCEPT ![c] = [@ EXCEPT !.pinned = pinned]]
          /\ late' = late \cup {x \in {c} : pinned /\ PastCheck(x)}
    /\ action' = [action EXCEPT ![a] = None]
    /\ UNCHANGED <<runtime, made, budget, live, run, spared>>

Dismiss(a) ==
    /\ action[a].at = "dismiss"
    /\ cards' = [cards EXCEPT ![action[a].card] = [@ EXCEPT !.retracted = "dismissed"]]
    /\ action' = [action EXCEPT ![a] = None]
    /\ UNCHANGED <<runtime, made, budget, live, run, spared, late>>

-----------------------------------------------------------------------------
(***************************************************************************)
(* The runtime is given up: its map with it, and the runs of the process   *)
(* if that ends.                                                           *)
(***************************************************************************)
Mapped == {c \in CardId : runtime # 0 /\ live[runtime][cards[c].doc] = c}

InHand == {run[p].card : p \in {q \in Run : run[q].at \notin {"none", "insert"}}}

EndCards ==
    /\ spared' = spared \cup Mapped
    /\ UNCHANGED <<cards, live, run, action, late>>

RestartCards ==
    /\ run' = [p \in Run |-> None]
    /\ spared' = spared \cup Mapped \cup InHand
    /\ UNCHANGED <<cards, live, action, late>>

CardsNext ==
    \/ \E p \in Run : \/ \E d \in Doc : InsertCard(p, d) \/ InsertFails(p, d)
                      \/ Announced(p) \/ Check(p) \/ CheckFails(p) \/ Retract(p) \/ Told(p)
    \/ \E a \in Actor : \/ \E c \in CardId, what \in {"pin", "unpin", "dismiss"} : Lookup(a, c, what)
                        \/ Pin(a) \/ Dismiss(a)

-----------------------------------------------------------------------------
(***************************************************************************)
(* Properties.                                                             *)
(***************************************************************************)
Row == [doc : Doc, pinned : BOOLEAN, retracted : {"no", "stale", "dismissed"}]

Emitting == {"announce", "check", "retract", "tell"}

CardsTypeOK ==
    /\ cards \in Seq(Row)
    /\ live \in Seq([Doc -> CardId \cup {0}]) /\ Len(live) = made
    /\ \A p \in Run :
          \/ run[p] = None
          \/ run[p] \in [at : {"insert"}, rt : 1..made, docs : SUBSET Doc]
          \/ run[p] \in [at : Emitting, rt : 1..made, docs : SUBSET Doc,
                         card : CardId, prior : CardId \cup {0}]
    /\ \A a \in Actor :
          action[a] = None \/ action[a] \in [at : {"pin", "unpin", "dismiss"}, card : CardId]
    /\ spared \subseteq CardId \cup {0} /\ late \subseteq CardId

\* Of the cards of a document at most one stays: any earlier one is retracted
\* by the next, though runs interleave between reading the map and setting it.
\* Excepted is a card still in hand, and one no run will come back to: it was
\* pinned when it was checked, its retraction failed, another run set the map
\* in between, or the runtime was lost.
OneLivePerDoc ==
    \A c, d \in CardId \ (spared \cup InHand) :
        /\ cards[c].doc = cards[d].doc
        /\ cards[c].retracted = "no" /\ cards[d].retracted = "no"
        => c = d

\* A pinned card is retracted as stale only if it was pinned after the run
\* had checked, or by an action that had looked it up before.
PinnedStands ==
    \A c \in CardId : cards[c].retracted = "stale" /\ cards[c].pinned => c \in late
=============================================================================
