------------------------------ MODULE EventFeed ------------------------------
(***************************************************************************)
(* What the event log promises a page. What was stored when it opened is   *)
(* in its seed and is not delivered again; what is stored afterwards is    *)
(* delivered, in any order, and not again before Window other events were  *)
(* delivered: exactly once while no more than Window come between its      *)
(* arrival by broadcast and the poll's. Nothing is promised of a late      *)
(* event, one that is published after an event with a higher id.           *)
(***************************************************************************)
EXTENDS Naturals, Sequences

CONSTANTS Id, Window

VARIABLES
    published,   \* the events stored so far
    late,        \* those published after one with a higher id
    opened,      \* whether the page follows the feed
    seed,        \* what it was seeded with
    delivered,   \* delivered[i]: how often event i was delivered
    recent       \* the last Window deliveries, oldest first

vars == <<published, late, opened, seed, delivered, recent>>

Init ==
    /\ published = {} /\ late = {}
    /\ opened = FALSE /\ seed = {}
    /\ delivered = [i \in Id |-> 0] /\ recent = <<>>

Publish(i) ==
    /\ i \notin published
    /\ published' = published \cup {i}
    /\ late' = IF \E j \in published : i < j THEN late \cup {i} ELSE late
    /\ UNCHANGED <<opened, seed, delivered, recent>>

Open(S) ==
    /\ ~opened /\ S \subseteq published
    /\ opened' = TRUE
    /\ seed' = S
    /\ UNCHANGED <<published, late, delivered, recent>>

Deliver(i) ==
    /\ opened /\ i \in published \ seed
    /\ \A k \in DOMAIN recent : recent[k] # i
    /\ delivered' = [delivered EXCEPT ![i] = @ + 1]
    /\ recent' = IF Len(recent) < Window THEN Append(recent, i) ELSE Append(Tail(recent), i)
    /\ UNCHANGED <<published, late, opened, seed>>

DeliverFirst(i) == i \notin late /\ delivered[i] = 0 /\ Deliver(i)

OpenWithSome == \E S \in SUBSET Id : Open(S)

Next == OpenWithSome \/ \E i \in Id : Publish(i) \/ Deliver(i)

Spec ==
    /\ Init /\ [][Next]_vars
    /\ WF_vars(OpenWithSome) /\ \A i \in Id : WF_vars(DeliverFirst(i))
=============================================================================
