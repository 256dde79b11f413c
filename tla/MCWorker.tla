------------------------------ MODULE MCWorker ------------------------------
(***************************************************************************)
(* Either two utterances with their partials, and an end, a restart or a   *)
(* failed insert, or finals whose runs surface three cards of two          *)
(* documents, beside a pin or a dismissal, an end, or a failed query.      *)
(***************************************************************************)
EXTENDS Worker, TLC

CONSTANTS alice, spec, plan, p1, p2

MCDrift == {0, 1}

Nothing == [partials |-> 0, finals |-> 2, cards |-> 0, acts |-> 0, ends |-> 0, failures |-> 0]
Surfacing == [Nothing EXCEPT !.cards = 3]

MCLimits ==
    {[Nothing EXCEPT !.partials = 2, !.ends = 1, !.failures = 1], [Nothing EXCEPT !.partials = 3],
     [Surfacing EXCEPT !.finals = 3], [Surfacing EXCEPT !.acts = 1],
     [Surfacing EXCEPT !.ends = 1], [Surfacing EXCEPT !.failures = 1]}
=============================================================================
