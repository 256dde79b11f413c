------------------------------- MODULE MCGaps -------------------------------
(***************************************************************************)
(* Two meetings ask about one topic, one of them about another as well.    *)
(* A behaviour has a merge, a sweep and a backfill, or moves of managers,  *)
(* or closes, beside a failure or a repeated request.                      *)
(***************************************************************************)
EXTENDS Gaps, TLC

CONSTANTS m1, m2, u1, u2, u3, t1, t2

MCMeeting == {m1, m2}
MCUtterance == {u1, u2, u3}
MCTopic == {t1, t2}
MCMeetingOf == (u1 :> m1) @@ (u2 :> m2) @@ (u3 :> m1)
MCTopicOf == (u1 :> t1) @@ (u2 :> t1) @@ (u3 :> t2)
MCNoHits == {u2, u3}

Nothing == [failures |-> 0, ends |-> 1, backfills |-> 0, sweeps |-> 0, merges |-> 0,
            closes |-> 0, moves |-> 0]

MCLimits ==
    {[Nothing EXCEPT !.backfills = 1, !.sweeps = 1, !.merges = 1],
     [Nothing EXCEPT !.backfills = 1, !.merges = 1, !.failures = 1],
     [Nothing EXCEPT !.ends = 2, !.moves = 1],
     [Nothing EXCEPT !.moves = 2],
     [Nothing EXCEPT !.ends = 2, !.closes = 2],
     [Nothing EXCEPT !.closes = 1, !.failures = 2]}
=============================================================================
