------------------------------ MODULE MCMeetings ------------------------------
(***************************************************************************)
(* Small instances of Meetings for TLC: two attendees of one call.         *)
(***************************************************************************)
EXTENDS Meetings

Attendees == {"e1", "e2"}

Limit(launched, changes, late, failures) ==
    [launches |-> launched, changes |-> changes, late |-> late, failures |-> failures]

\* Two launches race; or one meets a late webhook, a failure and a change.
RaceOrTrouble == {Limit(2, 0, 0, 0), Limit(1, 1, 1, 1)}

\* Nothing but a change.
ChangeOnly == {Limit(1, 1, 0, 0)}
=============================================================================
