------------------------------- MODULE MCRecap -------------------------------
(***************************************************************************)
(* A small instance of Recap for TLC: the event of the meeting's end, and  *)
(* two attendees who click Regenerate.                                     *)
(***************************************************************************)
EXTENDS Recap

OneEnded == {"e1"}
TwoClicks == {"c1", "c2"}
=============================================================================
