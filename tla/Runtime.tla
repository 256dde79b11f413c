------------------------------ MODULE Runtime ------------------------------
(***************************************************************************)
(* The bot-worker's runtime of one meeting (PerMeetingRuntime of index.ts):*)
(* the object in memory that holds the open segments of the transcript and *)
(* the live card of each document. It is made by the first connection and  *)
(* kept over reconnects; the end of the meeting takes it out of the map,   *)
(* the end of the process takes everything. A handler keeps the object it  *)
(* found when its message came in, whatever happens to the map after that. *)
(* Runtimes are numbered as they are made; 0 stands for undefined.         *)
(***************************************************************************)
EXTENDS Naturals

CONSTANT Limits   \* the bounds of a behaviour: a set of records of numbers

VARIABLES
    runtime,   \* runtimes.get(meetingId)
    made,      \* how many runtimes were made so far
    budget     \* what is left of the bounds of this behaviour

runtimeVars == <<runtime, made, budget>>

Budget == [partials : Nat, finals : Nat, cards : Nat, acts : Nat, ends : Nat, failures : Nat]

ASSUME RuntimeAssumption == Limits \subseteq Budget

RuntimeInit == runtime = 0 /\ made = 0 /\ budget \in Limits

RuntimeTypeOK == made \in Nat /\ runtime \in 0..made /\ budget \in Budget

Spend(what) == budget[what] > 0 /\ budget' = [budget EXCEPT ![what] = @ - 1]

Fails == Spend("failures")

\* The connection of a meeting: its runtime is reused, or made.
Register ==
    IF runtime = 0 THEN made' = made + 1 /\ runtime' = made + 1
    ELSE UNCHANGED <<runtime, made>>

\* POST /meetings/:id/end, or the end of the process.
Forget == runtime' = 0 /\ UNCHANGED made
=============================================================================
