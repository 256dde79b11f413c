-------------------------------- MODULE Recap --------------------------------
(***************************************************************************)
(* The recap of one meeting: meetings.recap_status and recap_json_enc.     *)
(*                                                                         *)
(* A recap-requested event comes from the end of the meeting (possibly     *)
(* more than once) or from a Regenerate click, and each event starts a run *)
(* of generate-meeting-recap: check, generate, persist, every step retried *)
(* by Inngest and one step of the meeting executing at a time. A click     *)
(* reads the status, sets it to 'generating', emits its event, and puts    *)
(* the status it read back when the emit fails.                            *)
(***************************************************************************)
EXTENDS Naturals, FiniteSets

CONSTANTS
    Ended,        \* the events emitted when the meeting ends
    Click,        \* the clicks on Regenerate, of any attendee
    MaxRetries,   \* `retries` of the function: 3
    MaxFailures   \* bound on what fails

ASSUME RecapAssumption ==
    /\ Ended \cap Click = {}
    /\ MaxRetries \in Nat /\ MaxFailures \in Nat

Run == Ended \cup Click
NoRecap == "no recap"

ASSUME NoRecapAssumption == NoRecap \notin Run

VARIABLES
    status,     \* recap_status
    recap,      \* recap_json_enc: the run that made the stored recap
    recapRun,   \* run[r]: how far the run of event r is, and its retries
    click,      \* click[c]: how far the click is, and the status it read
    failures,   \* how much has failed
    lost,       \* history: a write was given up, or a click's process died
    served      \* history: the clicks since whose flip a recap was stored

recapVars == <<status, recap, recapRun, click, failures, lost, served>>

RecapInit ==
    /\ status = "null"
    /\ recap = NoRecap
    /\ recapRun = [r \in Run |-> [stage |-> "none", tries |-> 0]]
    /\ click = [c \in Click |-> [stage |-> "none", prior |-> "null"]]
    /\ failures = 0
    /\ lost = FALSE
    /\ served = {}

Fail == failures < MaxFailures /\ failures' = failures + 1

-----------------------------------------------------------------------------
(***************************************************************************)
(* The run of an event. Each step has its own retries.                     *)
(***************************************************************************)
RunAt(r, stage) == recapRun[r].stage = stage

Goes(r, stage) == recapRun' = [recapRun EXCEPT ![r] = [stage |-> stage, tries |-> 0]]

\* concurrency: one step of this meeting executes at a time. The generate step
\* is the only one that is not a single step here.
StepFree(r) == \A q \in Run \ {r} : ~RunAt(q, "marked")

\* A step that throws starts over, until its retries are used up.
Thrown(entry, again) ==
    IF entry.tries < MaxRetries
    THEN [stage |-> again, tries |-> entry.tries + 1]
    ELSE [stage |-> "exhausted", tries |-> entry.tries]

\* The meeting is completed, or completed again, and a recap is requested.
RecapRequested(r) ==
    /\ r \in Ended /\ RunAt(r, "none")
    /\ Goes(r, "queued")
    /\ UNCHANGED <<status, recap, click, failures, lost, served>>

SkippableGeneratingToo == {"done", "generating"}

Skippable == {"done"}

\* check-already-done
CheckAlreadyDone(r) ==
    /\ RunAt(r, "queued") /\ StepFree(r)
    /\ Goes(r, IF status \in Skippable THEN "skipped" ELSE "checked")
    /\ UNCHANGED <<status, recap, click, failures, lost, served>>

\* generate-recap, first half: the transcript was read and the status is set; the
\* error of this write is not looked at.
MarkGenerating(r) ==
    /\ RunAt(r, "checked") /\ StepFree(r)
    /\ \/ status' = "generating" /\ UNCHANGED failures
       \/ UNCHANGED status /\ Fail
    /\ recapRun' = [recapRun EXCEPT ![r].stage = "marked"]
    /\ UNCHANGED <<recap, click, lost, served>>

\* generate-recap, second half: the model has answered.
Generated(r) ==
    /\ RunAt(r, "marked")
    /\ Goes(r, "built")
    /\ UNCHANGED <<status, recap, click, failures, lost, served>>

Flipped(c) == click[c].stage \notin {"none", "read", "refused"}

\* persist-recap; its answer may be lost, and then the step is thrown.
Persist(r) ==
    /\ RunAt(r, "built") /\ StepFree(r)
    /\ status' = "done" /\ recap' = r
    /\ served' = served \cup {c \in Click : Flipped(c)}
    /\ \/ Goes(r, "finished") /\ UNCHANGED failures
       \/ recapRun' = [recapRun EXCEPT ![r] = Thrown(@, "built")] /\ Fail
    /\ UNCHANGED <<click, lost>>

StepThrows(r) ==
    /\ Fail
    /\ \/ RunAt(r, "queued") /\ recapRun' = [recapRun EXCEPT ![r] = Thrown(@, "queued")]
       \/ (RunAt(r, "checked") \/ RunAt(r, "marked"))
            /\ recapRun' = [recapRun EXCEPT ![r] = Thrown(@, "checked")]
       \/ RunAt(r, "built") /\ recapRun' = [recapRun EXCEPT ![r] = Thrown(@, "built")]
    /\ UNCHANGED <<status, recap, click, lost, served>>

FailedStatusKept == status

FailedStatus == "failed"

\* onFailure: a write that fails is only logged.
OnFailure(r) ==
    /\ RunAt(r, "exhausted")
    /\ \/ status' = FailedStatus /\ UNCHANGED <<failures, lost>>
       \/ UNCHANGED status /\ lost' = TRUE /\ Fail
    /\ recapRun' = [recapRun EXCEPT ![r].stage = "failed"]
    /\ UNCHANGED <<recap, click, served>>

-----------------------------------------------------------------------------
(***************************************************************************)
(* A click on Regenerate (regenerateRecap).                                *)
(***************************************************************************)
Clicked(c, stage) == click' = [click EXCEPT ![c].stage = stage]

Read(c) ==
    /\ click[c].stage = "none"
    /\ click' = [click EXCEPT ![c] = [stage |-> "read", prior |-> status]]
    /\ UNCHANGED <<status, recap, recapRun, failures, lost, served>>

\* A failed write ends the click.
Flip(c) ==
    /\ click[c].stage = "read"
    /\ \/ Clicked(c, "flipped") /\ status' = "generating" /\ UNCHANGED failures
       \/ Clicked(c, "refused") /\ UNCHANGED status /\ Fail
    /\ UNCHANGED <<recap, recapRun, lost, served>>

\* The event is emitted and starts its run.
Send(c) ==
    /\ click[c].stage = "flipped"
    /\ Clicked(c, "over") /\ Goes(c, "queued")
    /\ UNCHANGED <<status, recap, failures, lost, served>>

\* The emit throws; the event may have been accepted all the same.
SendFails(c) ==
    /\ Fail
    /\ click[c].stage = "flipped"
    /\ Clicked(c, "restoring")
    /\ Goes(c, "queued") \/ UNCHANGED recapRun
    /\ UNCHANGED <<status, recap, lost, served>>

RestoredDone(c) == "done"

Restored(c) == click[c].prior

\* The rollback; an error of it is only logged.
Restore(c) ==
    /\ click[c].stage = "restoring"
    /\ Clicked(c, "restored")
    /\ \/ status' = Restored(c) /\ UNCHANGED <<failures, lost>>
       \/ UNCHANGED status /\ lost' = TRUE /\ Fail
    /\ UNCHANGED <<recap, recapRun, served>>

\* The server action's process ends before it has emitted or rolled back.
ClickDies(c) ==
    /\ Fail
    /\ click[c].stage \in {"flipped", "restoring"}
    /\ Clicked(c, "died")
    /\ lost' = TRUE
    /\ UNCHANGED <<status, recap, recapRun, served>>

-----------------------------------------------------------------------------
RecapStep(r) ==
    CheckAlreadyDone(r) \/ MarkGenerating(r) \/ Generated(r) \/ Persist(r) \/ OnFailure(r)

ClickStep(c) == Flip(c) \/ Send(c) \/ Restore(c)

RecapNext ==
    \/ \E r \in Run : RecapRequested(r) \/ RecapStep(r) \/ StepThrows(r)
    \/ \E c \in Click : Read(c) \/ ClickStep(c) \/ SendFails(c) \/ ClickDies(c)

\* Inngest executes what is queued, and retries it; a server action runs on.
Fairness ==
    /\ \A r \in Run : WF_recapVars(RecapStep(r))
    /\ \A c \in Click : WF_recapVars(ClickStep(c))

RecapSpec == RecapInit /\ [][RecapNext]_recapVars /\ Fairness

-----------------------------------------------------------------------------
(***************************************************************************)
(* Properties.                                                             *)
(***************************************************************************)
Status == {"null", "generating", "done", "failed"}
RunStage == {"none", "queued", "checked", "marked", "built", "skipped", "exhausted",
             "finished", "failed"}
ClickStage == {"none", "read", "refused", "flipped", "restoring", "restored", "over", "died"}

\* The variables keep their types; no step is tried more than MaxRetries times again.
RecapTypeOK ==
    /\ status \in Status
    /\ recap \in Run \cup {NoRecap}
    /\ recapRun \in [Run -> [stage : RunStage, tries : 0..MaxRetries]]
    /\ click \in [Click -> [stage : ClickStage, prior : Status]]
    /\ failures \in 0..MaxFailures
    /\ lost \in BOOLEAN
    /\ served \subseteq Click

\* The review page renders a recap whenever the status says 'done': whatever runs,
\* clicks and rollbacks overlap, a 'done' without a stored recap never shows.
DoneHasRecap == status = "done" => recap # NoRecap

\* A regeneration is dropped as a duplicate only when a recap was stored after its
\* click had set 'generating', or a rollback put an older 'done' back. That is less than
\* generate-meeting-recap.ts:264-268 claims, where a regeneration never reads 'done':
\* it does when a run that was in flight at the click stores its recap after the flip,
\* and then the click is served by that older run, its own being skipped.
SkippedAreServed ==
    \A c \in Click : RunAt(c, "skipped") =>
        c \in served \/ \E d \in Click : click[d].stage = "restored"

\* "recap_status moves generating -> done | failed": the page never stays on
\* 'generating', unless a write was given up, a process died, or a click that
\* read 'generating' rolled back to it.
RecapSettles ==
    status = "generating" ~>
        \/ status # "generating" \/ lost
        \/ \E c \in Click : click[c].stage = "restored" /\ click[c].prior = "generating"

=============================================================================
