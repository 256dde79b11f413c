------------------------------- MODULE Meetings -------------------------------
(***************************************************************************)
(* The life of the meetings rows of one conference URL: attendees opt      *)
(* their calendar events in, launch runs (launch-bot.ts) create a row and  *)
(* a bot, Recall's webhooks, the bot-worker's first utterance, the reaper  *)
(* and an attendee who ends the meeting by hand all write its status.      *)
(*                                                                         *)
(* A webhook may arrive at any time after what it reports, once, twice, or *)
(* never. The statuses joining and waiting_room are treated alike by all   *)
(* of the code and are one status here. Time is in ages: of a row, of its  *)
(* started_at, and of a bot in its phase.                                  *)
(***************************************************************************)
EXTENDS Integers, Sequences, FiniteSets

CONSTANTS
    CalEvent,       \* the calendar events of the call, one per attendee
    Limits,         \* bounds: how often each of Counted may happen
    MaxMeetings,    \* bound on the rows
    MaxBots,        \* bound on the bots
    WaitLimit,      \* waiting_room_timeout
    MaxDuration,    \* in_call_recording_timeout
    Grace,          \* PRELAUNCH_GRACE_S
    Buffer,         \* REAP_BUFFER_S
    HardCap         \* HARD_CAP_S

\* Launches; opt-outs, moves and ends by hand; webhooks that come late or
\* again; failures.
Counted == {"launches", "changes", "late", "failures"}

ASSUME MeetingsAssumption ==
    /\ Limits \subseteq [Counted -> Nat]
    /\ {MaxMeetings, MaxBots, WaitLimit, MaxDuration, Grace, Buffer,
     HardCap} \subseteq Nat

VARIABLES
    optin, startAt, \* calendar_events.bot_optin and start_at
    launches,       \* the launch runs, in the order they were requested
    meetings,       \* the rows of the call, in the order they were inserted
    bots,           \* Recall's bots, in the order they were created
    left,           \* left[k]: how often k may still happen
    failed          \* history: something has failed

budget == <<left, failed>>
vars == <<optin, startAt, launches, meetings, bots, budget>>

Init ==
    /\ optin = [e \in CalEvent |-> FALSE]
    /\ startAt = [e \in CalEvent |-> 0]
    /\ launches = <<>> /\ meetings = <<>> /\ bots = <<>>
    /\ left \in Limits /\ failed = FALSE

Happens(k) == left[k] > 0 /\ left' = [left EXCEPT ![k] = @ - 1]

Fail == Happens("failures") /\ failed' = TRUE

Change == Happens("changes") /\ UNCHANGED failed

Late == Happens("late") /\ UNCHANGED failed

\* LIVE_STATUSES, and those of them before the recording.
Live == {"launching", "awaiting_recall", "joining", "recording"}

PreRecordingOnceLaunched == Live \ {"recording", "launching"}

PreRecording == Live \ {"recording"}

IsLive(m) == meetings[m].status \in Live

Served == \E m \in DOMAIN meetings : IsLive(m)

-----------------------------------------------------------------------------
(***************************************************************************)
(* Opting in and out, rescheduling, retrying.                              *)
(***************************************************************************)
Requested(e) ==
    Append(launches, [event |-> e, start |-> startAt[e], stage |-> "sleeping",
                      meeting |-> 0, bot |-> 0])

\* The flag of e is set and then its launch is requested; the request may fail.
Wanted(e) ==
    /\ optin' = [optin EXCEPT ![e] = TRUE]
    /\ \/ launches' = Requested(e) /\ Happens("launches") /\ UNCHANGED failed
       \/ UNCHANGED launches /\ Fail
    /\ UNCHANGED <<startAt, meetings, bots>>

\* toggleBotOptInAction, the flag set or not (a second tab).
OptIn(e) == Wanted(e)

OptOut(e) ==
    /\ optin[e] /\ Change
    /\ optin' = [optin EXCEPT ![e] = FALSE]
    /\ UNCHANGED <<startAt, launches, meetings, bots>>

\* sync-calendar: the upsert moves the event and keeps its flag.
Reschedule(e) ==
    /\ Change
    /\ startAt' = [startAt EXCEPT ![e] = @ + 1]
    /\ UNCHANGED <<optin, launches, meetings, bots>>

\* retryFailedLaunchAction
RetryLaunch(m) == meetings[m].status = "failed" /\ Wanted(meetings[m].event)

-----------------------------------------------------------------------------
(***************************************************************************)
(* The steps of a launch run.                                              *)
(***************************************************************************)
At(l, stage) == launches[l].stage = stage

Goes(l, stage) == launches' = [launches EXCEPT ![l].stage = stage]

\* The run ends.
Over(l) == launches' = [launches EXCEPT ![l] =
                           [@ EXCEPT !.stage = "over", !.meeting = 0, !.bot = 0]]

\* reload-event: an event that was opted out or moved since is left alone.
Reload(l) ==
    /\ At(l, "sleeping")
    /\ IF optin[launches[l].event] /\ startAt[launches[l].event] = launches[l].start
       THEN Goes(l, "looking") ELSE Over(l)
    /\ UNCHANGED <<optin, startAt, meetings, bots, budget>>

\* resolve-or-create-meeting, the lookup: a live row is joined.
Lookup(l) ==
    /\ At(l, "looking")
    /\ IF Served THEN Over(l) ELSE Goes(l, "inserting")
    /\ UNCHANGED <<optin, startAt, meetings, bots, budget>>

ConflictPerEventOnly(m, e, new) ==
    \E n \in DOMAIN meetings \ {m} :
        new # "failed" /\ meetings[n].event = e /\ meetings[n].status # "failed"

\* The unique indexes: one live row per conference URL, and one row per calendar
\* event that has not failed. Row m (0 for a new one) of event e would break them
\* with this status.
Conflict(m, e, new) ==
    \E n \in DOMAIN meetings \ {m} :
        \/ new \in Live /\ IsLive(n)
        \/ new # "failed" /\ meetings[n].event = e /\ meetings[n].status # "failed"

\* A row with its status overwritten.
Moved(m, new) ==
    [meetings[m] EXCEPT
        !.status = new,
        !.reopened = @ \/ (meetings[m].status = "completed" /\ new # "completed")]

NewMeeting(e) ==
    [event |-> e, status |-> "launching", bot |-> 0, age |-> 0, started |-> -1,
     marked |-> FALSE, asked |-> 0, givenUp |-> "no", reopened |-> FALSE]

\* The insert. Its answer may be lost: the retried step then finds its own row.
Insert(l) ==
    LET e == launches[l].event
        new == Len(meetings) + 1
    IN /\ At(l, "inserting")
       /\ ~Conflict(0, e, "launching") /\ new <= MaxMeetings
       /\ meetings' = Append(meetings, NewMeeting(e))
       /\ \/ /\ launches' = [launches EXCEPT ![l].stage = "creating", ![l].meeting = new]
             /\ UNCHANGED budget
          \/ Goes(l, "looking") /\ Fail
       /\ UNCHANGED <<optin, startAt, bots>>

\* The insert conflicts: the winner is joined. Without a live winner (the event's
\* meeting is over) the step throws, and throws again until its retries are used up.
InsertConflicts(l) ==
    /\ At(l, "inserting") /\ Conflict(0, launches[l].event, "launching")
    /\ IF Served THEN Over(l) ELSE Goes(l, "looking") \/ Over(l)
    /\ UNCHANGED <<optin, startAt, meetings, bots, budget>>

NewBot(m, answered) ==
    Append(bots, [meeting |-> m, phase |-> "waiting", age |-> 0, answered |-> answered])

\* create-bot: Recall's answer is a bot or a refusal. A lost answer, or a 5xx,
\* throws, and the step is retried.
CreateBot(l) ==
    /\ At(l, "creating")
    /\ \/ /\ Len(bots) < MaxBots
          /\ bots' = NewBot(launches[l].meeting, TRUE)
          /\ launches' = [launches EXCEPT ![l].stage = "created", ![l].bot = Len(bots) + 1]
          /\ UNCHANGED budget
       \/ /\ Len(bots) < MaxBots /\ Fail
          /\ bots' = NewBot(launches[l].meeting, FALSE)
          /\ UNCHANGED launches
       \/ Goes(l, "refused") /\ UNCHANGED <<bots, budget>>
    /\ UNCHANGED <<optin, startAt, meetings>>

LaunchedStatus(l) == IF At(l, "created") THEN "awaiting_recall" ELSE "failed"

\* finalize-meeting-row: an unconditional update whose error is not looked at.
Finalize(l) ==
    LET m == launches[l].meeting
        new == LaunchedStatus(l)
    IN /\ At(l, "created") \/ At(l, "refused")
       /\ \/ /\ ~Conflict(m, meetings[m].event, new)
             /\ meetings' = [meetings EXCEPT
                    ![m] = [Moved(m, new) EXCEPT
                               !.bot = IF new = "failed" THEN @ ELSE launches[l].bot]]
             /\ UNCHANGED budget
          \/ /\ Conflict(m, meetings[m].event, new)
             /\ UNCHANGED <<meetings, budget>>
          \/ UNCHANGED meetings /\ Fail
       /\ Over(l)
       /\ UNCHANGED <<optin, startAt, bots>>

\* A run gives up when the retries of one of its steps are used up.
LaunchDies(l) ==
    /\ Fail
    /\ ~At(l, "over") /\ Over(l)
    /\ UNCHANGED <<optin, startAt, meetings, bots>>

LaunchStep(l) ==
    \/ Reload(l) \/ Lookup(l) \/ Insert(l) \/ InsertConflicts(l)
    \/ CreateBot(l) \/ Finalize(l)

-----------------------------------------------------------------------------
(***************************************************************************)
(* Recall's bots and the bot-worker. A bot serves the meeting its URL      *)
(* names, whether or not the row knows the bot.                            *)
(***************************************************************************)
Present(b) == bots[b].phase \in {"waiting", "in_call"}

\* The bot is let in and connects to the bot-worker.
Admitted(b) ==
    /\ bots[b].phase = "waiting"
    /\ bots' = [bots EXCEPT ![b].phase = "in_call", ![b].age = 0]
    /\ UNCHANGED <<optin, startAt, launches, meetings, budget>>

\* The call ends, a limit is reached, or the bot breaks down.
Leaves(b) ==
    /\ \E gone \in IF bots[b].phase = "waiting" THEN {"turned_away"} ELSE {"ended", "broken"} :
          bots' = [bots EXCEPT ![b].phase = gone, ![b].age = 0]
    /\ Present(b)
    /\ UNCHANGED <<optin, startAt, launches, meetings, budget>>

\* handleMessage, markRecordingIfFirst: only the first utterance of a runtime tries.
FirstUtterance(b) ==
    LET m == bots[b].meeting
    IN /\ bots[b].phase = "in_call" /\ ~meetings[m].marked
       /\ \/ /\ meetings' = [meetings EXCEPT ![m] =
                    IF @.status \in PreRecording
                    THEN [@ EXCEPT !.marked = TRUE, !.status = "recording", !.started = 0]
                    ELSE [@ EXCEPT !.marked = TRUE]]
             /\ UNCHANGED budget
          \/ meetings' = [meetings EXCEPT ![m].marked = TRUE] /\ Fail
       /\ UNCHANGED <<optin, startAt, launches, bots>>

\* The worker restarts; its bots reconnect and get new runtimes.
WorkerRestarts ==
    /\ Fail
    /\ meetings' = [m \in DOMAIN meetings |-> [meetings[m] EXCEPT !.marked = FALSE]]
    /\ UNCHANGED <<optin, startAt, launches, bots>>

-----------------------------------------------------------------------------
(***************************************************************************)
(* Webhooks, the reaper, and the attendee who ends the meeting by hand.    *)
(***************************************************************************)
\* statusForEvent: what Recall has reported of a bot by the time it is in a phase,
\* the last of it last.
Reported(b) ==
    CASE bots[b].phase = "waiting" -> <<"joining">>
      [] bots[b].phase = "in_call" -> <<"joining", "recording">>
      [] bots[b].phase = "turned_away" -> <<"joining", "failed">>
      [] bots[b].phase = "broken" -> <<"joining", "recording", "failed">>
      [] bots[b].phase = "ended" -> <<"joining", "recording", "completed">>

TransitionsAlways(m, new) == TRUE

\* .neq('status', newStatus)
Transitions(m, new) == meetings[m].status # new

NotAsked(row) == row

\* Recap and gap assembly are requested; two and more requests are alike.
Asked(row) == [row EXCEPT !.asked = IF @ < 2 THEN @ + 1 ELSE @]

\* POST /meetings/:id/end, best effort: the worker drops the runtime of the row
\* (a bot that is still there reconnects and gets a new one).
NotifyEnd(row) == {row, [row EXCEPT !.marked = FALSE]}

\* The row is completed and its jobs are requested, best effort.
Completed(m, row) ==
    \E told \in NotifyEnd(row) :
        \/ meetings' = [meetings EXCEPT ![m] = Asked(told)] /\ UNCHANGED budget
        \/ meetings' = [meetings EXCEPT ![m] = told] /\ Fail

\* A webhook of a bot. One that finds no row (the bot's id is not stored yet) or
\* makes no transition is acknowledged and forgotten; one whose update breaks an
\* index is a 500 and comes again.
Webhook(b) ==
    \E i \in DOMAIN Reported(b), m \in DOMAIN meetings :
        LET new == Reported(b)[i]
        IN /\ meetings[m].bot = b
           /\ Transitions(m, new) /\ ~Conflict(m, meetings[m].event, new)
           /\ IF i < Len(Reported(b))
              THEN meetings' = [meetings EXCEPT ![m] = Moved(m, new)] /\ Late
              ELSE IF new = "completed" THEN Completed(m, Moved(m, new))
              ELSE meetings' = [meetings EXCEPT ![m] = Moved(m, new)] /\ UNCHANGED budget
           /\ UNCHANGED <<optin, startAt, launches, bots>>

ReapAfterBuffer == Buffer

\* recordingReapAfterMs
ReapAfter == IF MaxDuration + Buffer < HardCap THEN MaxDuration + Buffer ELSE HardCap

\* reapStaleMeetings: a recording whose bot is taken to be gone is completed. The
\* age of a row without started_at is that of the row.
ReapRecording(m) ==
    /\ meetings[m].status = "recording"
    /\ IF meetings[m].started >= 0 THEN meetings[m].started > ReapAfter
                                   ELSE meetings[m].age > ReapAfter
    /\ Completed(m, [meetings[m] EXCEPT !.status = "completed", !.givenUp = "reaper"])
    /\ UNCHANGED <<optin, startAt, launches, bots>>

ReapPrelaunch(m) ==
    /\ meetings[m].status \in PreRecording /\ meetings[m].age > Grace
    /\ meetings' = [meetings EXCEPT ![m].status = "failed", ![m].givenUp = "reaper"]
    /\ UNCHANGED <<optin, startAt, launches, bots, budget>>

\* endStuckMeetingAction: no job is requested.
EndNow(m) ==
    /\ meetings[m].status = "recording" /\ Change
    /\ \E told \in NotifyEnd([meetings[m] EXCEPT !.status = "completed", !.givenUp = "hand"]) :
          meetings' = [meetings EXCEPT ![m] = told]
    /\ UNCHANGED <<optin, startAt, launches, bots>>

AgeCap == (IF ReapAfter > Grace THEN ReapAfter ELSE Grace) + 1

Older(age) == IF age < AgeCap THEN age + 1 ELSE age

\* Time passes; Recall takes a bot out when its time is over.
Tick ==
    /\ \A b \in DOMAIN bots :
         /\ bots[b].phase = "waiting" => bots[b].age < WaitLimit
         /\ bots[b].phase = "in_call" => bots[b].age < MaxDuration
    /\ meetings' = [m \in DOMAIN meetings |->
            [meetings[m] EXCEPT !.age = Older(@), !.started = IF @ < 0 THEN @ ELSE Older(@)]]
    /\ bots' = [b \in DOMAIN bots |->
            [bots[b] EXCEPT !.age = IF Present(b) THEN @ + 1 ELSE @]]
    /\ UNCHANGED <<optin, startAt, launches, budget>>

-----------------------------------------------------------------------------
Next ==
    \/ \E e \in CalEvent : OptIn(e) \/ OptOut(e) \/ Reschedule(e)
    \/ \E l \in DOMAIN launches : LaunchStep(l) \/ LaunchDies(l)
    \/ \E b \in DOMAIN bots :
        Admitted(b) \/ Leaves(b) \/ FirstUtterance(b) \/ Webhook(b)
    \/ WorkerRestarts
    \/ \E m \in DOMAIN meetings :
        RetryLaunch(m) \/ ReapRecording(m) \/ ReapPrelaunch(m) \/ EndNow(m)
    \/ Tick

\* The reaper is a cron job, time passes, and Recall's limits hold.
Fairness ==
    /\ WF_vars(Tick)
    /\ \A b \in 1..MaxBots : WF_vars(b \in DOMAIN bots /\ Leaves(b))
    /\ \A m \in 1..MaxMeetings :
         WF_vars(m \in DOMAIN meetings /\ (ReapRecording(m) \/ ReapPrelaunch(m)))

Spec == Init /\ [][Next]_vars /\ Fairness

-----------------------------------------------------------------------------
(***************************************************************************)
(* Properties.                                                             *)
(***************************************************************************)
Stage == {"sleeping", "looking", "inserting", "creating", "created", "refused", "over"}

\* The rows, runs and bots keep their types and refer to each other.
MeetingsTypeOK ==
    /\ optin \in [CalEvent -> BOOLEAN] /\ startAt \in [CalEvent -> Nat]
    /\ launches \in Seq([event : CalEvent, start : Nat, stage : Stage,
                         meeting : 0..Len(meetings), bot : 0..Len(bots)])
    /\ Len(meetings) <= MaxMeetings
    /\ meetings \in Seq([event : CalEvent, status : Live \cup {"completed", "failed"},
                         bot : 0..Len(bots), age : 0..AgeCap, started : -1..AgeCap,
                         marked : BOOLEAN, asked : 0..2,
                         givenUp : {"no", "reaper", "hand"}, reopened : BOOLEAN])
    /\ Len(bots) <= MaxBots
    /\ bots \in Seq([meeting : 1..Len(meetings), age : 0..WaitLimit + MaxDuration,
                     phase : {"waiting", "in_call", "turned_away", "ended", "broken"},
                     answered : BOOLEAN])
    /\ left \in [Counted -> Nat] /\ failed \in BOOLEAN

\* "One bot per meeting": however the launches of the attendees race, two bots are
\* in the same call only when Recall's answer for one of them was lost (the retried
\* step then created another), or the row of one of them was given up (timed out,
\* reaped or ended by hand) with its bot still there.
OneBotPerMeeting ==
    \A b, c \in DOMAIN bots :
        b # c /\ Present(b) /\ Present(c) /\ bots[b].answered /\ bots[c].answered =>
            \E m \in {bots[b].meeting, bots[c].meeting} : meetings[m].givenUp # "no"

\* Recap and gap assembly are requested once per meeting, however often call_ended
\* comes, unless a late webhook or a late finalize has reopened the completed meeting.
JobsRequestedOnce ==
    \A m \in DOMAIN meetings : meetings[m].asked > 1 => meetings[m].reopened

\* A completed meeting has had its recap and gaps requested, by the webhook or by
\* the reaper that stands in for it, unless it was ended by hand or a call failed.
CompletedIsProcessed ==
    \A m \in DOMAIN meetings : meetings[m].status = "completed" =>
        meetings[m].asked > 0 \/ meetings[m].givenUp = "hand" \/ failed

\* "the bot is physically gone by started_at + maxDuration": once the first utterance
\* has set started_at, the reaper never completes a meeting whose only bot is in the
\* call. (Without it the age of the row counts, in which the bot may have waited for
\* longer than the buffer; and a duration set beyond the cap outlives the reaper.)
ReaperSparesTheCall ==
    [][\A m \in DOMAIN meetings :
          /\ MaxDuration <= HardCap
          /\ meetings[m].status = "recording" /\ meetings[m].started >= 0
          /\ meetings'[m].status = "completed" /\ meetings'[m].givenUp = "reaper"
          => \A b \in DOMAIN bots :
                bots[b].meeting = m /\ bots[b].phase = "in_call" =>
                    \E c \in DOMAIN bots \ {b} : bots[c].meeting = m]_vars

\* The reaper's promise that no meeting stays live for ever, whatever was lost: at
\* most one row of the call is live at a time, and again and again none is.
NoMeetingLivesForever == []<>~Served
=============================================================================
