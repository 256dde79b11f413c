---------------------------- MODULE MeetingsProofs ----------------------------
(***************************************************************************)
(* One bot per meeting, its jobs requested once, no call reaped under its  *)
(* only bot, for any number of attendees, launches, late webhooks and      *)
(* failures.                                                               *)
(***************************************************************************)
EXTENDS Meetings, TLAPS

Status == Live \cup {"completed", "failed"}
Phase == {"waiting", "in_call", "turned_away", "ended", "broken"}

LaunchRec == [event : CalEvent, start : Nat, stage : Stage, meeting : Nat, bot : Nat]

Row == [event : CalEvent, status : Status, bot : Nat, age : 0..AgeCap,
        started : -1..AgeCap, marked : BOOLEAN, asked : 0..2,
        givenUp : {"no", "reaper", "hand"}, reopened : BOOLEAN]

BotRec == [meeting : Nat, age : 0..WaitLimit + MaxDuration, phase : Phase,
           answered : BOOLEAN]

Types ==
    /\ optin \in [CalEvent -> BOOLEAN] /\ startAt \in [CalEvent -> Nat]
    /\ launches \in Seq(LaunchRec)
    /\ meetings \in Seq(Row) /\ Len(meetings) <= MaxMeetings
    /\ bots \in Seq(BotRec) /\ Len(bots) <= MaxBots
    /\ left \in [Counted -> Nat] /\ failed \in BOOLEAN

Refs ==
    /\ \A l \in DOMAIN launches :
         launches[l].meeting \in 0..Len(meetings) /\ launches[l].bot \in 0..Len(bots)
    /\ \A m \in DOMAIN meetings : meetings[m].bot \in 0..Len(bots)
    /\ \A b \in DOMAIN bots : bots[b].meeting \in DOMAIN meetings

AtMostOneLive == \A m, n \in DOMAIN meetings : IsLive(m) /\ IsLive(n) => m = n

\* The launch has inserted its row and has yet to finalize it.
Owning == {"creating", "created", "refused"}
Owner(l) == launches[l].stage \in Owning

\* The bot a run got for the row, and is to be known by.
Serves(b, m) == bots[b].meeting = m /\ bots[b].answered

Accounted(m) == IsLive(m) \/ meetings[m].givenUp # "no"

\* A row that is being launched has one owner and, once Recall has answered, one bot.
OwnerInv(l) ==
    LET m == launches[l].meeting
    IN /\ m \in DOMAIN meetings
       /\ meetings[m].bot = 0
       /\ Accounted(m)
       /\ \A k \in DOMAIN launches : Owner(k) /\ launches[k].meeting = m => k = l
       /\ \A b \in DOMAIN bots : Serves(b, m) => At(l, "created") /\ b = launches[l].bot
       /\ At(l, "created") => launches[l].bot \in DOMAIN bots /\ Serves(launches[l].bot, m)

OwnersInv == \A l \in DOMAIN launches : Owner(l) => OwnerInv(l)

BotsInv ==
    /\ \A b, c \in DOMAIN bots :
         bots[b].answered /\ bots[c].answered /\ bots[b].meeting = bots[c].meeting => b = c
    /\ \A m \in DOMAIN meetings : meetings[m].bot # 0 => Serves(meetings[m].bot, m)
    /\ \A b \in DOMAIN bots : bots[b].answered /\ Present(b) => Accounted(bots[b].meeting)

\* The jobs of a row that is not completed were requested only before it was reopened.
JobsOf(row, fail) ==
    /\ row.asked > 1 => row.reopened
    /\ row.asked > 0 => row.reopened \/ row.status = "completed"
    /\ row.status = "completed" => row.asked > 0 \/ row.givenUp = "hand" \/ fail

JobsInv == \A m \in DOMAIN meetings : JobsOf(meetings[m], failed)

IInv == Types /\ Refs /\ AtMostOneLive /\ OwnersInv /\ BotsInv /\ JobsInv

-----------------------------------------------------------------------------
(***************************************************************************)
(* Sequences.                                                              *)
(***************************************************************************)
LEMMA Built ==
    ASSUME NEW S, NEW T, NEW s \in Seq(S), NEW t, t = [i \in DOMAIN s |-> t[i]],
           \A i \in DOMAIN s : t[i] \in T
    PROVE  t \in Seq(T) /\ Len(t) = Len(s) /\ DOMAIN t = DOMAIN s
OBVIOUS

LEMMA Narrowed ==
    ASSUME NEW S, NEW T, NEW s \in Seq(S), \A i \in DOMAIN s : s[i] \in T
    PROVE  s \in Seq(T)
OBVIOUS

LEMMA Updated ==
    ASSUME NEW S, NEW s \in Seq(S), NEW i \in DOMAIN s, NEW v \in S,
           NEW t, t = [s EXCEPT ![i] = v]
    PROVE  /\ t \in Seq(S) /\ Len(t) = Len(s) /\ DOMAIN t = DOMAIN s
           /\ t[i] = v /\ \A j \in DOMAIN s \ {i} : t[j] = s[j]
OBVIOUS

LEMMA Appended ==
    ASSUME NEW S, NEW s \in Seq(S), NEW v \in S, NEW t, t = Append(s, v)
    PROVE  /\ t \in Seq(S) /\ Len(t) = Len(s) + 1 /\ Len(s) \in Nat
           /\ DOMAIN s = 1..Len(s) /\ DOMAIN t = DOMAIN s \cup {Len(s) + 1}
           /\ t[Len(s) + 1] = v /\ \A j \in DOMAIN s : t[j] = s[j]
OBVIOUS

LEMMA Element ==
    ASSUME NEW S, NEW s \in Seq(S), NEW i \in DOMAIN s
    PROVE  s[i] \in S /\ i \in 1..Len(s) /\ i \in Nat \ {0}
OBVIOUS

-----------------------------------------------------------------------------
(***************************************************************************)
(* What the invariant gives.                                               *)
(***************************************************************************)
LEMMA Elements ==
    ASSUME Types
    PROVE  /\ \A l \in DOMAIN launches : launches[l] \in LaunchRec
           /\ \A m \in DOMAIN meetings : meetings[m] \in Row
           /\ \A b \in DOMAIN bots : bots[b] \in BotRec
           /\ Len(launches) \in Nat /\ DOMAIN launches = 1..Len(launches)
           /\ Len(meetings) \in Nat /\ DOMAIN meetings = 1..Len(meetings)
           /\ Len(bots) \in Nat /\ DOMAIN bots = 1..Len(bots)
<1>1. launches \in Seq(LaunchRec) /\ meetings \in Seq(Row) /\ bots \in Seq(BotRec)
  BY DEF Types
<1> QED
  BY <1>1

LEMMA TypeFollows == IInv => MeetingsTypeOK
<1> SUFFICES ASSUME IInv PROVE MeetingsTypeOK
  OBVIOUS
<1> DEFINE L == [event : CalEvent, start : Nat, stage : Stage,
                 meeting : 0..Len(meetings), bot : 0..Len(bots)]
           M == [event : CalEvent, status : Live \cup {"completed", "failed"},
                 bot : 0..Len(bots), age : 0..AgeCap, started : -1..AgeCap,
                 marked : BOOLEAN, asked : 0..2,
                 givenUp : {"no", "reaper", "hand"}, reopened : BOOLEAN]
           B == [meeting : 1..Len(meetings), age : 0..WaitLimit + MaxDuration,
                 phase : {"waiting", "in_call", "turned_away", "ended", "broken"},
                 answered : BOOLEAN]
<1>1. Types /\ Refs
  BY DEF IInv
<1>2. launches \in Seq(L)
  <2>1. ASSUME NEW l \in DOMAIN launches PROVE launches[l] \in L
    <3>1. launches[l] \in LaunchRec /\ launches[l].meeting \in 0..Len(meetings)
            /\ launches[l].bot \in 0..Len(bots)
      BY <1>1, Elements DEF Refs
    <3> QED
      BY <3>1 DEF LaunchRec
  <2> HIDE DEF L
  <2> QED
    BY <1>1, <2>1, Narrowed DEF Types
<1>3. meetings \in Seq(M)
  <2>1. ASSUME NEW m \in DOMAIN meetings PROVE meetings[m] \in M
    <3>1. meetings[m] \in Row /\ meetings[m].bot \in 0..Len(bots)
      BY <1>1, Elements DEF Refs
    <3> QED
      BY <3>1 DEF Row, Status
  <2> HIDE DEF M
  <2> QED
    BY <1>1, <2>1, Narrowed DEF Types
<1>4. bots \in Seq(B)
  <2>1. ASSUME NEW b \in DOMAIN bots PROVE bots[b] \in B
    <3>1. bots[b] \in BotRec /\ bots[b].meeting \in 1..Len(meetings)
      BY <1>1, Elements DEF Refs
    <3> QED
      BY <3>1 DEF BotRec, Phase
  <2> HIDE DEF B
  <2> QED
    BY <1>1, <2>1, Narrowed DEF Types
<1> QED
  BY <1>1, <1>2, <1>3, <1>4 DEF Types, MeetingsTypeOK

\* Two bots that are there and answered for have rows of their own; both rows are
\* live, which only one row is, or one was given up.
LEMMA OneBotFollows == IInv => OneBotPerMeeting
<1> SUFFICES ASSUME IInv, NEW b \in DOMAIN bots, NEW c \in DOMAIN bots, b # c,
                    Present(b), Present(c), bots[b].answered, bots[c].answered
             PROVE  \E m \in {bots[b].meeting, bots[c].meeting} : meetings[m].givenUp # "no"
  BY DEF OneBotPerMeeting
<1>1. bots[b].meeting # bots[c].meeting
  BY DEF IInv, BotsInv
<1>2. Accounted(bots[b].meeting) /\ Accounted(bots[c].meeting)
  BY DEF IInv, BotsInv
<1>3. bots[b].meeting \in DOMAIN meetings /\ bots[c].meeting \in DOMAIN meetings
  BY DEF IInv, Refs
<1> QED
  BY <1>1, <1>2, <1>3 DEF IInv, AtMostOneLive, Accounted

LEMMA JobsFollow == IInv => JobsRequestedOnce /\ CompletedIsProcessed
BY DEF IInv, JobsInv, JobsOf, JobsRequestedOnce, CompletedIsProcessed

LEMMA InitHolds == Init => IInv
<1> SUFFICES ASSUME Init PROVE IInv
  OBVIOUS
<1>1. Types
  <2>1. launches \in Seq(LaunchRec) /\ meetings \in Seq(Row) /\ bots \in Seq(BotRec)
    BY DEF Init
  <2>2. optin \in [CalEvent -> BOOLEAN] /\ startAt \in [CalEvent -> Nat]
    BY DEF Init
  <2>3. Len(meetings) <= MaxMeetings /\ Len(bots) <= MaxBots
    BY MeetingsAssumption DEF Init
  <2>4. left \in [Counted -> Nat] /\ failed \in BOOLEAN
    BY MeetingsAssumption DEF Init
  <2> QED
    BY <2>1, <2>2, <2>3, <2>4 DEF Types
<1>2. DOMAIN launches = {} /\ DOMAIN meetings = {} /\ DOMAIN bots = {}
  BY DEF Init
<1> QED
  BY <1>1, <1>2 DEF IInv, Refs, AtMostOneLive, OwnersInv, BotsInv, JobsInv

-----------------------------------------------------------------------------
(***************************************************************************)
(* Changes of one row, by the bots, the webhooks, the reaper and by hand.  *)
(***************************************************************************)
BudgetStep ==
    /\ left' \in [Counted -> Nat] /\ failed' \in BOOLEAN
    /\ failed => failed'

LEMMA Budgets ==
    ASSUME Types,
           \/ UNCHANGED budget \/ Fail \/ Change \/ Late
           \/ Happens("launches") /\ UNCHANGED failed
    PROVE  BudgetStep
<1>1. ASSUME NEW k \in Counted, Happens(k) PROVE left' \in [Counted -> Nat]
  BY <1>1 DEF Happens, Types
<1>2. {"launches", "changes", "late", "failures"} \subseteq Counted
  BY DEF Counted
<1>3. left \in [Counted -> Nat] /\ failed \in BOOLEAN
  BY DEF Types
<1> QED
  BY <1>1, <1>2, <1>3 DEF BudgetStep, budget, Fail, Change, Late

\* What a new row of m keeps of the invariant.
GoodRow(m, row) ==
    /\ row \in Row
    /\ row.bot = meetings[m].bot
    /\ meetings[m].givenUp # "no" => row.givenUp # "no"
    /\ row.status \in Live => \A n \in DOMAIN meetings \ {m} : ~IsLive(n)
    /\ \/ row.status \in Live
       \/ row.givenUp # "no"
       \/ /\ \A b \in DOMAIN bots : bots[b].answered /\ bots[b].meeting = m => ~Present(b)
          /\ \A l \in DOMAIN launches : Owner(l) => launches[l].meeting # m

LEMMA RowChange ==
    ASSUME IInv, NEW m \in DOMAIN meetings, NEW row, GoodRow(m, row),
           meetings' = [meetings EXCEPT ![m] = row],
           UNCHANGED <<optin, startAt, launches, bots>>,
           BudgetStep, JobsOf(row, failed')
    PROVE  IInv'
<1>1. /\ meetings' \in Seq(Row) /\ Len(meetings') = Len(meetings)
      /\ DOMAIN meetings' = DOMAIN meetings
      /\ meetings'[m] = row /\ \A n \in DOMAIN meetings \ {m} : meetings'[n] = meetings[n]
  BY Updated DEF IInv, Types, GoodRow
<1>2. Types'
  BY <1>1 DEF IInv, Types, BudgetStep
<1>3. \A n \in DOMAIN meetings : meetings'[n].bot = meetings[n].bot
  BY <1>1 DEF GoodRow
<1>4. Refs'
  BY <1>1, <1>3 DEF IInv, Refs
<1>5. AtMostOneLive'
  BY <1>1 DEF IInv, AtMostOneLive, IsLive, GoodRow
<1>6. \A n \in DOMAIN meetings :
         Accounted(n) =>
            \/ Accounted(n)'
            \/ /\ \A b \in DOMAIN bots : bots[b].answered /\ bots[b].meeting = n => ~Present(b)
               /\ \A l \in DOMAIN launches : Owner(l) => launches[l].meeting # n
  BY <1>1 DEF GoodRow, Accounted, IsLive
<1>7. OwnersInv'
  <2> SUFFICES ASSUME NEW l \in DOMAIN launches, Owner(l) PROVE OwnerInv(l)'
    BY DEF OwnersInv, Owner
  <2>1. OwnerInv(l)
    BY DEF IInv, OwnersInv
  <2>2. Accounted(launches[l].meeting)'
    BY <1>6, <2>1 DEF OwnerInv
  <2> QED
    BY <1>1, <1>3, <2>1, <2>2 DEF OwnerInv, Owner, Serves, At
<1>8. BotsInv'
  BY <1>1, <1>3, <1>6 DEF IInv, BotsInv, Serves, Present, Refs
<1>9. JobsInv'
  BY <1>1 DEF IInv, JobsInv, JobsOf, BudgetStep
<1> QED
  BY <1>2, <1>4, <1>5, <1>7, <1>8, <1>9 DEF IInv

LEMMA AgeCapNat == AgeCap \in Nat \ {0}
BY MeetingsAssumption DEF AgeCap, ReapAfter

LEMMA LimitsNat == WaitLimit \in Nat /\ MaxDuration \in Nat /\ 0 \in 0..WaitLimit + MaxDuration
<1>1. WaitLimit \in Nat /\ MaxDuration \in Nat
  BY MeetingsAssumption
<1> QED
  BY <1>1

\* Overwriting the status of a row, and dropping its runtime or asking for its jobs.
LEMMA MovedRow ==
    ASSUME Types, NEW m \in DOMAIN meetings, NEW new \in Status
    PROVE  /\ Moved(m, new) \in Row
           /\ Moved(m, new) = [meetings[m] EXCEPT !.status = new,
                                                  !.reopened = Moved(m, new).reopened]
           /\ Moved(m, new).reopened =
                (meetings[m].reopened \/ (meetings[m].status = "completed" /\ new # "completed"))
<1>1. meetings[m] \in Row
  BY Elements
<1> QED
  BY <1>1 DEF Moved, Row

LEMMA ToldRow ==
    ASSUME NEW row \in Row, NEW told \in NotifyEnd(row)
    PROVE  /\ told \in Row /\ Asked(told) \in Row
           /\ Asked(told) = [told EXCEPT !.asked = Asked(told).asked]
           /\ Asked(told).asked > 0
           /\ Asked(told).asked > 1 => row.asked > 0
           /\ told.asked = row.asked /\ told.status = row.status /\ told.bot = row.bot
           /\ told.givenUp = row.givenUp /\ told.reopened = row.reopened
<1>1. PICK x \in BOOLEAN : told = [row EXCEPT !.marked = x]
  BY DEF NotifyEnd, Row
<1>2. PICK n \in 0..2 : /\ Asked(told) = [told EXCEPT !.asked = n]
                        /\ n > 0 /\ (n > 1 => row.asked > 0)
  <2>1. told.asked = row.asked /\ row.asked \in 0..2
    BY <1>1 DEF Row
  <2> DEFINE n == IF told.asked < 2 THEN told.asked + 1 ELSE told.asked
  <2>2. n \in 0..2 /\ n > 0 /\ (n > 1 => row.asked > 0)
    BY <2>1
  <2>3. Asked(told) = [told EXCEPT !.asked = n]
    BY DEF Asked
  <2> QED
    BY <2>2, <2>3
<1>3. told \in Row /\ told.asked = row.asked /\ told.status = row.status
      /\ told.bot = row.bot /\ told.givenUp = row.givenUp /\ told.reopened = row.reopened
  BY <1>1 DEF Row
<1>4. Asked(told) \in Row /\ Asked(told).asked = n
  BY <1>2, <1>3 DEF Row
<1> QED
  BY <1>2, <1>3, <1>4

LEMMA CompletedHolds ==
    ASSUME IInv, NEW m \in DOMAIN meetings, NEW row, GoodRow(m, row),
           row.status = "completed", row.asked > 0 => row.reopened,
           Completed(m, row), UNCHANGED <<optin, startAt, launches, bots>>
    PROVE  IInv'
<1>1. PICK told \in NotifyEnd(row) :
         \/ meetings' = [meetings EXCEPT ![m] = Asked(told)] /\ UNCHANGED budget
         \/ meetings' = [meetings EXCEPT ![m] = told] /\ Fail
  BY DEF Completed
<1>2. row \in Row
  BY DEF GoodRow
<1>3. BudgetStep
  BY <1>1, Budgets DEF IInv
<1>4. /\ told \in Row /\ told.asked = row.asked /\ told.status = row.status
      /\ told.bot = row.bot /\ told.givenUp = row.givenUp /\ told.reopened = row.reopened
  BY <1>2, ToldRow
<1>5. GoodRow(m, told)
  BY <1>4 DEF GoodRow
<1>6. CASE meetings' = [meetings EXCEPT ![m] = Asked(told)]
  <2>1. /\ Asked(told) \in Row /\ Asked(told).asked > 0
        /\ Asked(told).asked > 1 => row.asked > 0
        /\ Asked(told) = [told EXCEPT !.asked = Asked(told).asked]
    BY <1>2, ToldRow
  <2>2. /\ Asked(told).status = told.status /\ Asked(told).bot = told.bot
        /\ Asked(told).givenUp = told.givenUp /\ Asked(told).reopened = told.reopened
    BY <1>4, <2>1 DEF Row
  <2>3. GoodRow(m, Asked(told))
    BY <1>5, <2>1, <2>2 DEF GoodRow
  <2>4. JobsOf(Asked(told), failed')
    BY <1>4, <2>1, <2>2 DEF JobsOf
  <2> QED
    BY <1>3, <1>6, <2>3, <2>4, RowChange
<1>7. CASE meetings' = [meetings EXCEPT ![m] = told] /\ Fail
  <2>1. JobsOf(told, failed')
    <3>1. told.asked > 1 => told.asked > 0
      BY <1>4 DEF Row
    <3> QED
      BY <1>4, <1>7, <3>1 DEF JobsOf, Fail
  <2> QED
    BY <1>3, <1>5, <1>7, <2>1, RowChange
<1> QED
  BY <1>1, <1>6, <1>7

\* A row that keeps its bot and is live or given up afterwards is good, if it was
\* live before.
LEMMA StillAccounted ==
    ASSUME IInv, NEW m \in DOMAIN meetings, NEW row \in Row,
           row.bot = meetings[m].bot,
           meetings[m].givenUp # "no" => row.givenUp # "no",
           row.status \in Live => IsLive(m),
           IsLive(m) => row.status \in Live \/ row.givenUp # "no"
    PROVE  GoodRow(m, row)
<1>1. row.status \in Live => \A n \in DOMAIN meetings \ {m} : ~IsLive(n)
  BY DEF IInv, AtMostOneLive
<1>2. CASE Accounted(m)
  BY <1>1, <1>2 DEF Accounted, GoodRow
<1>3. CASE ~Accounted(m)
  <2>1. \A b \in DOMAIN bots : bots[b].answered /\ bots[b].meeting = m => ~Present(b)
    BY <1>3 DEF IInv, BotsInv
  <2>2. \A l \in DOMAIN launches : Owner(l) => launches[l].meeting # m
    BY <1>3 DEF IInv, OwnersInv, OwnerInv
  <2> QED
    BY <1>1, <2>1, <2>2 DEF GoodRow
<1> QED
  BY <1>2, <1>3

LEMMA FirstUtteranceHolds ==
    ASSUME IInv, NEW b \in DOMAIN bots, FirstUtterance(b)
    PROVE  IInv'
<1> DEFINE m == bots[b].meeting
           quiet == [meetings[m] EXCEPT !.marked = TRUE]
           heard == [meetings[m] EXCEPT !.marked = TRUE, !.status = "recording",
                                        !.started = 0]
<1>1. m \in DOMAIN meetings
  BY DEF IInv, Refs
<1>2. meetings[m] \in Row /\ JobsOf(meetings[m], failed)
  BY <1>1, Elements DEF IInv, JobsInv
<1>3. BudgetStep
  BY Budgets DEF IInv, FirstUtterance
<1>4. \/ meetings' = [meetings EXCEPT ![m] = quiet]
      \/ meetings' = [meetings EXCEPT ![m] = heard] /\ meetings[m].status \in PreRecording
  BY <1>1 DEF FirstUtterance
<1>5. quiet \in Row /\ quiet.status = meetings[m].status /\ quiet.bot = meetings[m].bot
      /\ quiet.givenUp = meetings[m].givenUp /\ quiet.asked = meetings[m].asked
      /\ quiet.reopened = meetings[m].reopened
  BY <1>2 DEF Row
<1>6. heard \in Row /\ heard.status = "recording" /\ heard.bot = meetings[m].bot
      /\ heard.givenUp = meetings[m].givenUp /\ heard.asked = meetings[m].asked
      /\ heard.reopened = meetings[m].reopened
  <2>1. "recording" \in Status /\ 0 \in -1..AgeCap
    BY AgeCapNat DEF Status, Live
  <2> QED
    BY <1>2, <2>1 DEF Row
<1>7. CASE meetings' = [meetings EXCEPT ![m] = quiet]
  <2>1. GoodRow(m, quiet)
    BY <1>1, <1>5, StillAccounted DEF IsLive
  <2>2. JobsOf(quiet, failed')
    BY <1>2, <1>3, <1>5 DEF JobsOf, BudgetStep
  <2> HIDE DEF quiet, m
  <2> QED
    BY <1>1, <1>3, <1>7, <2>1, <2>2, RowChange DEF FirstUtterance
<1>8. CASE meetings' = [meetings EXCEPT ![m] = heard] /\ meetings[m].status \in PreRecording
  <2>1. IsLive(m) /\ heard.status \in Live /\ meetings[m].status # "completed"
    BY <1>6, <1>8 DEF IsLive, PreRecording, Live
  <2>2. GoodRow(m, heard)
    BY <1>1, <1>6, <2>1, StillAccounted
  <2>3. JobsOf(heard, failed')
    BY <1>2, <1>3, <1>6, <2>1 DEF JobsOf, BudgetStep
  <2> HIDE DEF heard, m
  <2> QED
    BY <1>1, <1>3, <1>8, <2>2, <2>3, RowChange DEF FirstUtterance
<1> QED
  BY <1>4, <1>7, <1>8

LEMMA ReapRecordingHolds ==
    ASSUME IInv, NEW m \in DOMAIN meetings, ReapRecording(m)
    PROVE  IInv'
<1> DEFINE row == [meetings[m] EXCEPT !.status = "completed", !.givenUp = "reaper"]
<1>1. meetings[m] \in Row /\ JobsOf(meetings[m], failed) /\ meetings[m].status = "recording"
  BY Elements DEF IInv, JobsInv, ReapRecording
<1>2. row \in Row /\ row.status = "completed" /\ row.givenUp = "reaper"
      /\ row.bot = meetings[m].bot /\ row.asked = meetings[m].asked
      /\ row.reopened = meetings[m].reopened
  BY <1>1 DEF Row, Status
<1>3. GoodRow(m, row)
  BY <1>2, StillAccounted DEF Live
<1>4. row.asked > 0 => row.reopened
  BY <1>1, <1>2 DEF JobsOf
<1> HIDE DEF row
<1>5. Completed(m, row)
  BY DEF ReapRecording, row
<1> QED
  BY <1>2, <1>3, <1>4, <1>5, CompletedHolds DEF ReapRecording

LEMMA ReapPrelaunchHolds ==
    ASSUME IInv, NEW m \in DOMAIN meetings, ReapPrelaunch(m)
    PROVE  IInv'
<1> DEFINE row == [meetings[m] EXCEPT !.status = "failed", !.givenUp = "reaper"]
<1>1. meetings[m] \in Row /\ JobsOf(meetings[m], failed) /\ meetings[m].status # "completed"
  BY Elements DEF IInv, JobsInv, ReapPrelaunch, PreRecording, Live
<1>2. row \in Row /\ row.status = "failed" /\ row.givenUp = "reaper"
      /\ row.bot = meetings[m].bot /\ row.asked = meetings[m].asked
      /\ row.reopened = meetings[m].reopened
  BY <1>1 DEF Row, Status
<1>3. GoodRow(m, row)
  BY <1>2, StillAccounted DEF Live
<1>4. BudgetStep
  BY Budgets DEF IInv, ReapPrelaunch
<1>5. JobsOf(row, failed')
  BY <1>1, <1>2 DEF JobsOf
<1>6. meetings' = [meetings EXCEPT ![m] = row]
  BY <1>1 DEF ReapPrelaunch, Row
<1> HIDE DEF row
<1> QED
  BY <1>3, <1>4, <1>5, <1>6, RowChange DEF ReapPrelaunch

LEMMA EndNowHolds ==
    ASSUME IInv, NEW m \in DOMAIN meetings, EndNow(m)
    PROVE  IInv'
<1> DEFINE row == [meetings[m] EXCEPT !.status = "completed", !.givenUp = "hand"]
<1>1. meetings[m] \in Row /\ JobsOf(meetings[m], failed) /\ meetings[m].status = "recording"
  BY Elements DEF IInv, JobsInv, EndNow
<1>2. row \in Row /\ row.status = "completed" /\ row.givenUp = "hand"
      /\ row.bot = meetings[m].bot /\ row.asked = meetings[m].asked
      /\ row.reopened = meetings[m].reopened
  BY <1>1 DEF Row, Status
<1>3. PICK told \in NotifyEnd(row) : meetings' = [meetings EXCEPT ![m] = told]
  BY DEF EndNow
<1>4. /\ told \in Row /\ told.asked = row.asked /\ told.status = row.status
      /\ told.bot = row.bot /\ told.givenUp = row.givenUp /\ told.reopened = row.reopened
  BY <1>2, ToldRow
<1>5. GoodRow(m, told)
  BY <1>2, <1>4, StillAccounted DEF Live
<1>6. BudgetStep
  BY Budgets DEF IInv, EndNow
<1>7. JobsOf(told, failed')
  BY <1>1, <1>2, <1>4 DEF JobsOf
<1> QED
  BY <1>3, <1>5, <1>6, <1>7, RowChange DEF EndNow

\* What a webhook reports last is live, or the bot is gone.
LEMMA Reports ==
    ASSUME NEW b, bots[b].phase \in Phase, NEW i \in DOMAIN Reported(b)
    PROVE  /\ Reported(b)[i] \in Status
           /\ i < Len(Reported(b)) => Reported(b)[i] \in Live
           /\ Reported(b)[i] \in Live \/ ~Present(b)
<1>1. CASE bots[b].phase = "waiting"
  BY <1>1 DEF Reported, Status, Live
<1>2. CASE bots[b].phase = "in_call"
  BY <1>2 DEF Reported, Status, Live
<1>3. CASE bots[b].phase = "turned_away"
  BY <1>3 DEF Reported, Status, Live, Present
<1>4. CASE bots[b].phase = "broken"
  BY <1>4 DEF Reported, Status, Live, Present
<1>5. CASE bots[b].phase = "ended"
  BY <1>5 DEF Reported, Status, Live, Present
<1> QED
  BY <1>1, <1>2, <1>3, <1>4, <1>5 DEF Phase

\* A bot is known to its row only once its launch is over, and it is the only one
\* that was answered for: the row it reports gone has no other.
LEMMA WebhookHolds ==
    ASSUME IInv, NEW b \in DOMAIN bots, Webhook(b)
    PROVE  IInv'
<1>1. PICK i \in DOMAIN Reported(b), m \in DOMAIN meetings :
         LET new == Reported(b)[i]
         IN /\ meetings[m].bot = b
            /\ Transitions(m, new) /\ ~Conflict(m, meetings[m].event, new)
            /\ IF i < Len(Reported(b))
               THEN meetings' = [meetings EXCEPT ![m] = Moved(m, new)] /\ Late
               ELSE IF new = "completed" THEN Completed(m, Moved(m, new))
               ELSE meetings' = [meetings EXCEPT ![m] = Moved(m, new)] /\ UNCHANGED budget
            /\ UNCHANGED <<optin, startAt, launches, bots>>
  BY DEF Webhook
<1> DEFINE new == Reported(b)[i]
           row == Moved(m, new)
<1>2. /\ meetings[m] \in Row /\ JobsOf(meetings[m], failed)
      /\ bots[b] \in BotRec /\ b \in Nat \ {0}
  BY Elements DEF IInv, JobsInv
<1>3. /\ new \in Status /\ (i < Len(Reported(b)) => new \in Live)
      /\ new \in Live \/ ~Present(b)
  BY <1>2, Reports DEF BotRec
<1>4. /\ row \in Row
      /\ row = [meetings[m] EXCEPT !.status = new, !.reopened = row.reopened]
      /\ row.reopened =
            (meetings[m].reopened \/ (meetings[m].status = "completed" /\ new # "completed"))
  BY <1>3, MovedRow DEF IInv
<1> HIDE DEF row
<1>5. row.status = new /\ row.bot = meetings[m].bot /\ row.givenUp = meetings[m].givenUp
      /\ row.asked = meetings[m].asked
  BY <1>2, <1>4 DEF Row
<1>6. Serves(b, m)
  BY <1>1, <1>2 DEF IInv, BotsInv
<1>7. \A c \in DOMAIN bots : bots[c].answered /\ bots[c].meeting = m => c = b
  BY <1>6 DEF IInv, BotsInv, Serves
<1>8. \A l \in DOMAIN launches : Owner(l) => launches[l].meeting # m
  BY <1>1, <1>2 DEF IInv, OwnersInv, OwnerInv
<1>9. new \in Live => \A n \in DOMAIN meetings \ {m} : ~IsLive(n)
  BY <1>1 DEF Conflict
<1>10. GoodRow(m, row)
  BY <1>3, <1>4, <1>5, <1>7, <1>8, <1>9 DEF GoodRow
<1>11. meetings[m].status # new
  BY <1>1 DEF Transitions
<1>12. CASE new = "completed"
  <2>1. row.asked > 0 => row.reopened
    BY <1>2, <1>4, <1>5, <1>11, <1>12 DEF JobsOf
  <2>2. ~(i < Len(Reported(b)))
    BY <1>3, <1>12 DEF Live
  <2>3. Completed(m, row)
    BY <1>1, <1>12, <2>2 DEF row
  <2> QED
    BY <1>1, <1>5, <1>10, <1>12, <2>1, <2>3, CompletedHolds
<1>13. CASE new # "completed"
  <2>1. meetings' = [meetings EXCEPT ![m] = row] /\ (Late \/ UNCHANGED budget)
    BY <1>1, <1>13 DEF row
  <2>2. BudgetStep
    BY <2>1, Budgets DEF IInv
  <2>3. JobsOf(row, failed')
    BY <1>2, <1>4, <1>5, <1>13 DEF JobsOf
  <2> QED
    BY <1>1, <1>10, <2>1, <2>2, <2>3, RowChange
<1> QED
  BY <1>12, <1>13

-----------------------------------------------------------------------------
(***************************************************************************)
(* Time, the worker, and the comings and goings of bots.                   *)
(***************************************************************************)
LEMMA Drift ==
    ASSUME IInv, BudgetStep, UNCHANGED <<optin, startAt, launches>>,
           meetings' \in Seq(Row), Len(meetings') = Len(meetings),
           DOMAIN meetings' = DOMAIN meetings,
           \A m \in DOMAIN meetings :
              /\ meetings'[m].status = meetings[m].status
              /\ meetings'[m].bot = meetings[m].bot
              /\ meetings'[m].givenUp = meetings[m].givenUp
              /\ meetings'[m].asked = meetings[m].asked
              /\ meetings'[m].reopened = meetings[m].reopened,
           bots' \in Seq(BotRec), Len(bots') = Len(bots), DOMAIN bots' = DOMAIN bots,
           \A b \in DOMAIN bots :
              /\ bots'[b].meeting = bots[b].meeting
              /\ bots'[b].answered = bots[b].answered
              /\ Present(b)' => Present(b)
    PROVE  IInv'
<1>1. Types'
  BY DEF IInv, Types, BudgetStep
<1>2. Refs'
  BY DEF IInv, Refs
<1>3. AtMostOneLive'
  BY DEF IInv, AtMostOneLive, IsLive
<1>4. \A m \in DOMAIN meetings : Accounted(m) => Accounted(m)'
  BY DEF Accounted, IsLive
<1>5. OwnersInv'
  <2> SUFFICES ASSUME NEW l \in DOMAIN launches, Owner(l) PROVE OwnerInv(l)'
    BY DEF OwnersInv, Owner
  <2>1. OwnerInv(l)
    BY DEF IInv, OwnersInv
  <2> QED
    BY <1>4, <2>1 DEF OwnerInv, Owner, Serves, At
<1>6. BotsInv'
  <2>1. \A m \in DOMAIN meetings : meetings[m].bot # 0 =>
            meetings[m].bot \in DOMAIN bots /\ Serves(meetings[m].bot, m)
    BY Elements DEF IInv, BotsInv, Refs
  <2>2. \A b \in DOMAIN bots : bots[b].meeting \in DOMAIN meetings
    BY DEF IInv, Refs
  <2>3. BotsInv
    BY DEF IInv
  <2>4. \A b, c \in DOMAIN bots' :
           bots'[b].answered /\ bots'[c].answered /\ bots'[b].meeting = bots'[c].meeting
             => b = c
    BY <2>3 DEF BotsInv
  <2>5. \A m \in DOMAIN meetings' : meetings'[m].bot # 0 => Serves(meetings[m].bot, m)'
    BY <2>1 DEF Serves
  <2>6. \A b \in DOMAIN bots' :
           bots'[b].answered /\ Present(b)' => Accounted(bots[b].meeting)'
    BY <1>4, <2>2, <2>3 DEF BotsInv, Accounted, IsLive
  <2> QED
    BY <2>4, <2>5, <2>6 DEF BotsInv
<1>7. JobsInv'
  BY DEF IInv, JobsInv, JobsOf, BudgetStep
<1> QED
  BY <1>1, <1>2, <1>3, <1>5, <1>6, <1>7 DEF IInv

LEMMA BotChange ==
    ASSUME IInv, NEW b \in DOMAIN bots, NEW rec \in BotRec,
           rec.meeting = bots[b].meeting, rec.answered = bots[b].answered, Present(b),
           bots' = [bots EXCEPT ![b] = rec],
           UNCHANGED <<optin, startAt, launches, meetings, budget>>
    PROVE  IInv'
<1>1. /\ bots' \in Seq(BotRec) /\ Len(bots') = Len(bots) /\ DOMAIN bots' = DOMAIN bots
      /\ bots'[b] = rec /\ \A c \in DOMAIN bots \ {b} : bots'[c] = bots[c]
  BY Updated DEF IInv, Types
<1>2. \A c \in DOMAIN bots : /\ bots'[c].meeting = bots[c].meeting
                             /\ bots'[c].answered = bots[c].answered
                             /\ Present(c)' => Present(c)
  BY <1>1 DEF Present
<1>3. BudgetStep
  BY Budgets DEF IInv
<1> QED
  BY <1>1, <1>2, <1>3, Drift DEF IInv, Types

\* A bot that is there goes into another phase.
LEMMA BotMoves ==
    ASSUME IInv, NEW b \in DOMAIN bots, NEW phase \in Phase, Present(b),
           bots' = [bots EXCEPT ![b].phase = phase, ![b].age = 0],
           UNCHANGED <<optin, startAt, launches, meetings, budget>>
    PROVE  IInv'
<1> DEFINE rec == [bots[b] EXCEPT !.phase = phase, !.age = 0]
<1>1. bots[b] \in BotRec
  BY Elements DEF IInv
<1>2. rec \in BotRec /\ rec.meeting = bots[b].meeting /\ rec.answered = bots[b].answered
  BY <1>1, LimitsNat DEF BotRec
<1>3. bots' = [bots EXCEPT ![b] = rec]
  BY <1>1 DEF BotRec
<1> HIDE DEF rec
<1> QED
  BY <1>2, <1>3, BotChange

LEMMA WorkerRestartsHolds ==
    ASSUME IInv, WorkerRestarts
    PROVE  IInv'
<1>1. \A m \in DOMAIN meetings :
         LET row == [meetings[m] EXCEPT !.marked = FALSE]
         IN /\ row \in Row /\ row.status = meetings[m].status /\ row.bot = meetings[m].bot
            /\ row.givenUp = meetings[m].givenUp /\ row.asked = meetings[m].asked
            /\ row.reopened = meetings[m].reopened
  <2> SUFFICES ASSUME NEW m \in DOMAIN meetings
               PROVE  LET row == [meetings[m] EXCEPT !.marked = FALSE]
                      IN /\ row \in Row /\ row.status = meetings[m].status
                         /\ row.bot = meetings[m].bot /\ row.givenUp = meetings[m].givenUp
                         /\ row.asked = meetings[m].asked
                         /\ row.reopened = meetings[m].reopened
    OBVIOUS
  <2>1. meetings[m] \in Row
    BY Elements DEF IInv
  <2> QED
    BY <2>1 DEF Row
<1>2. /\ meetings \in Seq(Row) /\ \A m \in DOMAIN meetings : meetings'[m] \in Row
      /\ DOMAIN meetings' = DOMAIN meetings
      /\ meetings' = [m \in DOMAIN meetings |-> meetings'[m]]
  BY <1>1 DEF WorkerRestarts, IInv, Types
<1>3. meetings' \in Seq(Row) /\ Len(meetings') = Len(meetings)
  BY <1>2, Built
<1>4. BudgetStep
  BY Budgets DEF IInv, WorkerRestarts
<1>5. bots \in Seq(BotRec) /\ \A b \in DOMAIN bots : Present(b)' => Present(b)
  BY DEF IInv, Types, WorkerRestarts, Present
<1>6. \A m \in DOMAIN meetings :
         /\ meetings'[m].status = meetings[m].status
         /\ meetings'[m].bot = meetings[m].bot
         /\ meetings'[m].givenUp = meetings[m].givenUp
         /\ meetings'[m].asked = meetings[m].asked
         /\ meetings'[m].reopened = meetings[m].reopened
  BY <1>1 DEF WorkerRestarts
<1> QED
  BY <1>2, <1>3, <1>4, <1>5, <1>6, Drift DEF WorkerRestarts

LEMMA TickHolds ==
    ASSUME IInv, Tick
    PROVE  IInv'
<1>1. \A m \in DOMAIN meetings :
         /\ meetings'[m] \in Row
         /\ meetings'[m].status = meetings[m].status
         /\ meetings'[m].bot = meetings[m].bot
         /\ meetings'[m].givenUp = meetings[m].givenUp
         /\ meetings'[m].asked = meetings[m].asked
         /\ meetings'[m].reopened = meetings[m].reopened
  <2> SUFFICES ASSUME NEW m \in DOMAIN meetings
               PROVE  /\ meetings'[m] \in Row
                      /\ meetings'[m].status = meetings[m].status
                      /\ meetings'[m].bot = meetings[m].bot
                      /\ meetings'[m].givenUp = meetings[m].givenUp
                      /\ meetings'[m].asked = meetings[m].asked
                      /\ meetings'[m].reopened = meetings[m].reopened
    OBVIOUS
  <2>1. meetings[m] \in Row
    BY Elements DEF IInv
  <2>2. PICK a \in 0..AgeCap, s \in -1..AgeCap :
            meetings'[m] = [meetings[m] EXCEPT !.age = a, !.started = s]
    <3>1. meetings[m].age \in 0..AgeCap /\ meetings[m].started \in -1..AgeCap
      BY <2>1 DEF Row
    <3>2. meetings'[m] = [meetings[m] EXCEPT !.age = Older(@),
                                             !.started = IF @ < 0 THEN @ ELSE Older(@)]
      BY DEF Tick
    <3>3. Older(meetings[m].age) \in 0..AgeCap
      BY <3>1, AgeCapNat DEF Older
    <3>4. (IF meetings[m].started < 0 THEN meetings[m].started
           ELSE Older(meetings[m].started)) \in -1..AgeCap
      BY <3>1, AgeCapNat DEF Older
    <3> QED
      BY <3>2, <3>3, <3>4
  <2> QED
    BY <2>1, <2>2 DEF Row
<1>2. \A b \in DOMAIN bots :
         /\ bots'[b] \in BotRec
         /\ bots'[b].meeting = bots[b].meeting
         /\ bots'[b].answered = bots[b].answered
         /\ bots'[b].phase = bots[b].phase
  <2> SUFFICES ASSUME NEW b \in DOMAIN bots
               PROVE  /\ bots'[b] \in BotRec
                      /\ bots'[b].meeting = bots[b].meeting
                      /\ bots'[b].answered = bots[b].answered
                      /\ bots'[b].phase = bots[b].phase
    OBVIOUS
  <2>1. bots[b] \in BotRec
    BY Elements DEF IInv
  <2>2. PICK a \in 0..WaitLimit + MaxDuration : bots'[b] = [bots[b] EXCEPT !.age = a]
    <3>1. bots[b].age \in 0..WaitLimit + MaxDuration
      BY <2>1 DEF BotRec
    <3>2. bots'[b] = [bots[b] EXCEPT !.age = IF Present(b) THEN @ + 1 ELSE @]
      BY DEF Tick
    <3>3. Present(b) => bots[b].age + 1 \in 0..WaitLimit + MaxDuration
      <4>1. /\ bots[b].phase = "waiting" => bots[b].age < WaitLimit
            /\ bots[b].phase = "in_call" => bots[b].age < MaxDuration
        BY DEF Tick
      <4> QED
        BY <3>1, <4>1, LimitsNat DEF Present
    <3> QED
      BY <3>1, <3>2, <3>3
  <2> QED
    BY <2>1, <2>2 DEF BotRec
<1>3. /\ meetings \in Seq(Row) /\ DOMAIN meetings' = DOMAIN meetings
      /\ meetings' = [m \in DOMAIN meetings |-> meetings'[m]]
  BY DEF Tick, IInv, Types
<1>4. /\ bots \in Seq(BotRec) /\ DOMAIN bots' = DOMAIN bots
      /\ bots' = [b \in DOMAIN bots |-> bots'[b]]
  BY DEF Tick, IInv, Types
<1>5. meetings' \in Seq(Row) /\ Len(meetings') = Len(meetings)
  BY <1>1, <1>3, Built
<1>6. bots' \in Seq(BotRec) /\ Len(bots') = Len(bots)
  BY <1>2, <1>4, Built
<1>7. BudgetStep
  BY Budgets DEF IInv, Tick
<1>8. \A b \in DOMAIN bots : Present(b)' => Present(b)
  BY <1>2 DEF Present
<1> QED
  BY <1>1, <1>2, <1>3, <1>4, <1>5, <1>6, <1>7, <1>8, Drift DEF Tick

LEMMA AdmittedHolds ==
    ASSUME IInv, NEW b \in DOMAIN bots, Admitted(b)
    PROVE  IInv'
BY BotMoves DEF Admitted, Present, Phase

LEMMA LeavesHolds ==
    ASSUME IInv, NEW b \in DOMAIN bots, Leaves(b)
    PROVE  IInv'
<1>1. PICK gone \in Phase : bots' = [bots EXCEPT ![b].phase = gone, ![b].age = 0]
  BY DEF Leaves, Phase
<1> QED
  BY <1>1, BotMoves DEF Leaves

-----------------------------------------------------------------------------
(***************************************************************************)
(* Steps of a launch run.                                                  *)
(***************************************************************************)
\* A run moves on without a row, or is refused a bot for its row.
LEMMA LaunchChange ==
    ASSUME IInv, BudgetStep, NEW l \in DOMAIN launches, NEW rec \in LaunchRec,
           rec.meeting \in 0..Len(meetings), rec.bot \in 0..Len(bots),
           \/ rec.stage \notin Owning
           \/ /\ At(l, "creating") /\ rec.stage = "refused"
              /\ rec.meeting = launches[l].meeting,
           launches' = [launches EXCEPT ![l] = rec],
           UNCHANGED <<optin, startAt, meetings, bots>>
    PROVE  IInv'
<1>1. /\ launches' \in Seq(LaunchRec) /\ DOMAIN launches' = DOMAIN launches
      /\ launches'[l] = rec /\ \A k \in DOMAIN launches \ {l} : launches'[k] = launches[k]
  BY Updated DEF IInv, Types
<1>2. Types'
  BY <1>1 DEF IInv, Types, BudgetStep
<1>3. Refs'
  BY <1>1 DEF IInv, Refs
<1>4. AtMostOneLive'
  BY DEF IInv, AtMostOneLive, IsLive
<1>5. OwnersInv'
  <2> SUFFICES ASSUME NEW k \in DOMAIN launches, Owner(k)' PROVE OwnerInv(k)'
    BY <1>1 DEF OwnersInv
  <2>1. \A j \in DOMAIN launches :
           Owner(j)' => Owner(j) /\ launches'[j].meeting = launches[j].meeting
    BY <1>1 DEF Owner, Owning, At
  <2>2. OwnerInv(k)
    BY <2>1 DEF IInv, OwnersInv
  <2>3. \A b \in DOMAIN bots : Serves(b, launches[k].meeting) => k # l
    BY <1>1, <2>2 DEF OwnerInv, At, Owner, Owning
  <2>4. launches'[k].stage = "created" => k # l
    BY <1>1 DEF Owning
  <2>5. k # l => launches'[k] = launches[k]
    BY <1>1
  <2> QED
    BY <1>1, <2>1, <2>2, <2>3, <2>4, <2>5
    DEF OwnerInv, Accounted, IsLive, Serves, At
<1>6. BotsInv'
  BY DEF IInv, BotsInv, Serves, Present, Accounted, IsLive
<1>7. JobsInv'
  BY DEF IInv, JobsInv, JobsOf, BudgetStep
<1> QED
  BY <1>2, <1>3, <1>4, <1>5, <1>6, <1>7 DEF IInv

LEMMA OverHolds ==
    ASSUME IInv, BudgetStep, NEW l \in DOMAIN launches, Over(l),
           UNCHANGED <<optin, startAt, meetings, bots>>
    PROVE  IInv'
<1> DEFINE rec == [launches[l] EXCEPT !.stage = "over", !.meeting = 0, !.bot = 0]
<1>1. launches[l] \in LaunchRec /\ Len(meetings) \in Nat /\ Len(bots) \in Nat
  BY Elements DEF IInv
<1>2. /\ rec \in LaunchRec /\ rec.stage = "over" /\ rec.meeting \in 0..Len(meetings)
      /\ rec.bot \in 0..Len(bots)
  <2>1. "over" \in Stage /\ 0 \in 0..Len(meetings) /\ 0 \in 0..Len(bots)
    BY <1>1 DEF Stage
  <2> QED
    BY <1>1, <2>1 DEF LaunchRec
<1>3. launches' = [launches EXCEPT ![l] = rec]
  BY DEF Over
<1> HIDE DEF rec
<1> QED
  BY <1>2, <1>3, LaunchChange DEF Owning

LEMMA GoesHolds ==
    ASSUME IInv, BudgetStep, NEW l \in DOMAIN launches, NEW stage \in Stage,
           stage \notin Owning \/ (stage = "refused" /\ At(l, "creating")),
           Goes(l, stage), UNCHANGED <<optin, startAt, meetings, bots>>
    PROVE  IInv'
<1> DEFINE rec == [launches[l] EXCEPT !.stage = stage]
<1>1. /\ launches[l] \in LaunchRec
      /\ launches[l].meeting \in 0..Len(meetings) /\ launches[l].bot \in 0..Len(bots)
  BY Elements DEF IInv, Refs
<1>2. /\ rec \in LaunchRec /\ rec.stage = stage /\ rec.meeting = launches[l].meeting
      /\ rec.bot = launches[l].bot
  BY <1>1 DEF LaunchRec
<1>3. launches' = [launches EXCEPT ![l] = rec]
  BY DEF Goes
<1> HIDE DEF rec
<1> QED
  BY <1>1, <1>2, <1>3, LaunchChange

LEMMA LookingHolds ==
    ASSUME IInv, NEW l \in DOMAIN launches,
           Reload(l) \/ Lookup(l) \/ InsertConflicts(l) \/ LaunchDies(l)
    PROVE  IInv'
<1>1. BudgetStep
  BY Budgets DEF IInv, Reload, Lookup, InsertConflicts, LaunchDies
<1>2. UNCHANGED <<optin, startAt, meetings, bots>>
  BY DEF Reload, Lookup, InsertConflicts, LaunchDies
<1>3. Over(l) \/ Goes(l, "looking") \/ Goes(l, "inserting")
  BY DEF Reload, Lookup, InsertConflicts, LaunchDies
<1>4. /\ "looking" \in Stage \ Owning
      /\ "inserting" \in Stage \ Owning
  BY DEF Stage, Owning
<1> QED
  BY <1>1, <1>2, <1>3, <1>4, OverHolds, GoesHolds

\* The launch is requested: it owns no row yet.
LEMMA RequestedHolds ==
    ASSUME IInv, BudgetStep, optin' \in [CalEvent -> BOOLEAN],
           startAt' \in [CalEvent -> Nat], UNCHANGED <<meetings, bots>>,
           \/ UNCHANGED launches
           \/ \E e \in CalEvent : launches' = Requested(e)
    PROVE  IInv'
<1>1. /\ launches' \in Seq(LaunchRec)
      /\ DOMAIN launches \subseteq DOMAIN launches'
      /\ \A l \in DOMAIN launches' :
            \/ l \in DOMAIN launches /\ launches'[l] = launches[l]
            \/ /\ launches'[l].stage = "sleeping"
               /\ launches'[l].meeting = 0 /\ launches'[l].bot = 0
  <2>1. CASE UNCHANGED launches
    BY <2>1 DEF IInv, Types
  <2>2. CASE \E e \in CalEvent : launches' = Requested(e)
    <3>1. PICK e \in CalEvent : launches' = Requested(e)
      BY <2>2
    <3> DEFINE rec == [event |-> e, start |-> startAt[e], stage |-> "sleeping",
                       meeting |-> 0, bot |-> 0]
    <3>2. /\ rec \in LaunchRec /\ rec.stage = "sleeping" /\ rec.meeting = 0 /\ rec.bot = 0
      BY DEF LaunchRec, Stage, IInv, Types
    <3>3. launches' = Append(launches, rec)
      BY <3>1 DEF Requested
    <3> HIDE DEF rec
    <3>4. launches \in Seq(LaunchRec)
      BY DEF IInv, Types
    <3> QED
      BY <3>2, <3>3, <3>4, Appended
  <2> QED
    BY <2>1, <2>2
<1>2. Types'
  BY <1>1 DEF IInv, Types, BudgetStep
<1>3. Len(meetings) \in Nat /\ Len(bots) \in Nat
  BY Elements DEF IInv
<1>4. Refs'
  BY <1>1, <1>3 DEF IInv, Refs
<1>5. AtMostOneLive'
  BY DEF IInv, AtMostOneLive, IsLive
<1>6. OwnersInv'
  <2> SUFFICES ASSUME NEW k \in DOMAIN launches', Owner(k)' PROVE OwnerInv(k)'
    BY DEF OwnersInv
  <2>1. \A j \in DOMAIN launches' :
           Owner(j)' => j \in DOMAIN launches /\ Owner(j) /\ launches'[j] = launches[j]
    BY <1>1 DEF Owner, Owning
  <2>2. OwnerInv(k)
    BY <2>1 DEF IInv, OwnersInv
  <2> QED
    BY <2>1, <2>2 DEF OwnerInv, Accounted, IsLive, Serves, At
<1>7. BotsInv'
  BY DEF IInv, BotsInv, Serves, Present, Accounted, IsLive
<1>8. JobsInv'
  BY DEF IInv, JobsInv, JobsOf, BudgetStep
<1> QED
  BY <1>2, <1>4, <1>5, <1>6, <1>7, <1>8 DEF IInv

LEMMA WantedHolds ==
    ASSUME IInv, NEW e \in CalEvent, Wanted(e)
    PROVE  IInv'
<1>1. BudgetStep
  BY Budgets DEF IInv, Wanted
<1>2. optin' \in [CalEvent -> BOOLEAN] /\ startAt' \in [CalEvent -> Nat]
  BY DEF IInv, Types, Wanted
<1> QED
  BY <1>1, <1>2, RequestedHolds DEF Wanted

LEMMA EventHolds ==
    ASSUME IInv, NEW e \in CalEvent, OptIn(e) \/ OptOut(e) \/ Reschedule(e)
    PROVE  IInv'
<1>1. CASE OptIn(e)
  BY <1>1, WantedHolds DEF OptIn
<1>2. CASE OptOut(e)
  <2>1. BudgetStep
    BY <1>2, Budgets DEF IInv, OptOut
  <2>2. optin' \in [CalEvent -> BOOLEAN] /\ startAt' \in [CalEvent -> Nat]
    BY <1>2 DEF IInv, Types, OptOut
  <2> QED
    BY <1>2, <2>1, <2>2, RequestedHolds DEF OptOut
<1>3. CASE Reschedule(e)
  <2>1. BudgetStep
    BY <1>3, Budgets DEF IInv, Reschedule
  <2>2. optin' \in [CalEvent -> BOOLEAN] /\ startAt' \in [CalEvent -> Nat]
    BY <1>3 DEF IInv, Types, Reschedule
  <2> QED
    BY <1>3, <2>1, <2>2, RequestedHolds DEF Reschedule
<1> QED
  BY <1>1, <1>2, <1>3

LEMMA RetryLaunchHolds ==
    ASSUME IInv, NEW m \in DOMAIN meetings, RetryLaunch(m)
    PROVE  IInv'
<1>1. meetings[m].event \in CalEvent
  BY Elements DEF IInv, Row
<1> QED
  BY <1>1, WantedHolds DEF RetryLaunch

\* A row is inserted when none is live; its launch owns it, or its answer was lost.
LEMMA InsertHolds ==
    ASSUME IInv, NEW l \in DOMAIN launches, Insert(l)
    PROVE  IInv'
<1> DEFINE new == Len(meetings) + 1
           row == NewMeeting(launches[l].event)
           mine == [launches[l] EXCEPT !.stage = "creating", !.meeting = new]
           lost == [launches[l] EXCEPT !.stage = "looking"]
<1>1. /\ launches[l] \in LaunchRec /\ Len(meetings) \in Nat /\ Len(bots) \in Nat
      /\ launches[l].meeting \in 0..Len(meetings) /\ launches[l].bot \in 0..Len(bots)
      /\ DOMAIN meetings = 1..Len(meetings)
  BY Elements DEF IInv, Refs
<1>2. /\ row \in Row /\ row.status = "launching" /\ row.bot = 0 /\ row.givenUp = "no"
      /\ row.asked = 0 /\ row.reopened = FALSE
  <2>1. "launching" \in Status /\ 0 \in 0..AgeCap /\ -1 \in -1..AgeCap
    BY AgeCapNat DEF Status, Live
  <2>2. launches[l].event \in CalEvent
    BY <1>1 DEF LaunchRec
  <2> QED
    BY <2>1, <2>2 DEF NewMeeting, Row
<1>3. /\ mine \in LaunchRec /\ mine.stage = "creating" /\ mine.meeting = new
      /\ mine.bot = launches[l].bot
  <2>1. "creating" \in Stage /\ new \in Nat
    BY <1>1 DEF Stage
  <2> QED
    BY <1>1, <2>1 DEF LaunchRec
<1>4. /\ lost \in LaunchRec /\ lost.stage = "looking"
      /\ lost.meeting = launches[l].meeting /\ lost.bot = launches[l].bot
  BY <1>1 DEF LaunchRec, Stage
<1>5. PICK rec \in {mine, lost} :
         launches' = [launches EXCEPT ![l] = rec]
  BY <1>1 DEF Insert, Goes, LaunchRec
<1>6. meetings' = Append(meetings, row) /\ new <= MaxMeetings
  BY DEF Insert
<1>7. UNCHANGED <<optin, startAt, bots>> /\ BudgetStep
  BY Budgets DEF IInv, Insert
<1>8. \A n \in DOMAIN meetings : ~IsLive(n)
  BY <1>1 DEF Insert, Conflict, Live
<1> HIDE DEF row, mine, lost
<1>9. /\ meetings' \in Seq(Row) /\ Len(meetings') = new /\ Len(meetings) \in Nat
      /\ DOMAIN meetings' = DOMAIN meetings \cup {new}
      /\ meetings'[new] = row /\ \A n \in DOMAIN meetings : meetings'[n] = meetings[n]
  BY <1>2, <1>6, Appended DEF IInv, Types
<1>10. /\ launches' \in Seq(LaunchRec) /\ DOMAIN launches' = DOMAIN launches
       /\ launches'[l] = rec /\ \A k \in DOMAIN launches \ {l} : launches'[k] = launches[k]
  BY <1>3, <1>4, <1>5, Updated DEF IInv, Types
<1>11. new \notin DOMAIN meetings
  BY <1>1
<1>12. Types'
  BY <1>6, <1>7, <1>9, <1>10 DEF IInv, Types, BudgetStep
<1>13. Refs'
  <2>1. \A k \in DOMAIN launches : launches'[k].meeting \in 0..new
                                   /\ launches'[k].bot \in 0..Len(bots)
    BY <1>1, <1>3, <1>4, <1>10 DEF IInv, Refs
  <2>2. \A n \in DOMAIN meetings' : meetings'[n].bot \in 0..Len(bots)
    BY <1>1, <1>2, <1>9 DEF IInv, Refs
  <2>3. \A b \in DOMAIN bots : bots[b].meeting \in DOMAIN meetings'
    BY <1>9 DEF IInv, Refs
  <2> QED
    BY <1>7, <1>9, <1>10, <2>1, <2>2, <2>3 DEF Refs
<1>14. AtMostOneLive'
  BY <1>8, <1>9 DEF AtMostOneLive, IsLive
<1>15. OwnersInv'
  <2> SUFFICES ASSUME NEW k \in DOMAIN launches, Owner(k)' PROVE OwnerInv(k)'
    BY <1>10 DEF OwnersInv
  <2>1. \A j \in DOMAIN launches \ {l} :
           Owner(j)' => /\ Owner(j) /\ OwnerInv(j) /\ launches'[j] = launches[j]
                        /\ launches[j].meeting \in DOMAIN meetings
    BY <1>10 DEF IInv, OwnersInv, OwnerInv, Owner
  <2>2. Owner(l)' => rec = mine
    BY <1>4, <1>5, <1>10 DEF Owner, Owning
  <2>3. CASE k = l
    <3>1. launches'[k].meeting = new /\ launches'[k].stage = "creating"
      BY <1>3, <1>10, <2>2, <2>3
    <3>2. \A b \in DOMAIN bots : ~Serves(b, new)
      BY <1>11 DEF IInv, Refs, Serves
    <3>3. \A j \in DOMAIN launches : Owner(j)' /\ launches'[j].meeting = new => j = k
      BY <1>11, <2>1, <2>3
    <3>4. meetings'[new].bot = 0 /\ meetings'[new].status \in Live
      BY <1>2, <1>9 DEF Live
    <3> QED
      BY <1>7, <1>9, <1>10, <3>1, <3>2, <3>3, <3>4
      DEF OwnerInv, Accounted, IsLive, Serves, At
  <2>4. CASE k # l
    <3>1. /\ OwnerInv(k) /\ launches'[k] = launches[k]
          /\ launches[k].meeting \in DOMAIN meetings
      BY <2>1, <2>4
    <3>2. \A j \in DOMAIN launches :
             Owner(j)' /\ launches'[j].meeting = launches[k].meeting => j = k
      BY <1>3, <1>10, <1>11, <2>1, <2>2, <3>1 DEF OwnerInv
    <3> QED
      BY <1>7, <1>9, <1>10, <3>1, <3>2 DEF OwnerInv, Accounted, IsLive, Serves, At
  <2> QED
    BY <2>3, <2>4
<1>16. BotsInv'
  <2>1. \A n \in DOMAIN meetings' : meetings'[n].bot # 0 =>
           n \in DOMAIN meetings /\ meetings'[n] = meetings[n]
    BY <1>2, <1>9
  <2>2. \A b \in DOMAIN bots : meetings'[bots[b].meeting] = meetings[bots[b].meeting]
    BY <1>9 DEF IInv, Refs
  <2> QED
    BY <1>7, <2>1, <2>2 DEF IInv, BotsInv, Serves, Present, Accounted, IsLive
<1>17. JobsInv'
  BY <1>2, <1>7, <1>9 DEF IInv, JobsInv, JobsOf, BudgetStep
<1> QED
  BY <1>12, <1>13, <1>14, <1>15, <1>16, <1>17 DEF IInv

\* A bot is created for an owned row: the answer reaches its launch, or is lost.
LEMMA BotCreated ==
    ASSUME IInv, NEW l \in DOMAIN launches, At(l, "creating"),
           NEW answered \in BOOLEAN, BudgetStep, Len(bots) < MaxBots,
           bots' = NewBot(launches[l].meeting, answered),
           IF answered
           THEN launches' = [launches EXCEPT ![l].stage = "created", ![l].bot = Len(bots) + 1]
           ELSE UNCHANGED launches,
           UNCHANGED <<optin, startAt, meetings>>
    PROVE  IInv'
<1> DEFINE new == Len(bots) + 1
           m == launches[l].meeting
           bot == [meeting |-> m, phase |-> "waiting", age |-> 0, answered |-> answered]
           mine == [launches[l] EXCEPT !.stage = "created", !.bot = new]
           rec == IF answered THEN mine ELSE launches[l]
<1>1. /\ launches[l] \in LaunchRec /\ Len(meetings) \in Nat /\ Len(bots) \in Nat
      /\ DOMAIN bots = 1..Len(bots)
  BY Elements DEF IInv
<1>2. OwnerInv(l)
  BY DEF IInv, OwnersInv, Owner, Owning, At
<1>3. m \in DOMAIN meetings /\ \A b \in DOMAIN bots : ~Serves(b, m)
  BY <1>2 DEF OwnerInv, At
<1>4. /\ bot \in BotRec /\ bot.meeting = m /\ bot.answered = answered
  <2>1. m \in Nat
    BY <1>1 DEF LaunchRec
  <2> QED
    BY <2>1, LimitsNat DEF BotRec, Phase
<1>5. /\ mine \in LaunchRec /\ mine.stage = "created" /\ mine.bot = new
      /\ mine.meeting = m
  <2>1. "created" \in Stage /\ new \in Nat
    BY <1>1 DEF Stage
  <2> QED
    BY <1>1, <2>1 DEF LaunchRec
<1>6. launches' = [launches EXCEPT ![l] = rec]
  BY <1>1 DEF LaunchRec, IInv, Types
<1>7. /\ rec \in LaunchRec /\ rec.meeting = m
      /\ rec.stage = IF answered THEN "created" ELSE "creating"
      /\ rec.bot = IF answered THEN new ELSE launches[l].bot
  BY <1>1, <1>5 DEF At
<1>8. bots' = Append(bots, bot)
  BY DEF NewBot
<1> HIDE DEF bot, mine, rec
<1>9. /\ bots' \in Seq(BotRec) /\ Len(bots') = new
      /\ DOMAIN bots' = DOMAIN bots \cup {new}
      /\ bots'[new] = bot /\ \A b \in DOMAIN bots : bots'[b] = bots[b]
  BY <1>4, <1>8, Appended DEF IInv, Types
<1>10. /\ launches' \in Seq(LaunchRec) /\ DOMAIN launches' = DOMAIN launches
       /\ launches'[l] = rec /\ \A k \in DOMAIN launches \ {l} : launches'[k] = launches[k]
  BY <1>6, <1>7, Updated DEF IInv, Types
<1>11. new \notin DOMAIN bots
  BY <1>1
<1>12. Types'
  <2>1. Len(bots') <= MaxBots
    BY <1>1, <1>9, MeetingsAssumption
  <2> QED
    BY <1>9, <1>10, <2>1 DEF IInv, Types, BudgetStep
<1>13. Refs'
  <2>1. \A k \in DOMAIN launches : launches'[k].meeting \in 0..Len(meetings)
                                   /\ launches'[k].bot \in 0..new
    BY <1>1, <1>7, <1>10 DEF IInv, Refs
  <2>2. \A n \in DOMAIN meetings : meetings[n].bot \in 0..new
    BY <1>1 DEF IInv, Refs
  <2>3. \A b \in DOMAIN bots' : bots'[b].meeting \in DOMAIN meetings
    BY <1>3, <1>4, <1>9 DEF IInv, Refs
  <2> QED
    BY <1>9, <1>10, <2>1, <2>2, <2>3 DEF Refs
<1>14. AtMostOneLive'
  BY DEF IInv, AtMostOneLive, IsLive
<1>15. \A b \in DOMAIN bots', n \in DOMAIN meetings :
          Serves(b, n)' <=> \/ b \in DOMAIN bots /\ Serves(b, n)
                            \/ b = new /\ answered /\ n = m
  BY <1>4, <1>9, <1>11 DEF Serves
<1>16. OwnersInv'
  <2> SUFFICES ASSUME NEW k \in DOMAIN launches, Owner(k)' PROVE OwnerInv(k)'
    BY <1>10 DEF OwnersInv
  <2>1. \A j \in DOMAIN launches :
           Owner(j)' => /\ Owner(j) /\ OwnerInv(j)
                        /\ launches'[j].meeting = launches[j].meeting
    BY <1>2, <1>7, <1>10 DEF IInv, OwnersInv, Owner, Owning, At
  <2> DEFINE n == launches[k].meeting
  <2>2. /\ n \in DOMAIN meetings /\ meetings[n].bot = 0 /\ Accounted(n)
        /\ launches'[k].meeting = n
    BY <2>1 DEF OwnerInv
  <2>3. \A j \in DOMAIN launches : Owner(j)' /\ launches'[j].meeting = n => j = k
    BY <2>1 DEF OwnerInv
  <2>4. CASE k = l
    <3>1. \A b \in DOMAIN bots' : Serves(b, n)' => answered /\ b = new
      BY <1>3, <1>15, <2>2, <2>4
    <3>2. answered => bots'[new].meeting = n /\ bots'[new].answered /\ new \in DOMAIN bots'
      BY <1>4, <1>9, <2>4
    <3>3. answered <=> At(k, "created")'
      BY <1>7, <1>10, <2>4 DEF At
    <3>4. answered => launches'[k].bot = new
      BY <1>7, <1>10, <2>4
    <3> QED
      BY <2>2, <2>3, <3>1, <3>2, <3>3, <3>4
      DEF OwnerInv, Accounted, IsLive, Serves, At
  <2>5. CASE k # l
    <3>1. n # m
      BY <1>2, <2>1, <2>5 DEF OwnerInv
    <3>2. OwnerInv(k) /\ launches'[k] = launches[k]
      BY <1>10, <2>1, <2>5
    <3>3. \A b \in DOMAIN bots' : Serves(b, n)' <=> b \in DOMAIN bots /\ Serves(b, n)
      BY <1>15, <2>2, <3>1
    <3>4. \A b \in DOMAIN bots' : Serves(b, n)' => At(k, "created")' /\ b = launches'[k].bot
      BY <3>2, <3>3 DEF OwnerInv, At
    <3>5. At(k, "created")' => launches'[k].bot \in DOMAIN bots' /\ Serves(launches[k].bot, n)'
      BY <1>9, <3>2, <3>3 DEF OwnerInv, At
    <3> QED
      BY <2>2, <2>3, <3>2, <3>4, <3>5
      DEF OwnerInv, Accounted, IsLive, Serves, At
  <2> QED
    BY <2>4, <2>5
<1>17. BotsInv'
  <2>1. \A b, c \in DOMAIN bots' :
           bots'[b].answered /\ bots'[c].answered /\ bots'[b].meeting = bots'[c].meeting
             => b = c
    BY <1>3, <1>4, <1>9 DEF IInv, BotsInv, Serves
  <2>2. \A n \in DOMAIN meetings' : meetings'[n].bot # 0 => Serves(meetings[n].bot, n)'
    <3>1. \A n \in DOMAIN meetings : meetings[n].bot # 0 =>
             meetings[n].bot \in DOMAIN bots /\ Serves(meetings[n].bot, n)
      BY <1>1 DEF IInv, BotsInv, Refs
    <3> QED
      BY <1>9, <3>1 DEF Serves
  <2>3. \A b \in DOMAIN bots' :
           bots'[b].answered /\ bots'[b].phase \in {"waiting", "in_call"}
             => Accounted(bots'[b].meeting)
    BY <1>2, <1>4, <1>9 DEF IInv, BotsInv, OwnerInv, Present
  <2> QED
    BY <2>1, <2>2, <2>3 DEF BotsInv, Serves, Present, Accounted, IsLive
<1>18. JobsInv'
  BY DEF IInv, JobsInv, JobsOf, BudgetStep
<1> QED
  BY <1>12, <1>13, <1>14, <1>16, <1>17, <1>18 DEF IInv

LEMMA CreateBotHolds ==
    ASSUME IInv, NEW l \in DOMAIN launches, CreateBot(l)
    PROVE  IInv'
<1>1. BudgetStep
  BY Budgets DEF IInv, CreateBot
<1>2. CASE Goes(l, "refused") /\ UNCHANGED <<bots, budget>>
  BY <1>1, <1>2, GoesHolds DEF CreateBot, Stage
<1>3. CASE ~(Goes(l, "refused") /\ UNCHANGED <<bots, budget>>)
  BY <1>1, <1>3, BotCreated DEF CreateBot
<1> QED
  BY <1>2, <1>3

\* The owner writes its row and is done: the bot becomes known to the row, or the
\* row has failed and has no bot.
LEMMA RowFinalized ==
    ASSUME IInv, BudgetStep, NEW l \in DOMAIN launches, Owner(l), Over(l),
           NEW m, m = launches[l].meeting,
           NEW row \in Row, row.givenUp = meetings[m].givenUp, JobsOf(row, failed'),
           \/ /\ At(l, "created") /\ row.bot = launches[l].bot /\ row.status \in Live
              /\ \A n \in DOMAIN meetings \ {m} : ~IsLive(n)
           \/ ~At(l, "created") /\ row.bot = 0 /\ row.status \notin Live,
           meetings' = [meetings EXCEPT ![m] = row],
           UNCHANGED <<optin, startAt, bots>>
    PROVE  IInv'
<1> DEFINE rec == [launches[l] EXCEPT !.stage = "over", !.meeting = 0, !.bot = 0]
<1>1. /\ launches[l] \in LaunchRec /\ Len(meetings) \in Nat /\ Len(bots) \in Nat
      /\ DOMAIN bots = 1..Len(bots)
  BY Elements DEF IInv
<1>2. OwnerInv(l) /\ m \in DOMAIN meetings
  BY DEF IInv, OwnersInv, OwnerInv
<1>3. rec \in LaunchRec /\ rec.stage = "over" /\ rec.meeting = 0 /\ rec.bot = 0
  BY <1>1 DEF LaunchRec, Stage
<1>4. launches' = [launches EXCEPT ![l] = rec]
  BY DEF Over
<1> HIDE DEF rec
<1>5. /\ launches' \in Seq(LaunchRec) /\ DOMAIN launches' = DOMAIN launches
      /\ launches'[l] = rec /\ \A k \in DOMAIN launches \ {l} : launches'[k] = launches[k]
  BY <1>3, <1>4, Updated DEF IInv, Types
<1>6. /\ meetings' \in Seq(Row) /\ Len(meetings') = Len(meetings)
      /\ DOMAIN meetings' = DOMAIN meetings
      /\ meetings'[m] = row /\ \A n \in DOMAIN meetings \ {m} : meetings'[n] = meetings[n]
  BY <1>2, Updated DEF IInv, Types
<1>7. Types'
  BY <1>5, <1>6 DEF IInv, Types, BudgetStep
<1>8. row.bot # 0 => row.bot \in DOMAIN bots /\ Serves(row.bot, m)
  BY <1>2 DEF OwnerInv
<1>9. Refs'
  <2>1. \A k \in DOMAIN launches : launches'[k].meeting \in 0..Len(meetings)
                                   /\ launches'[k].bot \in 0..Len(bots)
    BY <1>1, <1>3, <1>5 DEF IInv, Refs
  <2>2. \A n \in DOMAIN meetings : meetings'[n].bot \in 0..Len(bots)
    BY <1>1, <1>6, <1>8 DEF IInv, Refs
  <2> QED
    BY <1>5, <1>6, <2>1, <2>2 DEF IInv, Refs
<1>10. AtMostOneLive'
  BY <1>6 DEF IInv, AtMostOneLive, IsLive
<1>11. OwnersInv'
  <2> SUFFICES ASSUME NEW k \in DOMAIN launches, Owner(k)' PROVE OwnerInv(k)'
    BY <1>5 DEF OwnersInv
  <2>1. \A j \in DOMAIN launches :
           Owner(j)' => j # l /\ Owner(j) /\ OwnerInv(j) /\ launches'[j] = launches[j]
    BY <1>3, <1>5 DEF IInv, OwnersInv, Owner, Owning
  <2>2. launches[k].meeting # m
    BY <1>2, <2>1 DEF OwnerInv
  <2>3. \A j \in DOMAIN launches :
           Owner(j)' /\ launches'[j].meeting = launches[k].meeting => j = k
    BY <2>1 DEF OwnerInv
  <2> QED
    BY <1>5, <1>6, <2>1, <2>2, <2>3 DEF OwnerInv, Accounted, IsLive, Serves, At
<1>12. BotsInv'
  <2>1. \A n \in DOMAIN meetings : meetings'[n].bot # 0 => Serves(meetings'[n].bot, n)
    BY <1>6, <1>8 DEF IInv, BotsInv
  <2>2. \A b \in DOMAIN bots : bots[b].answered /\ bots[b].meeting = m => At(l, "created")
    BY <1>2 DEF OwnerInv, Serves
  <2>3. \A b \in DOMAIN bots : bots[b].answered /\ Present(b) =>
           \/ meetings'[bots[b].meeting].status \in Live
           \/ meetings'[bots[b].meeting].givenUp # "no"
    <3> SUFFICES ASSUME NEW b \in DOMAIN bots, bots[b].answered, Present(b)
                 PROVE  \/ meetings'[bots[b].meeting].status \in Live
                        \/ meetings'[bots[b].meeting].givenUp # "no"
      OBVIOUS
    <3>1. bots[b].meeting \in DOMAIN meetings /\ Accounted(bots[b].meeting)
      BY DEF IInv, Refs, BotsInv
    <3>2. CASE bots[b].meeting = m
      BY <1>6, <2>2, <3>2
    <3>3. CASE bots[b].meeting # m
      BY <1>6, <3>1, <3>3 DEF Accounted, IsLive
    <3> QED
      BY <3>2, <3>3
  <2> QED
    BY <1>6, <2>1, <2>3 DEF IInv, BotsInv, Serves, Present, Accounted, IsLive
<1>13. JobsInv'
  BY <1>6 DEF IInv, JobsInv, JobsOf, BudgetStep
<1> QED
  BY <1>7, <1>9, <1>10, <1>11, <1>12, <1>13 DEF IInv

LEMMA FinalizeHolds ==
    ASSUME IInv, NEW l \in DOMAIN launches, Finalize(l)
    PROVE  IInv'
<1> DEFINE m == launches[l].meeting
           new == LaunchedStatus(l)
           row == [Moved(m, new) EXCEPT !.bot = IF new = "failed" THEN @ ELSE launches[l].bot]
<1>1. Owner(l) /\ (At(l, "created") \/ At(l, "refused")) /\ Over(l)
      /\ UNCHANGED <<optin, startAt, bots>>
  BY DEF Finalize, Owner, Owning, At
<1>2. BudgetStep
  BY Budgets DEF IInv, Finalize
<1>3. OwnerInv(l) /\ m \in DOMAIN meetings
  BY <1>1 DEF IInv, OwnersInv, OwnerInv
<1>4. /\ meetings[m] \in Row /\ JobsOf(meetings[m], failed)
      /\ launches[l].bot \in Nat /\ meetings[m].bot = 0
  BY <1>3, Elements DEF IInv, JobsInv, LaunchRec, OwnerInv
<1>5. /\ new = IF At(l, "created") THEN "awaiting_recall" ELSE "failed"
      /\ new \in Status /\ new # "completed"
  BY DEF LaunchedStatus, Status, Live
<1>6. /\ Moved(m, new) \in Row
      /\ Moved(m, new) = [meetings[m] EXCEPT !.status = new,
                                             !.reopened = Moved(m, new).reopened]
      /\ Moved(m, new).reopened =
            (meetings[m].reopened \/ (meetings[m].status = "completed" /\ new # "completed"))
  BY <1>3, <1>5, MovedRow DEF IInv
<1>7. /\ row \in Row /\ row.status = new /\ row.givenUp = meetings[m].givenUp
      /\ row.asked = meetings[m].asked /\ row.reopened = Moved(m, new).reopened
      /\ row.bot = IF At(l, "created") THEN launches[l].bot ELSE 0
  <2>1. /\ Moved(m, new).status = new /\ Moved(m, new).givenUp = meetings[m].givenUp
        /\ Moved(m, new).asked = meetings[m].asked /\ Moved(m, new).bot = 0
    BY <1>4, <1>6 DEF Row
  <2>2. row = [Moved(m, new) EXCEPT !.bot = IF At(l, "created") THEN launches[l].bot ELSE 0]
    BY <1>5, <2>1
  <2> QED
    BY <1>4, <1>6, <2>1, <2>2 DEF Row
<1>8. JobsOf(row, failed')
  BY <1>4, <1>5, <1>6, <1>7 DEF JobsOf
<1>9. CASE UNCHANGED meetings
  BY <1>1, <1>2, <1>9, OverHolds
<1>10. CASE ~UNCHANGED meetings
  <2>1. ~Conflict(m, meetings[m].event, new) /\ meetings' = [meetings EXCEPT ![m] = row]
    BY <1>10 DEF Finalize
  <2>2. At(l, "created") => new \in Live /\ \A n \in DOMAIN meetings \ {m} : ~IsLive(n)
    BY <1>5, <2>1 DEF Conflict, Live
  <2>3. ~At(l, "created") => new \notin Live
    BY <1>5 DEF Live
  <2> HIDE DEF row, new
  <2> QED
    BY <1>1, <1>2, <1>7, <1>8, <2>1, <2>2, <2>3, RowFinalized
<1> QED
  BY <1>9, <1>10

-----------------------------------------------------------------------------
LEMMA NextHolds == IInv /\ [Next]_vars => IInv'
<1> SUFFICES ASSUME IInv, [Next]_vars PROVE IInv'
  OBVIOUS
<1>1. ASSUME NEW e \in CalEvent, OptIn(e) \/ OptOut(e) \/ Reschedule(e) PROVE IInv'
  BY <1>1, EventHolds
<1>2. ASSUME NEW l \in DOMAIN launches, LaunchStep(l) \/ LaunchDies(l) PROVE IInv'
  BY <1>2, LookingHolds, InsertHolds, CreateBotHolds, FinalizeHolds DEF LaunchStep
<1>3. ASSUME NEW b \in DOMAIN bots,
             Admitted(b) \/ Leaves(b) \/ FirstUtterance(b) \/ Webhook(b)
      PROVE  IInv'
  BY <1>3, AdmittedHolds, LeavesHolds, FirstUtteranceHolds, WebhookHolds
<1>4. CASE WorkerRestarts
  BY <1>4, WorkerRestartsHolds
<1>5. ASSUME NEW m \in DOMAIN meetings,
             RetryLaunch(m) \/ ReapRecording(m) \/ ReapPrelaunch(m) \/ EndNow(m)
      PROVE  IInv'
  BY <1>5, RetryLaunchHolds, ReapRecordingHolds, ReapPrelaunchHolds, EndNowHolds
<1>6. CASE Tick
  BY <1>6, TickHolds
<1>7. CASE UNCHANGED vars
  BY <1>7 DEF vars, budget, IInv, Types, Refs, AtMostOneLive, IsLive, OwnersInv, Owner,
              OwnerInv, Accounted, Serves, At, BotsInv, Present, JobsInv, JobsOf
<1> QED
  BY <1>1, <1>2, <1>3, <1>4, <1>5, <1>6, <1>7 DEF Next

-----------------------------------------------------------------------------
(***************************************************************************)
(* Recordings and the bot that is in the call.                             *)
(***************************************************************************)
\* The bot has been let in for the row, and has been in the call for as long as
\* the row has recorded.
Heard(b, m, started) ==
    /\ bots[b].meeting = m /\ bots[b].phase # "waiting"
    /\ bots[b].phase = "in_call" => started <= bots[b].age

\* A row with started_at heard its first utterance from a bot that has left since,
\* or has been in the call for at least as long; no bot stays beyond its limit.
CallInv ==
    /\ \A m \in DOMAIN meetings : meetings[m].started >= 0 =>
         \E b \in DOMAIN bots : Heard(b, m, meetings[m].started)
    /\ \A b \in DOMAIN bots : bots[b].phase = "in_call" => bots[b].age <= MaxDuration

\* What every step but the first utterance and the passing of time does to them.
CallFrame ==
    /\ \A m \in DOMAIN meetings' :
         \/ meetings'[m].started < 0
         \/ m \in DOMAIN meetings /\ meetings'[m].started = meetings[m].started
    /\ \A b \in DOMAIN bots :
         /\ b \in DOMAIN bots' /\ bots'[b].meeting = bots[b].meeting
         /\ \/ bots'[b] = bots[b] \/ bots[b].phase = "waiting"
            \/ bots'[b].phase \notin {"waiting", "in_call"}
    /\ \A b \in DOMAIN bots' : bots'[b].phase = "in_call" => bots'[b].age <= MaxDuration

LEMMA CallKept ==
    ASSUME Types, Types', CallInv, CallFrame
    PROVE  CallInv'
<1> SUFFICES ASSUME NEW m \in DOMAIN meetings', meetings'[m].started >= 0
             PROVE  \E b \in DOMAIN bots' : Heard(b, m, meetings[m].started)'
  BY DEF CallInv, CallFrame
<1>1. meetings'[m] \in Row
  BY Element DEF Types
<1>2. m \in DOMAIN meetings /\ meetings'[m].started = meetings[m].started
  BY <1>1 DEF CallFrame, Row
<1>3. PICK b \in DOMAIN bots : Heard(b, m, meetings[m].started)
  BY <1>2 DEF CallInv
<1>4. /\ b \in DOMAIN bots' /\ bots'[b].meeting = m
      /\ bots'[b] = bots[b] \/ bots'[b].phase \notin {"waiting", "in_call"}
  BY <1>3 DEF CallFrame, Heard
<1> QED
  BY <1>2, <1>3, <1>4 DEF Heard

\* A step that leaves the bots alone and changes no started_at.
LEMMA RowsFrame ==
    ASSUME Types, CallInv, UNCHANGED bots, DOMAIN meetings' = DOMAIN meetings,
           \A m \in DOMAIN meetings : meetings'[m].started = meetings[m].started
    PROVE  CallFrame
BY DEF CallInv, CallFrame

LEMMA RowFrame ==
    ASSUME Types, CallInv, UNCHANGED bots, NEW m \in DOMAIN meetings, NEW row \in Row,
           row.started = meetings[m].started, meetings' = [meetings EXCEPT ![m] = row]
    PROVE  CallFrame
<1>1. DOMAIN meetings' = DOMAIN meetings /\ meetings'[m] = row
      /\ \A n \in DOMAIN meetings \ {m} : meetings'[n] = meetings[n]
  BY Updated DEF Types
<1> QED
  BY <1>1, RowsFrame

LEMMA StillFrame ==
    ASSUME Types, CallInv, UNCHANGED <<meetings, bots>>
    PROVE  CallFrame
BY RowsFrame

\* The row after its status was overwritten, and after its jobs were asked for.
LEMMA MovedStart ==
    ASSUME Types, NEW m \in DOMAIN meetings, NEW new \in Status
    PROVE  Moved(m, new) \in Row /\ Moved(m, new).started = meetings[m].started
<1>1. meetings[m] \in Row
  BY Elements
<1> QED
  BY <1>1 DEF Moved, Row

LEMMA CompletedRow ==
    ASSUME NEW m, NEW row \in Row, Completed(m, row)
    PROVE  \E new \in Row :
              /\ meetings' = [meetings EXCEPT ![m] = new]
              /\ new.started = row.started /\ new.status = row.status
              /\ new.givenUp = row.givenUp
<1>1. PICK told \in NotifyEnd(row) :
         \/ meetings' = [meetings EXCEPT ![m] = Asked(told)]
         \/ meetings' = [meetings EXCEPT ![m] = told]
  BY DEF Completed
<1>2. told \in Row /\ told.started = row.started /\ told.status = row.status
      /\ told.givenUp = row.givenUp
  BY <1>1 DEF NotifyEnd, Row
<1>3. /\ Asked(told) \in Row
      /\ Asked(told) = [told EXCEPT !.asked = Asked(told).asked]
  BY <1>1, ToldRow
<1>4. Asked(told).started = told.started /\ Asked(told).status = told.status
      /\ Asked(told).givenUp = told.givenUp
  BY <1>2, <1>3 DEF Row
<1> QED
  BY <1>1, <1>2, <1>3, <1>4

LEMMA InsertFrame ==
    ASSUME IInv, CallInv, NEW l \in DOMAIN launches, Insert(l)
    PROVE  CallFrame
<1> DEFINE row == NewMeeting(launches[l].event)
<1>1. row.started = -1
  BY DEF NewMeeting
<1>2. /\ meetings' = Append(meetings, row) /\ UNCHANGED bots
      /\ meetings \in Seq(Row) /\ Len(meetings) \in Nat
  BY Elements DEF Insert, IInv, Types
<1> HIDE DEF row
<1>3. /\ DOMAIN meetings' = DOMAIN meetings \cup {Len(meetings) + 1}
      /\ meetings'[Len(meetings) + 1] = row
      /\ \A m \in DOMAIN meetings : meetings'[m] = meetings[m]
  BY <1>2
<1>4. \A m \in DOMAIN meetings' :
         \/ meetings'[m].started < 0
         \/ m \in DOMAIN meetings /\ meetings'[m].started = meetings[m].started
  BY <1>1, <1>3
<1> QED
  BY <1>2, <1>4 DEF CallInv, CallFrame

LEMMA CreateBotFrame ==
    ASSUME IInv, CallInv, NEW l \in DOMAIN launches, CreateBot(l)
    PROVE  CallFrame
<1>1. CASE UNCHANGED bots
  BY <1>1, StillFrame DEF IInv, CreateBot
<1>2. CASE ~UNCHANGED bots
  <2>1. PICK answered \in BOOLEAN : bots' = NewBot(launches[l].meeting, answered)
    BY <1>2 DEF CreateBot
  <2> DEFINE bot == [meeting |-> launches[l].meeting, phase |-> "waiting", age |-> 0,
                     answered |-> answered]
  <2>2. /\ bots' = Append(bots, bot) /\ UNCHANGED meetings /\ bot.phase = "waiting"
        /\ bots \in Seq(BotRec) /\ Len(bots) \in Nat
    BY <2>1, Elements DEF NewBot, CreateBot, IInv, Types
  <2> HIDE DEF bot
  <2>3. /\ DOMAIN bots' = DOMAIN bots \cup {Len(bots) + 1}
        /\ bots'[Len(bots) + 1] = bot /\ \A b \in DOMAIN bots : bots'[b] = bots[b]
    BY <2>2
  <2>4. \A b \in DOMAIN bots' : bots'[b].phase = "in_call" => bots'[b].age <= MaxDuration
    BY <2>2, <2>3 DEF CallInv
  <2> QED
    BY <2>2, <2>3, <2>4 DEF CallFrame
<1> QED
  BY <1>1, <1>2

LEMMA FinalizeFrame ==
    ASSUME IInv, CallInv, NEW l \in DOMAIN launches, Finalize(l)
    PROVE  CallFrame
<1> DEFINE m == launches[l].meeting
           new == LaunchedStatus(l)
           row == [Moved(m, new) EXCEPT !.bot = IF new = "failed" THEN @ ELSE launches[l].bot]
<1>1. UNCHANGED bots /\ (UNCHANGED meetings \/ meetings' = [meetings EXCEPT ![m] = row])
  BY DEF Finalize
<1>2. m \in DOMAIN meetings /\ new \in Status /\ launches[l].bot \in Nat
  BY Elements
  DEF IInv, OwnersInv, OwnerInv, Finalize, Owner, Owning, At, LaunchedStatus, Status,
      Live, LaunchRec
<1>3. Moved(m, new) \in Row /\ Moved(m, new).started = meetings[m].started
  BY <1>2, MovedStart DEF IInv
<1>4. row \in Row /\ row.started = meetings[m].started
  BY <1>2, <1>3 DEF Row
<1> HIDE DEF row
<1> QED
  BY <1>1, <1>2, <1>4, RowFrame, StillFrame DEF IInv

\* A bot that is let in was waiting; one that leaves is in the call no more.
LEMMA BotFrame ==
    ASSUME IInv, CallInv, NEW b \in DOMAIN bots, NEW phase \in Phase, phase # "waiting",
           bots[b].phase = "waiting" \/ phase # "in_call",
           bots' = [bots EXCEPT ![b].phase = phase, ![b].age = 0], UNCHANGED meetings
    PROVE  CallFrame
<1> DEFINE rec == [bots[b] EXCEPT !.phase = phase, !.age = 0]
<1>1. bots[b] \in BotRec
  BY Elements DEF IInv
<1>2. rec \in BotRec /\ rec.meeting = bots[b].meeting /\ rec.phase = phase /\ rec.age = 0
  BY <1>1, LimitsNat DEF BotRec
<1>3. bots' = [bots EXCEPT ![b] = rec]
  BY <1>1 DEF BotRec
<1> HIDE DEF rec
<1>4. /\ DOMAIN bots' = DOMAIN bots
      /\ bots'[b] = rec /\ \A c \in DOMAIN bots \ {b} : bots'[c] = bots[c]
  BY <1>2, <1>3, Updated DEF IInv, Types
<1>5. \A c \in DOMAIN bots' : bots'[c].phase = "in_call" => bots'[c].age <= MaxDuration
  BY <1>2, <1>4, LimitsNat DEF CallInv
<1> QED
  BY <1>2, <1>4, <1>5 DEF CallFrame, Phase

LEMMA AdmittedFrame ==
    ASSUME IInv, CallInv, NEW b \in DOMAIN bots, Admitted(b)
    PROVE  CallFrame
<1>1. /\ "in_call" \in Phase /\ "in_call" # "waiting" /\ bots[b].phase = "waiting"
      /\ bots' = [bots EXCEPT ![b].phase = "in_call", ![b].age = 0]
      /\ meetings' = meetings
  BY DEF Admitted, Phase
<1> QED
  BY <1>1, BotFrame

LEMMA LeavesFrame ==
    ASSUME IInv, CallInv, NEW b \in DOMAIN bots, Leaves(b)
    PROVE  CallFrame
<1>1. PICK gone \in Phase : /\ bots' = [bots EXCEPT ![b].phase = gone, ![b].age = 0]
                           /\ gone # "waiting" /\ gone # "in_call"
  BY DEF Leaves, Phase
<1>2. meetings' = meetings
  BY DEF Leaves
<1> QED
  BY <1>1, <1>2, BotFrame

LEMMA WebhookFrame ==
    ASSUME IInv, CallInv, NEW b \in DOMAIN bots, Webhook(b)
    PROVE  CallFrame
<1>1. PICK i \in DOMAIN Reported(b), m \in DOMAIN meetings :
         LET new == Reported(b)[i]
         IN \/ meetings' = [meetings EXCEPT ![m] = Moved(m, new)]
            \/ Completed(m, Moved(m, new))
  BY DEF Webhook
<1>2. UNCHANGED bots
  BY DEF Webhook
<1> DEFINE new == Reported(b)[i]
           row == Moved(m, new)
<1>3. new \in Status
  BY Elements, Reports DEF IInv, BotRec
<1>4. row \in Row /\ row.started = meetings[m].started
  BY <1>3, MovedStart DEF IInv
<1>5. meetings' = [meetings EXCEPT ![m] = row] \/ Completed(m, row)
  BY <1>1
<1> HIDE DEF row
<1>6. PICK final \in Row : /\ meetings' = [meetings EXCEPT ![m] = final]
                           /\ final.started = row.started
  BY <1>4, <1>5, CompletedRow
<1> QED
  BY <1>2, <1>4, <1>6, RowFrame DEF IInv

LEMMA GivenUpFrame ==
    ASSUME IInv, CallInv, NEW m \in DOMAIN meetings,
           ReapRecording(m) \/ ReapPrelaunch(m) \/ EndNow(m)
    PROVE  CallFrame
<1> DEFINE row(status, by) == [meetings[m] EXCEPT !.status = status, !.givenUp = by]
<1>1. meetings[m] \in Row
  BY Elements DEF IInv
<1>2. ASSUME NEW status \in Status, NEW by \in {"reaper", "hand"}
      PROVE  row(status, by) \in Row /\ row(status, by).started = meetings[m].started
  BY <1>1, <1>2 DEF Row
<1> HIDE DEF row
<1>3. UNCHANGED bots /\ {"completed", "failed"} \subseteq Status
  BY DEF ReapRecording, ReapPrelaunch, EndNow, Status
<1>4. CASE ReapRecording(m)
  <2>1. Completed(m, row("completed", "reaper"))
    BY <1>4 DEF ReapRecording, row
  <2>2. row("completed", "reaper") \in Row
        /\ row("completed", "reaper").started = meetings[m].started
    BY <1>2, <1>3
  <2> QED
    BY <1>3, <2>1, <2>2, CompletedRow, RowFrame DEF IInv
<1>5. CASE ReapPrelaunch(m)
  <2>1. meetings' = [meetings EXCEPT ![m] = row("failed", "reaper")]
    BY <1>1, <1>5 DEF ReapPrelaunch, Row, row
  <2>2. row("failed", "reaper") \in Row
        /\ row("failed", "reaper").started = meetings[m].started
    BY <1>2, <1>3
  <2> QED
    BY <1>3, <2>1, <2>2, RowFrame DEF IInv
<1>6. CASE EndNow(m)
  <2>1. PICK told \in NotifyEnd(row("completed", "hand")) :
           meetings' = [meetings EXCEPT ![m] = told]
    BY <1>6 DEF EndNow, row
  <2>2. row("completed", "hand") \in Row
        /\ row("completed", "hand").started = meetings[m].started
    BY <1>2, <1>3
  <2>3. told \in Row /\ told.started = meetings[m].started
    BY <2>1, <2>2 DEF NotifyEnd, Row
  <2> QED
    BY <1>3, <2>1, <2>3, RowFrame DEF IInv
<1> QED
  BY <1>4, <1>5, <1>6

LEMMA WorkerRestartsFrame ==
    ASSUME IInv, CallInv, WorkerRestarts
    PROVE  CallFrame
<1>1. ASSUME NEW m \in DOMAIN meetings
      PROVE  meetings'[m].started = meetings[m].started
  <2>1. meetings[m] \in Row /\ meetings'[m] = [meetings[m] EXCEPT !.marked = FALSE]
    BY Elements DEF IInv, WorkerRestarts
  <2> QED
    BY <2>1 DEF Row
<1> QED
  BY <1>1, RowsFrame DEF WorkerRestarts, IInv

\* The first utterance starts the recording of a row whose bot is in the call.
LEMMA FirstUtteranceCall ==
    ASSUME IInv, IInv', CallInv, NEW b \in DOMAIN bots, FirstUtterance(b)
    PROVE  CallInv'
<1> DEFINE m == bots[b].meeting
           quiet == [meetings[m] EXCEPT !.marked = TRUE]
           heard == [meetings[m] EXCEPT !.marked = TRUE, !.status = "recording",
                                        !.started = 0]
<1>1. m \in DOMAIN meetings /\ meetings[m] \in Row /\ bots[b] \in BotRec
  BY Elements DEF IInv, Refs
<1>2. UNCHANGED bots /\ bots[b].phase = "in_call"
  BY DEF FirstUtterance
<1>3. \/ meetings' = [meetings EXCEPT ![m] = quiet]
      \/ meetings' = [meetings EXCEPT ![m] = heard]
  BY <1>1 DEF FirstUtterance
<1>4. quiet \in Row /\ quiet.started = meetings[m].started
  BY <1>1 DEF Row
<1>5. heard \in Row /\ heard.started = 0
  <2>1. "recording" \in Status /\ 0 \in -1..AgeCap
    BY AgeCapNat DEF Status, Live
  <2> QED
    BY <1>1, <2>1 DEF Row
<1> HIDE DEF quiet, heard
<1>6. CASE meetings' = [meetings EXCEPT ![m] = quiet]
  <2>1. CallFrame
    BY <1>1, <1>2, <1>4, <1>6, RowFrame DEF IInv
  <2> QED
    BY <2>1, CallKept DEF IInv
<1>7. CASE meetings' = [meetings EXCEPT ![m] = heard]
  <2>1. /\ DOMAIN meetings' = DOMAIN meetings /\ meetings'[m].started = 0
        /\ \A n \in DOMAIN meetings \ {m} : meetings'[n] = meetings[n]
    BY <1>1, <1>5, <1>7, Updated DEF IInv, Types
  <2>2. 0 <= bots[b].age
    BY <1>1, LimitsNat DEF BotRec
  <2>3. Heard(b, m, 0)
    BY <1>2, <2>2 DEF Heard
  <2>4. ASSUME NEW n \in DOMAIN meetings', meetings'[n].started >= 0
        PROVE  \E c \in DOMAIN bots' : Heard(c, n, meetings[n].started)'
    <3>1. \E c \in DOMAIN bots : Heard(c, n, meetings'[n].started)
      <4>1. CASE n = m
        BY <2>1, <2>3, <4>1
      <4>2. CASE n # m
        BY <2>1, <2>4, <4>2 DEF CallInv
      <4> QED
        BY <4>1, <4>2
    <3> QED
      BY <1>2, <3>1 DEF Heard
  <2> QED
    BY <1>2, <2>4 DEF CallInv
<1> QED
  BY <1>3, <1>6, <1>7

\* Time passes for the row and for its bot, which is taken out at its limit.
LEMMA TickCall ==
    ASSUME IInv, CallInv, Tick
    PROVE  CallInv'
<1>1. DOMAIN bots' = DOMAIN bots /\ DOMAIN meetings' = DOMAIN meetings
  BY DEF Tick, IInv, Types
<1>2. ASSUME NEW b \in DOMAIN bots
      PROVE  /\ b \in DOMAIN bots' /\ bots[b].age \in Nat
             /\ bots'[b].meeting = bots[b].meeting /\ bots'[b].phase = bots[b].phase
             /\ bots[b].phase = "in_call" =>
                  bots'[b].age = bots[b].age + 1 /\ bots[b].age < MaxDuration
  <2>1. bots[b] \in BotRec
    BY Elements DEF IInv
  <2>2. bots[b].age \in Nat
    BY <2>1, LimitsNat DEF BotRec
  <2>3. bots'[b] = [bots[b] EXCEPT !.age = IF Present(b) THEN @ + 1 ELSE @]
    BY DEF Tick
  <2>4. bots[b].phase = "in_call" => Present(b) /\ bots[b].age < MaxDuration
    BY DEF Present, Tick
  <2>5. PICK a \in Nat : bots'[b] = [bots[b] EXCEPT !.age = a]
                          /\ (bots[b].phase = "in_call" => a = bots[b].age + 1)
    <3> DEFINE a == IF Present(b) THEN bots[b].age + 1 ELSE bots[b].age
    <3>1. a \in Nat /\ (bots[b].phase = "in_call" => a = bots[b].age + 1)
      BY <2>2, <2>4
    <3>2. bots'[b] = [bots[b] EXCEPT !.age = a]
      BY <2>3
    <3> QED
      BY <3>1, <3>2
  <2> QED
    BY <1>1, <2>1, <2>2, <2>4, <2>5 DEF BotRec
<1>3. ASSUME NEW m \in DOMAIN meetings
      PROVE  /\ meetings[m].started \in Int
             /\ meetings[m].started < 0 => meetings'[m].started < 0
             /\ meetings'[m].started \in Int
             /\ meetings'[m].started <= meetings[m].started + 1
  <2>1. meetings[m] \in Row /\ meetings[m].started \in -1..AgeCap
    BY Elements DEF IInv, Row
  <2>2. PICK a, s : /\ meetings'[m] = [meetings[m] EXCEPT !.age = a, !.started = s]
                    /\ s = IF meetings[m].started < 0 THEN meetings[m].started
                                                      ELSE Older(meetings[m].started)
    BY DEF Tick
  <2>3. meetings'[m].started = s
    BY <2>1, <2>2 DEF Row
  <2> QED
    BY <2>1, <2>2, <2>3, AgeCapNat DEF Older
<1>4. ASSUME NEW m \in DOMAIN meetings', meetings'[m].started >= 0
      PROVE  \E b \in DOMAIN bots' : Heard(b, m, meetings[m].started)'
  <2>1. /\ m \in DOMAIN meetings
        /\ meetings[m].started \in Int /\ meetings'[m].started \in Int
        /\ meetings[m].started >= 0 /\ meetings'[m].started <= meetings[m].started + 1
    BY <1>1, <1>3, <1>4
  <2>2. PICK b \in DOMAIN bots : Heard(b, m, meetings[m].started)
    BY <2>1 DEF CallInv
  <2>3. bots[b].phase = "in_call" => meetings'[m].started <= bots'[b].age
    BY <1>2, <2>1, <2>2 DEF Heard
  <2> QED
    BY <1>2, <2>2, <2>3 DEF Heard
<1>5. ASSUME NEW b \in DOMAIN bots', bots'[b].phase = "in_call"
      PROVE  bots'[b].age <= MaxDuration
  <2>1. b \in DOMAIN bots /\ bots[b].phase = "in_call"
    BY <1>2, <1>1, <1>5
  <2> QED
    BY <1>2, <2>1, LimitsNat
<1> QED
  BY <1>4, <1>5 DEF CallInv

LEMMA CallHolds == IInv /\ IInv' /\ CallInv /\ [Next]_vars => CallInv'
<1> SUFFICES ASSUME IInv, IInv', CallInv, [Next]_vars PROVE CallInv'
  OBVIOUS
<1>1. ASSUME CallFrame PROVE CallInv'
  BY <1>1, CallKept DEF IInv
<1>2. ASSUME UNCHANGED <<meetings, bots>> PROVE CallInv'
  BY <1>1, <1>2, StillFrame DEF IInv
<1>3. ASSUME NEW e \in CalEvent, OptIn(e) \/ OptOut(e) \/ Reschedule(e) PROVE CallInv'
  BY <1>2, <1>3 DEF OptIn, OptOut, Reschedule, Wanted
<1>4. ASSUME NEW l \in DOMAIN launches, LaunchStep(l) \/ LaunchDies(l) PROVE CallInv'
  <2>1. CASE Reload(l) \/ Lookup(l) \/ InsertConflicts(l) \/ LaunchDies(l)
    BY <1>2, <2>1 DEF Reload, Lookup, InsertConflicts, LaunchDies
  <2> QED
    BY <1>1, <1>4, <2>1, InsertFrame, CreateBotFrame, FinalizeFrame DEF LaunchStep
<1>5. ASSUME NEW b \in DOMAIN bots,
             Admitted(b) \/ Leaves(b) \/ FirstUtterance(b) \/ Webhook(b)
      PROVE  CallInv'
  BY <1>1, <1>5, AdmittedFrame, LeavesFrame, FirstUtteranceCall, WebhookFrame
<1>6. CASE WorkerRestarts
  BY <1>1, <1>6, WorkerRestartsFrame
<1>7. ASSUME NEW m \in DOMAIN meetings,
             RetryLaunch(m) \/ ReapRecording(m) \/ ReapPrelaunch(m) \/ EndNow(m)
      PROVE  CallInv'
  <2>1. CASE RetryLaunch(m)
    BY <1>2, <2>1 DEF RetryLaunch, Wanted
  <2> QED
    BY <1>1, <1>7, <2>1, GivenUpFrame
<1>8. CASE Tick
  BY <1>8, TickCall
<1>9. CASE UNCHANGED vars
  BY <1>2, <1>9 DEF vars
<1> QED
  BY <1>3, <1>4, <1>5, <1>6, <1>7, <1>8, <1>9 DEF Next

-----------------------------------------------------------------------------
(***************************************************************************)
(* Who completes a recording.                                              *)
(***************************************************************************)
\* The property, of one row.
Spared(m) ==
    /\ MaxDuration <= HardCap
    /\ meetings[m].status = "recording" /\ meetings[m].started >= 0
    /\ meetings'[m].status = "completed" /\ meetings'[m].givenUp = "reaper"
    => \A b \in DOMAIN bots :
          bots[b].meeting = m /\ bots[b].phase = "in_call" =>
              \E c \in DOMAIN bots \ {b} : bots[c].meeting = m

\* A step that keeps the status of m, gives it one that is not completed, or
\* completes it by hand.
LEMMA SparedByOthers ==
    ASSUME NEW m,
           meetings[m].status = "recording" =>
              meetings'[m].status # "completed" \/ meetings'[m].givenUp # "reaper"
    PROVE  Spared(m)
BY DEF Spared

\* A webhook completes the row of a bot that has ended: one in the call is another.
LEMMA SparedByWebhook ==
    ASSUME IInv, NEW b \in DOMAIN bots, Webhook(b), NEW m \in DOMAIN meetings
    PROVE  Spared(m)
<1>1. PICK i \in DOMAIN Reported(b), n \in DOMAIN meetings :
         LET new == Reported(b)[i]
         IN /\ meetings[n].bot = b
            /\ \/ meetings' = [meetings EXCEPT ![n] = Moved(n, new)]
               \/ Completed(n, Moved(n, new))
  BY DEF Webhook
<1> DEFINE new == Reported(b)[i]
           row == Moved(n, new)
<1>2. bots[b].phase \in Phase /\ b # 0 /\ meetings \in Seq(Row)
  BY Elements DEF IInv, Types, BotRec
<1>3. new \in Status /\ (new \in Live \/ ~Present(b))
  BY <1>2, Reports
<1>4. row \in Row /\ row.status = new
  <2>1. meetings[n] \in Row
    BY Elements DEF IInv
  <2>2. row \in Row
    BY <1>3, MovedStart DEF IInv
  <2> QED
    BY <2>1, <2>2 DEF Moved, Row
<1>5. meetings' = [meetings EXCEPT ![n] = row] \/ Completed(n, row)
  BY <1>1
<1> HIDE DEF row
<1>6. PICK final \in Row : /\ meetings' = [meetings EXCEPT ![n] = final]
                           /\ final.status = new
  BY <1>4, <1>5, CompletedRow
<1>7. bots[b].meeting = n
  BY <1>1, <1>2 DEF IInv, BotsInv, Serves
<1>8. CASE m # n
  <2>1. meetings'[m] = meetings[m]
    BY <1>2, <1>6, <1>8, Updated
  <2> QED
    BY <2>1, SparedByOthers
<1>9. CASE m = n
  <2>1. meetings'[m].status = new
    BY <1>2, <1>6, <1>9, Updated
  <2>2. CASE new = "completed"
    <3>1. bots[b].phase # "in_call"
      BY <1>3, <2>2 DEF Live, Present
    <3> QED
      BY <1>7, <1>9, <3>1 DEF Spared
  <2>3. CASE new # "completed"
    BY <2>1, <2>3, SparedByOthers
  <2> QED
    BY <2>2, <2>3
<1> QED
  BY <1>8, <1>9

\* The reaper waits for longer than any bot stays: the bot of a row that is overdue
\* by its started_at has left the call, and one that is in the call came later.
LEMMA SparedByReaper ==
    ASSUME IInv, CallInv, NEW n \in DOMAIN meetings, ReapRecording(n),
           NEW m \in DOMAIN meetings
    PROVE  Spared(m)
<1> DEFINE row == [meetings[n] EXCEPT !.status = "completed", !.givenUp = "reaper"]
<1>1. meetings[n] \in Row /\ meetings \in Seq(Row)
  BY Elements DEF IInv, Types
<1>2. row \in Row /\ Completed(n, row)
  BY <1>1 DEF Row, Status, ReapRecording
<1> HIDE DEF row
<1>3. PICK final \in Row : meetings' = [meetings EXCEPT ![n] = final]
  BY <1>2, CompletedRow
<1>4. CASE m # n
  <2>1. meetings'[m] = meetings[m]
    BY <1>1, <1>3, <1>4, Updated
  <2> QED
    BY <2>1, SparedByOthers
<1>5. CASE m = n
  <2> SUFFICES ASSUME MaxDuration <= HardCap, meetings[n].started >= 0,
                      NEW b \in DOMAIN bots, bots[b].meeting = n,
                      bots[b].phase = "in_call"
               PROVE  \E c \in DOMAIN bots \ {b} : bots[c].meeting = n
    BY <1>5 DEF Spared
  <2>1. meetings[n].started > ReapAfter
    BY DEF ReapRecording
  <2>2. /\ MaxDuration \in Nat /\ ReapAfter \in Nat /\ ReapAfter >= MaxDuration
        /\ meetings[n].started \in Int /\ bots[b].age \in Nat
    <3>1. meetings[n].started \in Int
      BY <1>1, AgeCapNat DEF Row
    <3>2. bots[b].age \in Nat
      BY Elements, LimitsNat DEF IInv, BotRec
    <3> QED
      BY <3>1, <3>2, MeetingsAssumption DEF ReapAfter
  <2>3. PICK c \in DOMAIN bots : Heard(c, n, meetings[n].started)
    BY DEF CallInv
  <2>4. bots[b].age <= MaxDuration
    BY DEF CallInv
  <2>5. c # b
    BY <2>1, <2>2, <2>3, <2>4 DEF Heard
  <2> QED
    BY <2>3, <2>5 DEF Heard
<1> QED
  BY <1>4, <1>5

\* A step that gives row n a status other than completed, or a hand that ended it.
LEMMA SparedByRow ==
    ASSUME IInv, NEW n \in DOMAIN meetings, NEW row \in Row,
           meetings' = [meetings EXCEPT ![n] = row],
           meetings[n].status = "recording" =>
              row.status # "completed" \/ row.givenUp # "reaper",
           NEW m \in DOMAIN meetings
    PROVE  Spared(m)
<1>1. meetings'[n] = row /\ \A k \in DOMAIN meetings \ {n} : meetings'[k] = meetings[k]
  BY Updated DEF IInv, Types
<1>2. meetings[m].status = "recording" =>
         meetings'[m].status # "completed" \/ meetings'[m].givenUp # "reaper"
  BY <1>1
<1> QED
  BY <1>2, SparedByOthers

LEMMA SparedByFinalize ==
    ASSUME IInv, NEW l \in DOMAIN launches, Finalize(l), NEW m \in DOMAIN meetings
    PROVE  Spared(m)
<1> DEFINE n == launches[l].meeting
           new == LaunchedStatus(l)
           row == [Moved(n, new) EXCEPT !.bot = IF new = "failed" THEN @ ELSE launches[l].bot]
<1>1. UNCHANGED meetings \/ meetings' = [meetings EXCEPT ![n] = row]
  BY DEF Finalize
<1>2. /\ n \in DOMAIN meetings /\ launches[l].bot \in Nat
      /\ new \in Status /\ new # "completed"
  BY Elements
  DEF IInv, OwnersInv, OwnerInv, Finalize, Owner, Owning, At, LaunchedStatus, Status,
      Live, LaunchRec
<1>3. Moved(n, new) \in Row /\ Moved(n, new).status = new
  <2>1. meetings[n] \in Row
    BY <1>2, Elements DEF IInv
  <2>2. Moved(n, new) \in Row
    BY <1>2, MovedStart DEF IInv
  <2> QED
    BY <2>1, <2>2 DEF Moved, Row
<1>4. row \in Row /\ row.status = new
  BY <1>2, <1>3 DEF Row
<1> HIDE DEF row
<1>5. CASE UNCHANGED meetings
  BY <1>5, SparedByOthers
<1>6. CASE meetings' = [meetings EXCEPT ![n] = row]
  BY <1>2, <1>4, <1>6, SparedByRow
<1> QED
  BY <1>1, <1>5, <1>6

LEMMA SparedByUtterance ==
    ASSUME IInv, NEW b \in DOMAIN bots, FirstUtterance(b), NEW m \in DOMAIN meetings
    PROVE  Spared(m)
<1> DEFINE n == bots[b].meeting
           quiet == [meetings[n] EXCEPT !.marked = TRUE]
           heard == [meetings[n] EXCEPT !.marked = TRUE, !.status = "recording",
                                        !.started = 0]
<1>1. n \in DOMAIN meetings /\ meetings[n] \in Row
  BY Elements DEF IInv, Refs
<1>2. \/ meetings' = [meetings EXCEPT ![n] = quiet]
      \/ meetings' = [meetings EXCEPT ![n] = heard]
  BY <1>1 DEF FirstUtterance
<1>3. quiet \in Row /\ quiet.status = meetings[n].status
  BY <1>1 DEF Row
<1>4. heard \in Row /\ heard.status = "recording"
  <2>1. "recording" \in Status /\ 0 \in -1..AgeCap
    BY AgeCapNat DEF Status, Live
  <2> QED
    BY <1>1, <2>1 DEF Row
<1> HIDE DEF quiet, heard
<1> QED
  BY <1>1, <1>2, <1>3, <1>4, SparedByRow

LEMMA SparedByHand ==
    ASSUME IInv, NEW n \in DOMAIN meetings, EndNow(n), NEW m \in DOMAIN meetings
    PROVE  Spared(m)
<1> DEFINE row == [meetings[n] EXCEPT !.status = "completed", !.givenUp = "hand"]
<1>1. meetings[n] \in Row
  BY Elements DEF IInv
<1>2. row \in Row /\ row.givenUp = "hand"
  BY <1>1 DEF Row, Status
<1>3. PICK told \in NotifyEnd(row) : meetings' = [meetings EXCEPT ![n] = told]
  BY DEF EndNow
<1> HIDE DEF row
<1>4. told \in Row /\ told.givenUp = "hand"
  BY <1>2, <1>3 DEF NotifyEnd, Row
<1> QED
  BY <1>3, <1>4, SparedByRow

LEMMA SparedByPrelaunch ==
    ASSUME IInv, NEW n \in DOMAIN meetings, ReapPrelaunch(n), NEW m \in DOMAIN meetings
    PROVE  Spared(m)
<1> DEFINE row == [meetings[n] EXCEPT !.status = "failed", !.givenUp = "reaper"]
<1>1. meetings[n] \in Row
  BY Elements DEF IInv
<1>2. row \in Row /\ row.status = "failed"
  BY <1>1 DEF Row, Status
<1>3. meetings' = [meetings EXCEPT ![n] = row]
  BY <1>1 DEF ReapPrelaunch, Row
<1> HIDE DEF row
<1> QED
  BY <1>2, <1>3, SparedByRow

\* Neither an insert, nor time, nor the worker's restart changes a status.
LEMMA SparedByTheRest ==
    ASSUME IInv, NEW m \in DOMAIN meetings,
           \/ WorkerRestarts \/ Tick \/ UNCHANGED meetings
           \/ \E l \in DOMAIN launches : Insert(l)
    PROVE  Spared(m)
<1>1. meetings[m] \in Row
  BY Elements DEF IInv
<1>2. CASE WorkerRestarts
  <2>1. meetings'[m] = [meetings[m] EXCEPT !.marked = FALSE]
    BY <1>2 DEF WorkerRestarts
  <2>2. meetings'[m].status = meetings[m].status
    BY <1>1, <2>1 DEF Row
  <2> QED
    BY <2>2, SparedByOthers
<1>3. CASE Tick
  <2>1. PICK a, s : meetings'[m] = [meetings[m] EXCEPT !.age = a, !.started = s]
    BY <1>3 DEF Tick
  <2>2. meetings'[m].status = meetings[m].status
    BY <1>1, <2>1 DEF Row
  <2> QED
    BY <2>2, SparedByOthers
<1>4. CASE UNCHANGED meetings
  BY <1>4, SparedByOthers
<1>5. ASSUME NEW l \in DOMAIN launches, Insert(l) PROVE Spared(m)
  <2>1. meetings' = Append(meetings, NewMeeting(launches[l].event))
    BY <1>5 DEF Insert
  <2>2. meetings'[m] = meetings[m]
    BY <2>1 DEF IInv, Types
  <2> QED
    BY <2>2, SparedByOthers
<1> QED
  BY <1>2, <1>3, <1>4, <1>5

LEMMA AllSpared ==
    ASSUME IInv, CallInv, [Next]_vars, NEW m \in DOMAIN meetings
    PROVE  Spared(m)
<1>1. ASSUME UNCHANGED meetings PROVE Spared(m)
  BY <1>1, SparedByTheRest
<1>2. ASSUME NEW e \in CalEvent, OptIn(e) \/ OptOut(e) \/ Reschedule(e) PROVE Spared(m)
  BY <1>1, <1>2 DEF OptIn, OptOut, Reschedule, Wanted
<1>3. ASSUME NEW l \in DOMAIN launches, LaunchStep(l) \/ LaunchDies(l) PROVE Spared(m)
  <2>1. CASE Reload(l) \/ Lookup(l) \/ InsertConflicts(l) \/ CreateBot(l) \/ LaunchDies(l)
    BY <1>1, <2>1 DEF Reload, Lookup, InsertConflicts, CreateBot, LaunchDies
  <2>2. CASE Insert(l)
    BY <2>2, SparedByTheRest
  <2> QED
    BY <1>3, <2>1, <2>2, SparedByFinalize DEF LaunchStep
<1>4. ASSUME NEW b \in DOMAIN bots,
             Admitted(b) \/ Leaves(b) \/ FirstUtterance(b) \/ Webhook(b)
      PROVE  Spared(m)
  <2>1. CASE Admitted(b)
    BY <1>1, <2>1 DEF Admitted
  <2>2. CASE Leaves(b)
    BY <1>1, <2>2 DEF Leaves
  <2> QED
    BY <1>4, <2>1, <2>2, SparedByUtterance, SparedByWebhook
<1>5. CASE WorkerRestarts \/ Tick
  BY <1>5, SparedByTheRest
<1>6. ASSUME NEW n \in DOMAIN meetings,
             RetryLaunch(n) \/ ReapRecording(n) \/ ReapPrelaunch(n) \/ EndNow(n)
      PROVE  Spared(m)
  <2>1. CASE RetryLaunch(n)
    BY <1>1, <2>1 DEF RetryLaunch, Wanted
  <2> QED
    BY <1>6, <2>1, SparedByReaper, SparedByPrelaunch, SparedByHand
<1>7. CASE UNCHANGED vars
  BY <1>1, <1>7 DEF vars
<1> QED
  BY <1>2, <1>3, <1>4, <1>5, <1>6, <1>7 DEF Next

\* The rows of a call, its launch runs and its bots keep an invariant that no step
\* of theirs breaks, in any order and whatever fails.
THEOREM MeetingsInductive == Spec => []IInv
BY InitHolds, NextHolds, PTL DEF Spec

\* Rows, runs and bots keep their types, and every reference names what exists.
THEOREM MeetingsTypeCorrect == Spec => []MeetingsTypeOK
BY MeetingsInductive, TypeFollows, PTL

\* However the launches of any number of attendees race, two bots whose creation was
\* answered are in the call together only when a row of theirs was given up.
THEOREM OneBotPerMeetingHolds == Spec => []OneBotPerMeeting
BY MeetingsInductive, OneBotFollows, PTL

\* Recap and gap assembly are requested once per meeting unless it was reopened.
THEOREM JobsRequestedOnceHolds == Spec => []JobsRequestedOnce
<1>1. IInv => JobsRequestedOnce
  BY JobsFollow
<1> QED
  BY <1>1, MeetingsInductive, PTL

\* A completed meeting had its jobs requested, was ended by hand, or a call failed.
THEOREM CompletedIsProcessedHolds == Spec => []CompletedIsProcessed
<1>1. IInv => CompletedIsProcessed
  BY JobsFollow
<1> QED
  BY <1>1, MeetingsInductive, PTL

\* The invariant with what is known of a recording and the bot in its call.
THEOREM CallInductive == Spec => [](IInv /\ CallInv)
<1>1. Init => CallInv
  BY DEF Init, CallInv
<1>2. IInv /\ CallInv /\ [Next]_vars => (IInv /\ CallInv)'
  BY NextHolds, CallHolds
<1> QED
  BY <1>1, <1>2, InitHolds, PTL DEF Spec

\* "the bot is physically gone by started_at + maxDuration": whatever the durations,
\* as long as a meeting may not last longer than the reaper's cap, the reaper never
\* completes a meeting whose only bot is in the call.
THEOREM ReaperSparesTheCallAlways == Spec => ReaperSparesTheCall
<1>1. IInv /\ CallInv /\ [Next]_vars =>
        [\A m \in DOMAIN meetings :
            /\ MaxDuration <= HardCap
            /\ meetings[m].status = "recording" /\ meetings[m].started >= 0
            /\ meetings'[m].status = "completed" /\ meetings'[m].givenUp = "reaper"
            => \A b \in DOMAIN bots :
                  bots[b].meeting = m /\ bots[b].phase = "in_call" =>
                      \E c \in DOMAIN bots \ {b} : bots[c].meeting = m]_vars
  BY AllSpared DEF Spared
<1> QED
  BY <1>1, CallInductive, PTL DEF Spec, ReaperSparesTheCall
=============================================================================
