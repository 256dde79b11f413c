-------------------------- MODULE AfterMeetingProofs --------------------------
(***************************************************************************)
(* What comes after a meeting: its knowledge gaps (Gaps), and its recap    *)
(* (Recap, in the second half).                                            *)
(*                                                                         *)
(* The gaps: a gap counts the asks there are, a miss is marked processed   *)
(* only when it is counted, what a manager put somewhere stays there, and a*)
(* closed gap opens only for a reason; for any number of meetings,         *)
(* utterances, topics, sections and managers, and any number of runs,      *)
(* retries, backfills and merges.                                          *)
(***************************************************************************)
EXTENDS Gaps, Recap, FiniteSetTheorems, TLAPS

-----------------------------------------------------------------------------
(***************************************************************************)
(* The inductive invariant.                                                *)
(***************************************************************************)
Row == Utterance \X (Nat \ {0})
MissStatus == {"new", "processed", "swept"}
GapStatus == {"open", "closed"}
GapRow == [topic : Topic, present : BOOLEAN, frequency : Nat, status : GapStatus,
           section : Section \cup {Uncategorized}, pinned : BOOLEAN]

Call == [topic : Topic, gap : Nat \ {0}, closed : BOOLEAN]
Loading == [at : {"load"}, tries : Nat]
Assembling == [at : {"groups", "rpc"}, tries : Nat, batch : SUBSET Row, topics : SUBSET Topic,
               touched : SUBSET (Nat \ {0}), call : {None} \cup Call]
Placing == [at : {"place"}, tries : Nat, batch : SUBSET Row, place : SUBSET (Nat \ {0})]

Reading == [at : {"read"}, of : SUBSET Meeting, left : SUBSET Meeting, ready : SUBSET Meeting,
            tries : Nat]
Inserting == [at : {"insert"}, of : SUBSET Meeting, left : SUBSET Meeting,
              ready : SUBSET Meeting, tries : Nat, insert : SUBSET Utterance, meeting : Meeting]

Formed ==
    /\ misses \in [Utterance -> Seq(MissStatus)]
    /\ DOMAIN occ \subseteq Utterance
    /\ gaps \in Seq(GapRow)
    /\ DOMAIN run = Meeting
    /\ backfill = None \/ backfill \in Reading \/ backfill \in Inserting
    /\ retracted \subseteq Utterance /\ ended \subseteq Meeting /\ sections \subseteq Section
    /\ DOMAIN action = Actor
    /\ DOMAIN history = {"chosen", "overtaken", "raced", "skipped", "exhausted"}

Shape(r) == r = None \/ r \in Loading \/ r \in Assembling \/ r \in Placing
Assembles(m) == run[m].at \in {"groups", "rpc"}

\* An utterance that is counted, or that had a bad embedding.
Settled(u) == u \in DOMAIN occ \cup history.skipped

BatchTopics(m) == {TopicOf[r[1]] : r \in run[m].batch}

\* What the call has read stands until it writes: the lock keeps everybody else from
\* the gaps there are.
CallStands(m) ==
    LET c == run[m].call IN
    /\ c \in Call /\ c.topic \in BatchTopics(m)
    /\ IF Nearest(c.topic) = {} THEN c.gap = Len(gaps) + 1 ELSE c.gap \in Nearest(c.topic)

\* A miss of the batch was settled, or its group is still to come.
DealtWith(m, u) ==
    \/ Settled(u)
    \/ Assembles(m) /\ TopicOf[u] \in run[m].topics
    \/ At(m, "rpc") /\ TopicOf[u] = run[m].call.topic

\* The batch of a run is unprocessed until the run marks it.
RunOK(m) ==
    /\ Shape(run[m])
    /\ Assembles(m) \/ At(m, "place") =>
          /\ run[m].batch \subseteq Unprocessed(m)
          /\ \A r \in run[m].batch : DealtWith(m, r[1])
    /\ Assembles(m) => run[m].topics \subseteq BatchTopics(m)
    /\ At(m, "rpc") => CallStands(m)

OneLocks == \A m, n \in Meeting : At(m, "rpc") /\ At(n, "rpc") => m = n

\* A miss of the utterance waits to be assembled, or will.
AskedAgain(u) ==
    \/ <<"miss", u>> \in unwritten
    \/ \E k \in DOMAIN misses[u] : misses[u][k] = "new"
    \/ backfill.at = "insert" /\ u \in backfill.insert

\* What was counted and will be assembled again finds a gap of its topic.
AskedAgainIsNear ==
    \A u \in DOMAIN occ : AskedAgain(u) =>
        Nearest(TopicOf[u]) # {} \/ TopicOf[u] \in history.raced

\* A gap a manager has put somewhere and a run will place was put there after the run
\* had picked it.
ChosenOvertaken ==
    /\ DOMAIN history.chosen \subseteq DOMAIN gaps
    /\ \A m \in Meeting : At(m, "place") =>
          run[m].place \cap DOMAIN history.chosen \subseteq history.overtaken

Counted == ProcessedIsCounted /\ GapsCountTheirAsks /\ AskedAgainIsNear
Curated == CurationStands /\ ChosenOvertaken

IInv == Formed /\ (\A m \in Meeting : RunOK(m)) /\ OneLocks /\ Counted /\ Curated

LEMMA InitHolds == ASSUME GapsAssumption, Init PROVE IInv
<1>1. /\ gaps = <<>> /\ occ = <<>> /\ DOMAIN occ = {} /\ DOMAIN gaps = {} /\ gaps \in Seq(GapRow)
      /\ misses = [u \in Utterance |-> <<>>] /\ backfill = None /\ history = Blank
      /\ run = [m \in Meeting |-> None] /\ action = [a \in Actor |-> None]
  BY DEF Init
<1>2. \A u \in Utterance : misses[u] = <<>> /\ DOMAIN misses[u] = {}
  BY <1>1
<1>3. Formed
  BY <1>1 DEF Init, Formed, Blank
<1>4. \A m \in Meeting : run[m] = None /\ run[m].at = "none"
  BY <1>1 DEF None
<1>5. \A m \in Meeting : RunOK(m)
  BY <1>4 DEF RunOK, Shape, Assembles, At
<1>6. OneLocks
  BY <1>4 DEF OneLocks, At
<1>7. Counted
  BY <1>1, <1>2 DEF Counted, ProcessedIsCounted, GapsCountTheirAsks, AskedAgainIsNear
<1>8. Curated
  BY <1>1, <1>4 DEF Curated, CurationStands, ChosenOvertaken, Blank, At
<1> QED
  BY <1>3, <1>5, <1>6, <1>7, <1>8 DEF IInv

-----------------------------------------------------------------------------
(***************************************************************************)
(* What a step leaves alone.                                               *)
(***************************************************************************)
\* The gaps are those there were, with their topics and their counts.
GapsKept ==
    /\ gaps' \in Seq(GapRow) /\ Len(gaps') = Len(gaps)
    /\ \A g \in DOMAIN gaps : /\ gaps'[g].topic = gaps[g].topic
                              /\ gaps'[g].present = gaps[g].present
                              /\ gaps'[g].frequency = gaps[g].frequency

\* No miss is taken for processed that was not.
MissesKept ==
    /\ misses' \in [Utterance -> Seq(MissStatus)]
    /\ \A m \in Meeting : Unprocessed(m) \subseteq Unprocessed(m)'
    /\ \A u \in Utterance : (\E k \in DOMAIN misses'[u] : misses'[u][k] # "new")
                              => (\E k \in DOMAIN misses[u] : misses[u][k] # "new")

LEMMA KeptNear ==
    ASSUME Formed, GapsKept
    PROVE  /\ DOMAIN gaps' = DOMAIN gaps
           /\ \A g : Present(g)' = Present(g)
           /\ \A t : Nearest(t)' = Nearest(t)
<1>1. DOMAIN gaps' = DOMAIN gaps
  BY DEF Formed, GapsKept
<1>2. \A g : Present(g)' = Present(g)
  BY <1>1 DEF GapsKept, Present
<1> QED
  BY <1>1, <1>2 DEF Nearest, GapsKept

\* A run that does not move.
LEMMA RunStays ==
    ASSUME NEW m \in Meeting, RunOK(m), run'[m] = run[m],
           Unprocessed(m) \subseteq Unprocessed(m)',
           \A u : Settled(u) => Settled(u)',
           At(m, "rpc") => Len(gaps') = Len(gaps) /\ \A t : Nearest(t)' = Nearest(t)
    PROVE  RunOK(m)'
<1>1. Assembles(m)' = Assembles(m) /\ BatchTopics(m)' = BatchTopics(m) /\ \A s : At(m, s)' = At(m, s)
  BY DEF Assembles, BatchTopics, At
<1>2. At(m, "rpc") => CallStands(m)'
  BY <1>1 DEF RunOK, CallStands
<1>3. \A u : DealtWith(m, u) => DealtWith(m, u)'
  BY <1>1 DEF DealtWith
<1> QED
  BY <1>1, <1>2, <1>3 DEF RunOK

LEMMA CountsStay ==
    ASSUME Formed, Counted, GapsKept, MissesKept, occ' = occ,
           history.skipped \subseteq history'.skipped, history.raced \subseteq history'.raced,
           \A u \in DOMAIN occ : AskedAgain(u)' => AskedAgain(u) \/ TopicOf[u] \in history'.raced
    PROVE  Counted'
<1>1. \A g : Present(g)' = Present(g)
  BY KeptNear
<1>2. \A t : Nearest(t)' = Nearest(t)
  BY KeptNear
<1>3. ProcessedIsCounted'
  BY DEF Counted, ProcessedIsCounted, MissesKept
<1>4. AskedAgainIsNear'
  BY <1>2 DEF Counted, AskedAgainIsNear
<1>5. \A g \in DOMAIN gaps' : Present(g)' =>
         /\ gaps'[g].frequency = Asks(occ', g)
         /\ gaps'[g].frequency > 0 \/ gaps'[g].topic \in history'.raced
  BY <1>1, KeptNear DEF Counted, GapsCountTheirAsks, GapsKept
<1>6. GapsCountTheirAsks'
  BY <1>1, <1>5 DEF Counted, GapsCountTheirAsks
<1> QED
  BY <1>3, <1>4, <1>6 DEF Counted

\* The gaps are where they were, and the managers have put nothing anywhere.
LEMMA CurationStays ==
    ASSUME Formed, Curated, GapsKept,
           \A g \in DOMAIN gaps : gaps'[g].section = gaps[g].section /\ gaps'[g].pinned = gaps[g].pinned,
           history'.chosen = history.chosen, history'.overtaken = history.overtaken,
           \A m \in Meeting : At(m, "place")' =>
               run'[m].place \cap DOMAIN history.chosen \subseteq history.overtaken
    PROVE  Curated'
<1>1. DOMAIN gaps' = DOMAIN gaps /\ \A g : Present(g)' = Present(g)
  BY KeptNear
<1>2. CurationStands'
  BY <1>1 DEF Curated, CurationStands, Present
<1>3. ChosenOvertaken'
  BY <1>1 DEF Curated, ChosenOvertaken
<1> QED
  BY <1>2, <1>3 DEF Curated

\* A step beside the runs: neither the counts nor the runs notice.
LEMMA Beside ==
    ASSUME IInv, Curated', GapsKept, MissesKept, UNCHANGED <<occ, run>>,
           backfill' = None \/ backfill' \in Reading \/ backfill' \in Inserting,
           retracted' \subseteq Utterance, ended' \subseteq Meeting, sections' \subseteq Section,
           DOMAIN action' = Actor,
           DOMAIN history' = DOMAIN history,
           history'.skipped = history.skipped, history.raced \subseteq history'.raced,
           \A u \in DOMAIN occ : AskedAgain(u)' => AskedAgain(u) \/ TopicOf[u] \in history'.raced
    PROVE  IInv'
<1>1. Formed'
  BY DEF IInv, Formed, GapsKept, MissesKept
<1>2. \A u : Settled(u)' = Settled(u)
  BY DEF Settled
<1>3. \A t : Nearest(t)' = Nearest(t)
  BY KeptNear DEF IInv
<1>4. \A m \in Meeting : RunOK(m)'
  BY <1>2, <1>3, RunStays DEF IInv, GapsKept, MissesKept
<1>5. OneLocks'
  BY DEF IInv, OneLocks, At
<1>6. Counted'
  BY CountsStay DEF IInv
<1> QED
  BY <1>1, <1>4, <1>5, <1>6 DEF IInv

LEMMA Still ==
    ASSUME Formed, UNCHANGED gaps
    PROVE  GapsKept
BY DEF Formed, GapsKept

LEMMA MissesStill ==
    ASSUME Formed, UNCHANGED misses
    PROVE  MissesKept
BY DEF Formed, MissesKept, Unprocessed, Rows

\* Nobody but a manager moves gaps about.
LEMMA CurationUntouched ==
    ASSUME IInv, UNCHANGED <<gaps, run>>, history'.chosen = history.chosen,
           history'.overtaken = history.overtaken
    PROVE  Curated'
BY Still, CurationStays DEF IInv, Curated, ChosenOvertaken, At, Formed

\* The rows inserted are new ones.
LEMMA InsertedRows ==
    ASSUME Formed, NEW us \in SUBSET Utterance, misses' = Inserted(us)
    PROVE  /\ MissesKept
           /\ \A u \in Utterance : (\E k \in DOMAIN misses'[u] : misses'[u][k] = "new")
                 => u \in us \/ \E k \in DOMAIN misses[u] : misses[u][k] = "new"
<1>1. \A u \in Utterance : misses[u] \in Seq(MissStatus)
  BY DEF Formed
<1>2. ASSUME NEW u \in Utterance
      PROVE  /\ misses'[u] \in Seq(MissStatus)
             /\ DOMAIN misses[u] \subseteq DOMAIN misses'[u]
             /\ \A k \in DOMAIN misses[u] : misses'[u][k] = misses[u][k]
             /\ \A k \in DOMAIN misses'[u] \ DOMAIN misses[u] : u \in us /\ misses'[u][k] = "new"
  <2>1. CASE u \in us
    <3>1. misses'[u] = Append(misses[u], "new")
      BY <2>1 DEF Inserted
    <3> QED
      BY <1>1, <2>1, <3>1 DEF MissStatus
  <2>2. CASE u \notin us
    BY <1>1, <2>2 DEF Inserted
  <2> QED
    BY <2>1, <2>2
<1>3. misses' \in [Utterance -> Seq(MissStatus)]
  BY <1>2 DEF Inserted
<1>4. \A m \in Meeting : Unprocessed(m) \subseteq Unprocessed(m)'
  <2>1. ASSUME NEW u \in Utterance, NEW k \in DOMAIN misses[u]
        PROVE  <<u, k>> \in Rows'
    BY <1>2, <2>1 DEF Rows
  <2>2. ASSUME NEW r \in Rows
        PROVE  r \in Rows' /\ misses'[r[1]][r[2]] = misses[r[1]][r[2]]
    BY <1>2, <2>1, <2>2 DEF Rows
  <2> QED
    BY <2>2 DEF Unprocessed
<1>5. \A u \in Utterance : (\E k \in DOMAIN misses'[u] : misses'[u][k] # "new")
                             => (\E k \in DOMAIN misses[u] : misses[u][k] # "new")
  BY <1>2
<1> QED
  BY <1>2, <1>3, <1>4, <1>5 DEF MissesKept

-----------------------------------------------------------------------------
(***************************************************************************)
(* The steps beside the runs: the worker, the sweep, the backfill.         *)
(***************************************************************************)
LEMMA WorkerKeeps ==
    ASSUME IInv, Worker
    PROVE  IInv'
<1>1. UNCHANGED <<occ, gaps, sections, run, action, backfill, history>> /\ Curated' /\ GapsKept
  BY Still, CurationUntouched DEF Worker, RecordMiss, RetractAnswer, WriteFails, IInv
<1>2. ASSUME NEW u \in Utterance, RecordMiss(u) PROVE IInv'
  <2>0. {u} \in SUBSET Utterance /\ misses' = Inserted({u}) /\ UNCHANGED <<retracted, ended>>
    BY <1>2 DEF RecordMiss
  <2>1. /\ MissesKept
        /\ \A v \in Utterance : (\E k \in DOMAIN misses'[v] : misses'[v][k] = "new")
              => v = u \/ \E k \in DOMAIN misses[v] : misses[v][k] = "new"
    <3>1. Formed
      BY DEF IInv
    <3> QED
      BY <2>0, <3>1, InsertedRows
  <2>2. \A v \in DOMAIN occ : AskedAgain(v)' => AskedAgain(v)
    BY <1>1, <1>2, <2>1 DEF RecordMiss, AskedAgain, IInv, Formed
  <2> QED
    BY <1>1, <2>0, <2>1, <2>2, Beside DEF IInv, Formed
<1>3. ASSUME UNCHANGED <<misses, ended>>, retracted' \subseteq Utterance, unwritten' \subseteq unwritten PROVE IInv'
  <2>1. \A v \in DOMAIN occ : AskedAgain(v)' => AskedAgain(v)
    BY <1>1, <1>3 DEF AskedAgain
  <2> QED
    BY <1>1, <1>3, <2>1, MissesStill, Beside DEF IInv, Formed
<1> QED
  BY <1>2, <1>3 DEF Worker, RetractAnswer, WriteFails, IInv, Formed

LEMMA SweepKeeps ==
    ASSUME IInv, Sweep
    PROVE  IInv'
<1>1. /\ UNCHANGED <<occ, gaps, sections, run, action, backfill, history, unwritten, retracted, ended>>
      /\ Curated' /\ GapsKept
  BY Still, CurationUntouched DEF Sweep, IInv
<1>2. ASSUME NEW u \in Utterance
      PROVE  /\ misses'[u] \in Seq(MissStatus) /\ DOMAIN misses'[u] = DOMAIN misses[u]
             /\ \A k \in DOMAIN misses[u] :
                   misses'[u][k] = IF misses[u][k] = "processed" THEN "swept" ELSE misses[u][k]
  <2>1. misses[u] \in Seq(MissStatus)
    BY DEF IInv, Formed
  <2>2. misses'[u] = [k \in DOMAIN misses[u] |->
                        IF misses[u][k] = "processed" THEN "swept" ELSE misses[u][k]]
    BY DEF Sweep
  <2> QED
    BY <2>1, <2>2 DEF MissStatus
<1>3. MissesKept
  <2>1. misses' \in [Utterance -> Seq(MissStatus)]
    BY <1>2 DEF Sweep
  <2>2. Rows' = Rows
    BY <1>2 DEF Rows
  <2>3. \A m \in Meeting : Unprocessed(m) \subseteq Unprocessed(m)'
    BY <1>2, <2>2 DEF Unprocessed, Rows
  <2> QED
    BY <1>2, <2>1, <2>3 DEF MissesKept
<1>4. \A v \in DOMAIN occ : AskedAgain(v)' => AskedAgain(v)
  BY <1>1, <1>2 DEF AskedAgain, IInv, Formed
<1> QED
  BY <1>1, <1>3, <1>4, Beside DEF IInv, Formed

LEMMA MeetingEndsKeeps ==
    ASSUME IInv, NEW m \in Meeting, MeetingEnds(m)
    PROVE  IInv'
<1>1. /\ UNCHANGED <<occ, gaps, sections, run, action, backfill, history, unwritten, misses, retracted>>
      /\ ended' \subseteq Meeting /\ Curated' /\ GapsKept /\ MissesKept
  BY Still, MissesStill, CurationUntouched DEF MeetingEnds, IInv, Formed
<1>2. \A v \in DOMAIN occ : AskedAgain(v)' => AskedAgain(v)
  BY <1>1 DEF AskedAgain
<1> QED
  BY <1>1, <1>2, Beside DEF IInv, Formed

\* The backfill seeds itself with what is counted; where it could not read that, the
\* topics are noted.
LEMMA BackfillKeeps ==
    ASSUME IInv, Backfill
    PROVE  IInv'
<1>1. /\ UNCHANGED <<occ, gaps, sections, run, action, unwritten, retracted, ended>>
      /\ DOMAIN history' = DOMAIN history
      /\ history'.chosen = history.chosen /\ history'.overtaken = history.overtaken
      /\ history'.skipped = history.skipped /\ history.raced \subseteq history'.raced
  BY DEF Backfill, BackfillBegins, BackfillReads, BackfillInserts, BackfillFansOut, BackfillThrows,
     missVars, gapVars, IInv, Formed
<1>2. Curated' /\ GapsKept
  BY <1>1, Still, CurationUntouched DEF IInv
<1>3. ASSUME UNCHANGED misses, backfill'.at # "insert",
             backfill' = None \/ backfill' \in Reading
      PROVE  IInv'
  <2>1. \A v \in DOMAIN occ : AskedAgain(v)' => AskedAgain(v)
    BY <1>1, <1>3 DEF AskedAgain
  <2> QED
    BY <1>1, <1>2, <1>3, <2>1, MissesStill, Beside DEF IInv, Formed
<1>4. CASE BackfillBegins
  BY <1>3, <1>4 DEF BackfillBegins, Reading, missVars, IInv, Formed
<1>5. CASE BackfillFansOut
  BY <1>3, <1>5 DEF BackfillFansOut, None, missVars
<1>6. CASE BackfillThrows
  BY <1>3, <1>6 DEF BackfillThrows, None, Reading, Inserting, missVars, IInv, Formed
<1>7. ASSUME NEW m \in Meeting, NEW seen, BackfillReads(m, seen)
      PROVE  IInv'
  <2> DEFINE us == {u \in retracted \ seen : MeetingOf[u] = m}
  <2>1. /\ backfill' = [at |-> "insert", of |-> backfill.of, left |-> backfill.left \ {m},
                        ready |-> backfill.ready, tries |-> backfill.tries,
                        insert |-> us, meeting |-> m]
        /\ backfill.at = "read" /\ UNCHANGED misses
    BY <1>7 DEF BackfillReads, missVars
  <2>2. backfill'.insert = us /\ backfill'.at = "insert"
    BY <2>1
  <2>3. us \cap DOMAIN occ = {} \/ {TopicOf[u] : u \in us \cap DOMAIN occ} \subseteq history'.raced
    BY <1>7 DEF BackfillReads, Seen, IInv, Formed
  <2> HIDE DEF us
  <2>4. \A v \in DOMAIN occ : AskedAgain(v)' => AskedAgain(v) \/ TopicOf[v] \in history'.raced
    BY <1>1, <2>1, <2>2, <2>3 DEF AskedAgain
  <2>5. backfill' \in Inserting
    BY <2>1 DEF us, IInv, Formed, Reading, Inserting, None
  <2> QED
    BY <1>1, <1>2, <2>1, <2>4, <2>5, MissesStill, Beside DEF IInv, Formed
<1>8. CASE BackfillInserts
  <2>1. backfill \in Inserting /\ backfill.at = "insert"
    BY <1>8 DEF BackfillInserts, IInv, Formed, None, Reading
  <2>2. /\ MissesKept
        /\ \A v \in Utterance : (\E k \in DOMAIN misses'[v] : misses'[v][k] = "new")
              => v \in backfill.insert \/ \E k \in DOMAIN misses[v] : misses[v][k] = "new"
    BY <1>8, <2>1, InsertedRows DEF BackfillInserts, IInv, Inserting
  <2>3. backfill'.at = "read" /\ backfill' \in Reading
    BY <1>8, <2>1 DEF BackfillInserts, Reading, Inserting
  <2>4. \A v \in DOMAIN occ : AskedAgain(v)' => AskedAgain(v)
    BY <1>1, <2>1, <2>2, <2>3 DEF AskedAgain, IInv, Formed
  <2> QED
    BY <1>1, <1>2, <2>2, <2>3, <2>4, Beside DEF IInv, Formed
<1> QED
  BY <1>4, <1>5, <1>6, <1>7, <1>8 DEF Backfill

-----------------------------------------------------------------------------
(***************************************************************************)
(* The managers.                                                           *)
(***************************************************************************)
\* What a manager's step other than a merge leaves alone.
LEMMA ManagerKeeps ==
    ASSUME IInv, GapsKept, Curated', UNCHANGED <<missVars, occ, ended, run, backfill>>,
           sections' \subseteq Section, DOMAIN action' = Actor, DOMAIN history' = DOMAIN history,
           history'.skipped = history.skipped, history'.raced = history.raced
    PROVE  IInv'
<1>1. MissesKept /\ UNCHANGED <<misses, unwritten, retracted>>
  BY MissesStill DEF missVars, IInv
<1>2. \A u \in DOMAIN occ : AskedAgain(u)' => AskedAgain(u)
  BY <1>1 DEF AskedAgain
<1> QED
  BY <1>1, <1>2, Beside DEF IInv, Formed

\* Closing a gap and opening it again.
LEMMA StatusSet ==
    ASSUME IInv, NEW g, Present(g), NEW s \in GapStatus,
           gaps' = [gaps EXCEPT ![g].status = s]
    PROVE  /\ GapsKept
           /\ \A h \in DOMAIN gaps : /\ gaps'[h].section = gaps[h].section
                                     /\ gaps'[h].pinned = gaps[h].pinned
<1>1. g \in DOMAIN gaps /\ gaps \in Seq(GapRow) /\ gaps[g] \in GapRow
  BY DEF IInv, Formed, Present
<1> DEFINE r == [gaps[g] EXCEPT !.status = s]
<1>2. /\ r \in GapRow /\ r.topic = gaps[g].topic /\ r.present = gaps[g].present
      /\ r.frequency = gaps[g].frequency /\ r.section = gaps[g].section /\ r.pinned = gaps[g].pinned
  BY <1>1 DEF GapRow
<1>3. gaps' = [gaps EXCEPT ![g] = r]
  OBVIOUS
<1> HIDE DEF r
<1>4. gaps' \in Seq(GapRow) /\ Len(gaps') = Len(gaps) /\ DOMAIN gaps' = DOMAIN gaps
  BY <1>1, <1>2, <1>3
<1> QED
  BY <1>1, <1>2, <1>3, <1>4 DEF GapsKept

LEMMA CloseKeeps ==
    ASSUME IInv, NEW g \in DOMAIN gaps, Close(g)
    PROVE  IInv'
<1>1. GapsKept /\ \A h \in DOMAIN gaps : /\ gaps'[h].section = gaps[h].section
                                         /\ gaps'[h].pinned = gaps[h].pinned
  BY StatusSet DEF Close, GapStatus
<1>2. Curated'
  BY <1>1, CurationStays DEF IInv, Close, Curated, ChosenOvertaken, At
<1> QED
  BY <1>1, <1>2, ManagerKeeps DEF Close, IInv, Formed

LEMMA AssignKeeps ==
    ASSUME IInv, NEW a \in Actor, AssignWrites(a) \/ \E g \in DOMAIN gaps : AssignReads(a, g)
    PROVE  IInv'
<1>1. /\ UNCHANGED <<missVars, occ, sections, ended, run, backfill, history>> /\ DOMAIN action' = Actor
      /\ \/ UNCHANGED gaps
         \/ \E g : Present(g) /\ gaps' = [gaps EXCEPT ![g].status = "open"]
  BY DEF AssignWrites, AssignReads, Set, Done, gapVars, IInv, Formed
<1>2. GapsKept /\ \A h \in DOMAIN gaps : /\ gaps'[h].section = gaps[h].section
                                         /\ gaps'[h].pinned = gaps[h].pinned
  BY <1>1, StatusSet, Still DEF GapStatus, IInv
<1>3. Curated'
  BY <1>1, <1>2, CurationStays DEF IInv, Curated, ChosenOvertaken, At
<1> QED
  BY <1>1, <1>2, <1>3, ManagerKeeps DEF IInv, Formed

\* A move: the gaps moved are where they were put, and a run that had picked them is
\* overtaken.
LEMMA MovedKeeps ==
    ASSUME IInv, NEW gs \in SUBSET DOMAIN gaps, NEW s \in Section \cup {Uncategorized},
           Moved(gs, s), UNCHANGED <<missVars, occ, ended, run, backfill>>,
           sections' \subseteq Section, DOMAIN action' = Actor
    PROVE  IInv'
<1>1. gaps \in Seq(GapRow) /\ DOMAIN gaps = 1..Len(gaps) /\ \A g \in DOMAIN gaps : gaps[g] \in GapRow
  BY DEF IInv, Formed
<1>2. ASSUME NEW g \in DOMAIN gaps
      PROVE  /\ gaps'[g] \in GapRow
             /\ gaps'[g].topic = gaps[g].topic /\ gaps'[g].present = gaps[g].present
             /\ gaps'[g].frequency = gaps[g].frequency
             /\ g \in gs => gaps'[g].section = s /\ gaps'[g].pinned
             /\ g \notin gs => gaps'[g] = gaps[g]
  <2> DEFINE k == [gaps[g] EXCEPT !.section = s]
             r == [k EXCEPT !.pinned = TRUE]
  <2>1. gaps'[g] = IF g \in gs THEN r ELSE gaps[g]
    BY DEF Moved
  <2>2. /\ k \in GapRow /\ k.topic = gaps[g].topic /\ k.present = gaps[g].present
        /\ k.frequency = gaps[g].frequency /\ k.section = s
    BY <1>1 DEF GapRow
  <2> HIDE DEF k
  <2>3. /\ r \in GapRow /\ r.topic = k.topic /\ r.present = k.present
        /\ r.frequency = k.frequency /\ r.section = k.section /\ r.pinned
    BY <2>2 DEF GapRow
  <2> HIDE DEF r
  <2> QED
    BY <1>1, <2>1, <2>2, <2>3
<1>3. gaps' \in Seq(GapRow) /\ Len(gaps') = Len(gaps) /\ DOMAIN gaps' = DOMAIN gaps
  <2>1. gaps' = [g \in 1..Len(gaps) |-> gaps'[g]]
    BY <1>1 DEF Moved
  <2> QED
    BY <1>1, <1>2, <2>1
<1>4. GapsKept
  BY <1>2, <1>3 DEF GapsKept
<1>5. /\ DOMAIN history' = DOMAIN history /\ history'.skipped = history.skipped
      /\ history'.raced = history.raced
      /\ history'.chosen = [g \in DOMAIN history.chosen \cup gs |->
                              IF g \in gs THEN s ELSE history.chosen[g]]
      /\ history'.overtaken = (history.overtaken \ gs) \cup (gs \cap InPlacing)
  BY DEF Moved, IInv, Formed
<1>6. \A g : Present(g)' = Present(g)
  BY <1>4, KeptNear DEF IInv
<1>7. CurationStands'
  <2> SUFFICES ASSUME NEW g \in DOMAIN history'.chosen, Present(g)
               PROVE  \/ gaps'[g].section = history'.chosen[g] /\ gaps'[g].pinned
                      \/ g \in history'.overtaken
    BY <1>6 DEF CurationStands
  <2>1. g \in DOMAIN gaps
    BY DEF Present
  <2> QED
    BY <1>2, <1>5, <2>1 DEF IInv, Curated, CurationStands
<1>8. ChosenOvertaken'
  <2>1. \A m \in Meeting : At(m, "place") => run[m].place \subseteq InPlacing
    BY DEF InPlacing
  <2> QED
    BY <1>3, <1>5, <2>1 DEF IInv, Curated, ChosenOvertaken, At
<1> QED
  BY <1>4, <1>5, <1>7, <1>8, ManagerKeeps DEF Curated

LEMMA MoveKeeps ==
    ASSUME IInv,
           \/ \E g \in DOMAIN gaps, s \in Section \cup {Uncategorized} : MoveGap(g, s)
           \/ \E from \in Section, s \in Section \cup {Uncategorized} : MoveAll(from, s)
    PROVE  IInv'
<1>1. PICK gs \in SUBSET DOMAIN gaps, s \in Section \cup {Uncategorized} :
         Moved(gs, s) /\ UNCHANGED <<missVars, occ, sections, ended, run, backfill, action>>
  <2>1. CASE \E g \in DOMAIN gaps, s \in Section \cup {Uncategorized} : MoveGap(g, s)
    BY <2>1 DEF MoveGap
  <2>2. CASE \E from \in Section, s \in Section \cup {Uncategorized} : MoveAll(from, s)
    BY <2>2 DEF MoveAll, In
  <2> QED
    BY <2>1, <2>2
<1> QED
  BY <1>1, MovedKeeps DEF IInv, Formed

\* A manager's step that moves nothing.
LEMMA OnlyActs ==
    ASSUME IInv, UNCHANGED <<missVars, occ, gaps, ended, run, backfill, history>>,
           sections' \subseteq Section, DOMAIN action' = Actor
    PROVE  IInv'
BY Still, CurationUntouched, ManagerKeeps DEF IInv

LEMMA SplitKeeps ==
    ASSUME IInv, NEW a \in Actor,
           SplitMoves(a) \/ \E g \in DOMAIN gaps, s \in Section : SplitCreates(a, g, s)
    PROVE  IInv'
<1>1. CASE \E g \in DOMAIN gaps, s \in Section : SplitCreates(a, g, s)
  BY <1>1, OnlyActs DEF SplitCreates, Set, IInv, Formed
<1>2. CASE SplitMoves(a)
  <2>1. /\ UNCHANGED <<missVars, occ, sections, ended, run, backfill>> /\ DOMAIN action' = Actor
        /\ sections' \subseteq Section
    BY <1>2 DEF SplitMoves, Done, IInv, Formed
  <2>2. CASE Present(action[a].gap) /\ action[a].section \in sections
    <3>1. /\ {action[a].gap} \in SUBSET DOMAIN gaps
          /\ action[a].section \in Section \cup {Uncategorized}
      BY <2>2 DEF Present, IInv, Formed
    <3>2. Moved({action[a].gap}, action[a].section)
      BY <1>2, <2>2 DEF SplitMoves
    <3> QED
      BY <2>1, <3>1, <3>2, MovedKeeps
  <2>3. CASE ~(Present(action[a].gap) /\ action[a].section \in sections)
    BY <1>2, <2>1, <2>3, OnlyActs DEF SplitMoves
  <2> QED
    BY <2>2, <2>3
<1> QED
  BY <1>1, <1>2

LEMMA MergeSectionsKeeps ==
    ASSUME IInv, NEW a \in Actor, NEW s \in Section, NEW to \in Section \cup {Uncategorized},
           MergeSections(a, s, to)
    PROVE  IInv'
<1>1. /\ Moved(In(s), to) /\ In(s) \in SUBSET DOMAIN gaps
      /\ UNCHANGED <<missVars, occ, ended, run, backfill>> /\ DOMAIN action' = Actor
      /\ sections' \subseteq Section
  BY DEF MergeSections, In, Set, IInv, Formed
<1> QED
  BY <1>1, MovedKeeps

LEMMA DeleteKeeps ==
    ASSUME IInv, NEW a \in Actor,
           \/ DeleteMoves(a)
           \/ \E s \in Section, to \in Section \cup {Uncategorized} : DeleteCounts(a, s, to)
    PROVE  IInv'
<1>1. CASE \E s \in Section, to \in Section \cup {Uncategorized} : DeleteCounts(a, s, to)
  BY <1>1, OnlyActs DEF DeleteCounts, Set, gapVars, IInv, Formed
<1>2. CASE DeleteMoves(a)
  <2> DEFINE s == action[a].section
             to == action[a].to
  <2>1. /\ UNCHANGED <<missVars, occ, sections, ended, run, backfill>> /\ DOMAIN action' = Actor
        /\ sections' \subseteq Section
    BY <1>2 DEF DeleteMoves, IInv, Formed
  <2>2. CASE to \in sections \cup {Uncategorized}
    <3>1. /\ In(s) \in SUBSET DOMAIN gaps /\ to \in Section \cup {Uncategorized}
          /\ Moved(In(s), to)
      BY <1>2, <2>2 DEF DeleteMoves, In, IInv, Formed
    <3> QED
      BY <2>1, <3>1, MovedKeeps
  <2>3. CASE to \notin sections \cup {Uncategorized}
    BY <1>2, <2>1, <2>3, OnlyActs DEF DeleteMoves
  <2> QED
    BY <2>2, <2>3
<1> QED
  BY <1>1, <1>2

\* The gaps a dropped section held are taken out of it, and count as overtaken.
LEMMA DropKeeps ==
    ASSUME IInv, NEW a \in Actor, Drop(a)
    PROVE  IInv'
<1> DEFINE s == action[a].section
<1>1. gaps \in Seq(GapRow) /\ DOMAIN gaps = 1..Len(gaps) /\ \A g \in DOMAIN gaps : gaps[g] \in GapRow
  BY DEF IInv, Formed
<1>2. ASSUME NEW g \in DOMAIN gaps
      PROVE  /\ gaps'[g] \in GapRow
             /\ gaps'[g].topic = gaps[g].topic /\ gaps'[g].present = gaps[g].present
             /\ gaps'[g].frequency = gaps[g].frequency
             /\ g \notin In(s) => gaps'[g] = gaps[g]
  <2> DEFINE r == [gaps[g] EXCEPT !.section = Uncategorized]
  <2>1. gaps'[g] = IF g \in In(s) THEN r ELSE gaps[g]
    BY DEF Drop
  <2>2. /\ r \in GapRow /\ r.topic = gaps[g].topic /\ r.present = gaps[g].present
        /\ r.frequency = gaps[g].frequency
    BY <1>1 DEF GapRow
  <2> HIDE DEF r
  <2> QED
    BY <1>1, <2>1, <2>2
<1>3. gaps' \in Seq(GapRow) /\ Len(gaps') = Len(gaps) /\ DOMAIN gaps' = DOMAIN gaps
  <2>1. gaps' = [g \in 1..Len(gaps) |-> gaps'[g]]
    BY <1>1 DEF Drop
  <2> QED
    BY <1>1, <1>2, <2>1
<1>4. GapsKept
  BY <1>2, <1>3 DEF GapsKept
<1>5. /\ DOMAIN history' = DOMAIN history /\ history'.skipped = history.skipped
      /\ history'.raced = history.raced /\ history'.chosen = history.chosen
      /\ history'.overtaken = history.overtaken \cup In(s)
  BY DEF Drop, IInv, Formed
<1>6. \A g : Present(g)' = Present(g)
  BY <1>4, KeptNear DEF IInv
<1>7. CurationStands'
  BY <1>2, <1>5, <1>6 DEF IInv, Curated, CurationStands, Present
<1>8. UNCHANGED <<missVars, occ, ended, run, backfill>> /\ DOMAIN action' = Actor
      /\ sections' \subseteq Section
  BY DEF Drop, Done, IInv, Formed
<1>9. ChosenOvertaken'
  BY <1>3, <1>5, <1>8 DEF IInv, Curated, ChosenOvertaken, At
<1> QED
  BY <1>4, <1>5, <1>7, <1>8, <1>9, ManagerKeeps DEF Curated

LEMMA ActionFailsKeeps ==
    ASSUME IInv, NEW a \in Actor, ActionFails(a)
    PROVE  IInv'
BY OnlyActs DEF ActionFails, gapVars, IInv, Formed
-----------------------------------------------------------------------------
(***************************************************************************)
(* Counting the asks of a gap.                                             *)
(***************************************************************************)
LEMMA AsksCount ==
    ASSUME GapsAssumption, NEW o, DOMAIN o \subseteq Utterance, NEW g
    PROVE  /\ Asks(o, g) \in Nat
           /\ (\E u \in DOMAIN o : o[u] = g) => Asks(o, g) > 0
<1> DEFINE S == {u \in DOMAIN o : o[u] = g}
<1>1. IsFiniteSet(S)
  BY FS_Subset DEF GapsAssumption
<1>2. Cardinality(S) \in Nat /\ (S # {} => Cardinality(S) > 0)
  BY <1>1, FS_CardinalityType, FS_EmptySet
<1> QED
  BY <1>2 DEF Asks

LEMMA AsksMore ==
    ASSUME GapsAssumption, NEW o, NEW p, DOMAIN o \subseteq Utterance, DOMAIN p \subseteq Utterance,
           NEW g, \A u \in DOMAIN o : o[u] = g => u \in DOMAIN p /\ p[u] = g
    PROVE  Asks(o, g) <= Asks(p, g)
<1> DEFINE S == {u \in DOMAIN o : o[u] = g}
           T == {u \in DOMAIN p : p[u] = g}
<1>1. IsFiniteSet(T) /\ S \subseteq T
  BY FS_Subset DEF GapsAssumption
<1>2. Cardinality(S) <= Cardinality(T)
  BY <1>1, FS_Subset
<1> QED
  BY <1>2 DEF Asks

\* The source's asks go to the target, and what is asked of its topic again is noted.
LEMMA MergeGapsKeeps ==
    ASSUME GapsAssumption, IInv, NEW target \in DOMAIN gaps, NEW source \in DOMAIN gaps,
           MergeGaps(target, source)
    PROVE  IInv'
<1> DEFINE o == [u \in DOMAIN occ |-> IF occ[u] = source THEN target ELSE occ[u]]
           again == {u \in DOMAIN occ :
                       \/ <<"miss", u>> \in unwritten
                       \/ \E k \in DOMAIN misses[u] : misses[u][k] = "new"
                       \/ backfill.at = "insert" /\ u \in backfill.insert}
           more == {gaps[source].topic} \cap {TopicOf[u] : u \in again}
           N == Asks(o, target)
           r == [gaps[target] EXCEPT !.frequency = N]
           q == [gaps[source] EXCEPT !.present = FALSE]
<1>1. /\ target # source /\ Present(target) /\ Present(source) /\ ~Locked
      /\ UNCHANGED <<missVars, sections, ended, requests, run, backfill, action>>
      /\ occ' = o
      /\ gaps' = [gaps EXCEPT ![target].frequency = N, ![source].present = FALSE]
      /\ history' = [history EXCEPT !.raced = @ \cup more]
  BY DEF MergeGaps
<1>2. /\ gaps \in Seq(GapRow) /\ DOMAIN gaps = 1..Len(gaps) /\ \A g \in DOMAIN gaps : gaps[g] \in GapRow
      /\ DOMAIN occ \subseteq Utterance /\ DOMAIN o = DOMAIN occ
      /\ UNCHANGED <<misses, unwritten, retracted>>
  BY <1>1 DEF IInv, Formed, missVars
<1>3. N \in Nat /\ Asks(occ, target) <= N /\ Asks(occ, target) \in Nat
  <2>1. N \in Nat
    BY <1>2, AsksCount
  <2>2. Asks(occ, target) <= N
    BY <1>2, AsksMore
  <2>3. Asks(occ, target) \in Nat
    BY <1>2, AsksCount
  <2> QED
    BY <2>1, <2>2, <2>3
<1>4. \A g : g # target /\ g # source => Asks(o, g) = Asks(occ, g)
  <2> SUFFICES ASSUME NEW g, g # target, g # source PROVE Asks(o, g) = Asks(occ, g)
    OBVIOUS
  <2>1. {u \in DOMAIN o : o[u] = g} = {u \in DOMAIN occ : occ[u] = g}
    OBVIOUS
  <2> QED
    BY <2>1 DEF Asks
<1>5. /\ occ'= o /\ DOMAIN occ' = DOMAIN occ
      /\ \A u \in DOMAIN occ : occ'[u] = IF occ[u] = source THEN target ELSE occ[u]
  BY <1>1
<1>6. /\ DOMAIN history' = DOMAIN history /\ history'.chosen = history.chosen
      /\ history'.overtaken = history.overtaken /\ history'.skipped = history.skipped
      /\ history'.raced = history.raced \cup more
  BY <1>1 DEF IInv, Formed
<1>7. /\ gaps' \in Seq(GapRow) /\ Len(gaps') = Len(gaps) /\ DOMAIN gaps' = DOMAIN gaps
      /\ \A g \in DOMAIN gaps :
            /\ gaps'[g].topic = gaps[g].topic /\ gaps'[g].section = gaps[g].section
            /\ gaps'[g].pinned = gaps[g].pinned
            /\ gaps'[g].present <=> gaps[g].present /\ g # source
            /\ gaps'[g].frequency = IF g = target THEN N ELSE gaps[g].frequency
  <2> HIDE DEF N
  <2>1. /\ r \in GapRow /\ r.topic = gaps[target].topic /\ r.section = gaps[target].section
        /\ r.pinned = gaps[target].pinned /\ r.present = gaps[target].present /\ r.frequency = N
    BY <1>2, <1>3 DEF GapRow
  <2>2. /\ q \in GapRow /\ q.topic = gaps[source].topic /\ q.section = gaps[source].section
        /\ q.pinned = gaps[source].pinned /\ ~q.present
        /\ q.frequency = gaps[source].frequency
    BY <1>2 DEF GapRow
  <2>3. gaps' = [[gaps EXCEPT ![target] = r] EXCEPT ![source] = q]
    BY <1>1
  <2> HIDE DEF r, q
  <2>4. /\ DOMAIN gaps' = DOMAIN gaps /\ gaps' \in Seq(GapRow) /\ Len(gaps') = Len(gaps)
    BY <1>2, <2>1, <2>2, <2>3
  <2>5. \A g \in DOMAIN gaps : gaps'[g] = IF g = source THEN q ELSE IF g = target THEN r ELSE gaps[g]
    BY <2>3
  <2>6. ASSUME NEW g \in DOMAIN gaps
        PROVE  /\ gaps'[g].topic = gaps[g].topic /\ gaps'[g].section = gaps[g].section
               /\ gaps'[g].pinned = gaps[g].pinned
               /\ gaps'[g].present <=> gaps[g].present /\ g # source
               /\ gaps'[g].frequency = IF g = target THEN N ELSE gaps[g].frequency
    <3>1. CASE g = source
      <4>1. gaps'[g] = q /\ g # target
        BY <1>1, <2>5, <3>1
      <4> QED
        BY <2>2, <3>1, <4>1
    <3>2. CASE g = target
      <4>1. gaps'[g] = r /\ g # source
        BY <1>1, <2>5, <3>2
      <4> QED
        BY <2>1, <3>2, <4>1
    <3>3. CASE g # source /\ g # target
      BY <2>5, <3>3
    <3> QED
      BY <3>1, <3>2, <3>3
  <2> QED
    BY <2>4, <2>6
<1>8. \A g : Present(g)' <=> Present(g) /\ g # source
  BY <1>7 DEF Present
<1>9. \A t : Nearest(t) \ {source} \subseteq Nearest(t)'
  BY <1>7, <1>8 DEF Nearest
<1>10. \A u : AskedAgain(u)' = AskedAgain(u)
  BY <1>1, <1>2 DEF AskedAgain
<1> HIDE DEF N, r, q, o
<1>11. Formed'
  BY <1>1, <1>2, <1>5, <1>6, <1>7 DEF IInv, Formed
<1>12. \A m \in Meeting : RunOK(m)'
  <2>1. \A u : Settled(u)' = Settled(u)
    BY <1>5, <1>6 DEF Settled
  <2>2. \A m \in Meeting : ~At(m, "rpc") /\ run'[m] = run[m] /\ Unprocessed(m)' = Unprocessed(m)
    BY <1>1, <1>2 DEF Locked, Unprocessed, Rows
  <2> QED
    BY <2>1, <2>2, RunStays DEF IInv
<1>13. OneLocks'
  BY <1>1 DEF IInv, OneLocks, At
<1>14. ProcessedIsCounted'
  BY <1>2, <1>5, <1>6 DEF IInv, Counted, ProcessedIsCounted
<1>15. AskedAgainIsNear'
  <2> SUFFICES ASSUME NEW u \in DOMAIN occ, AskedAgain(u), TopicOf[u] \notin history'.raced
               PROVE  Nearest(TopicOf[u])' # {}
    BY <1>5, <1>10 DEF AskedAgainIsNear
  <2>1. Nearest(TopicOf[u]) # {}
    BY <1>6 DEF IInv, Counted, AskedAgainIsNear
  <2>2. u \in again
    BY DEF AskedAgain
  <2>3. TopicOf[u] # gaps[source].topic
    BY <1>6, <2>2
  <2>4. source \notin Nearest(TopicOf[u])
    BY <2>3 DEF Nearest
  <2> QED
    BY <1>9, <2>1, <2>4
<1>16. GapsCountTheirAsks'
  <2>1. ASSUME NEW g \in DOMAIN gaps', Present(g)'
        PROVE  /\ gaps'[g].frequency = Asks(occ', g)
               /\ gaps'[g].frequency > 0 \/ gaps'[g].topic \in history'.raced
    <3>1. /\ Present(g) /\ g # source /\ g \in DOMAIN gaps /\ gaps[g].frequency = Asks(occ, g)
          /\ gaps[g].frequency > 0 \/ gaps[g].topic \in history.raced
      BY <1>7, <1>8, <2>1 DEF IInv, Counted, GapsCountTheirAsks
    <3>2. CASE g = target
      BY <1>3, <1>5, <1>6, <1>7, <3>1, <3>2 DEF N
    <3>3. CASE g # target
      BY <1>4, <1>5, <1>6, <1>7, <3>1, <3>3
    <3> QED
      BY <3>2, <3>3
  <2>2. \A u \in DOMAIN occ' : Present(occ[u])'
    BY <1>1, <1>5, <1>8 DEF IInv, Counted, GapsCountTheirAsks
  <2> QED
    BY <2>1, <2>2 DEF GapsCountTheirAsks
<1>17. Curated'
  <2>1. CurationStands'
    BY <1>6, <1>7, <1>8 DEF IInv, Curated, CurationStands, Present
  <2>2. ChosenOvertaken'
    BY <1>1, <1>6, <1>7 DEF IInv, Curated, ChosenOvertaken, At
  <2> QED
    BY <2>1, <2>2 DEF Curated
<1> QED
  BY <1>11, <1>12, <1>13, <1>14, <1>15, <1>16, <1>17 DEF IInv, Counted
-----------------------------------------------------------------------------
(***************************************************************************)
(* The assembly runs.                                                      *)
(***************************************************************************)
LEMMA RunSet ==
    ASSUME DOMAIN run = Meeting, NEW m \in Meeting, NEW r, SetRun(m, r)
    PROVE  /\ DOMAIN run' = Meeting /\ run'[m] = r
           /\ \A n \in Meeting \ {m} : run'[n] = run[n]
BY DEF SetRun

\* A step of the run of m that writes nothing.
LEMMA OnlyRuns ==
    ASSUME IInv, NEW m \in Meeting, DOMAIN run' = Meeting,
           \A n \in Meeting \ {m} : run'[n] = run[n],
           UNCHANGED <<missVars, gapVars, ended, backfill, action>>,
           DOMAIN history' = DOMAIN history,
           history'.chosen = history.chosen, history'.overtaken = history.overtaken,
           history.skipped \subseteq history'.skipped, history'.raced = history.raced,
           RunOK(m)', At(m, "rpc")' => ~Locked,
           At(m, "place")' => run'[m].place \cap DOMAIN history.chosen \subseteq history.overtaken
    PROVE  IInv'
<1>1. /\ UNCHANGED <<unwritten, retracted, misses, occ, gaps, sections>>
      /\ GapsKept /\ MissesKept
  BY Still, MissesStill DEF missVars, gapVars, IInv
<1>2. Formed'
  BY <1>1 DEF IInv, Formed
<1>3. \A n \in Meeting : RunOK(n)'
  <2>1. \A u : Settled(u) => Settled(u)'
    BY <1>1 DEF Settled
  <2>2. \A t : Nearest(t)' = Nearest(t)
    BY <1>1, KeptNear DEF IInv
  <2>3. ASSUME NEW n \in Meeting \ {m} PROVE RunOK(n)'
    BY <1>1, <2>1, <2>2, <2>3, RunStays DEF IInv, MissesKept
  <2> QED
    BY <2>3
<1>4. OneLocks'
  BY DEF IInv, OneLocks, At, Locked
<1>5. \A u \in DOMAIN occ : AskedAgain(u)' => AskedAgain(u)
  BY <1>1 DEF AskedAgain
<1>6. Counted'
  BY <1>1, <1>5, CountsStay DEF IInv
<1>7. \A n \in Meeting : At(n, "place")' =>
          run'[n].place \cap DOMAIN history.chosen \subseteq history.overtaken
  BY DEF IInv, Curated, ChosenOvertaken, At
<1>8. Curated'
  BY <1>1, <1>7, CurationStays DEF IInv
<1> QED
  BY <1>2, <1>3, <1>4, <1>6, <1>8 DEF IInv

\* A run that holds nothing: it is over, or starts.
LEMMA BareRun ==
    ASSUME NEW m \in Meeting, run'[m] = None \/ run'[m] \in Loading
    PROVE  RunOK(m)' /\ ~At(m, "rpc")' /\ ~At(m, "place")'
<1>1. run'[m].at \notin {"groups", "rpc", "place"}
  BY DEF None, Loading
<1> QED
  BY <1>1 DEF RunOK, Shape, Assembles, At

LEMMA BeginKeeps ==
    ASSUME IInv, NEW m \in Meeting, Begin(m) PROVE IInv'
<1>1. DOMAIN run' = Meeting /\ \A n \in Meeting \ {m} : run'[n] = run[n]
  BY DEF Begin, SetRun, IInv, Formed
<1>2. run'[m] \in Loading
  BY RunSet DEF Begin, Loading, IInv, Formed
<1> QED
  BY <1>1, <1>2, BareRun, OnlyRuns DEF Begin, IInv, Formed

LEMMA ThrowsKeeps ==
    ASSUME IInv, NEW m \in Meeting, Throws(m) PROVE IInv'
<1>1. DOMAIN run' = Meeting /\ \A n \in Meeting \ {m} : run'[n] = run[n]
  BY DEF Throws, SetRun, IInv, Formed
<1>2. run'[m] = None \/ run'[m] = [at |-> "load", tries |-> run[m].tries + 1]
  BY RunSet DEF Throws, IInv, Formed
<1>3. run[m].tries \in Nat
  BY DEF Throws, At, IInv, RunOK, Shape, None, Loading, Assembling, Placing
<1>4. run'[m] = None \/ run'[m] \in Loading
  BY <1>2, <1>3 DEF Loading
<1>5. /\ UNCHANGED <<missVars, gapVars, ended, backfill, action>>
      /\ DOMAIN history' = DOMAIN history
      /\ history'.chosen = history.chosen /\ history'.overtaken = history.overtaken
      /\ history'.skipped = history.skipped /\ history'.raced = history.raced
  BY DEF Throws, IInv, Formed
<1> QED
  BY <1>1, <1>4, <1>5, BareRun, OnlyRuns

LEMMA LoadKeeps ==
    ASSUME IInv, NEW m \in Meeting, Load(m) PROVE IInv'
<1>1. DOMAIN run' = Meeting /\ \A n \in Meeting \ {m} : run'[n] = run[n]
  BY DEF Load, SetRun, IInv, Formed
<1>2. /\ UNCHANGED <<missVars, gapVars, ended, backfill, action, history>>
      /\ UNCHANGED <<misses, occ>> /\ Unprocessed(m)' = Unprocessed(m)
  BY DEF Load, missVars, gapVars, Unprocessed, Rows
<1>3. CASE Unprocessed(m) = {}
  <2>1. run'[m] = None
    BY <1>3, RunSet DEF Load, IInv, Formed
  <2> QED
    BY <1>1, <1>2, <2>1, BareRun, OnlyRuns
<1>4. CASE Unprocessed(m) # {}
  <2>1. run'[m] = [at |-> "groups", tries |-> run[m].tries, batch |-> Unprocessed(m),
                   topics |-> {TopicOf[r[1]] : r \in Unprocessed(m)}, touched |-> {},
                   call |-> None]
    BY <1>4, RunSet DEF Load, IInv, Formed
  <2>2. run[m].tries \in Nat
    BY DEF Load, At, IInv, RunOK, Shape, None, Loading, Assembling, Placing
  <2>3. Unprocessed(m) \in SUBSET Row
    <3>1. \A u \in Utterance : DOMAIN misses[u] \subseteq Nat \ {0}
      BY DEF IInv, Formed
    <3> QED
      BY <3>1 DEF Unprocessed, Rows, Row
  <2>4. {TopicOf[r[1]] : r \in Unprocessed(m)} \in SUBSET Topic
    BY <2>3, GapsAssumption DEF Row
  <2>5. run'[m] \in Assembling /\ ~At(m, "rpc")' /\ ~At(m, "place")' /\ Assembles(m)'
    BY <2>1, <2>2, <2>3, <2>4 DEF Assembling, At, Assembles
  <2>6. run'[m].batch = Unprocessed(m) /\ run'[m].topics = BatchTopics(m)'
    BY <2>1 DEF BatchTopics
  <2>7. RunOK(m)'
    BY <1>2, <2>5, <2>6 DEF RunOK, Shape, DealtWith, BatchTopics
  <2> QED
    BY <1>1, <1>2, <2>5, <2>7, OnlyRuns
<1> QED
  BY <1>3, <1>4

LEMMA SkipGroupKeeps ==
    ASSUME IInv, NEW m \in Meeting, NEW t \in Topic, SkipGroup(m, t) PROVE IInv'
<1> DEFINE r == [run[m] EXCEPT !.topics = @ \ {t}]
<1>1. DOMAIN run' = Meeting /\ (\A n \in Meeting \ {m} : run'[n] = run[n]) /\ run'[m] = r
  BY RunSet DEF SkipGroup, IInv, Formed
<1>2. /\ UNCHANGED <<missVars, gapVars, ended, backfill, action>>
      /\ UNCHANGED <<misses, occ>> /\ Unprocessed(m)' = Unprocessed(m)
      /\ DOMAIN history' = DOMAIN history
      /\ history'.chosen = history.chosen /\ history'.overtaken = history.overtaken
      /\ history'.skipped = history.skipped \cup Group(m, t) /\ history'.raced = history.raced
  BY DEF SkipGroup, missVars, gapVars, Unprocessed, Rows, IInv, Formed
<1>3. run[m] \in Assembling /\ run[m].at = "groups"
  BY DEF SkipGroup, At, IInv, RunOK, Shape, None, Loading, Placing
<1>4. /\ r \in Assembling /\ r.at = "groups" /\ r.batch = run[m].batch
      /\ r.topics = run[m].topics \ {t}
  BY <1>3 DEF Assembling
<1> HIDE DEF r
<1>5. ~At(m, "rpc")' /\ ~At(m, "place")' /\ Assembles(m)' /\ Assembles(m) /\ ~At(m, "rpc")
  BY <1>1, <1>3, <1>4 DEF At, Assembles
<1>6. BatchTopics(m)' = BatchTopics(m) /\ \A u : Settled(u) => Settled(u)'
  BY <1>1, <1>2, <1>4 DEF BatchTopics, Settled
<1>7. \A x \in run[m].batch : DealtWith(m, x[1])'
  <2> SUFFICES ASSUME NEW x \in run[m].batch PROVE DealtWith(m, x[1])'
    OBVIOUS
  <2>1. DealtWith(m, x[1])
    BY <1>5 DEF IInv, RunOK
  <2>2. TopicOf[x[1]] = t => x[1] \in Group(m, t)
    BY DEF Group
  <2>3. TopicOf[x[1]] = t => Settled(x[1])'
    BY <1>2, <2>2 DEF Settled
  <2> QED
    BY <1>1, <1>4, <1>5, <1>6, <2>1, <2>3 DEF DealtWith
<1>8. RunOK(m)'
  BY <1>1, <1>2, <1>4, <1>5, <1>6, <1>7 DEF IInv, RunOK, Shape
<1> QED
  BY <1>1, <1>2, <1>5, <1>8, OnlyRuns

\* What is in the placing and was put somewhere was taken out of it again since.
LEMMA ReclusterKeeps ==
    ASSUME IInv, NEW m \in Meeting, Recluster(m) PROVE IInv'
<1>1. /\ DOMAIN run' = Meeting /\ (\A n \in Meeting \ {m} : run'[n] = run[n])
      /\ run'[m] = [at |-> "place", tries |-> run[m].tries, batch |-> run[m].batch,
                    place |-> ToPlace(m)]
  BY RunSet DEF Recluster, IInv, Formed
<1>2. /\ UNCHANGED <<missVars, gapVars, ended, backfill, action, history>>
      /\ UNCHANGED <<misses, occ>> /\ Unprocessed(m)' = Unprocessed(m)
  BY DEF Recluster, missVars, gapVars, Unprocessed, Rows
<1>3. run[m] \in Assembling /\ run[m].at = "groups" /\ run[m].topics = {}
  BY DEF Recluster, At, IInv, RunOK, Shape, None, Loading, Placing
<1>4. ToPlace(m) \subseteq Nat \ {0}
  BY <1>3 DEF ToPlace, Assembling
<1>5. run'[m] \in Placing /\ run'[m].batch = run[m].batch /\ run'[m].place = ToPlace(m)
  BY <1>1, <1>3, <1>4 DEF Placing, Assembling
<1>6. ~At(m, "rpc")' /\ At(m, "place")' /\ ~Assembles(m)' /\ Assembles(m) /\ ~At(m, "rpc")
  BY <1>1, <1>3 DEF At, Assembles
<1>7. \A x \in run[m].batch : Settled(x[1])
  BY <1>3, <1>6 DEF IInv, RunOK, DealtWith
<1>8. RunOK(m)'
  BY <1>2, <1>5, <1>6, <1>7 DEF IInv, RunOK, Shape, DealtWith, Settled
<1>9. ToPlace(m) \cap DOMAIN history.chosen \subseteq history.overtaken
  BY DEF ToPlace, IInv, Curated, CurationStands
<1> QED
  BY <1>1, <1>2, <1>5, <1>6, <1>8, <1>9, OnlyRuns
\* The call reads under the lock.
LEMMA AssembleReadsKeeps ==
    ASSUME IInv, NEW m \in Meeting, NEW t \in Topic, AssembleReads(m, t) PROVE IInv'
<1>1. PICK g \in IF Nearest(t) = {} THEN {Len(gaps) + 1} ELSE Nearest(t) :
         SetRun(m, [run[m] EXCEPT !.at = "rpc", !.topics = @ \ {t},
                      !.call = [topic |-> t, gap |-> g,
                                closed |-> Present(g) /\ gaps[g].status = "closed"]])
  BY DEF AssembleReads
<1> DEFINE c == [topic |-> t, gap |-> g, closed |-> Present(g) /\ gaps[g].status = "closed"]
           k == [run[m] EXCEPT !.at = "rpc"]
           e == [k EXCEPT !.topics = @ \ {t}]
           r == [e EXCEPT !.call = c]
<1>2. DOMAIN run' = Meeting /\ (\A n \in Meeting \ {m} : run'[n] = run[n]) /\ run'[m] = r
  BY <1>1, RunSet DEF IInv, Formed
<1>3. /\ UNCHANGED <<missVars, gapVars, ended, backfill, action, history>>
      /\ UNCHANGED <<misses, occ, gaps>> /\ Unprocessed(m)' = Unprocessed(m)
      /\ (\A s : Nearest(s)' = Nearest(s)) /\ ~Locked /\ t \in run[m].topics
  BY DEF AssembleReads, missVars, gapVars, Unprocessed, Rows, Nearest, Present
<1>4. run[m] \in Assembling /\ run[m].at = "groups"
  BY DEF AssembleReads, At, IInv, RunOK, Shape, None, Loading, Placing
<1>5. g \in Nat \ {0} /\ IF Nearest(t) = {} THEN g = Len(gaps) + 1 ELSE g \in Nearest(t)
  <2>1. Len(gaps) \in Nat /\ DOMAIN gaps = 1..Len(gaps)
    BY DEF IInv, Formed
  <2> QED
    BY <2>1 DEF Nearest
<1>6. c \in Call /\ c.topic = t /\ c.gap = g
  BY <1>5 DEF Call
<1> HIDE DEF c
<1>7. k \in Assembling /\ k.at = "rpc" /\ k.batch = run[m].batch /\ k.topics = run[m].topics
  BY <1>4 DEF Assembling
<1> HIDE DEF k
<1>8. /\ e \in Assembling /\ e.at = "rpc" /\ e.batch = run[m].batch
      /\ e.topics = run[m].topics \ {t}
  BY <1>7 DEF Assembling
<1> HIDE DEF e
<1>9. /\ r \in Assembling /\ r.at = "rpc" /\ r.batch = run[m].batch
      /\ r.topics = run[m].topics \ {t} /\ r.call = c
  BY <1>6, <1>8 DEF Assembling
<1> HIDE DEF r
<1>10. At(m, "rpc")' /\ ~At(m, "place")' /\ Assembles(m)' /\ Assembles(m) /\ ~At(m, "rpc")
  BY <1>2, <1>4, <1>9 DEF At, Assembles
<1>11. BatchTopics(m)' = BatchTopics(m) /\ t \in BatchTopics(m) /\ run[m].topics \subseteq BatchTopics(m)
  BY <1>2, <1>3, <1>9, <1>10 DEF BatchTopics, IInv, RunOK
<1>12. CallStands(m)'
  BY <1>2, <1>3, <1>5, <1>6, <1>9, <1>11 DEF CallStands
<1>13. \A x \in run[m].batch : DealtWith(m, x[1])'
  <2> SUFFICES ASSUME NEW x \in run[m].batch PROVE DealtWith(m, x[1])'
    OBVIOUS
  <2>1. DealtWith(m, x[1])
    BY <1>10 DEF IInv, RunOK
  <2> QED
    BY <1>2, <1>3, <1>6, <1>9, <1>10, <2>1 DEF DealtWith, Settled
<1>14. RunOK(m)'
  BY <1>2, <1>3, <1>9, <1>10, <1>11, <1>12, <1>13 DEF IInv, RunOK, Shape
<1> QED
  BY <1>2, <1>3, <1>10, <1>14, OnlyRuns

\* A gap nobody has put anywhere since the run picked it, or one that is overtaken.
LEMMA PlaceKeeps ==
    ASSUME IInv, NEW m \in Meeting, NEW g \in DOMAIN gaps, Place(m, g) PROVE IInv'
<1> DEFINE r == [run[m] EXCEPT !.place = @ \ {g}]
<1>1. DOMAIN run' = Meeting /\ (\A n \in Meeting \ {m} : run'[n] = run[n]) /\ run'[m] = r
  BY RunSet DEF Place, IInv, Formed
<1>2. /\ UNCHANGED <<missVars, occ, ended, backfill, action, history>>
      /\ UNCHANGED <<misses, unwritten, retracted>>
      /\ run[m].at = "place" /\ g \in run[m].place
  BY DEF Place, missVars, At
<1>3. run[m] \in Placing
  BY <1>2 DEF IInv, RunOK, Shape, None, Loading, Assembling
<1>4. r \in Placing /\ r.batch = run[m].batch /\ r.place = run[m].place \ {g} /\ r.at = "place"
  BY <1>2, <1>3 DEF Placing
<1> HIDE DEF r
<1>5. /\ gaps \in Seq(GapRow) /\ DOMAIN gaps = 1..Len(gaps)
      /\ \A h \in DOMAIN gaps : gaps[h] \in GapRow
  BY DEF IInv, Formed
<1>6. /\ GapsKept /\ sections' \subseteq Section
      /\ \A h \in DOMAIN gaps : /\ gaps'[h].pinned = gaps[h].pinned
                                /\ h # g => gaps'[h].section = gaps[h].section
  <2>1. CASE UNCHANGED <<gaps, sections>>
    BY <2>1, Still DEF IInv, Formed
  <2>2. CASE UNCHANGED gaps /\ \E s \in Section : sections' = sections \cup {s}
    BY <2>2, Still DEF IInv, Formed
  <2>3. ASSUME NEW s \in Section, gaps' = [gaps EXCEPT ![g] = [@ EXCEPT !.section = s]],
               sections' = sections \cup {s}
        PROVE  <1>6!1 /\ <1>6!2
    <3> DEFINE q == [gaps[g] EXCEPT !.section = s]
    <3>1. /\ q \in GapRow /\ q.topic = gaps[g].topic /\ q.present = gaps[g].present
          /\ q.frequency = gaps[g].frequency /\ q.pinned = gaps[g].pinned
      BY <1>5 DEF GapRow
    <3>2. gaps' = [gaps EXCEPT ![g] = q]
      BY <2>3
    <3> HIDE DEF q
    <3>3. gaps' \in Seq(GapRow) /\ Len(gaps') = Len(gaps) /\ DOMAIN gaps' = DOMAIN gaps
      BY <1>5, <3>1, <3>2
    <3>4. GapsKept
      BY <1>5, <3>1, <3>2, <3>3 DEF GapsKept
    <3> QED
      BY <1>5, <2>3, <3>1, <3>2, <3>4 DEF IInv, Formed
  <2> QED
    BY <2>1, <2>2, <2>3 DEF Place
<1>7. /\ Unprocessed(m)' = Unprocessed(m) /\ MissesKept
      /\ \A u : Settled(u)' = Settled(u)
  BY <1>2, MissesStill DEF Unprocessed, Rows, Settled, IInv
<1>8. (\A t : Nearest(t)' = Nearest(t)) /\ DOMAIN gaps' = DOMAIN gaps /\ \A h : Present(h)' = Present(h)
  BY <1>6, KeptNear DEF IInv
<1>9. Formed'
  BY <1>1, <1>2, <1>6 DEF IInv, Formed, GapsKept
<1>10. At(m, "place")' /\ At(m, "place") /\ ~At(m, "rpc")' /\ ~Assembles(m)' /\ ~Assembles(m)
  BY <1>1, <1>2, <1>4 DEF At, Assembles
<1>11. RunOK(m)'
  BY <1>1, <1>4, <1>7, <1>10 DEF IInv, RunOK, Shape, DealtWith, At, Assembles
<1>12. \A n \in Meeting : RunOK(n)'
  <2>1. ASSUME NEW n \in Meeting \ {m} PROVE RunOK(n)'
    BY <1>1, <1>6, <1>7, <1>8, <2>1, RunStays DEF IInv, MissesKept, GapsKept
  <2> QED
    BY <1>11, <2>1
<1>13. OneLocks'
  BY <1>1, <1>10 DEF IInv, OneLocks, At
<1>14. \A u \in DOMAIN occ : AskedAgain(u)' => AskedAgain(u)
  BY <1>2 DEF AskedAgain
<1>15. Counted'
  BY <1>2, <1>6, <1>7, <1>14, CountsStay DEF IInv
<1>16. CurationStands'
  <2>1. g \in DOMAIN history.chosen => g \in history.overtaken
    BY <1>2, <1>10 DEF IInv, Curated, ChosenOvertaken
  <2> QED
    BY <1>2, <1>6, <1>8, <2>1 DEF IInv, Curated, CurationStands, Present
<1>17. ChosenOvertaken'
  BY <1>1, <1>2, <1>4, <1>8, <1>10 DEF IInv, Curated, ChosenOvertaken, At
<1> QED
  BY <1>9, <1>12, <1>13, <1>15, <1>16, <1>17 DEF IInv, Curated

\* What is marked was settled.
LEMMA MarkKeeps ==
    ASSUME GapsAssumption, IInv, NEW m \in Meeting, Mark(m) PROVE IInv'
<1>1. /\ DOMAIN run' = Meeting /\ (\A n \in Meeting \ {m} : run'[n] = run[n]) /\ run'[m] = None
  BY RunSet DEF Mark, IInv, Formed
<1>2. /\ UNCHANGED <<unwritten, retracted, occ, gaps, sections, ended, backfill, action, history>>
      /\ At(m, "place") /\ ~Assembles(m) /\ ~At(m, "rpc")
  BY DEF Mark, gapVars, At, Assembles
<1>3. /\ run[m].batch \subseteq Unprocessed(m) /\ \A r \in run[m].batch : Settled(r[1])
  BY <1>2 DEF IInv, RunOK, DealtWith
<1>4. ASSUME NEW u \in Utterance
      PROVE  /\ misses'[u] \in Seq(MissStatus) /\ DOMAIN misses'[u] = DOMAIN misses[u]
             /\ \A k \in DOMAIN misses[u] :
                   misses'[u][k] = IF <<u, k>> \in run[m].batch /\ misses[u][k] = "new"
                                   THEN "processed" ELSE misses[u][k]
  <2>1. misses[u] \in Seq(MissStatus)
    BY DEF IInv, Formed
  <2>2. misses'[u] = [k \in DOMAIN misses[u] |->
                        IF <<u, k>> \in run[m].batch /\ misses[u][k] = "new"
                        THEN "processed" ELSE misses[u][k]]
    BY DEF Mark, Marked
  <2> DEFINE f(k) == IF <<u, k>> \in run[m].batch /\ misses[u][k] = "new"
                     THEN "processed" ELSE misses[u][k]
  <2>3. DOMAIN misses[u] = 1..Len(misses[u]) /\ Len(misses[u]) \in Nat
    BY <2>1
  <2>4. \A k \in 1..Len(misses[u]) : f(k) \in MissStatus
    BY <2>1 DEF MissStatus
  <2>5. misses'[u] = [k \in 1..Len(misses[u]) |-> f(k)]
    BY <2>2, <2>3
  <2> HIDE DEF f
  <2>6. misses'[u] \in Seq(MissStatus) /\ DOMAIN misses'[u] = DOMAIN misses[u]
    BY <2>3, <2>4, <2>5
  <2> QED
    BY <2>2, <2>6
<1>5. misses' \in [Utterance -> Seq(MissStatus)]
  BY <1>4 DEF Mark
<1>6. Formed'
  BY <1>1, <1>2, <1>5 DEF IInv, Formed
<1>7. \A u : Settled(u)' = Settled(u)
  BY <1>2 DEF Settled
<1>8. GapsKept /\ \A t : Nearest(t)' = Nearest(t)
  BY <1>2, Still, KeptNear DEF IInv
<1>9. ASSUME NEW n \in Meeting \ {m} PROVE RunOK(n)'
  <2>1. Rows' = Rows
    BY <1>4 DEF Rows
  <2>2. Unprocessed(n) \subseteq Unprocessed(n)'
    <3> SUFFICES ASSUME NEW r \in Unprocessed(n) PROVE misses'[r[1]][r[2]] = "new"
      BY <2>1 DEF Unprocessed
    <3>1. PICK u \in Utterance : \E k \in DOMAIN misses[u] : r = <<u, k>>
      BY DEF Unprocessed, Rows
    <3>2. PICK k \in DOMAIN misses[u] : r = <<u, k>> /\ MeetingOf[u] = n /\ misses[u][k] = "new"
      BY <3>1 DEF Unprocessed
    <3>3. <<u, k>> \notin run[m].batch
      BY <1>3, <1>9, <3>2 DEF Unprocessed
    <3> QED
      BY <1>4, <3>1, <3>2, <3>3
  <2> QED
    BY <1>1, <1>2, <1>7, <1>8, <1>9, <2>2, RunStays DEF IInv
<1>10. \A n \in Meeting : RunOK(n)'
  BY <1>1, <1>9, BareRun
<1>11. OneLocks'
  BY <1>1, BareRun DEF IInv, OneLocks, At
<1>12. ProcessedIsCounted'
  <2> SUFFICES ASSUME NEW u \in Utterance, NEW k \in DOMAIN misses'[u], misses'[u][k] # "new"
               PROVE  Settled(u)
    BY <1>2 DEF ProcessedIsCounted, Settled
  <2>1. CASE misses[u][k] # "new"
    BY <1>4, <2>1 DEF IInv, Counted, ProcessedIsCounted, Settled
  <2>2. CASE misses[u][k] = "new"
    BY <1>3, <1>4, <2>2
  <2> QED
    BY <2>1, <2>2
<1>13. \A u \in DOMAIN occ : AskedAgain(u)' => AskedAgain(u)
  BY <1>2, <1>4 DEF AskedAgain, IInv, Formed
<1>14. AskedAgainIsNear'
  BY <1>2, <1>8, <1>13 DEF IInv, Counted, AskedAgainIsNear
<1>15. GapsCountTheirAsks'
  BY <1>2 DEF IInv, Counted, GapsCountTheirAsks, Present, Asks
<1>16. Curated'
  <2>1. \A n \in Meeting : At(n, "place")' =>
            run'[n].place \cap DOMAIN history.chosen \subseteq history.overtaken
    BY <1>1, BareRun DEF IInv, Curated, ChosenOvertaken, At
  <2> QED
    BY <1>2, <1>8, <2>1, CurationStays DEF IInv
<1> QED
  BY <1>6, <1>10, <1>11, <1>12, <1>14, <1>15, <1>16 DEF IInv, Counted
\* The call writes: the asks of its group that were not counted are counted in the gap,
\* which is a new one where the topic had none.
LEMMA AssembleWritesKeeps ==
    ASSUME GapsAssumption, IInv, NEW m \in Meeting, AssembleWrites(m) PROVE IInv'
<1> DEFINE t == run[m].call.topic
           g == run[m].call.gap
           I == CallInserts(m)
           o == [u \in DOMAIN occ \cup I |-> IF u \in I THEN g ELSE occ[u]]
           old == IF g \in DOMAIN gaps THEN gaps ELSE Append(gaps, NewGap(t))
           N == Asks(o, g)
           k == [old[g] EXCEPT !.frequency = N]
           st == IF Reopens(m) THEN "open" ELSE old[g].status
           q == [k EXCEPT !.status = st]
           e == [run[m] EXCEPT !.at = "groups"]
           r == [e EXCEPT !.touched = @ \cup {g}]
<1>1. /\ DOMAIN run' = Meeting /\ (\A n \in Meeting \ {m} : run'[n] = run[n]) /\ run'[m] = r
      /\ UNCHANGED <<missVars, sections, ended, requests, backfill, action, budget, history>>
      /\ occ' = o /\ gaps' = [old EXCEPT ![g] = q] /\ run[m].at = "rpc"
  <2>1. SetRun(m, r) /\ DOMAIN run = Meeting
    BY DEF AssembleWrites, IInv, Formed
  <2>2. DOMAIN run' = Meeting /\ (\A n \in Meeting \ {m} : run'[n] = run[n]) /\ run'[m] = r
    <3> HIDE DEF r
    <3> QED
      BY <2>1, RunSet
  <2>3. gaps' = [old EXCEPT ![g] = q]
    BY DEF AssembleWrites
  <2> QED
    BY <2>2, <2>3 DEF AssembleWrites, At
<1>2. run[m] \in Assembling /\ CallStands(m) /\ run[m].batch \subseteq Unprocessed(m)
  BY <1>1 DEF IInv, RunOK, Shape, None, Loading, Placing, At, Assembles
<1>3. /\ t \in Topic /\ g \in Nat \ {0} /\ t \in BatchTopics(m)
      /\ IF Nearest(t) = {} THEN g = Len(gaps) + 1 ELSE g \in Nearest(t)
  BY <1>2 DEF CallStands, Call
<1>4. UNCHANGED <<misses, unwritten, retracted>> /\ \A n \in Meeting : Unprocessed(n)' = Unprocessed(n)
  BY <1>1 DEF missVars, Unprocessed, Rows
<1>5. /\ Group(m, t) \subseteq Utterance /\ \A u \in Group(m, t) : TopicOf[u] = t
      /\ I = Group(m, t) \ DOMAIN occ /\ DOMAIN occ \subseteq Utterance
  BY <1>2 DEF Group, Assembling, Row, CallInserts, IInv, Formed
<1>6. /\ DOMAIN occ' = DOMAIN occ \cup I /\ DOMAIN o = DOMAIN occ \cup I
      /\ \A u \in DOMAIN occ' : occ'[u] = IF u \in I THEN g ELSE occ[u]
      /\ \A u \in DOMAIN o : o[u] = IF u \in I THEN g ELSE occ[u]
      /\ I \cap DOMAIN occ = {} /\ I \subseteq Utterance
  BY <1>1, <1>5
<1>7. N \in Nat
  BY <1>5, <1>6, AsksCount
<1>8. /\ gaps \in Seq(GapRow) /\ Len(gaps) \in Nat /\ DOMAIN gaps = 1..Len(gaps)
      /\ \A h \in DOMAIN gaps : gaps[h] \in GapRow
  BY DEF IInv, Formed
<1>9. /\ g \in DOMAIN gaps => Present(g) /\ gaps[g].topic = t
      /\ g \notin DOMAIN gaps => Nearest(t) = {} /\ g = Len(gaps) + 1
  BY <1>3, <1>8 DEF Nearest
<1>10. NewGap(t) \in GapRow /\ NewGap(t).topic = t /\ NewGap(t).present
  BY <1>3 DEF NewGap, GapRow, GapStatus
<1>11. /\ old \in Seq(GapRow) /\ DOMAIN old = DOMAIN gaps \cup {g}
       /\ \A h \in DOMAIN gaps : old[h] = gaps[h]
       /\ old[g] \in GapRow /\ old[g].topic = t /\ old[g].present
  <2>1. CASE g \in DOMAIN gaps
    BY <1>8, <1>9, <2>1 DEF Present
  <2>2. CASE g \notin DOMAIN gaps
    <3> HIDE DEF t
    <3>1. old = Append(gaps, NewGap(t))
      BY <2>2
    <3>2. /\ old \in Seq(GapRow) /\ DOMAIN old = DOMAIN gaps \cup {g}
          /\ (\A h \in DOMAIN gaps : old[h] = gaps[h]) /\ old[g] = NewGap(t)
      <4>1. ASSUME NEW x \in GapRow
            PROVE  /\ Append(gaps, x) \in Seq(GapRow)
                   /\ DOMAIN Append(gaps, x) = DOMAIN gaps \cup {Len(gaps) + 1}
                   /\ \A h \in DOMAIN gaps : Append(gaps, x)[h] = gaps[h]
                   /\ Append(gaps, x)[Len(gaps) + 1] = x
        BY <1>8
      <4> HIDE DEF old, g
      <4> QED
        BY <1>9, <1>10, <2>2, <3>1, <4>1
    <3> QED
      BY <1>10, <3>2
  <2> QED
    BY <2>1, <2>2
<1> HIDE DEF N
<1>12. /\ k \in GapRow /\ k.topic = t /\ k.present /\ k.frequency = N
       /\ k.section = old[g].section /\ k.pinned = old[g].pinned
  <2> HIDE DEF old, t
  <2> QED
    BY <1>7, <1>11 DEF GapRow
<1> HIDE DEF k
<1>13. st \in GapStatus
  BY <1>11 DEF GapRow, GapStatus
<1> HIDE DEF st
<1>14. /\ q \in GapRow /\ q.topic = t /\ q.present /\ q.frequency = N
       /\ q.section = old[g].section /\ q.pinned = old[g].pinned
  <2> HIDE DEF old, t
  <2> QED
    BY <1>12, <1>13 DEF GapRow
<1> HIDE DEF q
<1>15. /\ gaps' \in Seq(GapRow) /\ DOMAIN gaps' = DOMAIN gaps \cup {g}
       /\ (\A h \in DOMAIN gaps : h # g => gaps'[h] = gaps[h]) /\ gaps'[g] = q
  <2> HIDE DEF old, t, g
  <2> QED
    BY <1>1, <1>11, <1>14
<1>16. \A h \in DOMAIN gaps : /\ gaps'[h].topic = gaps[h].topic /\ gaps'[h].section = gaps[h].section
                              /\ gaps'[h].pinned = gaps[h].pinned
  BY <1>9, <1>11, <1>14, <1>15
<1>17. \A h : Present(h)' <=> Present(h) \/ h = g
  BY <1>9, <1>14, <1>15 DEF Present
<1>18. \A s : Nearest(s) \subseteq Nearest(s)' /\ (s = t => g \in Nearest(s)')
  BY <1>14, <1>15, <1>16, <1>17 DEF Nearest
<1> HIDE DEF o, old, I, t, g
<1>19. /\ e \in Assembling /\ e.at = "groups" /\ e.batch = run[m].batch
       /\ e.topics = run[m].topics /\ e.touched = run[m].touched
  BY <1>2 DEF Assembling
<1> HIDE DEF e
<1>20. /\ r \in Assembling /\ r.at = "groups" /\ r.batch = run[m].batch
       /\ r.topics = run[m].topics
  BY <1>3, <1>19 DEF Assembling
<1> HIDE DEF r
<1>21. /\ ~At(m, "rpc")' /\ ~At(m, "place")' /\ Assembles(m)' /\ Assembles(m) /\ At(m, "rpc")
       /\ BatchTopics(m)' = BatchTopics(m)
  BY <1>1, <1>20 DEF At, Assembles, BatchTopics
<1>22. \A u : Settled(u) => Settled(u)'
  BY <1>1, <1>6 DEF Settled
<1>23. \A x \in run[m].batch : DealtWith(m, x[1])'
  <2> SUFFICES ASSUME NEW x \in run[m].batch PROVE DealtWith(m, x[1])'
    OBVIOUS
  <2>1. DealtWith(m, x[1])
    BY <1>21 DEF IInv, RunOK
  <2>2. TopicOf[x[1]] = t => x[1] \in Group(m, t)
    BY DEF Group
  <2>3. TopicOf[x[1]] = t => Settled(x[1])'
    BY <1>5, <1>6, <2>2 DEF Settled
  <2> QED
    BY <1>1, <1>20, <1>21, <1>22, <2>1, <2>3 DEF DealtWith, t
<1>24. RunOK(m)'
  BY <1>1, <1>4, <1>20, <1>21, <1>23 DEF IInv, RunOK, Shape
<1>25. \A n \in Meeting : RunOK(n)'
  <2>1. ASSUME NEW n \in Meeting \ {m} PROVE RunOK(n)'
    <3>1. ~At(n, "rpc")
      BY <1>21, <2>1 DEF IInv, OneLocks
    <3> QED
      BY <1>1, <1>4, <1>22, <2>1, <3>1, RunStays DEF IInv
  <2> QED
    BY <1>24, <2>1
<1>26. OneLocks'
  BY <1>1, <1>21 DEF IInv, OneLocks, At
<1>27. Formed'
  BY <1>1, <1>4, <1>5, <1>6, <1>15 DEF IInv, Formed
<1>28. ProcessedIsCounted'
  BY <1>1, <1>4, <1>6 DEF IInv, Counted, ProcessedIsCounted
<1>29. AskedAgainIsNear'
  <2> SUFFICES ASSUME NEW u \in DOMAIN occ', AskedAgain(u)'
               PROVE  Nearest(TopicOf[u])' # {} \/ TopicOf[u] \in history'.raced
    BY DEF AskedAgainIsNear
  <2>1. CASE u \in I
    BY <1>5, <1>18, <2>1
  <2>2. CASE u \in DOMAIN occ
    <3>1. AskedAgain(u)
      BY <1>1, <1>4 DEF AskedAgain
    <3> QED
      BY <1>1, <1>18, <2>2, <3>1 DEF IInv, Counted, AskedAgainIsNear
  <2> QED
    BY <1>6, <2>1, <2>2
<1>30. GapsCountTheirAsks'
  <2>1. ASSUME NEW h \in DOMAIN gaps', h # g, Present(h)'
        PROVE  /\ gaps'[h].frequency = Asks(occ', h)
               /\ gaps'[h].frequency > 0 \/ gaps'[h].topic \in history'.raced
    <3>1. Present(h) /\ h \in DOMAIN gaps /\ gaps'[h] = gaps[h]
      BY <1>15, <1>17, <2>1
    <3>2. {u \in DOMAIN occ' : occ'[u] = h} = {u \in DOMAIN occ : occ[u] = h}
      BY <1>6, <2>1
    <3> QED
      BY <1>1, <3>1, <3>2 DEF Asks, IInv, Counted, GapsCountTheirAsks
  <2>2. gaps'[g].frequency = Asks(occ', g) /\ gaps'[g].topic = t
    BY <1>1, <1>14, <1>15 DEF N
  <2>3. Asks(occ', g) > 0 \/ t \in history.raced
    <3>1. CASE I # {}
      <4>1. \E u \in DOMAIN occ' : occ'[u] = g
        BY <1>6, <3>1
      <4>2. DOMAIN occ' \subseteq Utterance
        BY <1>5, <1>6
      <4> QED
        BY <4>1, <4>2, AsksCount
    <3>2. CASE I = {} /\ g \in DOMAIN gaps
      <4>1. {u \in DOMAIN occ' : occ'[u] = g} = {u \in DOMAIN occ : occ[u] = g}
        BY <1>6, <3>2
      <4> QED
        BY <1>9, <3>2, <4>1 DEF Asks, IInv, Counted, GapsCountTheirAsks
    <3>3. CASE I = {} /\ g \notin DOMAIN gaps
      <4>1. PICK x \in run[m].batch : TopicOf[x[1]] = t
        BY <1>3 DEF BatchTopics
      <4>2. x[1] \in DOMAIN occ
        <5>1. x[1] \in Group(m, t)
          BY <4>1 DEF Group
        <5> QED
          BY <1>5, <3>3, <5>1
      <4>3. AskedAgain(x[1])
        BY <1>2 DEF Unprocessed, Rows, AskedAgain
      <4> QED
        BY <1>9, <3>3, <4>1, <4>2, <4>3 DEF IInv, Counted, AskedAgainIsNear
    <3> QED
      BY <3>1, <3>2, <3>3
  <2>4. \A u \in DOMAIN occ' : Present(occ[u])'
    BY <1>6, <1>17 DEF IInv, Counted, GapsCountTheirAsks
  <2> QED
    BY <1>1, <2>1, <2>2, <2>3, <2>4 DEF GapsCountTheirAsks
<1>31. Curated'
  <2>1. CurationStands'
    BY <1>1, <1>9, <1>16, <1>17 DEF IInv, Curated, CurationStands, ChosenOvertaken
  <2>2. ChosenOvertaken'
    BY <1>1, <1>15, <1>21 DEF IInv, Curated, ChosenOvertaken, At
  <2> QED
    BY <2>1, <2>2 DEF Curated
<1> QED
  BY <1>25, <1>26, <1>27, <1>28, <1>29, <1>30, <1>31 DEF IInv, Counted

-----------------------------------------------------------------------------
(***************************************************************************)
(* The results.                                                            *)
(***************************************************************************)
LEMMA AssemblyKeeps ==
    ASSUME GapsAssumption, IInv, Assembly PROVE IInv'
<1>1. PICK m \in Meeting : \/ MeetingEnds(m) \/ RunStep(m) \/ Throws(m)
                           \/ \E t \in Topic : SkipGroup(m, t)
  BY DEF Assembly
<1>2. CASE RunStep(m)
  BY <1>2, BeginKeeps, LoadKeeps, AssembleReadsKeeps, AssembleWritesKeeps, ReclusterKeeps,
     PlaceKeeps, MarkKeeps DEF RunStep
<1> QED
  BY <1>1, <1>2, MeetingEndsKeeps, ThrowsKeeps, SkipGroupKeeps

LEMMA CurationKeeps ==
    ASSUME GapsAssumption, IInv, Curation PROVE IInv'
BY CloseKeeps, MergeGapsKeeps, MoveKeeps, AssignKeeps, SplitKeeps, MergeSectionsKeeps, DeleteKeeps,
   DropKeeps, ActionFailsKeeps DEF Curation

LEMMA StepKeeps ==
    ASSUME GapsAssumption, IInv, [Next]_vars PROVE IInv'
<1>1. CASE Next
  BY <1>1, WorkerKeeps, SweepKeeps, AssemblyKeeps, BackfillKeeps, CurationKeeps DEF Next
<1>2. CASE UNCHANGED vars
  <2>1. UNCHANGED <<missVars, occ, gaps, sections, ended, run, backfill, action, history>>
    BY <1>2 DEF vars, missVars
  <2> QED
    BY <2>1, OnlyActs DEF IInv, Formed
<1> QED
  BY <1>1, <1>2

\* The invariant on which the results rest: what an assembly read stands until it writes,
\* and what was counted and is asked again finds a gap of its topic.
THEOREM GapsInductive == Spec => []IInv
<1>1. Init => IInv
  BY GapsAssumption, InitHolds
<1>2. IInv /\ [Next]_vars => IInv'
  BY GapsAssumption, StepKeeps
<1> QED
  BY <1>1, <1>2, PTL DEF Spec

\* The frequency of a gap is the number of its occurrences, and each has a gap, through
\* repeated runs, backfills and merges (knowledge-gaps.ts, merge_gaps).
THEOREM FrequenciesCount == Spec => []GapsCountTheirAsks
<1>1. IInv => GapsCountTheirAsks
  BY DEF IInv, Counted
<1> QED
  BY <1>1, GapsInductive, PTL

\* A miss is marked processed only when it is counted or was left out for its embedding
\* (knowledge-gaps.ts).
THEOREM MarkedAreCounted == Spec => []ProcessedIsCounted
<1>1. IInv => ProcessedIsCounted
  BY DEF IInv, Counted
<1> QED
  BY <1>1, GapsInductive, PTL

\* What a manager has put somewhere stays there, unless a run had picked it before
\* (section-actions.ts, reclusterSections).
THEOREM CurationIsKept == Spec => []CurationStands
<1>1. IInv => CurationStands
  BY DEF IInv, Curated
<1> QED
  BY <1>1, GapsInductive, PTL
-----------------------------------------------------------------------------
(***************************************************************************)
(* What opens a closed gap.                                                *)
(***************************************************************************)
Cause(g) ==
    \/ \E u \in DOMAIN occ' \ DOMAIN occ : occ'[u] = g
    \/ \E a \in Actor : action[a].at = "assign" /\ action[a].gap = g
                       /\ action[a].closed /\ action'[a] = None

StatusKept == \A g \in DOMAIN gaps : gaps'[g].status = gaps[g].status

LEMMA MovedStatus ==
    ASSUME Formed, NEW gs, NEW s, Moved(gs, s)
    PROVE  StatusKept
<1> SUFFICES ASSUME NEW g \in DOMAIN gaps PROVE gaps'[g].status = gaps[g].status
  BY DEF StatusKept
<1> DEFINE k == [gaps[g] EXCEPT !.section = s]
           r == [k EXCEPT !.pinned = TRUE]
<1>1. gaps'[g] = IF g \in gs THEN r ELSE gaps[g]
  BY DEF Moved
<1>2. gaps[g] \in GapRow
  BY DEF Formed
<1>3. k.status = gaps[g].status /\ DOMAIN k = DOMAIN gaps[g]
  BY <1>2 DEF GapRow
<1> HIDE DEF k
<1>4. r.status = k.status
  BY <1>2, <1>3 DEF GapRow
<1> QED
  BY <1>1, <1>3, <1>4

LEMMA PlaceStatus ==
    ASSUME Formed, NEW m \in Meeting, NEW h \in DOMAIN gaps, Place(m, h)
    PROVE  StatusKept
<1> SUFFICES ASSUME NEW g \in DOMAIN gaps PROVE gaps'[g].status = gaps[g].status
  BY DEF StatusKept
<1>1. gaps[g] \in GapRow /\ gaps[h] \in GapRow
  BY DEF Formed
<1>2. CASE UNCHANGED gaps
  BY <1>2
<1>3. ASSUME NEW s \in Section, gaps' = [gaps EXCEPT ![h] = [@ EXCEPT !.section = s]]
      PROVE  gaps'[g].status = gaps[g].status
  BY <1>1, <1>3 DEF GapRow
<1> QED
  BY <1>2, <1>3 DEF Place

LEMMA MergeStatus ==
    ASSUME Formed, NEW t \in DOMAIN gaps, NEW h \in DOMAIN gaps, MergeGaps(t, h)
    PROVE  StatusKept
<1> SUFFICES ASSUME NEW g \in DOMAIN gaps PROVE gaps'[g].status = gaps[g].status
  BY DEF StatusKept
<1>1. PICK N : t # h /\ gaps' = [gaps EXCEPT ![t].frequency = N, ![h].present = FALSE]
  BY DEF MergeGaps
<1> DEFINE r == [gaps[t] EXCEPT !.frequency = N]
           q == [gaps[h] EXCEPT !.present = FALSE]
<1>2. gaps[g] \in GapRow /\ gaps[h] \in GapRow /\ gaps[t] \in GapRow
  BY DEF Formed
<1>3. gaps' = [[gaps EXCEPT ![t] = r] EXCEPT ![h] = q]
  BY <1>1
<1>4. r.status = gaps[t].status /\ q.status = gaps[h].status
  BY <1>2 DEF GapRow
<1> HIDE DEF r, q
<1> QED
  BY <1>3, <1>4

LEMMA DropStatus ==
    ASSUME Formed, NEW a \in Actor, Drop(a)
    PROVE  StatusKept
<1> SUFFICES ASSUME NEW g \in DOMAIN gaps PROVE gaps'[g].status = gaps[g].status
  BY DEF StatusKept
<1>1. gaps[g] \in GapRow
  BY DEF Formed
<1> QED
  BY <1>1 DEF Drop, GapRow

\* Only the call that inserts an ask, and an assignment that found the gap closed.
LEMMA OpensFor ==
    ASSUME IInv, Next, NEW g \in DOMAIN gaps, gaps[g].status = "closed", gaps'[g].status = "open"
    PROVE  Cause(g)
<1>1. gaps[g] \in GapRow /\ Formed
  BY DEF IInv, Formed
<1>2. ~UNCHANGED gaps /\ ~StatusKept
  BY DEF StatusKept
<1>3. ~Worker /\ ~Sweep /\ ~Backfill
  BY <1>2 DEF Worker, RecordMiss, RetractAnswer, WriteFails, Sweep, Backfill, BackfillBegins,
     BackfillReads, BackfillInserts, BackfillFansOut, BackfillThrows, gapVars
<1>4. CASE Assembly
  <2>1. PICK m \in Meeting : AssembleWrites(m) \/ \E h \in DOMAIN gaps : Place(m, h)
    BY <1>2, <1>4 DEF Assembly, RunStep, MeetingEnds, Begin, Load, Recluster, Mark, AssembleReads,
       Throws, SkipGroup, gapVars
  <2>2. AssembleWrites(m)
    BY <1>1, <1>2, <2>1, PlaceStatus
  <2> DEFINE h == run[m].call.gap
             t == run[m].call.topic
             I == CallInserts(m)
             o == [u \in DOMAIN occ \cup I |-> IF u \in I THEN h ELSE occ[u]]
             old == IF h \in DOMAIN gaps THEN gaps ELSE Append(gaps, NewGap(t))
             N == Asks(o, h)
             st == IF Reopens(m) THEN "open" ELSE old[h].status
             k == [old[h] EXCEPT !.frequency = N]
             q == [k EXCEPT !.status = st]
  <2>3. occ' = o /\ gaps' = [old EXCEPT ![h] = q]
    BY <2>2 DEF AssembleWrites
  <2> HIDE DEF N, st, h, t, I
  <2>4. old[g] = gaps[g] /\ g \in DOMAIN old
    BY <1>1 DEF Formed
  <2> HIDE DEF old
  <2>5. g = h /\ gaps'[g] = q
    BY <2>3, <2>4
  <2>6. old[h] \in GapRow
    BY <1>1, <2>4, <2>5
  <2>7. k.status = old[h].status /\ "status" \in DOMAIN k
    BY <2>6 DEF GapRow
  <2> HIDE DEF k
  <2>8. q.status = st
    BY <2>7
  <2>9. Reopens(m)
    BY <2>4, <2>5, <2>8 DEF st
  <2>10. PICK u \in I : u \notin DOMAIN occ
    BY <2>9 DEF I, Reopens, CallInserts
  <2>11. u \in DOMAIN occ' \ DOMAIN occ /\ occ'[u] = g
    BY <2>3, <2>5, <2>10
  <2> QED
    BY <2>11 DEF Cause
<1>5. CASE Curation
  <2>1. \/ \E h \in DOMAIN gaps : Close(h)
        \/ \E a \in Actor : AssignWrites(a)
        \/ \E h, f \in DOMAIN gaps : MergeGaps(h, f)
        \/ \E a \in Actor : Drop(a)
        \/ \E gs, s : Moved(gs, s)
    BY <1>2, <1>5 DEF Curation, AssignReads, SplitCreates, DeleteCounts, ActionFails, MoveGap, MoveAll,
       SplitMoves, MergeSections, DeleteMoves, gapVars
  <2>2. \/ \E h \in DOMAIN gaps : Close(h)
        \/ \E a \in Actor : AssignWrites(a)
    BY <1>1, <1>2, <2>1, MergeStatus, DropStatus, MovedStatus
  <2>3. \A h \in DOMAIN gaps : ~Close(h)
    BY <1>1 DEF Close, GapRow
  <2>4. PICK a \in Actor : AssignWrites(a)
    BY <2>2, <2>3
  <2>5. action[a].at = "assign" /\ action'[a] = None
    BY <2>4 DEF AssignWrites, Done, IInv, Formed
  <2>6. action[a].closed /\ action[a].gap = g
    BY <1>1, <1>2, <2>4 DEF AssignWrites, GapRow
  <2> QED
    BY <2>5, <2>6 DEF Cause
<1> QED
  BY <1>3, <1>4, <1>5 DEF Next

\* A closed gap opens only for an ask that was not counted, or for an assignment that found
\* it closed (assemble_gap_occurrence_group, assign).
THEOREM ReopensHaveCause == Spec => NoSpuriousReopen
<1>1. IInv /\ [Next]_vars =>
        [\A g \in DOMAIN gaps :
            gaps[g].status = "closed" /\ gaps'[g].status = "open" =>
              \/ \E u \in DOMAIN occ' \ DOMAIN occ : occ'[u] = g
              \/ \E a \in Actor : action[a].at = "assign" /\ action[a].gap = g
                                 /\ action[a].closed /\ action'[a] = None]_vars
  BY OpensFor DEF Cause
<1> QED
  BY <1>1, GapsInductive, PTL DEF Spec, NoSpuriousReopen

-----------------------------------------------------------------------------
(***************************************************************************)
(* The recap of a meeting. A recap that is said to be done is there, and no*)
(* regeneration is dropped unserved, for any number of requests, clicks,   *)
(* retries and failures.                                                   *)
(***************************************************************************)
\* Some click has rolled the status back.
SomeRestored == \E d \in Click : click[d].stage = "restored"

\* What a click read as 'done' is there, so a rollback cannot claim too much.
PriorsHaveRecap == \A c \in Click : click[c].prior = "done" => recap # NoRecap

\* Only a click that has set 'generating' starts its run.
RunsAreFlipped == \A c \in Click : ~RunAt(c, "none") => Flipped(c)

\* Whoever finds 'done' after its own flip owes it to a recap stored since, or to
\* a rollback.
DoneSinceFlip ==
    \A c \in Click : Flipped(c) /\ status = "done" => c \in served \/ SomeRestored

RecapInv ==
    /\ RecapTypeOK
    /\ DoneHasRecap /\ PriorsHaveRecap
    /\ RunsAreFlipped /\ DoneSinceFlip /\ SkippedAreServed

-----------------------------------------------------------------------------
LEMMA FailType ==
    ASSUME failures \in 0..MaxFailures, Fail
    PROVE  failures' \in 0..MaxFailures
BY RecapAssumption DEF Fail

\* A step that throws is retried no more often than the bound allows.
LEMMA ThrownType ==
    ASSUME NEW entry \in [stage : RunStage, tries : 0..MaxRetries],
           NEW again \in RunStage
    PROVE  /\ Thrown(entry, again) \in [stage : RunStage, tries : 0..MaxRetries]
           /\ Thrown(entry, again).stage \in {again, "exhausted"}
BY RecapAssumption DEF Thrown, RunStage

LEMMA RecapInitHolds ==
    ASSUME RecapInit
    PROVE  RecapInv
<1>1. RecapTypeOK
  <2>1. recapRun \in [Run -> [stage : RunStage, tries : 0..MaxRetries]]
    BY RecapAssumption DEF RecapInit, RunStage
  <2>2. click \in [Click -> [stage : ClickStage, prior : Status]]
    BY DEF RecapInit, ClickStage, Status
  <2>3. status \in Status /\ failures \in 0..MaxFailures
    BY RecapAssumption DEF RecapInit, Status
  <2>4. recap \in Run \cup {NoRecap} /\ lost \in BOOLEAN /\ served \subseteq Click
    BY DEF RecapInit
  <2> QED
    BY <2>1, <2>2, <2>3, <2>4 DEF RecapTypeOK
<1>2. DoneHasRecap /\ PriorsHaveRecap /\ DoneSinceFlip
  BY DEF RecapInit, DoneHasRecap, PriorsHaveRecap, DoneSinceFlip
<1>3. RunsAreFlipped /\ SkippedAreServed
  BY DEF RecapInit, RunsAreFlipped, SkippedAreServed, RunAt, Run
<1> QED
  BY <1>1, <1>2, <1>3 DEF RecapInv

-----------------------------------------------------------------------------
(***************************************************************************)
(* What the steps of a run leave alone: the clicks, and, but for           *)
(* persisting, the stored recap.                                           *)
(***************************************************************************)
\* A step of run r that changes no status, or makes it anything but 'done', keeps
\* the invariant as long as it neither starts nor skips a run.
LEMMA RunMoves ==
    ASSUME RecapInv, RecapTypeOK', NEW r \in Run,
           status' = status \/ status' # "done",
           UNCHANGED <<recap, click, served>>,
           \A q \in Run \ {r} : recapRun'[q] = recapRun[q],
           recapRun[r].stage # "none" \/ r \in Ended,
           recapRun'[r].stage # "skipped" \/ recapRun[r].stage = "skipped"
    PROVE  RecapInv'
<1>1. DoneHasRecap' /\ PriorsHaveRecap'
  BY DEF RecapInv, DoneHasRecap, PriorsHaveRecap
<1>2. \A c \in Click : Flipped(c)' = Flipped(c)
  BY DEF Flipped
<1>3. SomeRestored' = SomeRestored
  BY DEF SomeRestored
<1>4. RunsAreFlipped'
  BY <1>2, RecapAssumption DEF RecapInv, RunsAreFlipped, RunAt, Run
<1>5. DoneSinceFlip'
  BY <1>2, <1>3 DEF RecapInv, DoneSinceFlip
<1>6. SkippedAreServed'
  BY DEF RecapInv, SkippedAreServed, RunAt, Run
<1> QED
  BY <1>1, <1>4, <1>5, <1>6 DEF RecapInv

LEMMA RequestKeeps ==
    ASSUME RecapInv, NEW r \in Run, RecapRequested(r)
    PROVE  RecapInv'
<1>1. RecapTypeOK'
  BY RecapAssumption DEF RecapInv, RecapTypeOK, RecapRequested, Goes, RunStage
<1>2. /\ \A q \in Run \ {r} : recapRun'[q] = recapRun[q]
      /\ recapRun'[r].stage = "queued" /\ r \in Ended
      /\ UNCHANGED <<status, recap, click, served>>
  BY DEF RecapInv, RecapTypeOK, RecapRequested, Goes
<1> QED
  BY <1>1, <1>2, RunMoves

\* The one step that skips: it found 'done', so DoneSinceFlip has the reason.
LEMMA CheckKeeps ==
    ASSUME RecapInv, NEW r \in Run, CheckAlreadyDone(r)
    PROVE  RecapInv'
<1> USE DEF CheckAlreadyDone
<1>1. RecapTypeOK'
  BY RecapAssumption DEF RecapInv, RecapTypeOK, Goes, RunStage
<1>2. /\ \A q \in Run \ {r} : recapRun'[q] = recapRun[q]
      /\ recapRun'[r].stage = IF status = "done" THEN "skipped" ELSE "checked"
  BY DEF RecapInv, RecapTypeOK, Goes, Skippable
<1>3. CASE status # "done"
  <2>1. recapRun'[r].stage # "skipped"
    BY <1>2, <1>3
  <2>2. recapRun[r].stage # "none"
    BY DEF RunAt
  <2> QED
    BY <1>1, <1>2, <2>1, <2>2, RunMoves
<1>4. CASE status = "done"
  <2>1. \A c \in Click : Flipped(c)' = Flipped(c)
    BY DEF Flipped
  <2>2. SomeRestored' = SomeRestored
    BY DEF SomeRestored
  <2>3. DoneHasRecap' /\ PriorsHaveRecap' /\ DoneSinceFlip'
    BY <2>1, <2>2 DEF RecapInv, DoneHasRecap, PriorsHaveRecap, DoneSinceFlip
  <2>4. RunsAreFlipped'
    BY <1>2, <2>1 DEF RecapInv, RunsAreFlipped, RunAt, Run
  <2>5. r \in Click => r \in served \/ SomeRestored
    BY <1>4 DEF RecapInv, RunsAreFlipped, DoneSinceFlip, RunAt
  <2>6. SkippedAreServed'
    BY <1>2, <2>5 DEF RecapInv, SkippedAreServed, RunAt, Run, SomeRestored
  <2> QED
    BY <1>1, <2>3, <2>4, <2>6 DEF RecapInv
<1> QED
  BY <1>3, <1>4

LEMMA GenerateKeeps ==
    ASSUME RecapInv, NEW r \in Run, MarkGenerating(r) \/ Generated(r)
    PROVE  RecapInv'
<1>1. RecapTypeOK'
  <2>1. CASE MarkGenerating(r)
    BY <2>1, FailType DEF RecapInv, RecapTypeOK, MarkGenerating, RunStage, Status
  <2>2. CASE Generated(r)
    BY <2>2, RecapAssumption DEF RecapInv, RecapTypeOK, Generated, Goes, RunStage
  <2> QED
    BY <2>1, <2>2
<1>2. /\ \A q \in Run \ {r} : recapRun'[q] = recapRun[q]
      /\ recapRun'[r].stage \in {"marked", "built"} /\ recapRun[r].stage \in {"checked", "marked"}
      /\ status' \in {status, "generating"}
      /\ UNCHANGED <<recap, click, served>>
  BY DEF RecapInv, RecapTypeOK, MarkGenerating, Generated, Goes, RunAt
<1> QED
  BY <1>1, <1>2, RunMoves

\* Persisting serves every click that has flipped.
LEMMA PersistKeeps ==
    ASSUME RecapInv, NEW r \in Run, Persist(r)
    PROVE  RecapInv'
<1> USE DEF Persist
<1>1. \A q \in Run \ {r} : recapRun'[q] = recapRun[q]
  BY DEF RecapInv, RecapTypeOK, Goes
<1>2. /\ recapRun'[r] \in [stage : RunStage, tries : 0..MaxRetries]
      /\ recapRun'[r].stage \in {"finished", "built", "exhausted"}
  <2>1. Thrown(recapRun[r], "built") \in [stage : RunStage, tries : 0..MaxRetries]
        /\ Thrown(recapRun[r], "built").stage \in {"built", "exhausted"}
    BY ThrownType DEF RecapInv, RecapTypeOK, RunStage
  <2> QED
    BY <2>1, RecapAssumption DEF RecapInv, RecapTypeOK, Goes, RunStage
<1>3. RecapTypeOK'
  <2>1. recapRun' \in [Run -> [stage : RunStage, tries : 0..MaxRetries]]
    BY <1>2 DEF RecapInv, RecapTypeOK, Goes
  <2> QED
    BY <2>1, FailType DEF RecapInv, RecapTypeOK, Status
<1>4. \A c \in Click : Flipped(c)' = Flipped(c)
  BY DEF Flipped
<1>5. DoneHasRecap' /\ PriorsHaveRecap'
  BY NoRecapAssumption DEF DoneHasRecap, PriorsHaveRecap
<1>6. DoneSinceFlip'
  BY <1>4 DEF DoneSinceFlip
<1>7. RunsAreFlipped'
  BY <1>1, <1>4 DEF RecapInv, RunsAreFlipped, RunAt, Run
<1>8. SkippedAreServed'
  BY <1>1, <1>2 DEF RecapInv, SkippedAreServed, RunAt, Run
<1> QED
  BY <1>3, <1>5, <1>6, <1>7, <1>8 DEF RecapInv

LEMMA StepThrowsKeeps ==
    ASSUME RecapInv, NEW r \in Run, StepThrows(r)
    PROVE  RecapInv'
<1>1. PICK again \in {"queued", "checked", "built"} :
        recapRun' = [recapRun EXCEPT ![r] = Thrown(recapRun[r], again)]
  BY DEF StepThrows, RecapInv, RecapTypeOK
<1>2. /\ Thrown(recapRun[r], again) \in [stage : RunStage, tries : 0..MaxRetries]
      /\ Thrown(recapRun[r], again).stage \in {again, "exhausted"}
  BY ThrownType DEF RecapInv, RecapTypeOK, RunStage
<1>3. RecapTypeOK'
  <2>1. recapRun' \in [Run -> [stage : RunStage, tries : 0..MaxRetries]]
    BY <1>1, <1>2 DEF RecapInv, RecapTypeOK
  <2> QED
    BY <2>1, FailType DEF RecapInv, RecapTypeOK, StepThrows
<1>4. /\ \A q \in Run \ {r} : recapRun'[q] = recapRun[q]
      /\ recapRun'[r].stage # "skipped"
  BY <1>1, <1>2 DEF RecapInv, RecapTypeOK
<1>5. recapRun[r].stage # "none" /\ UNCHANGED <<status, recap, click, served>>
  BY DEF StepThrows, RunAt
<1> QED
  BY <1>3, <1>4, <1>5, RunMoves

LEMMA OnFailureKeeps ==
    ASSUME RecapInv, NEW r \in Run, OnFailure(r)
    PROVE  RecapInv'
<1>1. RecapTypeOK'
  BY FailType DEF RecapInv, RecapTypeOK, OnFailure, RunStage, Status, FailedStatus
<1>2. /\ \A q \in Run \ {r} : recapRun'[q] = recapRun[q]
      /\ recapRun'[r].stage = "failed" /\ recapRun[r].stage = "exhausted"
      /\ status' \in {status, "failed"}
      /\ UNCHANGED <<recap, click, served>>
  BY DEF RecapInv, RecapTypeOK, OnFailure, RunAt, FailedStatus
<1> QED
  BY <1>1, <1>2, RunMoves
-----------------------------------------------------------------------------
(***************************************************************************)
(* The steps of a click.                                                   *)
(***************************************************************************)
\* The stages of a click that has not set 'generating'.
Unflipped == {"none", "read", "refused"}

\* A step of click c that starts no run and stores nothing. It may have flipped
\* the status, or put 'done' back, which is a rollback.
LEMMA ClickMoves ==
    ASSUME RecapInv, RecapTypeOK', NEW c \in Click,
           UNCHANGED <<recap, recapRun, served>>,
           \A d \in Click \ {c} : click'[d] = click[d],
           click[c].stage # "restored",
           click'[c].prior = "done" => status = "done" \/ click[c].prior = "done",
           click[c].stage \notin Unflipped => click'[c].stage \notin Unflipped,
           click[c].stage \in Unflipped /\ click'[c].stage \notin Unflipped
             => status' # "done",
           status' # "done" \/ status' = status
             \/ (click'[c].stage = "restored" /\ click[c].prior = "done")
    PROVE  RecapInv'
<1>1. DoneHasRecap' /\ PriorsHaveRecap'
  BY DEF RecapInv, DoneHasRecap, PriorsHaveRecap
<1>2. /\ \A d \in Click \ {c} : Flipped(d)' = Flipped(d)
      /\ Flipped(c) => Flipped(c)'
      /\ Flipped(c)' /\ ~Flipped(c) => status' # "done"
  BY DEF Flipped, Unflipped
<1>3. SomeRestored => SomeRestored'
  BY DEF SomeRestored
<1>4. click'[c].stage = "restored" => SomeRestored'
  BY DEF SomeRestored
<1>5. RunsAreFlipped'
  BY <1>2 DEF RecapInv, RunsAreFlipped, RunAt
<1>6. DoneSinceFlip'
  BY <1>2, <1>3, <1>4 DEF RecapInv, DoneSinceFlip
<1>7. SkippedAreServed'
  BY <1>3 DEF RecapInv, SkippedAreServed, SomeRestored, RunAt
<1> QED
  BY <1>1, <1>5, <1>6, <1>7 DEF RecapInv

LEMMA ReadKeeps ==
    ASSUME RecapInv, NEW c \in Click, Read(c)
    PROVE  RecapInv'
<1>1. RecapTypeOK'
  BY DEF RecapInv, RecapTypeOK, Read, ClickStage
<1>2. /\ \A d \in Click \ {c} : click'[d] = click[d]
      /\ click'[c] = [stage |-> "read", prior |-> status]
      /\ click[c].stage = "none"
      /\ UNCHANGED <<status, recap, recapRun, served>>
  BY DEF RecapInv, RecapTypeOK, Read
<1> QED
  BY <1>1, <1>2, ClickMoves DEF Unflipped

LEMMA FlipKeeps ==
    ASSUME RecapInv, NEW c \in Click, Flip(c)
    PROVE  RecapInv'
<1>1. RecapTypeOK'
  BY FailType DEF RecapInv, RecapTypeOK, Flip, Clicked, ClickStage, Status
<1>2. /\ \A d \in Click \ {c} : click'[d] = click[d]
      /\ click'[c].prior = click[c].prior
      /\ click[c].stage = "read"
      /\ \/ click'[c].stage = "flipped" /\ status' = "generating"
         \/ click'[c].stage = "refused" /\ status' = status
      /\ UNCHANGED <<recap, recapRun, served>>
  BY DEF RecapInv, RecapTypeOK, Flip, Clicked
<1> QED
  BY <1>1, <1>2, ClickMoves DEF Unflipped

LEMMA RestoreKeeps ==
    ASSUME RecapInv, NEW c \in Click, Restore(c) \/ ClickDies(c)
    PROVE  RecapInv'
<1>1. RecapTypeOK'
  <2>1. click' \in [Click -> [stage : ClickStage, prior : Status]]
    BY DEF RecapInv, RecapTypeOK, Restore, ClickDies, Clicked, ClickStage
  <2>2. status' \in Status /\ failures' \in 0..MaxFailures /\ lost' \in BOOLEAN
    BY FailType DEF RecapInv, RecapTypeOK, Restore, ClickDies, Restored
  <2> QED
    BY <2>1, <2>2 DEF RecapInv, RecapTypeOK, Restore, ClickDies
<1>2. /\ \A d \in Click \ {c} : click'[d] = click[d]
      /\ click'[c].prior = click[c].prior
      /\ click[c].stage \in {"flipped", "restoring"}
      /\ click'[c].stage \in {"restored", "died"}
      /\ \/ status' = status
         \/ click'[c].stage = "restored" /\ status' = click[c].prior
      /\ UNCHANGED <<recap, recapRun, served>>
  <2>1. CASE Restore(c)
    BY <2>1 DEF RecapInv, RecapTypeOK, Restore, Clicked, Restored
  <2>2. CASE ClickDies(c)
    BY <2>2 DEF RecapInv, RecapTypeOK, ClickDies, Clicked
  <2> QED
    BY <2>1, <2>2
<1> QED
  BY <1>1, <1>2, ClickMoves DEF Unflipped

\* The emit starts the run of the click, which has flipped the status before.
LEMMA SendKeeps ==
    ASSUME RecapInv, NEW c \in Click, Send(c) \/ SendFails(c)
    PROVE  RecapInv'
<1>1. /\ \A d \in Click \ {c} : click'[d] = click[d]
      /\ click'[c].prior = click[c].prior
      /\ click[c].stage = "flipped" /\ click'[c].stage \in {"over", "restoring"}
      /\ \A r \in Run \ {c} : recapRun'[r] = recapRun[r]
      /\ recapRun'[c] = recapRun[c] \/ recapRun'[c].stage = "queued"
      /\ UNCHANGED <<status, recap, served>>
  BY DEF RecapInv, RecapTypeOK, Send, SendFails, Clicked, Goes, Run
<1>2. RecapTypeOK'
  <2>1. click' \in [Click -> [stage : ClickStage, prior : Status]]
    BY DEF RecapInv, RecapTypeOK, Send, SendFails, Clicked, ClickStage
  <2>2. recapRun' \in [Run -> [stage : RunStage, tries : 0..MaxRetries]]
    BY RecapAssumption DEF RecapInv, RecapTypeOK, Send, SendFails, Goes, RunStage
  <2>3. failures' \in 0..MaxFailures
    BY FailType DEF RecapInv, RecapTypeOK, Send, SendFails
  <2> QED
    BY <2>1, <2>2, <2>3 DEF RecapInv, RecapTypeOK, Send, SendFails
<1>3. DoneHasRecap' /\ PriorsHaveRecap'
  BY <1>1 DEF RecapInv, DoneHasRecap, PriorsHaveRecap
<1>4. Flipped(c) /\ \A d \in Click : Flipped(d)' = Flipped(d)
  BY <1>1 DEF Flipped
<1>5. SomeRestored' = SomeRestored
  BY <1>1 DEF SomeRestored
<1>6. RunsAreFlipped'
  BY <1>1, <1>4 DEF RecapInv, RunsAreFlipped, RunAt, Run
<1>7. DoneSinceFlip'
  BY <1>1, <1>4, <1>5 DEF RecapInv, DoneSinceFlip
<1>8. SkippedAreServed'
  BY <1>1, <1>5 DEF RecapInv, SkippedAreServed, SomeRestored, RunAt, Run
<1> QED
  BY <1>2, <1>3, <1>6, <1>7, <1>8 DEF RecapInv

-----------------------------------------------------------------------------
LEMMA RecapStepKeeps ==
    ASSUME RecapInv, [RecapNext]_recapVars
    PROVE  RecapInv'
<1>1. CASE RecapNext
  <2>1. ASSUME NEW r \in Run, RecapRequested(r) \/ RecapStep(r) \/ StepThrows(r)
        PROVE  RecapInv'
    BY <2>1, RequestKeeps, CheckKeeps, GenerateKeeps, PersistKeeps, OnFailureKeeps,
       StepThrowsKeeps DEF RecapStep
  <2>2. ASSUME NEW c \in Click, Read(c) \/ ClickStep(c) \/ SendFails(c) \/ ClickDies(c)
        PROVE  RecapInv'
    BY <2>2, ReadKeeps, FlipKeeps, RestoreKeeps, SendKeeps DEF ClickStep
  <2> QED
    BY <1>1, <2>1, <2>2 DEF RecapNext
<1>2. CASE UNCHANGED recapVars
  BY <1>2 DEF recapVars, RecapInv, RecapTypeOK, DoneHasRecap, PriorsHaveRecap, RunsAreFlipped,
     DoneSinceFlip, SkippedAreServed, SomeRestored, Flipped, RunAt
<1> QED
  BY <1>1, <1>2

\* The invariant the theorems below follow from holds in every reachable state.
THEOREM RecapInductive == RecapSpec => []RecapInv
<1>1. RecapInit => RecapInv
  BY RecapInitHolds
<1>2. RecapInv /\ [RecapNext]_recapVars => RecapInv'
  BY RecapStepKeeps
<1> QED
  BY <1>1, <1>2, PTL DEF RecapSpec

\* The types, and the bound on the retries of a step.
THEOREM RecapTypeCorrect == RecapSpec => []RecapTypeOK
<1>1. RecapInv => RecapTypeOK
  BY DEF RecapInv
<1> QED
  BY <1>1, RecapInductive, PTL

\* A status of 'done' always has a stored recap behind it, rollbacks included
\* (generate-recap.ts, the regenerate action).
THEOREM DoneIsBacked == RecapSpec => []DoneHasRecap
<1>1. RecapInv => DoneHasRecap
  BY DEF RecapInv
<1> QED
  BY <1>1, RecapInductive, PTL

\* A regeneration skipped as a duplicate was served after it was asked for, or a
\* rollback has put an older status back (check-already-done).
THEOREM NoRegenerationSkippedUnserved == RecapSpec => []SkippedAreServed
<1>1. RecapInv => SkippedAreServed
  BY DEF RecapInv
<1> QED
  BY <1>1, RecapInductive, PTL
=============================================================================
