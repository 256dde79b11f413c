---------------------------- MODULE CorpusProofs ----------------------------
(***************************************************************************)
(* A removed source keeps its tombstone, whoever is in the middle of what; *)
(* however many admins act at once, a source is removed exactly when no    *)
(* team selects it and the purge spares what a team selects, unless one of *)
(* them wrote by an outdated reading; no status is left waiting for        *)
(* nothing. An undisturbed run leaves the corpus as it should be. All for  *)
(* any number of teams, documents, admins, runs, retries and failures.     *)
(***************************************************************************)
EXTENDS Corpus, FiniteSetTheorems, TLAPS

Row == [status : Status, removed : {"no", "recent", "past grace"}, indexed : BOOLEAN]
Gone == {"removed", "purged"}

\* The foreign key takes the selections of a purged source with it.
PurgedIsEmpty == source.status = "purged" => Selecting = {} /\ ~source.indexed

\* An add comes to its revive only if the row it read needed it.
RevivesNeeded == \A a \in Admin : OpAt(a, "revive") => op[a].needed

\* An add that was not to revive the source read it indexed, and not removed for long.
Overdue(row) == row.removed = "past grace" \/ ~row.indexed
AddsNeeded ==
    Overdue(source) =>
        \A a \in Admin : op[a].stage \in {"add", "added"} => op[a].needed

\* The action that will mark the source removed, or select it; and the one that will
\* revive it.
Settling(a) == op[a].stage \in {"add", "dropped", "last"}
Reviving(a) == op[a].stage \in {"added", "revive"} /\ op[a].needed

\* Between the writes of an action, selection and status are apart: the action in
\* flight is still to bring them together.
Unmarked == ~outdated /\ Selecting = {} /\ source.status \notin Gone
Unrevived == ~outdated /\ Selecting # {} /\ source.status = "removed"
EmptyIsSettled == Unmarked => \E a \in Admin : Settling(a)
RemovedIsRevived == Unrevived => \E a \in Admin : Reviving(a)

IInv ==
    /\ source \in Row /\ op \in [Admin -> Action] /\ outdated \in BOOLEAN
    /\ TombstoneStands /\ PurgedIsEmpty
    /\ RevivesNeeded /\ AddsNeeded
    /\ EmptyIsSettled /\ RemovedIsRevived

-----------------------------------------------------------------------------
LEMMA InitHolds == Init => IInv
<1> SUFFICES ASSUME Init PROVE IInv
  OBVIOUS
<1>1. source \in Row /\ source.status = "pending" /\ source.removed = "no"
  BY DEF Init, FreshRow, Row, Status
<1>2. op \in [Admin -> Action] /\ \A a \in Admin : op[a].stage = "none"
  BY DEF Init, NoOp, Action
<1>3. Selecting # {} /\ outdated = FALSE
  BY DEF Init, Selecting
<1> QED
  BY <1>1, <1>2, <1>3 DEF IInv, TombstoneStands, PurgedIsEmpty, RevivesNeeded, OpAt,
     AddsNeeded, EmptyIsSettled, RemovedIsRevived, Unmarked, Unrevived

\* Steps that set no more than a live source's status: the runs', and some of the
\* admins'.
LEMMA LiveStatus ==
    ASSUME IInv, NEW status \in Status \ Gone, SetStatus(status)
    PROVE  /\ source' \in Row
           /\ source'.removed = source.removed /\ source'.indexed = source.indexed
           /\ source'.status \in Gone <=> source.status \in Gone
           /\ source'.status = "purged" <=> source.status = "purged"
           /\ source'.status = "removed" <=> source.status = "removed"
BY DEF IInv, SetStatus, Row, Status, Gone

\* A step that leaves the selection and the admins alone, and neither removes nor
\* revives the source.
LEMMA Elsewhere ==
    ASSUME IInv, UNCHANGED <<views, op, outdated>>, source' \in Row,
           source'.removed = "no" <=> source.removed = "no",
           source'.status = "purged" <=> source.status = "purged",
           source'.status = "removed" <=> source.status = "removed",
           source.status = "purged" => ~source'.indexed,
           AddsNeeded'
    PROVE  IInv'
<1>1. TombstoneStands' /\ PurgedIsEmpty' /\ RevivesNeeded'
  BY DEF IInv, TombstoneStands, PurgedIsEmpty, Selecting, RevivesNeeded, OpAt
<1>2. (Unmarked' => Unmarked) /\ (Unrevived' => Unrevived)
  BY DEF Unmarked, Unrevived, Gone, Selecting
<1>3. \A a \in Admin : (Settling(a) => Settling(a)') /\ (Reviving(a) => Reviving(a)')
  BY DEF Settling, Reviving
<1> QED
  BY <1>1, <1>2, <1>3 DEF IInv, EmptyIsSettled, RemovedIsRevived

LEMMA StatusStep ==
    ASSUME IInv, UNCHANGED <<views, op, outdated>>,
           NEW status \in Status \ Gone, SetStatus(status)
    PROVE  IInv'
<1>1. AddsNeeded'
  BY LiveStatus DEF IInv, AddsNeeded, Overdue
<1>2. source.status = "purged" => ~source'.indexed
  BY LiveStatus DEF IInv, PurgedIsEmpty
<1> QED
  BY <1>1, <1>2, LiveStatus, Elsewhere

LEMMA FinalizedStep ==
    ASSUME IInv, UNCHANGED <<views, op, outdated>>, source' = Finalized
    PROVE  IInv'
<1>1. /\ source' \in Row
      /\ source'.removed = source.removed
      /\ source'.status = "purged" <=> source.status = "purged"
      /\ source'.status = "removed" <=> source.status = "removed"
      /\ source.status = "purged" => source' = source
      /\ source.indexed => source'.indexed
  BY DEF IInv, Finalized, Row, Status
<1>2. AddsNeeded'
  BY <1>1 DEF IInv, AddsNeeded, Overdue
<1> QED
  BY <1>1, <1>2, Elsewhere DEF IInv, PurgedIsEmpty

LEMMA SameStep ==
    ASSUME IInv, UNCHANGED <<source, views, op, outdated>>
    PROVE  IInv'
<1>1. source' \in Row /\ AddsNeeded'
  BY DEF IInv, AddsNeeded
<1> QED
  BY <1>1, Elsewhere DEF IInv, PurgedIsEmpty

LEMMA RunStep ==
    ASSUME IInv, NEW s \in Slot, Step(s) \/ \E m \in Mode : Start(s, m)
    PROVE  IInv'
<1>1. CASE UNCHANGED <<source, views, op, outdated>>
  BY <1>1, SameStep
<1>2. CASE Load(s)
  BY <1>2, StatusStep DEF Load, Status, Gone
<1>3. CASE AuthFails(s)
  BY <1>3, StatusStep DEF AuthFails, Errored, Status, Gone
<1>4. CASE Throws(s)
  <2>1. CASE UNCHANGED source
    BY <1>4, <1>1, <2>1 DEF Throws
  <2>2. CASE Errored
    BY <1>4, <2>2, StatusStep DEF Throws, Errored, Status, Gone
  <2> QED
    BY <1>4, <2>1, <2>2 DEF Throws
<1>5. CASE Finalize(s)
  BY <1>5, FinalizedStep DEF Finalize
<1> QED
  BY <1>1, <1>2, <1>3, <1>4, <1>5
  DEF Step, Start, Fetch, Prepare, Reconcile, Embed, Write, SkipNew, Embedded

-----------------------------------------------------------------------------
(***************************************************************************)
(* The admins' steps. Each says what its action has still to do, and that  *)
(* another's work is not undone, or that it wrote by an outdated reading.  *)
(***************************************************************************)
LEMMA Moves ==
    ASSUME IInv, NEW a \in Admin, NEW entry \in Action, op' = [op EXCEPT ![a] = entry],
           source' \in Row, outdated' \in BOOLEAN, TombstoneStands', PurgedIsEmpty',
           entry.stage = "revive" => entry.needed,
           Overdue(source') => Overdue(source),
           Overdue(source') /\ entry.stage \in {"add", "added"} => entry.needed,
           Unmarked' => \/ entry.stage \in {"add", "dropped", "last"}
                        \/ Unmarked /\ ~Settling(a),
           Unrevived' => \/ entry.stage \in {"added", "revive"} /\ entry.needed
                         \/ Unrevived /\ ~Reviving(a)
    PROVE  IInv'
<1>1. op' \in [Admin -> Action] /\ op'[a] = entry /\ \A b \in Admin \ {a} : op'[b] = op[b]
  BY DEF IInv
<1>2. RevivesNeeded'
  BY <1>1 DEF IInv, RevivesNeeded, OpAt
<1>3. AddsNeeded'
  <2> SUFFICES ASSUME Overdue(source'), NEW b \in Admin, op'[b].stage \in {"add", "added"}
               PROVE  op'[b].needed
    BY DEF AddsNeeded, Overdue
  <2>1. CASE b = a
    BY <1>1, <2>1
  <2>2. CASE b # a
    BY <1>1, <2>2 DEF IInv, AddsNeeded
  <2> QED
    BY <2>1, <2>2
<1>4. \A b \in Admin \ {a} : (Settling(b) => Settling(b)') /\ (Reviving(b) => Reviving(b)')
  BY <1>1 DEF Settling, Reviving
<1>5. EmptyIsSettled'
  <2> SUFFICES ASSUME Unmarked' PROVE \E b \in Admin : Settling(b)'
    BY DEF EmptyIsSettled
  <2>1. CASE entry.stage \in {"add", "dropped", "last"}
    BY <1>1, <2>1 DEF Settling
  <2>2. CASE Unmarked /\ ~Settling(a)
    BY <1>4, <2>2 DEF IInv, EmptyIsSettled
  <2> QED
    BY <2>1, <2>2
<1>6. RemovedIsRevived'
  <2> SUFFICES ASSUME Unrevived' PROVE \E b \in Admin : Reviving(b)'
    BY DEF RemovedIsRevived
  <2>1. CASE entry.stage \in {"added", "revive"} /\ entry.needed
    BY <1>1, <2>1 DEF Reviving
  <2>2. CASE Unrevived /\ ~Reviving(a)
    BY <1>4, <2>2 DEF IInv, RemovedIsRevived
  <2> QED
    BY <2>1, <2>2
<1> QED
  BY <1>1, <1>2, <1>3, <1>5, <1>6 DEF IInv

\* A step of an admin that touches neither the row nor who selects it.
LEMMA MovesOnly ==
    ASSUME IInv, NEW a \in Admin, NEW entry \in Action, op' = [op EXCEPT ![a] = entry],
           UNCHANGED <<source, outdated>>, Selecting' = Selecting,
           entry.stage = "revive" => entry.needed,
           Overdue(source) /\ entry.stage \in {"add", "added"} => entry.needed,
           Unmarked => entry.stage \in {"add", "dropped", "last"} \/ ~Settling(a),
           Unrevived =>
              (entry.stage \in {"added", "revive"} /\ entry.needed) \/ ~Reviving(a)
    PROVE  IInv'
<1>1. source' \in Row /\ outdated' \in BOOLEAN /\ TombstoneStands' /\ PurgedIsEmpty'
  BY DEF IInv, TombstoneStands, PurgedIsEmpty
<1>2. (Unmarked' <=> Unmarked) /\ (Unrevived' <=> Unrevived)
  BY DEF Unmarked, Unrevived
<1> QED
  BY <1>1, <1>2, Moves

LEMMA Selected ==
    ASSUME NEW t, NEW v
    PROVE  DOMAIN With(views, t, v) = DOMAIN views \cup {t}
BY DEF With

LEMMA BeginStep ==
    ASSUME IInv, NEW a \in Admin, Begin(a)
    PROVE  IInv'
<1>0. op[a].stage = "none" /\ ~Settling(a) /\ ~Reviving(a)
  BY DEF Begin, AddRead, RemoveDelete, ReindexRead, ViewRead, Begins, OpAt, Settling,
     Reviving
<1>1. ASSUME NEW t \in Team, AddRead(a, t) PROVE IInv'
  <2> DEFINE entry == [stage |-> "add", team |-> t, needed |-> NeedsRevive(source')]
  <2>1. source' = (IF Exists THEN source ELSE FreshRow) /\ UNCHANGED <<views, outdated>>
        /\ op' = [op EXCEPT ![a] = entry] /\ Selecting' = Selecting
    BY <1>1 DEF AddRead, Begins, Selecting
  <2>2. source' \in Row /\ TombstoneStands' /\ PurgedIsEmpty' /\ outdated' \in BOOLEAN
    BY <2>1 DEF IInv, Exists, FreshRow, Row, Status, TombstoneStands, PurgedIsEmpty
  <2>3. entry \in Action
    BY <2>2 DEF Action, NeedsRevive, Row
  <2>4. Overdue(source') => Overdue(source)
    BY <2>1 DEF IInv, PurgedIsEmpty, Exists, Overdue
  <2>5. entry.stage = "add" /\ (Overdue(source') => entry.needed)
    BY DEF NeedsRevive, Overdue
  <2>6. Unrevived' => Unrevived
    BY <2>1 DEF Unrevived, FreshRow
  <2> HIDE DEF entry
  <2> QED
    BY <1>0, <2>1, <2>2, <2>3, <2>4, <2>5, <2>6, Moves
<1>2. ASSUME NEW t \in Team, RemoveDelete(a, t) PROVE IInv'
  <2> DEFINE entry == [stage |-> "dropped"]
  <2>1. UNCHANGED <<source, outdated>> /\ op' = [op EXCEPT ![a] = entry]
        /\ Selecting # {} /\ Exists
    BY <1>2 DEF RemoveDelete, Begins, Selecting
  <2>2. entry \in Action /\ entry.stage = "dropped"
    BY DEF Action
  <2>3. source' \in Row /\ TombstoneStands' /\ PurgedIsEmpty' /\ outdated' \in BOOLEAN
    BY <2>1 DEF IInv, TombstoneStands, PurgedIsEmpty, Exists
  <2>4. Unrevived' => Unrevived
    BY <2>1 DEF Unrevived
  <2> HIDE DEF entry
  <2> QED
    BY <1>0, <2>1, <2>2, <2>3, <2>4, Moves
<1>3. ASSUME NEW m \in Mode, ReindexRead(a, m) PROVE IInv'
  <2> DEFINE entry == [stage |-> "mark", mode |-> m]
  <2>1. UNCHANGED <<source, outdated>> /\ op' = [op EXCEPT ![a] = entry]
        /\ Selecting' = Selecting
    BY <1>3 DEF ReindexRead, Begins, Selecting
  <2>2. entry \in Action /\ entry.stage = "mark"
    BY DEF Action
  <2> HIDE DEF entry
  <2> QED
    BY <1>0, <2>1, <2>2, MovesOnly
<1>4. ASSUME NEW t \in Team, NEW admitted \in SUBSET Doc, ViewRead(a, t, admitted)
      PROVE IInv'
  <2> DEFINE entry == [stage |-> "view", team |-> t, admitted |-> admitted]
  <2>1. UNCHANGED <<source, outdated>> /\ op' = [op EXCEPT ![a] = entry]
        /\ Selecting' = Selecting
    BY <1>4 DEF ViewRead, Selecting
  <2>2. entry \in Action /\ entry.stage = "view"
    BY DEF Action
  <2> HIDE DEF entry
  <2> QED
    BY <1>0, <2>1, <2>2, MovesOnly
<1> QED
  BY <1>1, <1>2, <1>3, <1>4 DEF Begin

LEMMA ContinueStep ==
    ASSUME IInv, NEW a \in Admin, Continue(a)
    PROVE  IInv'
<1> DEFINE goes(stage) == [op[a] EXCEPT !.stage = stage]
<1>0. op[a] \in Action /\ NoOp \in Action /\ NoOp.stage = "none"
  BY DEF IInv, NoOp, Action
<1>1. CASE AddInsert(a)
  <2>1. op[a].stage = "add" /\ op' = [op EXCEPT ![a] = goes("added")] /\ source' = source
        /\ outdated' = (outdated \/ (~op[a].needed /\ NeedsRevive(source)))
    BY <1>1 DEF AddInsert, OpAt, OpGoes
  <2>2. goes("added") \in Action /\ goes("added").stage = "added"
        /\ goes("added").needed = op[a].needed
    BY <1>0, <2>1 DEF Action
  <2>3. Exists => Selecting' # {}
    <3>1. CASE Exists /\ op[a].team \notin Selecting
      <4>1. DOMAIN views' = DOMAIN views \cup {op[a].team}
        BY <1>1, <3>1, Selected DEF AddInsert
      <4> QED
        BY <4>1 DEF Selecting
    <3>2. CASE op[a].team \in Selecting
      BY <1>1, <3>2 DEF AddInsert, Selecting
    <3> QED
      BY <3>1, <3>2
  <2>4. ~Exists => Selecting' = {}
    BY <1>1 DEF AddInsert, Selecting, IInv, PurgedIsEmpty, Exists
  <2>5. source' \in Row /\ TombstoneStands' /\ PurgedIsEmpty' /\ outdated' \in BOOLEAN
    BY <2>1, <2>4 DEF IInv, TombstoneStands, PurgedIsEmpty, Exists
  <2>6. ~Unmarked'
    BY <2>1, <2>3 DEF Unmarked, Gone, Exists
  <2>7. op[a].needed \in BOOLEAN /\ (Overdue(source) => op[a].needed)
    BY <1>0, <2>1 DEF Action, IInv, AddsNeeded
  <2>8. Unrevived' => op[a].needed
    BY <2>1, <2>7 DEF Unrevived, NeedsRevive
  <2> QED
    BY <2>1, <2>2, <2>5, <2>6, <2>7, <2>8, Moves
<1>2. CASE AddCount(a)
  <2>1. UNCHANGED <<source, views, outdated>> /\ op[a].stage = "added"
        /\ Selecting' = Selecting
    BY <1>2 DEF AddCount, OpAt, Selecting
  <2>2. ~Settling(a)
    BY <2>1 DEF Settling
  <2>3. CASE Selecting # {} /\ op[a].needed
    <3>1. op' = [op EXCEPT ![a] = goes("revive")]
      BY <1>2, <2>3 DEF AddCount, OpGoes
    <3>2. goes("revive") \in Action /\ goes("revive").stage = "revive"
          /\ goes("revive").needed = op[a].needed
      BY <1>0, <2>1 DEF Action
    <3> QED
      BY <2>1, <2>2, <2>3, <3>1, <3>2, MovesOnly
  <2>4. CASE ~(Selecting # {} /\ op[a].needed)
    <3>1. op' = [op EXCEPT ![a] = NoOp]
      BY <1>2, <2>4 DEF AddCount, OpEnds
    <3>2. Unrevived => ~Reviving(a)
      BY <2>4 DEF Unrevived, Reviving
    <3> QED
      BY <1>0, <2>1, <2>2, <3>1, <3>2, MovesOnly
  <2> QED
    BY <2>3, <2>4
<1>3. CASE AddRevive(a)
  <2> DEFINE entry == [stage |-> "emit", mode |-> "full"]
  <2>1. entry \in Action /\ entry.stage = "emit" /\ op' = [op EXCEPT ![a] = entry]
        /\ op[a].stage = "revive"
    BY <1>3 DEF AddRevive, Action, Mode, OpAt
  <2>2. /\ source' \in Row /\ TombstoneStands'
        /\ Exists => source'.status = "pending" /\ source'.removed = "no"
        /\ ~Exists => source' = source
        /\ source'.indexed = source.indexed
        /\ Selecting' = Selecting
        /\ outdated' = (outdated \/ Selecting = {})
    BY <1>3 DEF AddRevive, IInv, Row, Status, TombstoneStands, Revived, Exists, Selecting
  <2>3. PurgedIsEmpty' /\ outdated' \in BOOLEAN
    BY <2>2 DEF IInv, PurgedIsEmpty, Exists
  <2>4. Overdue(source') => Overdue(source)
    BY <2>2 DEF Overdue
  <2>5. ~Unmarked' /\ ~Unrevived'
    BY <2>2 DEF Unmarked, Unrevived, Exists
  <2> HIDE DEF entry
  <2> QED
    BY <2>1, <2>2, <2>3, <2>4, <2>5, Moves
<1>4. CASE RemoveCount(a)
  <2>1. UNCHANGED <<source, views, outdated>> /\ op[a].stage = "dropped"
        /\ Selecting' = Selecting
    BY <1>4 DEF RemoveCount, OpAt, Selecting
  <2>2. ~Reviving(a)
    BY <2>1 DEF Reviving
  <2>3. CASE Selecting = {}
    <3>1. op' = [op EXCEPT ![a] = goes("last")]
      BY <1>4, <2>3 DEF RemoveCount, OpGoes
    <3>2. goes("last") \in Action /\ goes("last").stage = "last"
      BY <1>0, <2>1 DEF Action
    <3> QED
      BY <2>1, <2>2, <3>1, <3>2, MovesOnly
  <2>4. CASE Selecting # {}
    <3>1. op' = [op EXCEPT ![a] = NoOp]
      BY <1>4, <2>4 DEF RemoveCount, OpEnds
    <3>2. ~Unmarked
      BY <2>4 DEF Unmarked
    <3> QED
      BY <1>0, <2>1, <2>2, <3>1, <3>2, MovesOnly
  <2> QED
    BY <2>3, <2>4
<1>5. CASE RemoveMark(a)
  <2>1. /\ source' \in Row /\ TombstoneStands'
        /\ Exists => source'.status = "removed" /\ source'.removed = "recent"
        /\ ~Exists => source' = source
        /\ source'.indexed = source.indexed
        /\ Selecting' = Selecting
        /\ outdated' = (outdated \/ Selecting # {})
        /\ op' = [op EXCEPT ![a] = NoOp]
    BY <1>5 DEF RemoveMark, IInv, Row, Status, TombstoneStands, Exists, Selecting, OpEnds
  <2>2. PurgedIsEmpty' /\ outdated' \in BOOLEAN
    BY <2>1 DEF IInv, PurgedIsEmpty, Exists
  <2>3. Overdue(source') => Overdue(source)
    BY <2>1 DEF Overdue
  <2>4. ~Unmarked' /\ ~Unrevived'
    BY <2>1 DEF Unmarked, Unrevived, Exists, Gone
  <2> QED
    BY <1>0, <2>1, <2>2, <2>3, <2>4, Moves
<1>6. CASE ReindexMark(a)
  <2>1. op[a].stage = "mark" /\ op' = [op EXCEPT ![a] = goes("emit")]
        /\ Selecting' = Selecting /\ outdated' = outdated
    BY <1>6 DEF ReindexMark, OpAt, OpGoes, Selecting
  <2>2. goes("emit") \in Action /\ goes("emit").stage = "emit"
    BY <1>0, <2>1 DEF Action
  <2>3. /\ source' \in Row
        /\ source'.removed = source.removed /\ source'.indexed = source.indexed
        /\ source'.status \in Gone <=> source.status \in Gone
        /\ source'.status = "purged" <=> source.status = "purged"
        /\ source'.status = "removed" <=> source.status = "removed"
    BY <1>6, LiveStatus DEF ReindexMark, Status, Gone
  <2>4. TombstoneStands' /\ PurgedIsEmpty' /\ outdated' \in BOOLEAN
        /\ (Overdue(source') => Overdue(source))
    BY <2>1, <2>3 DEF IInv, TombstoneStands, PurgedIsEmpty, Overdue
  <2>5. (Unmarked' => Unmarked) /\ (Unrevived' => Unrevived)
    BY <2>1, <2>3 DEF Unmarked, Unrevived
  <2>6. ~Settling(a) /\ ~Reviving(a)
    BY <2>1 DEF Settling, Reviving
  <2> QED
    BY <2>1, <2>2, <2>3, <2>4, <2>5, <2>6, Moves
<1>7. CASE ViewWrite(a)
  <2> DEFINE entry == [stage |-> "emit", mode |-> "full"]
  <2>1. /\ entry \in Action /\ entry.stage = "emit" /\ op' = [op EXCEPT ![a] = entry]
        /\ op[a].stage = "view" /\ UNCHANGED <<source, outdated>>
    BY <1>7 DEF ViewWrite, Action, Mode, OpAt
  <2>2. Selecting' = Selecting
    <3>1. CASE op[a].team \in Selecting
      <4>1. DOMAIN views' = DOMAIN views \cup {op[a].team}
        BY <1>7, <3>1, Selected DEF ViewWrite
      <4> QED
        BY <3>1, <4>1 DEF Selecting
    <3>2. CASE op[a].team \notin Selecting
      BY <1>7, <3>2 DEF ViewWrite, Selecting
    <3> QED
      BY <3>1, <3>2
  <2>3. ~Settling(a) /\ ~Reviving(a)
    BY <2>1 DEF Settling, Reviving
  <2> HIDE DEF entry
  <2> QED
    BY <2>1, <2>2, <2>3, MovesOnly
<1>8. CASE Emit(a)
  <2>1. UNCHANGED <<source, views, outdated>> /\ op[a].stage = "emit"
        /\ op' = [op EXCEPT ![a] = NoOp] /\ Selecting' = Selecting
    BY <1>8 DEF Emit, OpAt, OpEnds, Selecting
  <2>2. ~Settling(a) /\ ~Reviving(a)
    BY <2>1 DEF Settling, Reviving
  <2> QED
    BY <1>0, <2>1, <2>2, MovesOnly
<1> QED
  BY <1>1, <1>2, <1>3, <1>4, <1>5, <1>6, <1>7, <1>8 DEF Continue

LEMMA PurgeStep == IInv /\ PurgeRemovedSources => IInv'
<1> SUFFICES ASSUME IInv, PurgeRemovedSources PROVE IInv'
  OBVIOUS
<1>1. source.status = "removed" /\ source.removed = "past grace"
      /\ UNCHANGED <<op, outdated>>
  BY DEF PurgeRemovedSources, Purgeable
<1>2. source' = [status |-> "purged", removed |-> "no", indexed |-> FALSE]
  BY DEF PurgeRemovedSources
<1>3. Selecting' = {}
  BY DEF PurgeRemovedSources, Selecting
<1>4. source' \in Row /\ TombstoneStands' /\ source'.status = "purged" /\ PurgedIsEmpty'
  BY <1>2, <1>3 DEF Row, Status, TombstoneStands, PurgedIsEmpty
<1>5. RevivesNeeded' /\ AddsNeeded'
  BY <1>1 DEF IInv, RevivesNeeded, AddsNeeded, OpAt, Overdue
<1>6. EmptyIsSettled' /\ RemovedIsRevived'
  BY <1>3, <1>4 DEF EmptyIsSettled, RemovedIsRevived, Unmarked, Unrevived, Gone
<1> QED
  BY <1>1, <1>4, <1>5, <1>6 DEF IInv

LEMMA NextHolds == IInv /\ [Next]_vars => IInv'
<1> SUFFICES ASSUME IInv, [Next]_vars PROVE IInv'
  OBVIOUS
<1>2. ASSUME NEW a \in Admin, Begin(a) \/ Continue(a) PROVE IInv'
  BY <1>2, BeginStep, ContinueStep
<1>3. ASSUME NEW s \in Slot, Step(s) \/ \E m \in Mode : Start(s, m) PROVE IInv'
  BY <1>3, RunStep
<1>4. ASSUME NEW gone \in SUBSET Doc, NEW edited \in SUBSET Doc, ProviderChanges(gone, edited)
      PROVE IInv'
  BY <1>4, SameStep DEF ProviderChanges
<1>5. CASE GraceEnds
  <2>1. source' \in Row /\ source'.status = source.status /\ source'.indexed = source.indexed
        /\ source.removed # "no" /\ source'.removed # "no"
    BY <1>5 DEF GraceEnds, IInv, Row
  <2>2. AddsNeeded'
    BY <1>5 DEF GraceEnds, AddsNeeded
  <2> QED
    BY <1>5, <2>1, <2>2, Elsewhere DEF GraceEnds, IInv, PurgedIsEmpty
<1>6. CASE PurgeRemovedSources
  BY <1>6, PurgeStep
<1>7. CASE UNCHANGED vars
  BY <1>7, SameStep DEF vars
<1> QED
  BY <1>2, <1>3, <1>4, <1>5, <1>6, <1>7 DEF Next

LEMMA Inductive == Spec => []IInv
<1>1. Init => IInv
  BY InitHolds
<1>2. IInv /\ [Next]_vars => IInv'
  BY NextHolds
<1> QED
  BY <1>1, <1>2, PTL DEF Spec

-----------------------------------------------------------------------------
\* No run, reindex or failure, started before or after, takes the status or the
\* removed_at of a removed source away without the other: the purge finds it.
THEOREM TombstoneStandsAlways == Spec => []TombstoneStands
<1>1. IInv => TombstoneStands
  BY DEF IInv
<1> QED
  BY <1>1, Inductive, PTL

\* For any number of admins at once: a source is removed or purged exactly when no
\* team selects it, whatever runs and failures happen meanwhile, unless an admin
\* wrote by a reading that another had made untrue.
THEOREM SelectionDecidesAlways == Spec => []SelectionDecides
<1>1. ASSUME IInv, ~outdated, ~InFlight
      PROVE  Selecting = {} <=> source.status \in Gone
  <2>1. \A a \in Admin : ~Settling(a) /\ ~Reviving(a)
    BY <1>1 DEF InFlight, OpAt, Settling, Reviving
  <2> QED
    BY <1>1, <2>1 DEF IInv, EmptyIsSettled, RemovedIsRevived, Unmarked, Unrevived, Gone,
       PurgedIsEmpty
<1>2. IInv => SelectionDecides
  BY <1>1 DEF SelectionDecides, Gone
<1> QED
  BY <1>2, Inductive, PTL

\* For any number of admins at once: the daily purge never takes a source away from a
\* team, but from one that is only now being added, its source about to be revived,
\* unless an admin wrote by a reading that another had made untrue.
THEOREM PurgeSparesSelectedAlways == Spec => PurgeSparesSelected
<1> DEFINE Spares == PurgeRemovedSources /\ ~outdated =>
                       \A t \in Selecting : \E a \in Admin :
                           op[a].stage \in {"added", "revive"} /\ op[a].needed
<1>1. IInv => Spares
  BY DEF IInv, RemovedIsRevived, Unrevived, Reviving, PurgeRemovedSources, Purgeable
<1>2. IInv /\ [Next]_vars => [Spares]_vars
  BY <1>1
<1> QED
  BY <1>2, Inductive, PTL DEF Spec, PurgeSparesSelected

-----------------------------------------------------------------------------
(***************************************************************************)
(* No status is wedged.                                                    *)
(***************************************************************************)
Unsettled == source.status \in {"pending", "indexing"}

Underway == \E s \in Slot : ~At(s, "none")
Waiting == lost \/ (\E m \in Mode : events[m] > 0) \/ Underway

\* The action will have sent an event, or failed to, before it is over, or it is one of
\* those that leave a row nobody has indexed yet selected and revived, or removed.
Serving(a) ==
    \/ op[a].stage \in {"revive", "emit"}
    \/ /\ ~source.indexed
       /\ \/ op[a].stage = "add"
          \/ op[a].stage = "added" /\ Selecting # {}
          \/ op[a].stage \in {"dropped", "last"} /\ Selecting = {}

\* An action that has to send an event stays at it until it has, or leaves it to another.
Served == Unsettled => Waiting \/ \E a \in Admin : Serving(a)

RunsFormed == DOMAIN run = Slot /\ \A s \in Slot : "at" \in DOMAIN run[s]
EventsFormed == events \in [Mode -> Nat]
SInv == RunsFormed /\ EventsFormed /\ Served

LEMMA DisturbedRuns ==
    ASSUME RunsFormed, run' = Disturbed
    PROVE  RunsFormed' /\ \A s \in Slot : run'[s].at = run[s].at
<1>1. \A s \in Slot : run[s].at = "none" => run'[s].at = run[s].at /\ "at" \in DOMAIN run'[s]
  BY DEF Disturbed, NoRun
<1>2. \A s \in Slot : run[s].at # "none" => run'[s].at = run[s].at /\ "at" \in DOMAIN run'[s]
  BY DEF Disturbed, RunsFormed
<1>3. DOMAIN run' = Slot
  BY DEF Disturbed
<1> QED
  BY <1>1, <1>2, <1>3 DEF RunsFormed

LEMMA InitServed == Init => SInv
<1> SUFFICES ASSUME Init PROVE SInv
  OBVIOUS
<1>1. events \in [Mode -> Nat] /\ events["full"] > 0 /\ "full" \in Mode
  BY DEF Init, Mode
<1>2. RunsFormed
  BY DEF Init, RunsFormed, NoRun
<1> QED
  BY <1>1, <1>2 DEF SInv, Served, Waiting, EventsFormed

\* A step that keeps the runs under way, the events and what is lost.
LEMMA StillWaiting ==
    ASSUME Waiting, UNCHANGED <<lost, events>>, \A s \in Slot : run'[s].at = run[s].at
    PROVE  Waiting'
BY DEF Waiting, Underway, At

\* Where nothing waits for the source, some action serves it.
LEMMA SomeoneServes ==
    ASSUME Served, Unsettled, ~Waiting
    PROVE  \E b \in Admin : Serving(b)
BY DEF Served

\* An action that serves goes on serving when another moves and neither the row nor who
\* selects it changes.
LEMMA KeepsServing ==
    ASSUME IInv, NEW a \in Admin, NEW b \in Admin \ {a}, NEW entry,
           op' = [op EXCEPT ![a] = entry],
           source' = source, Selecting' = Selecting, Serving(b)
    PROVE  Serving(b)'
<1>1. op'[b] = op[b]
  BY DEF IInv
<1> QED
  BY <1>1 DEF Serving

LEMMA BeginServed ==
    ASSUME IInv, SInv, NEW a \in Admin, Begin(a)
    PROVE  SInv'
<1>1. op[a].stage = "none" /\ ~Serving(a)
  BY DEF Begin, AddRead, RemoveDelete, ReindexRead, ViewRead, Begins, OpAt, Serving
<1>2. UNCHANGED <<lost, events>> /\ (run' = run \/ run' = Disturbed)
  BY DEF Begin, AddRead, RemoveDelete, ReindexRead, ViewRead, Disturb
<1>3. RunsFormed' /\ \A s \in Slot : run'[s].at = run[s].at
  BY <1>2, DisturbedRuns DEF SInv, RunsFormed
<1>4. PICK entry : op' = [op EXCEPT ![a] = entry]
  BY DEF Begin, AddRead, RemoveDelete, ReindexRead, ViewRead, Begins
<1>5. op'[a] = entry /\ \A b \in Admin \ {a} : op'[b] = op[b]
  BY <1>4 DEF IInv
<1> SUFFICES ASSUME Unsettled', ~Waiting' PROVE \E b \in Admin : Serving(b)'
  BY <1>2, <1>3 DEF SInv, Served, EventsFormed
<1>6. ~Waiting
  BY <1>2, <1>3, StillWaiting
<1>7. ASSUME UNCHANGED <<source, views>> PROVE \E b \in Admin : Serving(b)'
  <2>1. PICK b \in Admin : Serving(b)
    BY <1>6, <1>7, SomeoneServes DEF SInv, Unsettled
  <2>2. b \in Admin \ {a} /\ Selecting' = Selecting
    BY <1>1, <1>7, <2>1 DEF Selecting
  <2> QED
    BY <1>4, <1>7, <2>1, <2>2, KeepsServing
<1>8. ASSUME NEW t \in Team, AddRead(a, t), ~Exists PROVE \E b \in Admin : Serving(b)'
  <2>1. source'.indexed = FALSE
    BY <1>8 DEF AddRead, FreshRow
  <2>2. op' = [op EXCEPT ![a] = [stage |-> "add", team |-> t,
                                 needed |-> NeedsRevive(source')]]
    BY <1>8 DEF AddRead, Begins
  <2>3. op'[a].stage = "add"
    BY <2>2 DEF IInv
  <2> QED
    BY <2>1, <2>3 DEF Serving
<1>9. ASSUME NEW t \in Team, RemoveDelete(a, t) PROVE \E b \in Admin : Serving(b)'
  <2>1. op' = [op EXCEPT ![a] = [stage |-> "dropped"]] /\ source' = source
        /\ t \in Selecting
    BY <1>9 DEF RemoveDelete, Begins
  <2>2. op'[a].stage = "dropped"
    BY <2>1 DEF IInv
  <2>3. PICK b \in Admin : Serving(b)
    BY <1>6, <2>1, SomeoneServes DEF SInv, Unsettled
  <2>4. b # a
    BY <1>1, <2>3
  <2>5. CASE op[b].stage \in {"revive", "emit"}
    BY <1>5, <2>4, <2>5 DEF Serving
  <2>6. CASE op[b].stage \notin {"revive", "emit"}
    <3>1. ~source.indexed /\ op[b].stage \in {"add", "added"}
      BY <2>1, <2>3, <2>6 DEF Serving
    <3>2. CASE Selecting' = {}
      BY <2>1, <2>2, <3>1, <3>2 DEF Serving
    <3>3. CASE Selecting' # {}
      BY <1>5, <2>1, <2>4, <3>1, <3>3 DEF Serving
    <3> QED
      BY <3>2, <3>3
  <2> QED
    BY <2>5, <2>6
<1>10. ASSUME NEW t \in Team, AddRead(a, t), Exists PROVE UNCHANGED <<source, views>>
  BY <1>10 DEF AddRead
<1> QED
  BY <1>7, <1>8, <1>9, <1>10 DEF Begin, ReindexRead, ViewRead

LEMMA ContinueServed ==
    ASSUME IInv, SInv, NEW a \in Admin, Continue(a)
    PROVE  SInv'
<1>1. op[a] \in Action /\ DOMAIN op = Admin
  BY DEF IInv
<1>2. run' = run \/ run' = Disturbed
  BY DEF Continue, AddInsert, AddCount, AddRevive, RemoveCount, RemoveMark,
     ReindexMark, ViewWrite, Emit, Disturb
<1>3. RunsFormed' /\ \A s \in Slot : run'[s].at = run[s].at
  BY <1>2, DisturbedRuns DEF SInv, RunsFormed
<1>4. ASSUME UNCHANGED <<lost, events>>,
             Unsettled' /\ ~Waiting => \E b \in Admin : Serving(b)'
      PROVE  SInv'
  <2>1. Waiting => Waiting'
    BY <1>3, <1>4, StillWaiting
  <2> QED
    BY <1>3, <1>4, <2>1 DEF SInv, Served, EventsFormed
<1>5. PICK entry : op' = [op EXCEPT ![a] = entry]
  BY DEF Continue, AddInsert, AddCount, AddRevive, RemoveCount, RemoveMark, ReindexMark,
     ViewWrite, Emit, OpGoes, OpEnds
<1>6. op'[a] = entry /\ \A b \in Admin \ {a} : op'[b] = op[b]
  BY <1>5 DEF IInv
<1>7. CASE AddInsert(a)
  <2>1. /\ UNCHANGED <<source, lost, events>> /\ op[a].stage = "add"
        /\ op' = [op EXCEPT ![a] = [op[a] EXCEPT !.stage = "added"]]
    BY <1>7 DEF AddInsert, OpAt, OpGoes
  <2>2. op'[a].stage = "added"
    BY <1>1, <2>1 DEF Action
  <2>3. Exists => Selecting' # {}
    <3>1. CASE Exists /\ op[a].team \notin Selecting
      <4>1. DOMAIN views' = DOMAIN views \cup {op[a].team}
        BY <1>7, <3>1, Selected DEF AddInsert
      <4> QED
        BY <4>1 DEF Selecting
    <3>2. CASE op[a].team \in Selecting
      BY <1>7, <3>2 DEF AddInsert, Selecting
    <3> QED
      BY <3>1, <3>2
  <2>4. ASSUME Unsettled', ~Waiting PROVE \E b \in Admin : Serving(b)'
    <3>1. Exists /\ Unsettled
      BY <2>1, <2>4 DEF Unsettled, Exists
    <3>2. PICK b \in Admin : Serving(b)
      BY <2>4, <3>1, SomeoneServes DEF SInv
    <3>3. CASE op[b].stage \in {"revive", "emit"}
      BY <1>6, <2>1, <3>3 DEF Serving
    <3>4. CASE op[b].stage \notin {"revive", "emit"}
      BY <2>1, <2>2, <2>3, <3>1, <3>2, <3>4 DEF Serving
    <3> QED
      BY <3>3, <3>4
  <2> QED
    BY <1>4, <2>1, <2>4
<1>8. CASE AddCount(a)
  <2>1. UNCHANGED <<source, views, lost, events>> /\ op[a].stage = "added"
        /\ Selecting' = Selecting
    BY <1>8 DEF AddCount, OpAt, Selecting
  <2>2. ASSUME Unsettled', ~Waiting PROVE \E b \in Admin : Serving(b)'
    <3>1. PICK b \in Admin : Serving(b)
      BY <2>1, <2>2, SomeoneServes DEF SInv, Unsettled
    <3>2. CASE b # a
      BY <1>5, <2>1, <3>1, <3>2, KeepsServing
    <3>3. CASE b = a
      <4>1. ~source.indexed /\ Selecting # {}
        BY <2>1, <3>1, <3>3 DEF Serving
      <4>2. op[a].needed
        BY <2>1, <4>1 DEF IInv, AddsNeeded, Overdue
      <4>3. op' = [op EXCEPT ![a] = [op[a] EXCEPT !.stage = "revive"]]
        BY <1>8, <4>1, <4>2 DEF AddCount, OpGoes
      <4>4. op'[a].stage = "revive"
        BY <1>1, <2>1, <4>3 DEF Action
      <4> QED
        BY <4>4 DEF Serving
    <3> QED
      BY <3>2, <3>3
  <2> QED
    BY <1>4, <2>1, <2>2
<1>9. CASE AddRevive(a) \/ ReindexMark(a) \/ ViewWrite(a)
  <2>1. op'[a].stage = "emit" /\ UNCHANGED <<lost, events>>
    <3>1. CASE AddRevive(a) \/ ViewWrite(a)
      BY <1>1, <3>1 DEF AddRevive, ViewWrite
    <3>2. CASE ReindexMark(a)
      <4>1. op' = [op EXCEPT ![a] = [op[a] EXCEPT !.stage = "emit"]]
            /\ UNCHANGED <<lost, events>>
        BY <3>2 DEF ReindexMark, OpGoes
      <4>2. op[a].stage = "mark"
        BY <3>2 DEF ReindexMark, OpAt
      <4> QED
        BY <1>1, <4>1, <4>2 DEF Action
    <3> QED
      BY <1>9, <3>1, <3>2
  <2> QED
    BY <1>4, <2>1 DEF Serving
<1>10. CASE RemoveCount(a)
  <2>1. UNCHANGED <<source, views, lost, events>> /\ op[a].stage = "dropped"
        /\ Selecting' = Selecting
    BY <1>10 DEF RemoveCount, OpAt, Selecting
  <2>2. ASSUME Unsettled', ~Waiting PROVE \E b \in Admin : Serving(b)'
    <3>1. PICK b \in Admin : Serving(b)
      BY <2>1, <2>2, SomeoneServes DEF SInv, Unsettled
    <3>2. CASE b # a
      BY <1>5, <2>1, <3>1, <3>2, KeepsServing
    <3>3. CASE b = a
      <4>1. ~source.indexed /\ Selecting = {}
        BY <2>1, <3>1, <3>3 DEF Serving
      <4>2. op' = [op EXCEPT ![a] = [op[a] EXCEPT !.stage = "last"]]
        BY <1>10, <4>1 DEF RemoveCount, OpGoes
      <4>3. op'[a].stage = "last"
        BY <1>1, <2>1, <4>2 DEF Action
      <4> QED
        BY <2>1, <4>1, <4>3 DEF Serving
    <3> QED
      BY <3>2, <3>3
  <2> QED
    BY <1>4, <2>1, <2>2
<1>11. CASE RemoveMark(a)
  <2>1. UNCHANGED <<lost, events>> /\ ~Unsettled'
    BY <1>11 DEF RemoveMark, Unsettled, Exists, IInv, Row
  <2> QED
    BY <1>4, <2>1
<1>12. CASE Emit(a)
  <2>1. op[a].mode \in Mode
    BY <1>1, <1>12 DEF Emit, OpAt, Action
  <2>2. CASE lost'
    <3>1. EventsFormed'
      BY <1>12, <2>1, <2>2 DEF Emit, SInv, EventsFormed
    <3> QED
      BY <1>3, <2>2, <3>1 DEF SInv, Served, Waiting
  <2>3. CASE ~lost'
    <3>1. events' = [events EXCEPT ![op[a].mode] = @ + 1]
      BY <1>12, <2>3 DEF Emit
    <3>2. EventsFormed' /\ events'[op[a].mode] > 0
      BY <2>1, <3>1 DEF SInv, EventsFormed
    <3> QED
      BY <1>3, <2>1, <3>2 DEF SInv, Served, Waiting
  <2> QED
    BY <2>2, <2>3
<1> QED
  BY <1>7, <1>8, <1>9, <1>10, <1>11, <1>12 DEF Continue

\* A run that goes on.
LEMMA GoesOn ==
    ASSUME SInv, NEW s \in Slot, NEW r, run' = [run EXCEPT ![s] = r], "at" \in DOMAIN r, r.at # "none",
           UNCHANGED <<events, op>>
    PROVE  SInv'
<1>1. DOMAIN run' = Slot /\ run'[s] = r /\ \A q \in Slot \ {s} : run'[q] = run[q]
  BY DEF SInv, RunsFormed
<1>2. RunsFormed' /\ Underway'
  BY <1>1 DEF SInv, RunsFormed, Underway, At
<1> QED
  BY <1>2 DEF SInv, Served, Waiting, EventsFormed

\* A run that ends leaves the source settled.
LEMMA RunEnds ==
    ASSUME SInv, NEW s \in Slot, run' = [run EXCEPT ![s] = NoRun], UNCHANGED <<events, op>>, ~Unsettled'
    PROVE  SInv'
<1>1. DOMAIN run' = Slot /\ run'[s] = NoRun /\ \A q \in Slot \ {s} : run'[q] = run[q]
  BY DEF SInv, RunsFormed
<1>2. RunsFormed'
  BY <1>1 DEF SInv, RunsFormed, NoRun
<1> QED
  BY <1>2 DEF SInv, Served, EventsFormed

LEMMA Going ==
    ASSUME RunsFormed, NEW s \in Slot, NEW entry, "at" \in DOMAIN entry, entry.at # "none", Goes(s, entry)
    PROVE  \E r : run' = [run EXCEPT ![s] = r] /\ "at" \in DOMAIN r /\ r.at # "none"
<1> DEFINE r == [entry EXCEPT !.tries = 0]
<1>1. run' = [run EXCEPT ![s] = r]
  BY DEF Goes
<1>2. "at" \in DOMAIN r /\ r.at = entry.at
  OBVIOUS
<1> QED
  BY <1>1, <1>2

\* A run sent back to a step, which it is then at.
LEMMA AgainAt ==
    ASSUME NEW entry, "at" \in DOMAIN entry, NEW place
    PROVE  "at" \in DOMAIN Again(entry, place) /\ Again(entry, place).at = place
<1> DEFINE h == [entry EXCEPT !.at = place]
           i == [h EXCEPT !.seen = << >>]
           j == [i EXCEPT !.handled = {}]
           k == [j EXCEPT !.tries = @ + 1]
<1>1. "at" \in DOMAIN h /\ h.at = place
  OBVIOUS
<1>2. Again(entry, place) = k
  BY DEF Again
<1> HIDE DEF h
<1>3. "at" \in DOMAIN i /\ i.at = place
  BY <1>1
<1> HIDE DEF i
<1>4. "at" \in DOMAIN j /\ j.at = place
  BY <1>3
<1> HIDE DEF j
<1>5. "at" \in DOMAIN k /\ k.at = place
  BY <1>4
<1> QED
  BY <1>2, <1>5

LEMMA SettledByErrored == ASSUME IInv, Errored PROVE ~Unsettled'
BY DEF IInv, Errored, SetStatus, Unsettled, Row

LEMMA RunServed ==
    ASSUME IInv, SInv, NEW s \in Slot, Step(s) \/ \E m \in Mode : Start(s, m)
    PROVE  SInv'
<1>0. RunsFormed /\ "at" \in DOMAIN run[s]
  BY DEF SInv, RunsFormed
<1>1. ASSUME NEW m \in Mode, Start(s, m) PROVE SInv'
  <2> DEFINE r == [at |-> "load", mode |-> m, tries |-> 0, fetched |-> << >>,
                   prepared |-> {}, todo |-> << >>, seen |-> << >>,
                   handled |-> {}, calm |-> \A q \in Slot : At(q, "none")]
  <2>1. run' = [Disturbed EXCEPT ![s] = r] /\ events' = [events EXCEPT ![m] = @ - 1] /\ events[m] > 0
    BY <1>1 DEF Start
  <2>2. EventsFormed'
    BY <2>1 DEF SInv, EventsFormed
  <2>3. "at" \in DOMAIN r /\ r.at = "load"
    OBVIOUS
  <2> HIDE DEF r
  <2>4. \A q \in Slot : "at" \in DOMAIN Disturbed[q]
    BY DEF SInv, RunsFormed, Disturbed, NoRun
  <2>5. DOMAIN run' = Slot /\ run'[s] = r /\ \A q \in Slot \ {s} : run'[q] = Disturbed[q]
    BY <2>1 DEF Disturbed
  <2>6. RunsFormed' /\ Underway'
    BY <2>3, <2>4, <2>5 DEF RunsFormed, Underway, At
  <2> QED
    BY <2>2, <2>6 DEF SInv, Served, Waiting
<1>2. CASE Load(s)
  <2>1. CASE source.status = "removed"
    <3>1. run' = [run EXCEPT ![s] = NoRun] /\ source' = source
      BY <1>2, <2>1 DEF Load, SetStatus
    <3> QED
      BY <1>2, <2>1, <3>1, RunEnds DEF Load, Unsettled
  <2>2. CASE source.status # "removed"
    <3> DEFINE e == [run[s] EXCEPT !.at = "fetch"]
    <3>1. "at" \in DOMAIN e /\ e.at = "fetch"
      BY <1>0
    <3>2. Goes(s, e)
      BY <1>2, <2>2 DEF Load
    <3> HIDE DEF e
    <3> QED
      BY <1>0, <1>2, <3>1, <3>2, Going, GoesOn DEF Load
  <2> QED
    BY <2>1, <2>2
<1>3. CASE Fetch(s)
  <2> DEFINE e == [run[s] EXCEPT !.at = "prepare", !.fetched = upstream]
             k == [run[s] EXCEPT !.at = "prepare"]
  <2>1. "at" \in DOMAIN k /\ k.at = "prepare"
    BY <1>0
  <2>2. e = [k EXCEPT !.fetched = upstream]
    OBVIOUS
  <2>3. Goes(s, e)
    BY <1>3 DEF Fetch
  <2> HIDE DEF e, k
  <2>4. "at" \in DOMAIN e /\ e.at = "prepare"
    BY <2>1, <2>2
  <2> QED
    BY <1>0, <1>3, <2>3, <2>4, Going, GoesOn DEF Fetch
<1>4. CASE AuthFails(s)
  BY <1>4, SettledByErrored, RunEnds DEF AuthFails
<1>5. CASE Prepare(s)
  <2> DEFINE e == [run[s] EXCEPT !.prepared = Entities(run[s], views)]
  <2>1. "at" \in DOMAIN e /\ e.at = "prepare"
    BY <1>0, <1>5 DEF Prepare, Executes, At
  <2>2. Goes(s, e)
    BY <1>5 DEF Prepare
  <2> HIDE DEF e
  <2> QED
    BY <1>0, <1>5, <2>1, <2>2, Going, GoesOn DEF Prepare
<1>6. CASE Reconcile(s)
  <2> DEFINE prunes == Prunes(run[s], Desired(run[s], views))
             todo == ToIndex(run[s], Desired(run[s], views))
             h == [run[s] EXCEPT !.at = "embed"]
             k == [h EXCEPT !.todo = todo]
             e == [k EXCEPT !.calm = @ /\ prunes]
  <2>1. UNCHANGED <<events, op>> /\ (Goes(s, e) \/ run' = [run EXCEPT ![s] = Again(@, "prepare")])
    BY <1>6 DEF Reconcile
  <2> HIDE DEF prunes, todo
  <2>2. "at" \in DOMAIN h /\ h.at = "embed"
    BY <1>0
  <2> HIDE DEF h
  <2>3. "at" \in DOMAIN k /\ k.at = "embed"
    BY <2>2
  <2> HIDE DEF k
  <2>4. "at" \in DOMAIN e /\ e.at = "embed"
    BY <2>3
  <2> HIDE DEF e
  <2>5. CASE Goes(s, e)
    BY <1>0, <2>1, <2>4, <2>5, Going, GoesOn
  <2>6. CASE run' = [run EXCEPT ![s] = Again(@, "prepare")]
    <3> DEFINE back == Again(run[s], "prepare")
    <3>1. run' = [run EXCEPT ![s] = back]
      BY <2>6
    <3>2. "at" \in DOMAIN back /\ back.at = "prepare"
      BY <1>0, AgainAt
    <3> HIDE DEF back
    <3> QED
      BY <2>1, <3>1, <3>2, GoesOn
  <2> QED
    BY <2>1, <2>5, <2>6
<1>7. CASE Embed(s)
  <2> DEFINE h == [run[s] EXCEPT !.at = "embedding"]
             e == [h EXCEPT !.seen = views]
  <2>1. run' = [run EXCEPT ![s] = e] /\ UNCHANGED <<events, op>>
    BY <1>0, <1>7 DEF Embed
  <2>2. "at" \in DOMAIN h /\ h.at = "embedding"
    BY <1>0
  <2> HIDE DEF h
  <2>3. "at" \in DOMAIN e /\ e.at = "embedding"
    BY <2>2
  <2> HIDE DEF e
  <2> QED
    BY <2>1, <2>3, GoesOn
<1>8. ASSUME NEW d \in Doc, Write(s, d) PROVE SInv'
  <2> DEFINE e == [run[s] EXCEPT !.handled = @ \cup {d}]
  <2>1. run' = [run EXCEPT ![s] = e] /\ UNCHANGED <<events, op>>
    BY <1>8 DEF Write
  <2>2. "at" \in DOMAIN e /\ e.at = "embedding"
    BY <1>0, <1>8 DEF Write, At
  <2> HIDE DEF e
  <2> QED
    BY <2>1, <2>2, GoesOn
<1>9. ASSUME NEW d \in Doc, SkipNew(s, d) PROVE SInv'
  <2> DEFINE h == [run[s] EXCEPT !.handled = @ \cup {d}]
             e == [h EXCEPT !.calm = FALSE]
  <2>1. run' = [run EXCEPT ![s] = e] /\ UNCHANGED <<events, op>>
    BY <1>0, <1>9 DEF SkipNew
  <2>2. "at" \in DOMAIN h /\ h.at = "embedding"
    BY <1>0, <1>9 DEF SkipNew, At
  <2> HIDE DEF h
  <2>3. "at" \in DOMAIN e /\ e.at = "embedding"
    BY <2>2
  <2> HIDE DEF e
  <2> QED
    BY <2>1, <2>3, GoesOn
<1>10. CASE Embedded(s)
  <2> DEFINE h == [run[s] EXCEPT !.at = "finalize"]
             e == [h EXCEPT !.seen = << >>]
  <2>1. Goes(s, e) /\ UNCHANGED <<events, op>>
    BY <1>10 DEF Embedded
  <2>2. "at" \in DOMAIN h /\ h.at = "finalize"
    BY <1>0
  <2> HIDE DEF h
  <2>3. "at" \in DOMAIN e /\ e.at = "finalize"
    BY <2>2
  <2> HIDE DEF e
  <2> QED
    BY <1>0, <2>1, <2>3, Going, GoesOn
<1>11. CASE Finalize(s)
  <2>1. ~Unsettled'
    BY <1>11 DEF Finalize, Finalized, Unsettled, IInv, Row
  <2> QED
    BY <1>11, <2>1, RunEnds DEF Finalize
<1>12. CASE Throws(s)
  <2> DEFINE place == IF run[s].at = "embedding" THEN "embed" ELSE run[s].at
  <2>1. UNCHANGED <<events, op>> /\ place # "none"
    BY <1>12 DEF Throws, At
  <2>2. CASE run[s].tries < MaxRetries
    <3> DEFINE back == Again(run[s], place)
    <3>1. run' = [run EXCEPT ![s] = back]
      BY <1>12, <2>2 DEF Throws
    <3> HIDE DEF place
    <3>2. "at" \in DOMAIN back /\ back.at = place
      BY <1>0, AgainAt
    <3> HIDE DEF back
    <3> QED
      BY <2>1, <3>1, <3>2, GoesOn
  <2>3. CASE ~(run[s].tries < MaxRetries)
    BY <1>12, <2>3, SettledByErrored, RunEnds DEF Throws
  <2> QED
    BY <2>2, <2>3
<1> QED
  BY <1>1, <1>2, <1>3, <1>4, <1>5, <1>6, <1>7, <1>8, <1>9, <1>10, <1>11, <1>12 DEF Step

LEMMA NextServed == IInv /\ SInv /\ [Next]_vars => SInv'
<1> SUFFICES ASSUME IInv, SInv, [Next]_vars PROVE SInv'
  OBVIOUS
<1>1. ASSUME UNCHANGED <<lost, events, op>>, run' = run \/ run' = Disturbed,
             Unsettled' => /\ Unsettled /\ source'.indexed = source.indexed
                           /\ Selecting' = Selecting
      PROVE  SInv'
  <2>1. RunsFormed' /\ \A s \in Slot : run'[s].at = run[s].at
    BY <1>1, DisturbedRuns DEF SInv, RunsFormed
  <2>2. Waiting => Waiting'
    BY <1>1, <2>1, StillWaiting
  <2>3. Unsettled' => \A a \in Admin : Serving(a) => Serving(a)'
    BY <1>1 DEF Serving
  <2> QED
    BY <1>1, <2>1, <2>2, <2>3 DEF SInv, Served, EventsFormed
<1>2. ASSUME NEW gone \in SUBSET Doc, NEW edited \in SUBSET Doc, ProviderChanges(gone, edited)
      PROVE  SInv'
  BY <1>1, <1>2 DEF ProviderChanges, Disturb, Unsettled, Selecting
<1>3. CASE GraceEnds
  BY <1>1, <1>3 DEF GraceEnds, Unsettled, Selecting, IInv, Row
<1>4. CASE PurgeRemovedSources
  BY <1>1, <1>4 DEF PurgeRemovedSources, Disturb, Unsettled
<1>5. CASE UNCHANGED vars
  BY <1>1, <1>5 DEF vars, Unsettled, Selecting
<1> QED
  BY <1>2, <1>3, <1>4, <1>5, BeginServed, ContinueServed, RunServed DEF Next

LEMMA ServedInductive == Spec => [](IInv /\ SInv)
<1>1. Init => IInv /\ SInv
  BY InitHolds, InitServed
<1>2. IInv /\ SInv /\ [Next]_vars => (IInv /\ SInv)'
  BY NextHolds, NextServed
<1> QED
  BY <1>1, <1>2, PTL DEF Spec

\* For any number of admins at once: a source that says it waits for its index run, or
\* is in one, has an event, a run or an admin action that will move it on, unless the
\* event was never sent: the status writes of connector-index.ts and
\* team-source-lifecycle.ts wedge it in no order of runs, removals and failures.
THEOREM UnsettledIsServedAlways == Spec => []UnsettledIsServed
<1>1. SInv => UnsettledIsServed
  BY DEF SInv, Served, Serving, Waiting, Underway, Unsettled, UnsettledIsServed,
     InFlight, OpAt
<1> QED
  BY <1>1, ServedInductive, PTL

-----------------------------------------------------------------------------
(***************************************************************************)
(* A run that nothing disturbs.                                            *)
(***************************************************************************)
\* The runs in flight, with values of U.
RunsOver(U) ==
    [at : U \ {"none"}, mode : U, tries : U, fetched : U, prepared : U, todo : U,
     seen : U, handled : U, calm : BOOLEAN]

IsRun(r) == \E U : r \in RunsOver(U)

RunsKnown == DOMAIN run = Slot /\ \A s \in Slot : run[s] = NoRun \/ IsRun(run[s])

\* A document is in the corpus at the version the provider has.
Current(docs, d) == d \in DOMAIN docs /\ docs[d].hash = upstream[d]
Converged(docs) == DOMAIN docs = Wanted /\ \A d \in Wanted : Current(docs, d)

\* It is visible to the teams that admit it.
Stamped(docs, d) == d \in DOMAIN docs /\ docs[d].visible = Admitting(views, d)

\* What an undisturbed run has done by the step it is at: what it fetched and
\* prepared is what is there and wanted; past reconcile, the corpus holds nothing
\* else, and all of it but what is still to embed; what it embedded is stamped.
CalmAt(r, docs) ==
    /\ r.prepared \in {{}, Wanted}
    /\ r.at \in {"load", "fetch", "prepare", "embed"} => r.handled = {}
    /\ r.at \in {"prepare", "embed", "embedding"} => r.fetched = upstream
    /\ r.at \in {"embed", "embedding"} =>
         /\ r.prepared = Wanted /\ DOMAIN docs \subseteq Wanted
         /\ DOMAIN r.todo \subseteq Wanted
         /\ \A d \in Wanted \ DOMAIN r.todo : Current(docs, d)
    /\ r.at = "embedding" =>
         r.seen = views /\ \A d \in r.handled : Current(docs, d) /\ Stamped(docs, d)
    /\ r.at = "finalize" =>
         Converged(docs) /\ \A d \in DOMAIN r.todo : Stamped(docs, d)

CalmInv ==
    /\ RunsKnown /\ calm \in BOOLEAN /\ DOMAIN upstream \subseteq Doc
    /\ \A s \in Slot : ~At(s, "none") /\ run[s].calm =>
         CalmAt(run[s], corpus) /\ \A q \in Slot \ {s} : At(q, "none")
    /\ calm => Converged(corpus) /\ \A s \in Slot : At(s, "none")

\* What is said of a run and a corpus is about the provider's documents and the views.
LEMMA SameThings ==
    ASSUME UNCHANGED <<upstream, views>>, NEW r, CalmAt(r, corpus')
    PROVE  CalmAt(r, corpus)'
<1>1. Wanted' = Wanted
  BY DEF Wanted, Keeps, Admitting
<1>2. \A d : /\ Current(corpus', d) => Current(corpus, d)'
             /\ Stamped(corpus', d) => Stamped(corpus, d)'
  BY DEF Current, Stamped, Admitting
<1>3. Converged(corpus') => Converged(corpus)'
  BY <1>1, <1>2 DEF Converged
<1> QED
  BY <1>1, <1>2, <1>3 DEF CalmAt

\* A step that moves a run of the source on.
LEMMA CalmMoves ==
    ASSUME CalmInv, NEW s \in Slot, ~At(s, "none"), UNCHANGED <<upstream, views, calm>>,
           NEW r, IsRun(r), r.at # "none", run' = [run EXCEPT ![s] = r],
           r.calm => run[s].calm /\ CalmAt(r, corpus')
    PROVE  CalmInv'
<1>1. /\ DOMAIN run' = Slot /\ run'[s] = r
      /\ \A q \in Slot \ {s} : run'[q] = run[q]
  BY DEF CalmInv, RunsKnown
<1>2. RunsKnown'
  BY <1>1 DEF CalmInv, RunsKnown
<1>3. calm' = FALSE
  BY DEF CalmInv
<1>4. \A q \in Slot : run'[q].at # "none" /\ run'[q].calm => q = s /\ run[s].calm
  BY <1>1 DEF CalmInv, At
<1>5. run[s].calm => \A q \in Slot \ {s} : run'[q].at = "none"
  BY <1>1 DEF CalmInv, At
<1>6. r.calm => CalmAt(r, corpus)'
  BY SameThings
<1> QED
  BY <1>1, <1>2, <1>3, <1>4, <1>5, <1>6 DEF CalmInv, At

\* A run is over, its last step done or not.
LEMMA CalmEnds ==
    ASSUME CalmInv, NEW s \in Slot, ~At(s, "none"),
           UNCHANGED <<upstream, views, corpus>>, run' = [run EXCEPT ![s] = NoRun],
           \/ UNCHANGED calm
           \/ At(s, "finalize") /\ calm' = run[s].calm
    PROVE  CalmInv'
<1>1. /\ DOMAIN run' = Slot /\ run'[s] = NoRun
      /\ \A q \in Slot \ {s} : run'[q] = run[q]
  BY DEF CalmInv, RunsKnown
<1>2. RunsKnown'
  BY <1>1 DEF CalmInv, RunsKnown
<1>3. run[s].calm \in BOOLEAN /\ calm \in BOOLEAN
  BY DEF CalmInv, RunsKnown, NoRun, At, IsRun, RunsOver
<1>4. \A q \in Slot : run'[q].at # "none" /\ run'[q].calm => FALSE
  BY <1>1 DEF CalmInv, At, NoRun
<1>5. calm' => Converged(corpus) /\ \A q \in Slot : run'[q].at = "none"
  <2>1. CASE UNCHANGED calm
    BY <1>1, <2>1 DEF CalmInv, At, NoRun
  <2>2. CASE At(s, "finalize") /\ calm' = run[s].calm
    <3> SUFFICES ASSUME run[s].calm
                 PROVE  Converged(corpus) /\ \A q \in Slot : run'[q].at = "none"
      BY <2>2
    <3>1. CalmAt(run[s], corpus) /\ \A q \in Slot \ {s} : At(q, "none")
      BY DEF CalmInv
    <3>2. Converged(corpus)
      BY <2>2, <3>1 DEF CalmAt, At
    <3> QED
      BY <1>1, <3>1, <3>2 DEF At, NoRun
  <2> QED
    BY <2>1, <2>2
<1> QED
  BY <1>2, <1>3, <1>4, <1>5
  DEF CalmInv, At, Converged, Current, Wanted, Keeps, Admitting

LEMMA DisturbedCalm ==
    ASSUME CalmInv, NEW s \in Slot
    PROVE  Disturbed[s] = NoRun \/ (IsRun(Disturbed[s]) /\ ~Disturbed[s].calm)
<1>1. CASE run[s].at = "none"
  BY <1>1 DEF Disturbed
<1>2. CASE run[s].at # "none"
  <2>1. PICK U : run[s] \in RunsOver(U)
    BY <1>2 DEF CalmInv, RunsKnown, IsRun, NoRun
  <2>2. PICK r : r = Disturbed[s]
    OBVIOUS
  <2>3. r = [run[s] EXCEPT !.calm = FALSE]
    BY <1>2, <2>2 DEF Disturbed
  <2>4. r \in RunsOver(U) /\ ~r.calm
    BY <2>1, <2>3 DEF RunsOver
  <2> QED
    BY <2>2, <2>4 DEF IsRun
<1> QED
  BY <1>1, <1>2

\* A step beside the runs: it leaves alone what they work from, or disturbs them.
LEMMA CalmBeside ==
    ASSUME CalmInv,
           \/ UNCHANGED <<upstream, views, corpus, run, calm>>
           \/ run' = Disturbed /\ calm' = FALSE /\ DOMAIN upstream' \subseteq Doc
    PROVE  CalmInv'
<1>1. CASE UNCHANGED <<upstream, views, corpus, run, calm>>
  <2>1. RunsKnown'
    BY <1>1 DEF CalmInv, RunsKnown
  <2>2. Converged(corpus) => Converged(corpus)'
    BY <1>1 DEF Converged, Current, Wanted, Keeps, Admitting
  <2>3. ASSUME NEW s \in Slot, ~At(s, "none"), run[s].calm
        PROVE  CalmAt(run[s], corpus)' /\ \A q \in Slot \ {s} : At(q, "none")'
    <3>1. CalmAt(run[s], corpus) /\ \A q \in Slot \ {s} : At(q, "none")
      BY <2>3 DEF CalmInv
    <3> QED
      BY <1>1, <3>1, SameThings DEF At
  <2>4. \A s \in Slot : At(s, "none") <=> At(s, "none")'
    BY <1>1 DEF At
  <2> QED
    BY <1>1, <2>1, <2>2, <2>3, <2>4 DEF CalmInv
<1>2. CASE run' = Disturbed /\ calm' = FALSE /\ DOMAIN upstream' \subseteq Doc
  <2>1. \A s \in Slot : \/ Disturbed[s] = NoRun
                        \/ IsRun(Disturbed[s]) /\ ~Disturbed[s].calm
    BY DisturbedCalm
  <2>2. DOMAIN run' = Slot /\ \A s \in Slot : run'[s] = Disturbed[s]
    BY <1>2 DEF Disturbed
  <2>3. RunsKnown'
    BY <2>1, <2>2 DEF RunsKnown
  <2>4. \A s \in Slot : ~(run'[s].at # "none" /\ run'[s].calm)
    BY <2>1, <2>2 DEF NoRun
  <2> QED
    BY <1>2, <2>3, <2>4 DEF CalmInv, At
<1> QED
  BY <1>1, <1>2

\* Wherever an undisturbed run has fetched, what it keeps is what is wanted.
LEMMA KeptIsWanted ==
    ASSUME NEW r, r.fetched = upstream
    PROVE  Entities(r, views) = Wanted
BY DEF Entities, Wanted

LEMMA RunInFlight ==
    ASSUME CalmInv, NEW s \in Slot, ~At(s, "none")
    PROVE  IsRun(run[s]) /\ (run[s].calm => CalmAt(run[s], corpus))
BY DEF CalmInv, RunsKnown, NoRun, At

\* The steps that only take the run on.
LEMMA LoadCalm ==
    ASSUME CalmInv, NEW s \in Slot, Load(s)
    PROVE  CalmInv'
<1>1. ~At(s, "none") /\ UNCHANGED <<upstream, views, corpus, calm>>
  BY DEF Load, Executes, At
<1>2. CASE source.status = "removed"
  BY <1>1, <1>2, CalmEnds DEF Load
<1>3. CASE source.status # "removed"
  <2> DEFINE r == [[run[s] EXCEPT !.at = "fetch"] EXCEPT !.tries = 0]
  <2>1. run' = [run EXCEPT ![s] = r] /\ run[s].at = "load"
    BY <1>3 DEF Load, Goes, Executes, At
  <2>2. PICK U : run[s] \in RunsOver(U)
    BY <1>1, RunInFlight DEF IsRun
  <2>3. /\ r \in RunsOver(U \cup {"fetch", 0}) /\ r.at = "fetch" /\ r.calm = run[s].calm
        /\ r.prepared = run[s].prepared /\ r.handled = run[s].handled
    BY <2>2 DEF RunsOver
  <2> HIDE DEF r
  <2>4. IsRun(r)
    BY <2>3 DEF IsRun
  <2>5. r.calm => CalmAt(r, corpus')
    BY <1>1, <2>1, <2>3, RunInFlight DEF CalmAt
  <2> QED
    BY <1>1, <2>1, <2>3, <2>4, <2>5, CalmMoves
<1> QED
  BY <1>2, <1>3

LEMMA FetchCalm ==
    ASSUME CalmInv, NEW s \in Slot, Fetch(s)
    PROVE  CalmInv'
<1> DEFINE r == [[run[s] EXCEPT !.at = "prepare", !.fetched = upstream] EXCEPT !.tries = 0]
<1>1. ~At(s, "none") /\ UNCHANGED <<upstream, views, corpus, calm>>
  BY DEF Fetch, Executes, At
<1>2. run' = [run EXCEPT ![s] = r] /\ run[s].at = "fetch"
  BY DEF Fetch, Goes, Executes, At
<1>3. PICK U : run[s] \in RunsOver(U)
  BY <1>1, RunInFlight DEF IsRun
<1>4. /\ r \in RunsOver(U \cup {"prepare", upstream, 0})
      /\ r.at = "prepare" /\ r.calm = run[s].calm /\ r.fetched = upstream
      /\ r.prepared = run[s].prepared /\ r.handled = run[s].handled
  BY <1>3 DEF RunsOver
<1> HIDE DEF r
<1>5. IsRun(r)
  BY <1>4 DEF IsRun
<1>6. r.calm => CalmAt(r, corpus')
  BY <1>1, <1>2, <1>4, RunInFlight DEF CalmAt
<1> QED
  BY <1>1, <1>2, <1>4, <1>5, <1>6, CalmMoves

LEMMA PrepareCalm ==
    ASSUME CalmInv, NEW s \in Slot, Prepare(s)
    PROVE  CalmInv'
<1> DEFINE kept == Entities(run[s], views)
           r == [[run[s] EXCEPT !.prepared = kept] EXCEPT !.tries = 0]
<1>1. ~At(s, "none") /\ UNCHANGED <<upstream, views, corpus, calm>>
  BY DEF Prepare, Executes, At
<1>2. run' = [run EXCEPT ![s] = r] /\ run[s].at = "prepare"
  BY DEF Prepare, Goes, Executes, At
<1>3. PICK U : run[s] \in RunsOver(U)
  BY <1>1, RunInFlight DEF IsRun
<1>4. run[s].fetched = upstream => kept = Wanted
  BY KeptIsWanted
<1> HIDE DEF kept
<1>5. /\ r \in RunsOver(U \cup {kept, 0})
      /\ r.at = "prepare" /\ r.calm = run[s].calm /\ r.fetched = run[s].fetched
      /\ r.prepared = kept /\ r.handled = run[s].handled
  BY <1>2, <1>3 DEF RunsOver
<1> HIDE DEF r
<1>6. IsRun(r)
  BY <1>5 DEF IsRun
<1>7. r.calm => CalmAt(r, corpus')
  BY <1>1, <1>2, <1>4, <1>5, RunInFlight DEF CalmAt
<1> QED
  BY <1>1, <1>2, <1>5, <1>6, <1>7, CalmMoves

\* A run executes a step again, with what the step has written.
LEMMA AgainCalm ==
    ASSUME CalmInv, NEW s \in Slot, ~At(s, "none"), UNCHANGED <<upstream, views, calm>>,
           NEW place, place = IF run[s].at = "embedding" THEN "embed" ELSE run[s].at,
           run' = [run EXCEPT ![s] = Again(@, place)],
           run[s].at = "prepare" \/ UNCHANGED corpus
    PROVE  CalmInv'
<1> DEFINE q == [run[s] EXCEPT !.at = place, !.seen = << >>, !.handled = {}]
           r == [q EXCEPT !.tries = @ + 1]
<1>1. place # "none"
  BY DEF At
<1>2. PICK U : run[s] \in RunsOver(U)
  BY RunInFlight DEF IsRun
<1>3. Again(run[s], place) = r
  BY DEF Again
<1>4. /\ q \in RunsOver(U \cup {place, << >>, {}})
      /\ q.at = place /\ q.calm = run[s].calm /\ q.fetched = run[s].fetched
      /\ q.prepared = run[s].prepared /\ q.handled = {} /\ q.todo = run[s].todo
  BY <1>1, <1>2 DEF RunsOver
<1> HIDE DEF q
<1>5. PICK n : r = [q EXCEPT !.tries = n]
  OBVIOUS
<1> HIDE DEF r
<1>6. /\ r \in RunsOver(U \cup {place, << >>, {}, n})
      /\ r.at = place /\ r.calm = run[s].calm /\ r.fetched = run[s].fetched
      /\ r.prepared = run[s].prepared /\ r.handled = {} /\ r.todo = run[s].todo
  BY <1>4, <1>5 DEF RunsOver
<1>7. IsRun(r)
  BY <1>6 DEF IsRun
<1>8. ASSUME r.calm PROVE CalmAt(r, corpus')
  <2>1. CalmAt(run[s], corpus)
    BY <1>6, <1>8, RunInFlight
  <2>2. CASE run[s].at = "prepare"
    BY <1>6, <2>1, <2>2 DEF CalmAt
  <2>3. CASE run[s].at # "prepare" /\ UNCHANGED corpus
    BY <1>6, <2>1, <2>3 DEF CalmAt
  <2> QED
    BY <2>2, <2>3
<1>9. run' = [run EXCEPT ![s] = r]
  BY <1>3
<1> QED
  BY <1>1, <1>6, <1>7, <1>8, <1>9, CalmMoves

LEMMA ThrowsCalm ==
    ASSUME CalmInv, NEW s \in Slot, Throws(s)
    PROVE  CalmInv'
<1>1. ~At(s, "none") /\ UNCHANGED <<upstream, views, corpus, calm>>
  BY DEF Throws
<1>2. CASE run[s].tries < MaxRetries
  BY <1>1, <1>2, AgainCalm DEF Throws
<1>3. CASE ~(run[s].tries < MaxRetries)
  BY <1>1, <1>3, CalmEnds DEF Throws
<1> QED
  BY <1>2, <1>3

\* Reconcile of an undisturbed run: what it prunes is not wanted, what it leaves out
\* of todo is there.
LEMMA ReconcileCalm ==
    ASSUME CalmInv, NEW s \in Slot, Reconcile(s)
    PROVE  CalmInv'
<1> DEFINE desired == Desired(run[s], views)
           prunes == Prunes(run[s], desired)
           todo == ToIndex(run[s], desired)
           q == [run[s] EXCEPT !.at = "embed", !.todo = todo, !.calm = @ /\ prunes]
           r == [q EXCEPT !.tries = 0]
<1>1. /\ ~At(s, "none") /\ UNCHANGED <<upstream, views, calm>>
      /\ run[s].at = "prepare"
      /\ run[s].prepared # {} \/ Entities(run[s], views) = {}
      /\ corpus' = [d \in IF prunes THEN DOMAIN corpus \cap desired ELSE DOMAIN corpus
                      |-> corpus[d]]
  BY DEF Reconcile, Executes, At
<1>2. CASE run' = [run EXCEPT ![s] = Again(@, "prepare")]
  BY <1>1, <1>2, AgainCalm
<1>3. CASE run' = [run EXCEPT ![s] = r]
  <2>1. PICK U : run[s] \in RunsOver(U)
    BY <1>1, RunInFlight DEF IsRun
  <2>2. run[s].calm => /\ run[s].prepared = Wanted /\ desired = Wanted
                       /\ run[s].fetched = upstream /\ run[s].handled = {}
    BY <1>1, RunInFlight, KeptIsWanted DEF CalmAt, Desired
  <2>3. \A d \in desired \ DOMAIN todo :
           d \in DOMAIN corpus /\ corpus[d].hash = run[s].fetched[d]
    BY DEF ToIndex
  <2>4. prunes \in BOOLEAN
    BY DEF Prunes
  <2> HIDE DEF desired, prunes, todo
  <2>5. /\ q \in RunsOver(U \cup {"embed", todo}) /\ q.at = "embed" /\ q.todo = todo
        /\ q.calm = (run[s].calm /\ prunes) /\ q.fetched = run[s].fetched
        /\ q.prepared = run[s].prepared /\ q.handled = run[s].handled
    BY <2>1, <2>4 DEF RunsOver
  <2> HIDE DEF q
  <2>6. /\ r \in RunsOver(U \cup {"embed", todo, 0}) /\ r.at = "embed" /\ r.todo = todo
        /\ r.calm = (run[s].calm /\ prunes) /\ r.fetched = run[s].fetched
        /\ r.prepared = run[s].prepared /\ r.handled = run[s].handled
    BY <2>5 DEF RunsOver
  <2> HIDE DEF r
  <2>7. IsRun(r)
    BY <2>6 DEF IsRun
  <2>8. ASSUME r.calm PROVE CalmAt(r, corpus')
    <3>1. /\ DOMAIN corpus' = DOMAIN corpus \cap Wanted
          /\ \A d \in DOMAIN corpus' : corpus'[d] = corpus[d]
      BY <1>1, <2>2, <2>6, <2>8
    <3>2. \A d \in Wanted \ DOMAIN todo : Current(corpus', d)
      BY <2>2, <2>3, <2>6, <2>8, <3>1 DEF Current
    <3>3. DOMAIN todo \subseteq Wanted
      BY <2>2, <2>6, <2>8 DEF todo, ToIndex
    <3> QED
      BY <2>2, <2>6, <2>8, <3>1, <3>2, <3>3 DEF CalmAt
  <2> QED
    BY <1>1, <1>3, <2>6, <2>7, <2>8, CalmMoves
<1> QED
  BY <1>2, <1>3 DEF Reconcile, Goes

LEMMA EmbedCalm ==
    ASSUME CalmInv, NEW s \in Slot, Embed(s)
    PROVE  CalmInv'
<1> DEFINE r == [run[s] EXCEPT !.at = "embedding", !.seen = views]
<1>1. ~At(s, "none") /\ UNCHANGED <<upstream, views, corpus, calm>> /\ run[s].at = "embed"
  BY DEF Embed, Executes, At
<1>2. PICK U : run[s] \in RunsOver(U)
  BY <1>1, RunInFlight DEF IsRun
<1>3. run' = [run EXCEPT ![s] = r]
  BY <1>2 DEF Embed, RunsOver
<1>4. /\ r \in RunsOver(U \cup {"embedding", views})
      /\ r.at = "embedding" /\ r.calm = run[s].calm /\ r.fetched = run[s].fetched
      /\ r.prepared = run[s].prepared /\ r.handled = run[s].handled
      /\ r.todo = run[s].todo /\ r.seen = views
  BY <1>2 DEF RunsOver
<1> HIDE DEF r
<1>5. IsRun(r)
  BY <1>4 DEF IsRun
<1>6. r.calm => CalmAt(r, corpus')
  BY <1>1, <1>4, RunInFlight DEF CalmAt
<1> QED
  BY <1>1, <1>3, <1>4, <1>5, <1>6, CalmMoves

\* What an undisturbed run still has to write is wanted.
LEMMA WritesWanted ==
    ASSUME NEW r, NEW docs, CalmAt(r, docs), r.at = "embedding"
    PROVE  ToWrite(r) = (DOMAIN r.todo \cap Wanted) \ r.handled
<1>1. r.fetched = upstream /\ r.prepared = Wanted /\ r.seen = views
  BY DEF CalmAt
<1>2. Desired(r, r.seen) = Wanted
  BY <1>1, KeptIsWanted DEF Desired
<1> QED
  BY <1>2 DEF ToWrite

\* No two of the documents kept have the same place among them.
LEMMA PlacesGrow ==
    ASSUME NEW W \in SUBSET Doc, NEW d \in W, NEW k \in W, d < k
    PROVE  PlaceIn(W, d) # PlaceIn(W, k)
<1> DEFINE B == {e \in W : e <= d}
           C == {e \in W : e <= k}
<1>1. NumDocs \in Nat /\ W \subseteq 1..NumDocs
  BY CorpusAssumption DEF CorpusAssumption, Doc
<1>2. IsFiniteSet(C)
  <2>1. IsFiniteSet(1..NumDocs)
    BY <1>1, FS_Interval
  <2>2. C \subseteq 1..NumDocs
    BY <1>1
  <2> QED
    BY <2>1, <2>2, FS_Subset
<1>3. B \subseteq C /\ k \in C /\ k \notin B
  <2>1. \A e \in W : e \in Nat
    BY <1>1
  <2>2. ASSUME NEW e \in W, e <= d PROVE e <= k
    BY <2>1, <2>2
  <2>3. k <= k /\ ~(k <= d)
    BY <2>1
  <2> QED
    BY <2>2, <2>3
<1> HIDE DEF B, C
<1>4. Cardinality(C) # Cardinality(B)
  BY <1>2, <1>3, FS_Subset
<1> QED
  BY <1>4 DEF PlaceIn, B, C

LEMMA OwnPlace ==
    ASSUME NEW W \in SUBSET Doc, NEW d \in W, NEW k \in W, PlaceIn(W, k) = PlaceIn(W, d)
    PROVE  k = d
<1>1. d \in Nat /\ k \in Nat
  BY CorpusAssumption DEF CorpusAssumption, Doc
<1>2. ~(d < k) /\ ~(k < d)
  BY PlacesGrow
<1> QED
  BY <1>1, <1>2

\* So what an undisturbed run writes is stamped with the teams that admit it.
LEMMA OwnTeams ==
    ASSUME CalmInv, NEW r, r.fetched = upstream, r.prepared = Wanted, r.seen = views,
           NEW d \in Wanted
    PROVE  Visible(r, r.seen, d) = Admitting(views, d)
<1>1. Entities(r, views) = Wanted
  BY KeptIsWanted
<1>2. Wanted \in SUBSET Doc
  BY DEF CalmInv, Wanted
<1>3. {k \in Wanted : PlaceIn(Wanted, k) = PlaceIn(Wanted, d)} = {d}
  BY <1>2, OwnPlace
<1>4. Visible(r, r.seen, d) = UNION {Admitting(views, e) : e \in {d}}
  BY <1>1, <1>3 DEF Visible
<1> QED
  BY <1>4

LEMMA WriteCalm ==
    ASSUME CalmInv, NEW s \in Slot, NEW d \in Doc, Write(s, d)
    PROVE  CalmInv'
<1> DEFINE r == [run[s] EXCEPT !.handled = @ \cup {d}]
           row == [hash |-> run[s].fetched[d], visible |-> Visible(run[s], run[s].seen, d)]
<1>1. /\ ~At(s, "none") /\ UNCHANGED <<upstream, views, calm>> /\ run[s].at = "embedding"
      /\ d \in ToWrite(run[s])
  BY DEF Write, At
<1>2. PICK U : run[s] \in RunsOver(U)
  BY <1>1, RunInFlight DEF IsRun
<1>3. run' = [run EXCEPT ![s] = r] /\ corpus' = With(corpus, d, row)
  BY DEF Write
<1>4. row.hash = run[s].fetched[d] /\ row.visible = Visible(run[s], run[s].seen, d)
  OBVIOUS
<1> HIDE DEF row
<1>5. PICK handled : r = [run[s] EXCEPT !.handled = handled]
                     /\ handled = run[s].handled \cup {d}
  OBVIOUS
<1> HIDE DEF r
<1>6. /\ r \in RunsOver(U \cup {handled})
      /\ r.at = "embedding" /\ r.calm = run[s].calm /\ r.fetched = run[s].fetched
      /\ r.prepared = run[s].prepared /\ r.handled = handled
      /\ r.todo = run[s].todo /\ r.seen = run[s].seen
  BY <1>1, <1>2, <1>5 DEF RunsOver
<1>7. IsRun(r)
  BY <1>6 DEF IsRun
<1>8. ASSUME r.calm PROVE CalmAt(r, corpus')
  <2>1. CalmAt(run[s], corpus)
    BY <1>1, <1>6, <1>8, RunInFlight
  <2>2. d \in Wanted /\ run[s].fetched = upstream
    BY <1>1, <2>1, WritesWanted DEF CalmAt
  <2>3. /\ DOMAIN corpus' = DOMAIN corpus \cup {d} /\ corpus'[d] = row
        /\ \A e \in DOMAIN corpus \ {d} : corpus'[e] = corpus[e]
    BY <1>3 DEF With
  <2>4. Current(corpus', d) /\ \A e : Current(corpus, e) => Current(corpus', e)
    BY <1>4, <2>2, <2>3 DEF Current
  <2>5. Visible(run[s], run[s].seen, d) = Admitting(views, d)
    <3>1. run[s].prepared = Wanted /\ run[s].seen = views
      BY <1>1, <2>1 DEF CalmAt
    <3> QED
      BY <2>2, <3>1, OwnTeams
  <2>6. Stamped(corpus', d) /\ \A e : Stamped(corpus, e) => Stamped(corpus', e)
    BY <1>4, <2>3, <2>5 DEF Stamped
  <2>7. DOMAIN corpus' \subseteq Wanted /\ DOMAIN run[s].todo \subseteq Wanted
        /\ \A e \in Wanted \ DOMAIN run[s].todo : Current(corpus', e)
    BY <1>1, <2>1, <2>2, <2>3, <2>4 DEF CalmAt
  <2>8. \A e \in r.handled : Current(corpus', e) /\ Stamped(corpus', e)
    BY <1>1, <1>5, <1>6, <2>1, <2>4, <2>6 DEF CalmAt
  <2> QED
    BY <1>1, <1>6, <2>1, <2>7, <2>8 DEF CalmAt
<1> QED
  BY <1>1, <1>3, <1>6, <1>7, <1>8, CalmMoves

LEMMA SkipNewCalm ==
    ASSUME CalmInv, NEW s \in Slot, NEW d \in Doc, SkipNew(s, d)
    PROVE  CalmInv'
<1> DEFINE h == run[s].handled \cup {d}
           r == [run[s] EXCEPT !.handled = h, !.calm = FALSE]
<1>1. ~At(s, "none") /\ UNCHANGED <<upstream, views, calm>> /\ run[s].at = "embedding"
  BY DEF SkipNew, At
<1>2. PICK U : run[s] \in RunsOver(U)
  BY <1>1, RunInFlight DEF IsRun
<1>3. run' = [run EXCEPT ![s] = r]
  BY <1>2 DEF SkipNew, RunsOver
<1> HIDE DEF h
<1>4. r \in RunsOver(U \cup {h}) /\ r.at = "embedding" /\ ~r.calm
  BY <1>1, <1>2 DEF RunsOver
<1> HIDE DEF r
<1>5. IsRun(r)
  BY <1>4 DEF IsRun
<1> QED
  BY <1>1, <1>3, <1>4, <1>5, CalmMoves

\* Everything wanted is written: the corpus has converged.
LEMMA EmbeddedCalm ==
    ASSUME CalmInv, NEW s \in Slot, Embedded(s)
    PROVE  CalmInv'
<1> DEFINE q == [run[s] EXCEPT !.at = "finalize", !.seen = << >>]
           r == [q EXCEPT !.tries = 0]
<1>1. /\ ~At(s, "none") /\ UNCHANGED <<upstream, views, corpus, calm>>
      /\ run[s].at = "embedding" /\ ToWrite(run[s]) = {}
  BY DEF Embedded, At
<1>2. PICK U : run[s] \in RunsOver(U)
  BY <1>1, RunInFlight DEF IsRun
<1>3. run' = [run EXCEPT ![s] = r]
  BY DEF Embedded, Goes
<1>4. q \in RunsOver(U \cup {"finalize", << >>}) /\ q.at = "finalize"
      /\ q.calm = run[s].calm /\ q.prepared = run[s].prepared /\ q.todo = run[s].todo
  BY <1>2 DEF RunsOver
<1> HIDE DEF q
<1>5. r \in RunsOver(U \cup {"finalize", << >>, 0}) /\ r.at = "finalize"
      /\ r.calm = run[s].calm /\ r.prepared = run[s].prepared /\ r.todo = run[s].todo
  BY <1>4 DEF RunsOver
<1> HIDE DEF r
<1>6. IsRun(r)
  BY <1>5 DEF IsRun
<1>7. ASSUME r.calm PROVE CalmAt(r, corpus')
  <2>1. CalmAt(run[s], corpus)
    BY <1>1, <1>5, <1>7, RunInFlight
  <2>2. DOMAIN run[s].todo \subseteq Wanted /\ DOMAIN run[s].todo \subseteq run[s].handled
    <3>1. DOMAIN run[s].todo \subseteq Wanted
      BY <1>1, <2>1 DEF CalmAt
    <3> QED
      BY <1>1, <2>1, <3>1, WritesWanted
  <2>3. Converged(corpus)
    BY <1>1, <2>1, <2>2 DEF CalmAt, Converged, Current
  <2>4. \A d \in DOMAIN run[s].todo : Stamped(corpus, d)
    BY <1>1, <2>1, <2>2 DEF CalmAt
  <2>5. Converged(corpus') /\ \A d \in DOMAIN r.todo : Stamped(corpus', d)
    BY <1>1, <1>5, <2>3, <2>4
  <2> QED
    BY <1>5, <2>1, <2>5 DEF CalmAt
<1> QED
  BY <1>1, <1>3, <1>5, <1>6, <1>7, CalmMoves

\* A run that starts beside no other is undisturbed; any other is not from the start.
LEMMA StartCalm ==
    ASSUME CalmInv, NEW s \in Slot, NEW m \in Mode, Start(s, m)
    PROVE  CalmInv'
<1> DEFINE alone == \A q \in Slot : At(q, "none")
           entry == [at |-> "load", mode |-> m, tries |-> 0, fetched |-> << >>,
                     prepared |-> {}, todo |-> << >>, seen |-> << >>,
                     handled |-> {}, calm |-> alone]
<1>0. PICK r : r = entry
  OBVIOUS
<1>1. run' = [Disturbed EXCEPT ![s] = r] /\ calm' = FALSE
  BY <1>0 DEF Start
<1>2. /\ entry \in RunsOver({"load", m, 0, << >>, {}}) /\ entry.at = "load"
      /\ entry.calm = alone /\ entry.prepared = {} /\ entry.handled = {}
  BY DEF RunsOver
<1> HIDE DEF alone, entry
<1>3. IsRun(r)
  BY <1>0, <1>2 DEF IsRun
<1>4. /\ DOMAIN Disturbed = Slot
      /\ \A q \in Slot : \/ Disturbed[q] = NoRun
                         \/ IsRun(Disturbed[q]) /\ ~Disturbed[q].calm
  BY DisturbedCalm DEF Disturbed
<1>5. /\ DOMAIN run' = Slot /\ run'[s] = r
      /\ \A q \in Slot \ {s} : run'[q] = Disturbed[q]
  BY <1>1, <1>4
<1>6. RunsKnown'
  BY <1>3, <1>4, <1>5 DEF RunsKnown
<1>7. ASSUME NEW q \in Slot, run'[q].at # "none", run'[q].calm
      PROVE  q = s /\ alone
  BY <1>0, <1>2, <1>4, <1>5, <1>7 DEF NoRun
<1>8. alone => \A q \in Slot \ {s} : run'[q].at = "none"
  BY <1>5 DEF alone, At, Disturbed, NoRun
<1>9. CalmAt(r, corpus)'
  BY <1>0, <1>2 DEF CalmAt
<1>10. DOMAIN upstream' \subseteq Doc
  BY DEF Start, CalmInv
<1> QED
  BY <1>1, <1>5, <1>6, <1>7, <1>8, <1>9, <1>10 DEF CalmInv, At

LEMMA StepCalm ==
    ASSUME CalmInv, NEW s \in Slot, Step(s)
    PROVE  CalmInv'
<1>1. CASE AuthFails(s)
  BY <1>1, CalmEnds DEF AuthFails, Executes, At
<1>2. CASE Finalize(s)
  BY <1>2, CalmEnds DEF Finalize, Executes, At
<1> QED
  BY <1>1, <1>2, LoadCalm, FetchCalm, PrepareCalm, ReconcileCalm, EmbedCalm, WriteCalm,
     SkipNewCalm, EmbeddedCalm, ThrowsCalm DEF Step

LEMMA NextCalm == CalmInv /\ [Next]_vars => CalmInv'
<1> SUFFICES ASSUME CalmInv, [Next]_vars PROVE CalmInv'
  OBVIOUS
<1>1. ASSUME NEW a \in Admin, Begin(a) PROVE CalmInv'
  <2>1. DOMAIN upstream' \subseteq Doc
    BY <1>1 DEF Begin, AddRead, RemoveDelete, ReindexRead, ViewRead, CalmInv
  <2> QED
    BY <1>1, <2>1, CalmBeside
    DEF Begin, AddRead, RemoveDelete, ReindexRead, ViewRead, Disturb
<1>2. ASSUME NEW a \in Admin, Continue(a) PROVE CalmInv'
  <2>1. DOMAIN upstream' \subseteq Doc
    BY <1>2
    DEF Continue, AddInsert, AddCount, AddRevive, RemoveCount, RemoveMark, ReindexMark,
        ViewWrite, Emit, CalmInv
  <2> QED
    BY <1>2, <2>1, CalmBeside
    DEF Continue, AddInsert, AddCount, AddRevive, RemoveCount, RemoveMark, ReindexMark,
        ViewWrite, Emit, Disturb
<1>3. ASSUME NEW s \in Slot, Step(s) \/ \E m \in Mode : Start(s, m) PROVE CalmInv'
  BY <1>3, StepCalm, StartCalm
<1>4. ASSUME NEW gone \in SUBSET Doc, NEW edited \in SUBSET Doc,
             ProviderChanges(gone, edited)
      PROVE  CalmInv'
  <2>1. DOMAIN upstream' \subseteq Doc
    BY <1>4 DEF ProviderChanges, CalmInv
  <2> QED
    BY <1>4, <2>1, CalmBeside DEF ProviderChanges, Disturb
<1>5. CASE GraceEnds
  BY <1>5, CalmBeside DEF GraceEnds
<1>6. CASE PurgeRemovedSources
  BY <1>6, CalmBeside DEF PurgeRemovedSources, Disturb, CalmInv
<1>7. CASE UNCHANGED vars
  BY <1>7, CalmBeside DEF vars
<1> QED
  BY <1>1, <1>2, <1>3, <1>4, <1>5, <1>6, <1>7 DEF Next

LEMMA InitCalm == Init => CalmInv
<1> SUFFICES ASSUME Init PROVE CalmInv
  OBVIOUS
<1>1. RunsKnown /\ \A s \in Slot : At(s, "none")
  BY DEF Init, RunsKnown, NoRun, At
<1>2. calm = FALSE /\ DOMAIN upstream \subseteq Doc
  BY DEF Init
<1> QED
  BY <1>1, <1>2 DEF CalmInv

\* For any number of documents, runs and admins: a run
\* that nothing disturbed and that pruned leaves in the corpus exactly what the
\* provider has and some team admits, at the provider's versions, whatever earlier
\* runs left, in however many tries of its steps; and what was new or changed for it
\* is visible to exactly the teams that admit it.
THEOREM CalmRunConvergesAlways == Spec => []CalmRunConverges
<1>1. Spec => []CalmInv
  BY InitCalm, NextCalm, PTL DEF Spec
<1>2. CalmInv => CalmRunConverges
  BY DEF CalmInv, CalmRunConverges, CalmAt, Converged, Current, Stamped, At
<1> QED
  BY <1>1, <1>2, PTL
=============================================================================
