---------------------------- MODULE SecretsProofs ---------------------------
(***************************************************************************)
(* For any number of runs and refreshing processes: the record names the   *)
(* org's key, the mark of a row tells its format, a migration leaves       *)
(* nothing legacy, re-encryption puts nothing older back, and the refresh  *)
(* token that is stored lives or has a successor on its way.               *)
(***************************************************************************)
EXTENDS Secrets, TLAPS

-----------------------------------------------------------------------------
(***************************************************************************)
(* The shape of the state, and what a step does to the run that takes it.  *)
(***************************************************************************)
LEMMA InitTyped == Init => SecretsTypeOK
<1> SUFFICES ASSUME Init PROVE SecretsTypeOK
  OBVIOUS
<1>1. column \in Row /\ google \in Row
  BY DEF Init, Row, Format
<1>2. atlassian \in Connection
  BY DEF Init, Connection, Token, Format
<1>3. provider \in [issued : Nat, grants : Nat, used : SUBSET Nat, dead : SUBSET Nat]
  BY DEF Init
<1>4. kms \in [made : Nat, alias : Nat] /\ record \in [key : Nat, status : {"none"} \cup StatusAllowed]
  BY DEF Init
<1>5. job \in [Job -> {Idle} \cup Run] /\ caller \in [Caller -> {Idle} \cup Refreshing \cup Storing]
  BY DEF Init
<1> QED
  BY <1>1, <1>2, <1>3, <1>4, <1>5 DEF Init, SecretsTypeOK

LEMMA InFlight ==
    ASSUME SecretsTypeOK, NEW j \in Job, ~At(j, "none")
    PROVE  job[j] \in Run
BY DEF SecretsTypeOK, At, Idle

\* A run that goes on to another place.
LEMMA GoesOn ==
    ASSUME SecretsTypeOK, NEW j \in Job, ~At(j, "none"), NEW place \in Place, Goes(j, place)
    PROVE  /\ job' \in [Job -> {Idle} \cup Run]
           /\ job'[j].at = place /\ job'[j].kind = job[j].kind
           /\ \A i \in Job \ {j} : job'[i] = job[i]
<1>1. job[j] \in Run
  BY DEF SecretsTypeOK, At, Idle
<1>2. job' = [job EXCEPT ![j] = [job[j] EXCEPT !.at = place, !.key = 0, !.seen = Idle]]
  BY DEF Goes, SecretsTypeOK
<1>3. [job[j] EXCEPT !.at = place, !.key = 0, !.seen = Idle] \in Run
  BY <1>1 DEF Run
<1> QED
  BY <1>1, <1>2, <1>3 DEF SecretsTypeOK, Run

\* A run that has read a row.
LEMMA GoesOnWith ==
    ASSUME SecretsTypeOK, NEW j \in Job, ~At(j, "none"), NEW place \in Place,
           NEW seen \in Row \cup Connection, GoesWith(j, place, seen)
    PROVE  /\ job' \in [Job -> {Idle} \cup Run]
           /\ job'[j].at = place /\ job'[j].kind = job[j].kind /\ job'[j].seen = seen
           /\ \A i \in Job \ {j} : job'[i] = job[i]
<1>1. job[j] \in Run
  BY DEF SecretsTypeOK, At, Idle
<1>2. job' = [job EXCEPT ![j] = [job[j] EXCEPT !.at = place, !.seen = seen]]
  BY DEF GoesWith, SecretsTypeOK
<1>3. [job[j] EXCEPT !.at = place, !.seen = seen] \in Run
  BY <1>1 DEF Run
<1> QED
  BY <1>1, <1>2, <1>3 DEF SecretsTypeOK, Run

\* A run that gets hold of a key.
LEMMA GoesOnKeyed ==
    ASSUME SecretsTypeOK, NEW j \in Job, ~At(j, "none"), NEW place \in Place, NEW key \in Nat,
           job' = [job EXCEPT ![j].at = place, ![j].key = key]
    PROVE  /\ job' \in [Job -> {Idle} \cup Run]
           /\ job'[j].at = place /\ job'[j].kind = job[j].kind /\ job'[j].key = key
           /\ \A i \in Job \ {j} : job'[i] = job[i]
<1>1. job[j] \in Run
  BY DEF SecretsTypeOK, At, Idle
<1>2. job' = [job EXCEPT ![j] = [job[j] EXCEPT !.at = place, !.key = key]]
  BY DEF SecretsTypeOK
<1>3. [job[j] EXCEPT !.at = place, !.key = key] \in Run
  BY <1>1 DEF Run
<1> QED
  BY <1>1, <1>2, <1>3 DEF SecretsTypeOK, Run

LEMMA EndsIdle ==
    ASSUME SecretsTypeOK, NEW j \in Job, Ends(j)
    PROVE  /\ job' \in [Job -> {Idle} \cup Run]
           /\ job'[j].at = "none"
           /\ \A i \in Job \ {j} : job'[i] = job[i]
BY DEF Ends, SecretsTypeOK, Idle

LEMMA ReadsColumn ==
    ASSUME SecretsTypeOK, NEW j \in Job, ReadColumn(j)
    PROVE  /\ \/ /\ Takes(j, column)
                 /\ job'[j].at = "column write" /\ job'[j].kind = job[j].kind
                 /\ job'[j].seen = column
              \/ /\ ~(Takes(j, column))
                 /\ job'[j].at = "atlassian" /\ job'[j].kind = job[j].kind
           /\ \A i \in Job \ {j} : job'[i] = job[i]
<1>1. /\ ~At(j, "none") /\ column \in Row \cup Connection
      /\ "column write" \in Place /\ "atlassian" \in Place \cup {"none"}
  BY DEF ReadColumn, At, Place, SecretsTypeOK
<1>2. CASE Takes(j, column)
  BY <1>1, <1>2, GoesOnWith DEF ReadColumn
<1>3. CASE ~(Takes(j, column))
  BY <1>1, <1>3, GoesOn DEF ReadColumn, Place
<1> QED
  BY <1>2, <1>3

LEMMA ReadsAtlassian ==
    ASSUME SecretsTypeOK, NEW j \in Job, ReadAtlassian(j)
    PROVE  /\ \/ /\ atlassian.present /\ ~Probes(j)
                 /\ job'[j].at = "atlassian write" /\ job'[j].kind = job[j].kind
                 /\ job'[j].seen = atlassian
              \/ /\ ~(atlassian.present /\ ~Probes(j))
                 /\ job'[j].at = "google" /\ job'[j].kind = job[j].kind
           /\ \A i \in Job \ {j} : job'[i] = job[i]
<1>1. /\ ~At(j, "none") /\ atlassian \in Row \cup Connection
      /\ "atlassian write" \in Place /\ "google" \in Place \cup {"none"}
  BY DEF ReadAtlassian, At, Place, SecretsTypeOK
<1>2. CASE atlassian.present /\ ~Probes(j)
  BY <1>1, <1>2, GoesOnWith DEF ReadAtlassian
<1>3. CASE ~(atlassian.present /\ ~Probes(j))
  BY <1>1, <1>3, GoesOn DEF ReadAtlassian, Place
<1> QED
  BY <1>2, <1>3

LEMMA ReadsGoogle ==
    ASSUME SecretsTypeOK, NEW j \in Job, ReadGoogle(j)
    PROVE  /\ \/ /\ Takes(j, google)
                 /\ job'[j].at = "google write" /\ job'[j].kind = job[j].kind
                 /\ job'[j].seen = google
              \/ /\ ~(Takes(j, google))
                 /\ job'[j].at = "none"
           /\ \A i \in Job \ {j} : job'[i] = job[i]
<1>1. /\ ~At(j, "none") /\ google \in Row \cup Connection
      /\ "google write" \in Place /\ "none" \in Place \cup {"none"}
  BY DEF ReadGoogle, At, Place, SecretsTypeOK
<1>2. CASE Takes(j, google)
  BY <1>1, <1>2, GoesOnWith DEF ReadGoogle
<1>3. CASE ~(Takes(j, google))
  BY <1>1, <1>3, EndsIdle DEF ReadGoogle, Place
<1> QED
  BY <1>2, <1>3

\* Where a run that throws goes.
LEMMA Thrown ==
    ASSUME SecretsTypeOK, NEW j \in Job, Throws(j)
    PROVE  /\ job' \in [Job -> {Idle} \cup Run]
           /\ \/ job'[j].at = "none"
              \/ job'[j].at = StepOf(j) /\ job'[j].kind = job[j].kind /\ job'[j].key = job[j].key
           /\ \A i \in Job \ {j} : job'[i] = job[i]
<1>1. job[j] \in Run /\ StepOf(j) \in Place
  <2>1. job[j] \in Run /\ ~At(j, "none")
    BY InFlight DEF Throws
  <2> QED
    BY <2>1 DEF At, StepOf, Run, Place
<1> DEFINE again == [job[j] EXCEPT !.at = StepOf(j), !.tries = job[j].tries + 1, !.seen = Idle]
<1>2. again \in Run /\ again.at = StepOf(j) /\ again.kind = job[j].kind /\ again.key = job[j].key
  <2>1. job[j].tries + 1 \in Nat
    BY <1>1 DEF Run
  <2> QED
    BY <1>1, <2>1 DEF Run
<1>3. job' = [job EXCEPT ![j] = Idle] \/ job' = [job EXCEPT ![j] = again]
  <2>1. CASE job[j].tries = MaxRetries
    BY <2>1 DEF Throws
  <2>2. CASE job[j].tries # MaxRetries
    BY <2>2 DEF Throws
  <2> QED
    BY <2>1, <2>2
<1> HIDE DEF again
<1>4. CASE job' = [job EXCEPT ![j] = Idle]
  BY <1>4 DEF SecretsTypeOK, Idle
<1>5. CASE job' = [job EXCEPT ![j] = again]
  BY <1>2, <1>5 DEF SecretsTypeOK
<1> QED
  BY <1>3, <1>4, <1>5

LEMMA Begun ==
    ASSUME SecretsTypeOK, NEW j \in Job, NEW kind \in Kind, Start(j, kind)
    PROVE  /\ job' \in [Job -> {Idle} \cup Run]
           /\ job'[j].at = (IF kind = "rotate" THEN "column" ELSE "describe")
           /\ job'[j].kind = kind
           /\ \A i \in Job \ {j} : job'[i] = job[i]
<1> DEFINE entry == [kind |-> kind, tries |-> 0, key |-> 0, seen |-> Idle,
                     at |-> IF kind = "rotate" THEN "column" ELSE "describe"]
<1>1. entry \in Run
  BY DEF Run, Place, Kind
<1>2. job' = [job EXCEPT ![j] = entry]
  BY DEF Start
<1> HIDE DEF entry
<1>3. job' \in [Job -> {Idle} \cup Run] /\ job'[j] = entry
      /\ \A i \in Job \ {j} : job'[i] = job[i]
  BY <1>1, <1>2 DEF SecretsTypeOK
<1> QED
  BY <1>3 DEF entry

LEMMA SealedRow ==
    ASSUME NEW row \in Row, NEW value \in Nat
    PROVE  /\ Sealed(row, value) \in Row
           /\ Sealed(row, value).marked /\ Sealed(row, value).format = "kms"
           /\ Sealed(row, value).value = value /\ Sealed(row, value).seal = row.seal + 1
BY DEF Sealed, Row, Format

LEMMA StampedRow ==
    ASSUME NEW row \in Row
    PROVE  /\ Stamped(row) \in Row
           /\ Stamped(row).marked /\ Stamped(row).format = row.format
           /\ Stamped(row).value = row.value /\ Stamped(row).seal = row.seal
BY DEF Stamped, Row

\* What a run has read when it is about to write.
Reading(j) ==
    /\ job[j].at \in {"column write", "google write"} => job[j].seen \in Row
    /\ At(j, "atlassian write") => job[j].seen \in Connection /\ job[j].seen.present

Typed == SecretsTypeOK /\ \A j \in Job : Reading(j)

LEMMA ProvisionTyped ==
    ASSUME Typed, NEW j \in Job, Describe(j) \/ CreateKey(j) \/ CreateAlias(j) \/ Record(j)
    PROVE  Typed'
<1>0. \A i \in Job : Reading(i)
  BY DEF Typed
<1>1. SecretsTypeOK /\ job[j] \in Run
  BY DEF Typed, SecretsTypeOK, Describe, CreateKey, CreateAlias, Record, At, Idle
<1>2. /\ kms' \in [made : Nat, alias : Nat]
      /\ record' \in [key : Nat, status : {"none"} \cup StatusAllowed]
  <2>1. job[j].key \in Nat /\ kms.made \in Nat /\ kms \in [made : Nat, alias : Nat]
    BY <1>1 DEF SecretsTypeOK, Run
  <2>2. CASE Describe(j)
    BY <1>1, <2>2 DEF Describe, SecretsTypeOK, history
  <2>3. CASE CreateKey(j)
    BY <1>1, <2>1, <2>3 DEF CreateKey, SecretsTypeOK, history
  <2>4. CASE CreateAlias(j)
    BY <1>1, <2>1, <2>4 DEF CreateAlias, SecretsTypeOK, history
  <2>5. CASE Record(j)
    BY <1>1, <2>1, <2>5 DEF Record, Recorded, StatusAllowed, SecretsTypeOK, history
  <2> QED
    BY <2>2, <2>3, <2>4, <2>5
<1>3. /\ job' \in [Job -> {Idle} \cup Run] /\ \A i \in Job \ {j} : job'[i] = job[i]
      /\ job'[j].at \in {"none", "create", "alias", "record", "column"}
  <2>1. CASE Describe(j)
    BY <1>1, <2>1, GoesOnKeyed DEF Describe, Place, At, SecretsTypeOK
  <2>2. CASE CreateKey(j)
    <3>1. kms.made + 1 \in Nat
      BY <1>1 DEF SecretsTypeOK
    <3> QED
      BY <1>1, <2>2, <3>1, GoesOnKeyed DEF CreateKey, Place, At
  <2>3. CASE CreateAlias(j)
    BY <1>1, <1>2, <2>3, GoesOnKeyed DEF CreateAlias, Place, At, Adopted
  <2>4. CASE Record(j)
    BY <1>1, <2>4, GoesOn, EndsIdle DEF Record, Place, At
  <2> QED
    BY <2>1, <2>2, <2>3, <2>4
<1>4. migrated' \in BOOLEAN
  BY <1>1 DEF SecretsTypeOK, Describe, CreateKey, CreateAlias, Record, Ends, history
<1>5. SecretsTypeOK'
  BY <1>1, <1>2, <1>3, <1>4 DEF SecretsTypeOK, Describe, CreateKey, CreateAlias, Record, rows, history
<1> QED
  BY <1>0, <1>3, <1>5 DEF Typed, Reading, At

LEMMA MigrateTyped ==
    ASSUME Typed, NEW j \in Job,
           \/ ReadColumn(j) \/ RewriteColumn(j) \/ ReadAtlassian(j) \/ RewriteAtlassian(j)
           \/ ReadGoogle(j) \/ RewriteGoogle(j)
    PROVE  Typed'
<1>0. SecretsTypeOK /\ \A i \in Job : Reading(i)
  BY DEF Typed
<1>1. job[j] \in Run
  <2>1. ~At(j, "none")
    BY DEF ReadColumn, RewriteColumn, ReadAtlassian, RewriteAtlassian, ReadGoogle, RewriteGoogle, At
  <2> QED
    BY <1>0, <2>1, InFlight
<1>2. column' \in Row /\ google' \in Row
  <2>1. CASE RewriteColumn(j)
    <3>1. job[j].seen \in Row /\ column \in Row /\ job[j].seen.value \in Nat
      BY <1>0, <2>1 DEF SecretsTypeOK, RewriteColumn, Reading, At, Row
    <3> QED
      BY <1>0, <2>1, <3>1, SealedRow, StampedRow DEF RewriteColumn, Migrated, Rotated, SecretsTypeOK
  <2>2. CASE RewriteGoogle(j)
    <3>1. job[j].seen \in Row /\ google \in Row /\ job[j].seen.value \in Nat
      BY <1>0, <2>2 DEF SecretsTypeOK, RewriteGoogle, Reading, At, Row
    <3> QED
      BY <1>0, <2>2, <3>1, SealedRow, StampedRow DEF RewriteGoogle, Migrated, SecretsTypeOK
  <2> QED
    BY <1>0, <2>1, <2>2 DEF ReadColumn, ReadAtlassian, RewriteAtlassian, ReadGoogle, SecretsTypeOK,
       rows
<1>3. atlassian' \in Connection
  <2>1. CASE RewriteAtlassian(j)
    <3>1. job[j].seen \in Connection /\ atlassian \in Connection
      BY <1>0, <2>1 DEF SecretsTypeOK, RewriteAtlassian, Reading, At
    <3> QED
      BY <2>1, <3>1 DEF RewriteAtlassian, Rewritten, Connection, Format
  <2> QED
    BY <1>0, <2>1 DEF ReadColumn, ReadAtlassian, RewriteColumn, RewriteGoogle, ReadGoogle,
       SecretsTypeOK, rows
<1>4. /\ job' \in [Job -> {Idle} \cup Run] /\ \A i \in Job \ {j} : job'[i] = job[i]
      /\ Reading(j)'
  <2>1. CASE ReadColumn(j)
    <3>1. CASE Goes(j, "atlassian")
      BY <1>0, <2>1, <3>1, GoesOn DEF ReadColumn, Place, At, Reading
    <3>2. CASE GoesWith(j, "column write", column)
      <4>1. column \in Row \cup Connection /\ column \in Row
        BY <1>0 DEF SecretsTypeOK
      <4>2. ~At(j, "none") /\ "column write" \in Place
        BY <2>1 DEF ReadColumn, At, Place
      <4> QED
        BY <1>0, <3>2, <4>1, <4>2, GoesOnWith DEF At, Reading
    <3> QED
      BY <2>1, <3>1, <3>2 DEF ReadColumn
  <2>2. CASE RewriteColumn(j)
    BY <1>0, <2>2, GoesOn DEF RewriteColumn, Place, At, Reading
  <2>3. CASE ReadAtlassian(j)
    <3>1. CASE Goes(j, "google")
      BY <1>0, <2>3, <3>1, GoesOn DEF ReadAtlassian, Place, At, Reading
    <3>2. CASE GoesWith(j, "atlassian write", atlassian) /\ atlassian.present
      <4>1. atlassian \in Row \cup Connection /\ atlassian \in Connection
        BY <1>0 DEF SecretsTypeOK
      <4>2. ~At(j, "none") /\ "atlassian write" \in Place
        BY <2>3 DEF ReadAtlassian, At, Place
      <4> QED
        BY <1>0, <3>2, <4>1, <4>2, GoesOnWith DEF At, Reading
    <3> QED
      BY <2>3, <3>1, <3>2 DEF ReadAtlassian
  <2>4. CASE RewriteAtlassian(j)
    BY <1>0, <2>4, GoesOn DEF RewriteAtlassian, Place, At, Reading
  <2>5. CASE ReadGoogle(j)
    <3>1. CASE Ends(j)
      BY <1>0, <3>1, EndsIdle DEF At, Reading
    <3>2. CASE GoesWith(j, "google write", google)
      <4>1. google \in Row \cup Connection /\ google \in Row
        BY <1>0 DEF SecretsTypeOK
      <4>2. ~At(j, "none") /\ "google write" \in Place
        BY <2>5 DEF ReadGoogle, At, Place
      <4> QED
        BY <1>0, <3>2, <4>1, <4>2, GoesOnWith DEF At, Reading
    <3> QED
      BY <2>5, <3>1, <3>2 DEF ReadGoogle
  <2>6. CASE RewriteGoogle(j)
    BY <1>0, <2>6, EndsIdle DEF RewriteGoogle, At, Reading
  <2> QED
    BY <2>1, <2>2, <2>3, <2>4, <2>5, <2>6
<1>5. migrated' \in BOOLEAN
  BY <1>0 DEF SecretsTypeOK, ReadColumn, RewriteColumn, ReadAtlassian, RewriteAtlassian,
     ReadGoogle, RewriteGoogle, Ends, history
<1>6. SecretsTypeOK'
  BY <1>0, <1>2, <1>3, <1>4, <1>5 DEF SecretsTypeOK, ReadColumn, RewriteColumn, ReadAtlassian,
     RewriteAtlassian, ReadGoogle, RewriteGoogle, rows, history
<1> QED
  BY <1>0, <1>4, <1>6 DEF Typed, Reading, At

LEMMA RunTyped ==
    ASSUME Typed, NEW j \in Job, Throws(j) \/ \E kind \in Kind : Start(j, kind)
    PROVE  Typed'
<1>0. SecretsTypeOK /\ \A i \in Job : Reading(i)
  BY DEF Typed
<1>1. /\ job' \in [Job -> {Idle} \cup Run] /\ \A i \in Job \ {j} : job'[i] = job[i]
      /\ job'[j].at \notin {"column write", "google write", "atlassian write"}
  <2>1. CASE Throws(j)
    BY <1>0, <2>1, Thrown DEF StepOf
  <2> QED
    BY <1>0, <2>1, Begun
<1>2. SecretsTypeOK'
  BY <1>0, <1>1 DEF SecretsTypeOK, Throws, Start, rows, history
<1> QED
  BY <1>0, <1>1, <1>2 DEF Typed, Reading, At

LEMMA CallerTyped ==
    ASSUME Typed, NEW c \in Caller, ReadConnection(c) \/ Refresh(c) \/ StorePair(c) \/ PairLost(c)
    PROVE  Typed'
<1>0. SecretsTypeOK /\ atlassian \in Connection
  BY DEF Typed, SecretsTypeOK
<1>1. /\ provider' \in [issued : Nat, grants : Nat, used : SUBSET Nat, dead : SUBSET Nat]
      /\ caller' \in [Caller -> {Idle} \cup Refreshing \cup Storing]
  <2>1. CASE ReadConnection(c)
    BY <1>0, <2>1 DEF ReadConnection, CallerGoes, SecretsTypeOK, Refreshing
  <2>2. CASE Refresh(c)
    <3>1. caller[c].seen \in Connection
      BY <1>0, <2>2 DEF Refresh, SecretsTypeOK, Refreshing, Storing, Idle
    <3> DEFINE token == caller[c].seen.token
    <3>2. token \in Token /\ token.n \in Nat /\ Issue(token.grant) \in Token
      BY <1>0, <3>1 DEF Connection, Token, Issue, SecretsTypeOK
    <3>3. [at |-> "store", seen |-> caller[c].seen, token |-> Issue(token.grant)] \in Storing
      BY <3>1, <3>2 DEF Storing
    <3>4. provider' \in [issued : Nat, grants : Nat, used : SUBSET Nat, dead : SUBSET Nat]
      <4>1. provider \in [issued : Nat, grants : Nat, used : SUBSET Nat, dead : SUBSET Nat]
        BY <1>0 DEF SecretsTypeOK
      <4>2. \/ provider' = provider
            \/ provider' = [provider EXCEPT !.issued = provider.issued + 1,
                                            !.used = provider.used \cup {token.n}]
        BY <2>2 DEF Refresh
      <4>3. provider.used \cup {token.n} \in SUBSET Nat /\ provider.issued + 1 \in Nat
        BY <3>2, <4>1
      <4> HIDE DEF token
      <4> QED
        BY <4>1, <4>2, <4>3
    <3> HIDE DEF token
    <3>5. \/ caller' = [caller EXCEPT ![c] = Idle]
          \/ caller' = [caller EXCEPT ![c] = [at |-> "store", seen |-> caller[c].seen,
                                              token |-> Issue(token.grant)]]
      BY <2>2 DEF Refresh, CallerGoes, token
    <3> QED
      BY <1>0, <3>3, <3>4, <3>5 DEF SecretsTypeOK
  <2>3. CASE StorePair(c) \/ PairLost(c)
    BY <1>0, <2>3 DEF StorePair, PairLost, CallerGoes, SecretsTypeOK
  <2> QED
    BY <2>1, <2>2, <2>3
<1>2. atlassian' \in Connection
  <2>1. CASE StorePair(c)
    <3>1. caller[c] \in Storing
      BY <1>0, <2>1 DEF StorePair, SecretsTypeOK, Refreshing, Idle
    <3>2. caller[c].seen.version + 1 \in Nat /\ caller[c].token \in Token
      BY <3>1 DEF Storing, Connection
    <3> QED
      BY <1>0, <2>1, <3>2 DEF StorePair, Connection, Format
  <2> QED
    BY <1>0, <2>1 DEF ReadConnection, Refresh, PairLost, rows
<1>3. lost' \in BOOLEAN /\ UNCHANGED <<migrated, crossed>>
  BY <1>0 DEF SecretsTypeOK, ReadConnection, Refresh, StorePair, PairLost, history
<1>4. UNCHANGED <<kms, record, column, google, job>>
  BY DEF ReadConnection, Refresh, StorePair, PairLost, rows
<1> QED
  BY <1>0, <1>1, <1>2, <1>3, <1>4 DEF Typed, SecretsTypeOK, Reading, At

LEMMA OwnTyped ==
    ASSUME Typed, WriteColumn \/ SignIn \/ Connect \/ Disconnect \/ WindowEnds \/ Revoke
    PROVE  Typed'
<1>0. SecretsTypeOK /\ column \in Row /\ google \in Row /\ atlassian \in Connection
  BY DEF Typed, SecretsTypeOK
<1>1. column' \in Row /\ google' \in Row
  <2>1. column.value + 1 \in Nat /\ google.value + 1 \in Nat
    BY <1>0 DEF Row
  <2> QED
    BY <1>0, <2>1, SealedRow DEF WriteColumn, SignIn, Connect, Disconnect, WindowEnds, Revoke, rows
<1>a. provider \in [issued : Nat, grants : Nat, used : SUBSET Nat, dead : SUBSET Nat]
  BY <1>0 DEF SecretsTypeOK
<1>2. atlassian' \in Connection
  <2>1. CASE Connect
    <3>1. Issue(provider.grants + 1) \in Token
      BY <1>a DEF Issue, Token
    <3>2. atlassian.id \in Nat /\ atlassian.id + 1 \in Nat
      BY <1>0 DEF Connection
    <3> QED
      BY <2>1, <3>1, <3>2 DEF Connect, Connection, Format
  <2> QED
    BY <1>0, <2>1 DEF WriteColumn, SignIn, Disconnect, WindowEnds, Revoke, rows, Connection
<1>3. provider' \in [issued : Nat, grants : Nat, used : SUBSET Nat, dead : SUBSET Nat]
  <2>1. CASE Connect
    <3>1. provider.issued + 1 \in Nat /\ provider.grants + 1 \in Nat
      BY <1>a
    <3> QED
      BY <1>a, <2>1, <3>1 DEF Connect
  <2>2. CASE WindowEnds
    BY <1>a, <2>2 DEF WindowEnds
  <2> QED
    BY <1>a, <2>1, <2>2 DEF WriteColumn, SignIn, Disconnect, Revoke
<1>4. record' \in [key : Nat, status : {"none"} \cup StatusAllowed]
  BY <1>0 DEF WriteColumn, SignIn, Connect, Disconnect, WindowEnds, Revoke, SecretsTypeOK,
     StatusAllowed
<1>5. migrated' \in BOOLEAN /\ lost' \in BOOLEAN /\ crossed' \in BOOLEAN
  BY <1>0 DEF WriteColumn, SignIn, Connect, Disconnect, WindowEnds, Revoke, SecretsTypeOK, history
<1>6. UNCHANGED <<kms, job, caller>>
  BY DEF WriteColumn, SignIn, Connect, Disconnect, WindowEnds, Revoke
<1> QED
  BY <1>0, <1>1, <1>2, <1>3, <1>4, <1>5, <1>6 DEF Typed, SecretsTypeOK, Reading, At

LEMMA NextTyped == Typed /\ [Next]_vars => Typed'
<1> SUFFICES ASSUME Typed, [Next]_vars PROVE Typed'
  OBVIOUS
<1>1. CASE UNCHANGED vars
  BY <1>1 DEF Typed, SecretsTypeOK, Reading, At, vars, history
<1> QED
  BY <1>1, ProvisionTyped, MigrateTyped, RunTyped, CallerTyped, OwnTyped DEF Next, JobStep

LEMMA AlwaysTyped == Spec => []Typed
<1>1. Init => Typed
  <2>1. Init => \A j \in Job : Reading(j)
    <3>1. Init => \A j \in Job : job[j].at = "none"
      BY DEF Init, Idle
    <3> QED
      BY <3>1 DEF Reading, At
  <2> QED
    BY <2>1, InitTyped DEF Typed
<1> QED
  BY <1>1, NextTyped, PTL DEF Spec

-----------------------------------------------------------------------------
(***************************************************************************)
(* The record: a run carries the key it will record, and once the alias is *)
(* there that is the key the alias names.                                  *)
(***************************************************************************)
Carries(j) ==
    /\ At(j, "alias") => job[j].key # 0
    /\ At(j, "record") => job[j].key = kms.alias /\ kms.alias # 0

KeyInv == RecordNamesTheKey /\ \A j \in Job : Carries(j)

LEMMA ProvisionKeys ==
    ASSUME Typed, KeyInv, NEW j \in Job, Describe(j) \/ CreateKey(j) \/ CreateAlias(j) \/ Record(j)
    PROVE  KeyInv'
<1>0. SecretsTypeOK /\ RecordNamesTheKey /\ \A i \in Job : Carries(i)
  BY DEF Typed, KeyInv
<1>1. ~At(j, "none") /\ job[j] \in Run
  <2>1. ~At(j, "none")
    BY DEF Describe, CreateKey, CreateAlias, Record, At
  <2> QED
    BY <1>0, <2>1, InFlight
<1>2. kms.made \in Nat /\ kms.alias \in Nat /\ kms \in [made : Nat, alias : Nat]
  BY <1>0 DEF SecretsTypeOK
<1>3. CASE Describe(j)
  <2>1. UNCHANGED <<kms, record>>
    BY <1>3 DEF Describe
  <2>2. Carries(j)' /\ \A i \in Job \ {j} : job'[i] = job[i]
    BY <1>0, <1>1, <1>2, <1>3, GoesOnKeyed DEF Describe, Place, Carries, At
  <2> QED
    BY <1>0, <2>1, <2>2 DEF KeyInv, Carries, At, RecordNamesTheKey
<1>4. CASE CreateKey(j)
  <2>1. kms'.alias = kms.alias /\ UNCHANGED record
    BY <1>2, <1>4 DEF CreateKey
  <2>2. kms.made + 1 \in Nat /\ kms.made + 1 # 0
    BY <1>2
  <2>3. Carries(j)' /\ \A i \in Job \ {j} : job'[i] = job[i]
    BY <1>0, <1>1, <1>4, <2>2, GoesOnKeyed DEF CreateKey, Place, Carries, At
  <2> QED
    BY <1>0, <2>1, <2>3 DEF KeyInv, Carries, At, RecordNamesTheKey
<1>5. CASE CreateAlias(j)
  <2>1. job[j].key # 0 /\ job[j].key \in Nat
    BY <1>0, <1>1, <1>5 DEF Carries, CreateAlias, Run
  <2>2. kms'.alias # 0 /\ kms'.alias \in Nat /\ (kms.alias # 0 => kms'.alias = kms.alias)
    BY <1>2, <1>5, <2>1 DEF CreateAlias
  <2>3. Carries(j)' /\ \A i \in Job \ {j} : job'[i] = job[i]
    BY <1>0, <1>1, <1>5, <2>2, GoesOnKeyed DEF CreateAlias, Adopted, Place, Carries, At
  <2>4. UNCHANGED record
    BY <1>5 DEF CreateAlias
  <2> QED
    BY <1>0, <2>2, <2>3, <2>4 DEF KeyInv, Carries, At, RecordNamesTheKey
<1>6. CASE Record(j)
  <2>1. UNCHANGED kms /\ record'.key = kms.alias /\ kms.alias # 0
    BY <1>0, <1>6 DEF Record, Recorded, Carries
  <2>2. Carries(j)' /\ \A i \in Job \ {j} : job'[i] = job[i]
    BY <1>0, <1>1, <1>6, GoesOn, EndsIdle DEF Record, Place, Carries, At
  <2> QED
    BY <1>0, <2>1, <2>2 DEF KeyInv, Carries, At, RecordNamesTheKey
<1> QED
  BY <1>3, <1>4, <1>5, <1>6

LEMMA OtherKeys ==
    ASSUME Typed, KeyInv, NEW j \in Job,
           \/ ReadColumn(j) \/ RewriteColumn(j) \/ ReadAtlassian(j) \/ RewriteAtlassian(j)
           \/ ReadGoogle(j) \/ RewriteGoogle(j) \/ Throws(j) \/ \E kind \in Kind : Start(j, kind)
    PROVE  KeyInv'
<1>0. SecretsTypeOK /\ RecordNamesTheKey /\ \A i \in Job : Carries(i)
  BY DEF Typed, KeyInv
<1>1. UNCHANGED <<kms, record>>
  BY DEF ReadColumn, RewriteColumn, ReadAtlassian, RewriteAtlassian, ReadGoogle, RewriteGoogle,
     Throws, Start
<1>2. Carries(j)' /\ \A i \in Job \ {j} : job'[i] = job[i]
  <2>1. CASE Throws(j)
    <3>1. StepOf(j) \in {"alias", "record"} => job[j].at = StepOf(j)
      BY DEF StepOf
    <3> QED
      BY <1>0, <1>1, <2>1, <3>1, Thrown DEF Carries, At
  <2>2. CASE \E kind \in Kind : Start(j, kind)
    BY <1>0, <2>2, Begun DEF Carries, At
  <2>3. CASE RewriteColumn(j) \/ RewriteAtlassian(j) \/ RewriteGoogle(j)
    BY <1>0, <2>3, GoesOn, EndsIdle DEF RewriteColumn, RewriteAtlassian, RewriteGoogle, At, Place,
       Carries
  <2>4. CASE ReadColumn(j) \/ ReadAtlassian(j) \/ ReadGoogle(j)
    BY <1>0, <2>4, ReadsColumn, ReadsAtlassian, ReadsGoogle DEF Carries, At
  <2> QED
    BY <2>1, <2>2, <2>3, <2>4
<1> QED
  BY <1>0, <1>1, <1>2 DEF KeyInv, Carries, At, RecordNamesTheKey

\* The record names the key the alias names: however many runs provision the org at
\* once, and whichever call of theirs fails.
THEOREM RecordNamesTheKeyAlways == Spec => []RecordNamesTheKey
<1>1. Init => KeyInv
  <2> SUFFICES ASSUME Init PROVE KeyInv
    OBVIOUS
  <2>1. \A j \in Job : job[j].at = "none"
    BY DEF Init, Idle
  <2> QED
    BY <2>1 DEF Init, KeyInv, RecordNamesTheKey, Carries, At
<1>2. Typed /\ KeyInv /\ [Next]_vars => KeyInv'
  <2> SUFFICES ASSUME Typed, KeyInv, [Next]_vars PROVE KeyInv'
    OBVIOUS
  <2>1. CASE UNCHANGED <<kms, record, job>>
    BY <2>1 DEF KeyInv, Carries, At, RecordNamesTheKey
  <2>2. CASE Revoke
    BY <2>2 DEF Revoke, KeyInv, Carries, At, RecordNamesTheKey, Typed, SecretsTypeOK
  <2>3. ASSUME NEW j \in Job, JobStep(j) \/ \E kind \in Kind : Start(j, kind)
        PROVE  KeyInv'
    BY <2>3, ProvisionKeys, OtherKeys DEF JobStep
  <2>4. CASE WriteColumn \/ SignIn \/ Connect \/ Disconnect \/ WindowEnds
             \/ \E c \in Caller : ReadConnection(c) \/ Refresh(c) \/ StorePair(c) \/ PairLost(c)
    BY <2>1, <2>4 DEF WriteColumn, SignIn, Connect, Disconnect, WindowEnds, ReadConnection, Refresh,
       StorePair, PairLost
  <2> QED
    BY <2>1, <2>2, <2>3, <2>4 DEF Next, vars
<1>3. KeyInv => RecordNamesTheKey
  BY DEF KeyInv
<1> QED
  BY <1>1, <1>2, <1>3, AlwaysTyped, PTL DEF Spec

-----------------------------------------------------------------------------
(***************************************************************************)
(* The marked rows. What a run has read of one is a snapshot of it: if the *)
(* row has not been sealed since, it still says the same, and a row that   *)
(* is not yet marked has not been.                                         *)
(***************************************************************************)
Snapshot(seen, row) ==
    /\ seen.seal <= row.seal
    /\ seen.seal = row.seal => seen.value = row.value /\ seen.format = row.format

Reads(j, place, row) ==
    At(j, place) =>
        /\ Snapshot(job[j].seen, row)
        /\ Is(j, "migrate") /\ ~row.marked => job[j].seen.seal = row.seal

Told(row) == row.format # "none" => (row.marked <=> row.format = "kms")

\* What a migration has behind it stays marked.
DealtWith(j) ==
    Is(j, "migrate") /\ job[j].at \in {"atlassian", "atlassian write", "google", "google write"} =>
        column.marked

Settled(j) ==
    /\ Reads(j, "column write", column) /\ Reads(j, "google write", google)
    /\ At(j, "none") \/ DealtWith(j)

MarkInv ==
    /\ Told(column) /\ Told(google)
    /\ \A j \in Job : Settled(j)
    /\ migrated => column.marked /\ google.marked

\* All that is ever done to a row.
Later(row, next) ==
    next = row \/ next = Stamped(row) \/ \E value \in Nat : next = Sealed(row, value)

LEMMA LaterKeeps ==
    ASSUME NEW row \in Row, NEW next, Later(row, next)
    PROVE  /\ row.marked => next.marked
           /\ next.seal >= row.seal
           /\ next.seal = row.seal => next.value = row.value /\ next.format = row.format
           /\ ~next.marked => next.seal = row.seal
<1>1. row.seal \in Nat
  BY DEF Row
<1>2. CASE next = row
  BY <1>1, <1>2
<1>3. CASE next = Stamped(row)
  BY <1>1, <1>3, StampedRow
<1>4. ASSUME NEW value \in Nat, next = Sealed(row, value) PROVE next.marked /\ next.seal = row.seal + 1
  BY <1>4, SealedRow
<1> QED
  BY <1>1, <1>2, <1>3, <1>4 DEF Later

\* A snapshot outlives what is done to the row.
LEMMA SnapshotKept ==
    ASSUME NEW seen \in Row, NEW row \in Row, NEW next \in Row, Later(row, next),
           Snapshot(seen, row)
    PROVE  /\ Snapshot(seen, next)
           /\ ~next.marked => ~row.marked /\ next.seal = row.seal
<1>1. seen.seal \in Nat /\ row.seal \in Nat /\ next.seal \in Nat
  BY DEF Row
<1> QED
  BY <1>1, LaterKeeps DEF Snapshot

LEMMA SnapshotOfItself ==
    ASSUME NEW row \in Row
    PROVE  Snapshot(row, row)
BY DEF Snapshot, Row

\* A migration that writes what it has read leaves a row whose mark tells its format.
LEMMA MigratedTold ==
    ASSUME NEW row \in Row, NEW seen \in Row, Told(row), Snapshot(seen, row),
           ~row.marked => seen.seal = row.seal
    PROVE  /\ Later(row, Migrated(row, seen)) /\ Told(Migrated(row, seen))
           /\ Migrated(row, seen).marked
           /\ Migrated(row, seen).value = row.value
<1>1. seen.value \in Nat
  BY DEF Row
<1>2. CASE seen.format = "none"
  BY <1>2, StampedRow DEF Migrated, Later, Told, Snapshot
<1>3. CASE seen.format # "none" /\ row.marked
  BY <1>3 DEF Migrated, Later
<1>4. CASE seen.format # "none" /\ ~row.marked
  BY <1>1, <1>4, SealedRow DEF Migrated, Later, Told, Snapshot
<1> QED
  BY <1>2, <1>3, <1>4

LEMMA SealedTold ==
    ASSUME NEW row \in Row, NEW value \in Nat
    PROVE  Later(row, Sealed(row, value)) /\ Told(Sealed(row, value))
BY SealedRow DEF Later, Told

LEMMA RotatedTold ==
    ASSUME NEW row \in Row, NEW seen \in Row, Told(row), Snapshot(seen, row)
    PROVE  /\ Later(row, Rotated(row, seen)) /\ Told(Rotated(row, seen))
           /\ Rotated(row, seen).value = row.value
<1>1. seen.value \in Nat
  BY DEF Row
<1> QED
  BY <1>1, SealedRow DEF Rotated, Later, Told, Snapshot

\* A step after which the rows are what they were or later, and each run is where it
\* was or has settled.
LEMMA MarksKept ==
    ASSUME Typed, MarkInv, Typed', Later(column, column'), Later(google, google'),
           Told(column'), Told(google'),
           migrated' => column'.marked /\ google'.marked,
           \A i \in Job : job'[i] = job[i] \/ Settled(i)'
    PROVE  MarkInv'
<1>1. column \in Row /\ google \in Row /\ column' \in Row /\ google' \in Row
  BY DEF Typed, SecretsTypeOK
<1>2. column.marked => column'.marked
  BY <1>1, LaterKeeps
<1>3. ASSUME NEW i \in Job, job'[i] = job[i]
      PROVE  Reads(i, "column write", column)' /\ Reads(i, "google write", google)'
  <2>1. job'[i] = job[i] /\ Reading(i) /\ Reads(i, "column write", column)
        /\ Reads(i, "google write", google)
    BY <1>3 DEF Typed, MarkInv, Settled
  <2>3. CASE At(i, "column write")
    <3>1. job[i].seen \in Row /\ ~At(i, "google write")
      BY <2>1, <2>3 DEF Reading, At
    <3> QED
      <4>1. Snapshot(job[i].seen, column)
        BY <2>1, <2>3 DEF Reads
      <4>2. Snapshot(job[i].seen, column') /\ (~column'.marked => ~column.marked /\ column'.seal = column.seal)
        BY <1>1, <3>1, <4>1, SnapshotKept
      <4> QED
        BY <2>1, <2>3, <3>1, <4>2 DEF Reads, At, Is
  <2>4. CASE At(i, "google write")
    <3>1. job[i].seen \in Row /\ ~At(i, "column write")
      BY <2>1, <2>4 DEF Reading, At
    <3> QED
      <4>1. Snapshot(job[i].seen, google)
        BY <2>1, <2>4 DEF Reads
      <4>2. Snapshot(job[i].seen, google') /\ (~google'.marked => ~google.marked /\ google'.seal = google.seal)
        BY <1>1, <3>1, <4>1, SnapshotKept
      <4> QED
        BY <2>1, <2>4, <3>1, <4>2 DEF Reads, At, Is
  <2> QED
    BY <2>1, <2>3, <2>4 DEF Reads, At
<1>4. ASSUME NEW i \in Job, job'[i] = job[i] PROVE At(i, "none")' \/ DealtWith(i)'
  BY <1>2, <1>4 DEF MarkInv, Settled, DealtWith, At, Is
<1>5. \A i \in Job : Settled(i)'
  BY <1>3, <1>4 DEF Settled
<1> QED
  BY <1>5 DEF MarkInv

\* Where the other steps of a run lead: not to a row, nor past one for a migration.
LEMMA ProvisionMoves ==
    ASSUME Typed, Typed', NEW j \in Job,
           \/ Describe(j) \/ CreateKey(j) \/ CreateAlias(j) \/ Record(j)
           \/ Throws(j) \/ \E kind \in Kind : Start(j, kind)
    PROVE  /\ \A i \in Job \ {j} : job'[i] = job[i]
           /\ \/ job'[j].at \in {"none", "describe", "create", "alias", "record", "column"}
              \/ /\ job'[j].kind # "migrate"
                 /\ job'[j].at \notin {"column write", "google write", "atlassian write"}
<1>0. SecretsTypeOK
  BY DEF Typed
<1>1. CASE Describe(j)
  BY <1>0, <1>1, GoesOnKeyed DEF Describe, Place, At, SecretsTypeOK
<1>2. CASE CreateKey(j)
  <2>1. kms.made + 1 \in Nat
    BY <1>0 DEF SecretsTypeOK
  <2> QED
    BY <1>0, <1>2, <2>1, GoesOnKeyed DEF CreateKey, Place, At
<1>3. CASE CreateAlias(j)
  <2>1. Adopted(j) \in Nat
    BY DEF Typed, SecretsTypeOK, Adopted
  <2> QED
    BY <1>0, <1>3, <2>1, GoesOnKeyed DEF CreateAlias, Place, At
<1>4. CASE Record(j)
  BY <1>0, <1>4, GoesOn, EndsIdle DEF Record, Place, At
<1>5. CASE Throws(j)
  <2>1. StepOf(j) \notin {"column write", "google write", "atlassian write"}
    BY DEF StepOf
  <2>2. StepOf(j) = "describe" \/ Is(j, "rotate")
    BY DEF StepOf
  <2> QED
    BY <1>0, <1>5, <2>1, <2>2, Thrown DEF Is
<1>6. CASE \E kind \in Kind : Start(j, kind)
  BY <1>0, <1>6, Begun
<1> QED
  BY <1>0, <1>1, <1>2, <1>3, <1>4, <1>5, <1>6

\* The steps of a run that leave the rows alone and do not come from, or go to, one
\* of them.
LEMMA ProvisionMarks ==
    ASSUME Typed, MarkInv, Typed', NEW j \in Job,
           \/ Describe(j) \/ CreateKey(j) \/ CreateAlias(j) \/ Record(j)
           \/ Throws(j) \/ \E kind \in Kind : Start(j, kind)
    PROVE  MarkInv'
<1>0. SecretsTypeOK
  BY DEF Typed
<1>1. /\ UNCHANGED <<column, google>>
      /\ migrated' => migrated
  <2>1. CASE Record(j)
    <3>1. UNCHANGED migrated \/ (Is(j, "provision") /\ migrated' = (migrated \/ Is(j, "migrate")))
      BY <2>1 DEF Record, Ends
    <3>2. Is(j, "provision") => ~Is(j, "migrate")
      BY DEF Is
    <3>3. UNCHANGED <<column, google>>
      BY <2>1 DEF Record, rows
    <3> QED
      BY <1>0, <3>1, <3>2, <3>3 DEF SecretsTypeOK
  <2> QED
    BY <2>1 DEF Describe, CreateKey, CreateAlias, Throws, Start, rows, history
<1>2. /\ \A i \in Job \ {j} : job'[i] = job[i]
      /\ \/ job'[j].at \in {"none", "describe", "create", "alias", "record", "column"}
         \/ job'[j].kind # "migrate" /\ job'[j].at \notin {"column write", "google write"}
  BY ProvisionMoves
<1>3. Settled(j)'
  BY <1>2 DEF Settled, Reads, At, DealtWith, Is
<1>4. Later(column, column') /\ Later(google, google') /\ Told(column') /\ Told(google')
      /\ (migrated' => column'.marked /\ google'.marked)
  BY <1>1 DEF Later, MarkInv
<1> QED
  BY <1>2, <1>3, <1>4, MarksKept

LEMMA ColumnMarks ==
    ASSUME Typed, MarkInv, Typed', NEW j \in Job, ReadColumn(j) \/ RewriteColumn(j)
    PROVE  MarkInv' /\ column'.value = column.value
<1>0. SecretsTypeOK /\ column \in Row /\ column.seal \in Nat
  BY DEF Typed, SecretsTypeOK, Row
<1>1. UNCHANGED <<google, migrated>>
  BY DEF ReadColumn, RewriteColumn, rows, history
<1>2. CASE ReadColumn(j)
  <2>1. UNCHANGED column
    BY <1>2 DEF ReadColumn, rows
  <2>2. Settled(j)'
    <3>1. CASE /\ job'[j].at = "column write" /\ job'[j].kind = job[j].kind
               /\ job'[j].seen = column
      <4>1. Snapshot(job'[j].seen, column) /\ job'[j].seen.seal = column.seal
        BY <1>0, <3>1, SnapshotOfItself
      <4> QED
        BY <2>1, <3>1, <4>1 DEF Settled, Reads, At, DealtWith, Is
    <3>2. CASE ~Takes(j, column) /\ job'[j].at = "atlassian" /\ job'[j].kind = job[j].kind
      BY <2>1, <3>2 DEF Settled, Reads, At, DealtWith, Is, Takes
    <3> QED
      BY <1>0, <1>2, <3>1, <3>2, ReadsColumn
  <2>3. \A i \in Job \ {j} : job'[i] = job[i]
    BY <1>0, <1>2, ReadsColumn
  <2>4. Later(column, column') /\ Later(google, google') /\ Told(column') /\ Told(google')
        /\ (migrated' => column'.marked /\ google'.marked)
    BY <1>1, <2>1 DEF Later, MarkInv
  <2> QED
    BY <2>1, <2>2, <2>3, <2>4, MarksKept
<1>3. CASE RewriteColumn(j)
  <2>1. job[j].seen \in Row /\ Snapshot(job[j].seen, column) /\ Told(column)
        /\ (Is(j, "migrate") /\ ~column.marked => job[j].seen.seal = column.seal)
    BY <1>3 DEF RewriteColumn, Typed, Reading, At, MarkInv, Settled, Reads
  <2>2. Later(column, column') /\ Told(column') /\ column'.value = column.value
    <3>1. CASE Is(j, "migrate")
      BY <1>0, <1>3, <2>1, <3>1, MigratedTold DEF RewriteColumn
    <3>2. CASE ~Is(j, "migrate")
      BY <1>0, <1>3, <2>1, <3>2, RotatedTold DEF RewriteColumn
    <3> QED
      BY <3>1, <3>2
  <2>3. /\ job'[j].at \in {"column", "atlassian"} /\ (Is(j, "migrate") => job'[j].at = "column")
        /\ job'[j].kind = job[j].kind /\ \A i \in Job \ {j} : job'[i] = job[i]
    BY <1>0, <1>3, GoesOn DEF RewriteColumn, At, Place
  <2>4. Settled(j)'
    BY <2>3 DEF Settled, Reads, At, DealtWith, Is
  <2>5. Later(google, google') /\ Told(google') /\ (migrated' => column'.marked /\ google'.marked)
    BY <1>0, <1>1, <2>2, LaterKeeps DEF Later, MarkInv
  <2> QED
    BY <2>2, <2>3, <2>4, <2>5, MarksKept
<1> QED
  BY <1>2, <1>3

LEMMA AtlassianMarks ==
    ASSUME Typed, MarkInv, Typed', NEW j \in Job, ReadAtlassian(j) \/ RewriteAtlassian(j)
    PROVE  MarkInv'
<1>0. SecretsTypeOK
  BY DEF Typed
<1>1. UNCHANGED <<column, google, migrated>>
  BY DEF ReadAtlassian, RewriteAtlassian, rows, history
<1>2. /\ job'[j].at \in {"google", "atlassian write"} /\ job'[j].kind = job[j].kind
      /\ job[j].at \in {"atlassian", "atlassian write"} /\ \A i \in Job \ {j} : job'[i] = job[i]
  <2>1. CASE ReadAtlassian(j)
    BY <1>0, <2>1, ReadsAtlassian DEF ReadAtlassian, At
  <2>2. CASE RewriteAtlassian(j)
    BY <1>0, <2>2, GoesOn DEF RewriteAtlassian, At, Place
  <2> QED
    BY <2>1, <2>2
<1>3. Settled(j)'
  BY <1>1, <1>2 DEF Settled, Reads, At, DealtWith, Is, MarkInv
<1>4. Later(column, column') /\ Later(google, google') /\ Told(column') /\ Told(google')
      /\ (migrated' => column'.marked /\ google'.marked)
  BY <1>1 DEF Later, MarkInv
<1> QED
  BY <1>2, <1>3, <1>4, MarksKept

LEMMA GoogleMarks ==
    ASSUME Typed, MarkInv, Typed', NEW j \in Job, ReadGoogle(j) \/ RewriteGoogle(j)
    PROVE  MarkInv' /\ (google'.value >= google.value \/ Outdated(j))
<1>0. SecretsTypeOK /\ google \in Row /\ google.seal \in Nat /\ google.value \in Nat
  BY DEF Typed, SecretsTypeOK, Row
<1>1. UNCHANGED column
  BY DEF ReadGoogle, RewriteGoogle, rows
<1>2. Is(j, "migrate") => column.marked
  BY DEF ReadGoogle, RewriteGoogle, MarkInv, Settled, DealtWith, At
<1>3. CASE ReadGoogle(j)
  <2>1. UNCHANGED google
    BY <1>3 DEF ReadGoogle, rows
  <2>2. Settled(j)'
    <3>1. CASE /\ job'[j].at = "google write" /\ job'[j].kind = job[j].kind
               /\ job'[j].seen = google
      <4>1. Snapshot(job'[j].seen, google) /\ job'[j].seen.seal = google.seal
        BY <1>0, <3>1, SnapshotOfItself
      <4> QED
        BY <2>1, <3>1, <4>1, <1>1, <1>2 DEF Settled, Reads, At, DealtWith, Is
    <3>2. CASE ~Takes(j, google) /\ job'[j].at = "none"
      BY <2>1, <3>2 DEF Settled, Reads, At, DealtWith, Is, Takes
    <3> QED
      BY <1>0, <1>3, <3>1, <3>2, ReadsGoogle
  <2>3. \A i \in Job \ {j} : job'[i] = job[i]
    BY <1>0, <1>3, ReadsGoogle
  <2>4. migrated' => column'.marked /\ google'.marked
    BY <1>1, <1>2, <1>3, <2>1 DEF ReadGoogle, Ends, Takes, MarkInv
  <2>5. Later(column, column') /\ Later(google, google') /\ Told(column') /\ Told(google')
    BY <1>1, <2>1 DEF Later, MarkInv
  <2>6. google'.value >= google.value
    BY <1>0, <2>1
  <2> QED
    BY <2>2, <2>3, <2>4, <2>5, <2>6, MarksKept
<1>4. CASE RewriteGoogle(j)
  <2>1. job[j].seen \in Row /\ Snapshot(job[j].seen, google) /\ Told(google)
        /\ (Is(j, "migrate") /\ ~google.marked => job[j].seen.seal = google.seal)
    BY <1>4 DEF RewriteGoogle, Typed, Reading, At, MarkInv, Settled, Reads
  <2>2. Later(google, google') /\ Told(google') /\ (Is(j, "migrate") => google'.marked)
    <3>1. CASE Is(j, "migrate")
      BY <1>0, <1>4, <2>1, <3>1, MigratedTold DEF RewriteGoogle
    <3>2. CASE ~Is(j, "migrate")
      <4>1. job[j].seen.value \in Nat
        BY <2>1 DEF Row
      <4> QED
        BY <1>0, <1>4, <3>2, <4>1, SealedTold DEF RewriteGoogle
    <3> QED
      BY <3>1, <3>2
  <2>3. job'[j].at = "none" /\ \A i \in Job \ {j} : job'[i] = job[i]
    BY <1>0, <1>4, EndsIdle DEF RewriteGoogle
  <2>4. Settled(j)'
    BY <2>3 DEF Settled, Reads, At
  <2>5. migrated' => column'.marked /\ google'.marked
    BY <1>0, <1>1, <1>2, <1>4, <2>2, LaterKeeps DEF RewriteGoogle, Ends, MarkInv
  <2>6. Later(column, column') /\ Told(column')
    BY <1>1 DEF Later, MarkInv
  <2>7. google'.value >= google.value \/ Outdated(j)
    <3>1. CASE Is(j, "migrate")
      <4>1. google'.value = google.value
        BY <1>0, <1>4, <2>1, <3>1, MigratedTold DEF RewriteGoogle
      <4> QED
        BY <1>0, <4>1
    <3>2. CASE ~Is(j, "migrate") /\ job[j].seen.seal = google.seal
      <4>1. google' = Sealed(google, job[j].seen.value) /\ job[j].seen.value = google.value
        BY <1>4, <2>1, <3>2 DEF RewriteGoogle, Snapshot
      <4>2. google'.value = google.value
        BY <1>0, <4>1, SealedRow
      <4> QED
        BY <1>0, <4>2
    <3>3. CASE ~Is(j, "migrate") /\ job[j].seen.seal # google.seal
      BY <1>4, <3>3 DEF RewriteGoogle, Outdated
    <3> QED
      BY <3>1, <3>2, <3>3
  <2> QED
    BY <2>2, <2>3, <2>4, <2>5, <2>6, <2>7, MarksKept
<1> QED
  BY <1>3, <1>4

LEMMA OwnMarks ==
    ASSUME Typed, MarkInv, Typed', WriteColumn \/ SignIn
    PROVE  MarkInv' /\ column'.value >= column.value /\ google'.value >= google.value
<1>1. column \in Row /\ google \in Row /\ column.value \in Nat /\ google.value \in Nat
  BY DEF Typed, SecretsTypeOK, Row
<1>2. UNCHANGED <<job, migrated>>
  BY DEF WriteColumn, SignIn, history
<1>3. /\ Later(column, column') /\ Told(column') /\ column'.value >= column.value
      /\ Later(google, google') /\ Told(google') /\ google'.value >= google.value
  <2>1. CASE WriteColumn
    <3>1. column' = Sealed(column, column.value + 1) /\ google' = google
      BY <2>1 DEF WriteColumn
    <3> QED
      <4>1. column.value + 1 \in Nat /\ column.value + 1 >= column.value
        BY <1>1
      <4>2. column'.value = column.value + 1
        BY <1>1, <3>1, <4>1, SealedRow
      <4> QED
        BY <1>1, <3>1, <4>1, <4>2, SealedTold DEF Later, MarkInv
  <2>2. CASE SignIn
    <3>1. google' = Sealed(google, google.value + 1) /\ column' = column
      BY <2>2 DEF SignIn
    <3>2. google.value + 1 \in Nat /\ google.value + 1 >= google.value
      BY <1>1
    <3>3. google'.value = google.value + 1
      BY <1>1, <3>1, <3>2, SealedRow
    <3> QED
      BY <1>1, <3>1, <3>2, <3>3, SealedTold DEF Later, MarkInv
  <2> QED
    BY <2>1, <2>2
<1>4. migrated' => column'.marked /\ google'.marked
  BY <1>1, <1>2, <1>3, LaterKeeps DEF MarkInv
<1> QED
  BY <1>2, <1>3, <1>4, MarksKept

NoneOlder ==
    /\ column'.value >= column.value
    /\ google'.value >= google.value \/ \E j \in Job : Outdated(j)

LEMMA NextMarks == Typed /\ MarkInv /\ [Next]_vars => MarkInv' /\ NoneOlder
<1> USE DEF NoneOlder
<1> SUFFICES ASSUME Typed, MarkInv, [Next]_vars PROVE MarkInv' /\ NoneOlder
  OBVIOUS
<1>0. Typed' /\ column.value \in Nat /\ google.value \in Nat
  BY NextTyped DEF Typed, SecretsTypeOK, Row
<1>1. CASE UNCHANGED <<column, google, job, migrated>>
  BY <1>0, <1>1, MarksKept DEF MarkInv, Later
<1>2. ASSUME NEW j \in Job, JobStep(j) \/ \E kind \in Kind : Start(j, kind)
      PROVE  MarkInv' /\ NoneOlder
  <2>1. CASE ReadColumn(j) \/ RewriteColumn(j)
    <3>1. UNCHANGED google
      BY <2>1 DEF ReadColumn, RewriteColumn, rows
    <3> QED
      BY <1>0, <2>1, <3>1, ColumnMarks
  <2>2. CASE ~(ReadColumn(j) \/ RewriteColumn(j))
    <3>1. UNCHANGED column
      BY <1>2, <2>2 DEF JobStep, Describe, CreateKey, CreateAlias, Record, ReadAtlassian,
         RewriteAtlassian, ReadGoogle, RewriteGoogle, Throws, Start, rows
    <3>2. CASE ReadGoogle(j) \/ RewriteGoogle(j)
      BY <1>0, <3>1, <3>2, GoogleMarks
    <3>3. CASE ~(ReadGoogle(j) \/ RewriteGoogle(j))
      <4>1. UNCHANGED google
        BY <1>2, <2>2, <3>3 DEF JobStep, Describe, CreateKey, CreateAlias, Record,
           ReadAtlassian, RewriteAtlassian, Throws, Start, rows
      <4> QED
        BY <1>0, <1>2, <2>2, <3>1, <3>3, <4>1, ProvisionMarks, AtlassianMarks DEF JobStep
    <3> QED
      BY <3>2, <3>3
  <2> QED
    BY <2>1, <2>2
<1>3. CASE WriteColumn \/ SignIn
  BY <1>0, <1>3, OwnMarks
<1>4. CASE Connect \/ Disconnect \/ WindowEnds \/ Revoke
           \/ \E c \in Caller : ReadConnection(c) \/ Refresh(c) \/ StorePair(c) \/ PairLost(c)
  BY <1>1, <1>4 DEF Connect, Disconnect, WindowEnds, Revoke, ReadConnection, Refresh, StorePair,
     PairLost, rows, history
<1> QED
  BY <1>1, <1>2, <1>3, <1>4 DEF Next, vars, history

LEMMA AlwaysMarked == Spec => []MarkInv
<1>1. Init => MarkInv
  <2> SUFFICES ASSUME Init PROVE MarkInv
    OBVIOUS
  <2>1. \A j \in Job : job[j].at = "none"
    BY DEF Init, Idle
  <2> QED
    <3>1. \A j \in Job : Settled(j)
      BY <2>1 DEF Settled, Reads, At
    <3>2. Told(column) /\ Told(google) /\ ~migrated
      BY DEF Init, Told
    <3> QED
      BY <3>1, <3>2 DEF MarkInv
<1> QED
  BY <1>1, NextMarks, AlwaysTyped, PTL DEF Spec

\* At every moment of a migration, a rotation and the writes beside them the mark of
\* a row says whether the legacy key or the org's decrypts it.
THEOREM MarksTellTheFormatAlways == Spec => []MarksTellTheFormat
<1>1. MarkInv => MarksTellTheFormat
  BY DEF MarkInv, MarksTellTheFormat, Told
<1> QED
  BY <1>1, AlwaysMarked, PTL

-----------------------------------------------------------------------------
(***************************************************************************)
(* The Atlassian connection. What is held of it is fresh: of the same id   *)
(* it is of no later version, and of the same version it is the same pair, *)
(* unless a connect has come in between.                                   *)
(***************************************************************************)
Fresh(seen) ==
    /\ seen.id <= atlassian.id /\ seen.token.n <= provider.issued
    /\ atlassian.present /\ seen.id = atlassian.id /\ ~crossed =>
         /\ seen.version <= atlassian.version
         /\ seen.version = atlassian.version => seen.token = atlassian.token

JobHolds(j) == At(j, "atlassian write") => Fresh(job[j].seen)

CallerHolds(c) ==
    /\ caller[c].at # "none" => Fresh(caller[c].seen)
    /\ caller[c].at = "store" => /\ caller[c].token.n > caller[c].seen.token.n
                                /\ caller[c].token.n <= provider.issued

FreshInv ==
    /\ atlassian.token.n <= provider.issued
    /\ \A j \in Job : JobHolds(j)
    /\ \A c \in Caller : CallerHolds(c)

\* All that is ever done to the connection while something holds it.
Turned ==
    \/ atlassian' = atlassian
    \/ ~atlassian'.present /\ atlassian'.id = atlassian.id
    \/ atlassian'.id = atlassian.id + 1
    \/ crossed' /\ atlassian'.id = atlassian.id
    \/ /\ atlassian.present /\ atlassian'.id = atlassian.id
       /\ atlassian'.version = atlassian.version + 1
    \/ /\ atlassian.present /\ atlassian'.id = atlassian.id
       /\ atlassian'.version = atlassian.version
       /\ crossed' \/ atlassian'.token = atlassian.token

Numbers(seen) == seen.id \in Nat /\ seen.version \in Nat /\ seen.token.n \in Nat

LEMMA ConnectionNumbers ==
    ASSUME NEW seen \in Connection
    PROVE  Numbers(seen)
BY DEF Connection, Token, Numbers

LEMMA FreshKept ==
    ASSUME NEW seen \in Connection, Fresh(seen), Typed, Typed', Turned, crossed => crossed',
           provider'.issued >= provider.issued
    PROVE  Fresh(seen)'
<1>1. Numbers(seen) /\ Numbers(atlassian) /\ Numbers(atlassian')
  BY ConnectionNumbers DEF Typed, SecretsTypeOK
<1>2. provider.issued \in Nat /\ provider'.issued \in Nat
  BY DEF Typed, SecretsTypeOK
<1>3. seen.id <= atlassian'.id /\ seen.token.n <= provider'.issued
  BY <1>1, <1>2 DEF Fresh, Turned, Numbers
<1>4. ASSUME atlassian'.present, seen.id = atlassian'.id, ~crossed'
      PROVE  /\ seen.version <= atlassian'.version
             /\ seen.version = atlassian'.version => seen.token = atlassian'.token
  <2>1. ~crossed /\ seen.id <= atlassian.id
    BY <1>4 DEF Fresh
  <2>2. CASE atlassian' = atlassian
    BY <1>4, <2>1, <2>2 DEF Fresh
  <2>3. CASE atlassian'.id = atlassian.id + 1
    BY <1>1, <1>4, <2>1, <2>3 DEF Numbers
  <2>4. CASE /\ atlassian.present /\ atlassian'.id = atlassian.id
             /\ atlassian'.version = atlassian.version + 1
    BY <1>1, <1>4, <2>1, <2>4 DEF Fresh, Numbers
  <2>5. CASE /\ atlassian.present /\ atlassian'.id = atlassian.id
             /\ atlassian'.version = atlassian.version
             /\ crossed' \/ atlassian'.token = atlassian.token
    BY <1>4, <2>1, <2>5 DEF Fresh
  <2> QED
    BY <1>4, <2>2, <2>3, <2>4, <2>5 DEF Turned
<1> QED
  BY <1>3, <1>4 DEF Fresh

\* What a guarded write finds.
LEMMA Guarded ==
    ASSUME NEW seen \in Connection, Fresh(seen), SameRow(seen), ~crossed
    PROVE  seen.token = atlassian.token
BY DEF Fresh, SameRow

LEMMA ItselfFresh ==
    ASSUME Typed, atlassian.token.n <= provider.issued
    PROVE  Fresh(atlassian)
<1>1. Numbers(atlassian)
  BY ConnectionNumbers DEF Typed, SecretsTypeOK
<1> QED
  BY <1>1 DEF Fresh, Numbers

\* The steps that hold on to what they hold: the others keep it fresh.
LEMMA HoldersKept ==
    ASSUME Typed, Typed', FreshInv, Turned, crossed => crossed',
           provider'.issued >= provider.issued, atlassian'.token.n <= provider'.issued,
           \A j \in Job : job'[j] = job[j] \/ JobHolds(j)',
           \A c \in Caller : caller'[c] = caller[c] \/ CallerHolds(c)'
    PROVE  FreshInv'
<1>1. ASSUME NEW j \in Job, job'[j] = job[j], At(j, "atlassian write")
      PROVE  Fresh(job[j].seen)'
  <2>1. job[j].seen \in Connection /\ Fresh(job[j].seen)
    BY <1>1 DEF Typed, Reading, FreshInv, JobHolds
  <2> QED
    BY <1>1, <2>1, FreshKept DEF Fresh
<1>2. ASSUME NEW c \in Caller, caller'[c] = caller[c] PROVE CallerHolds(c)'
  <2>1. CASE caller[c].at = "none"
    BY <1>2, <2>1 DEF CallerHolds
  <2>2. CASE caller[c].at # "none"
    <3>1. caller[c] \in Refreshing \cup Storing
      BY <2>2 DEF Typed, SecretsTypeOK, Idle
    <3>2. caller[c].seen \in Connection /\ Fresh(caller[c].seen)
      BY <2>2, <3>1 DEF Refreshing, Storing, FreshInv, CallerHolds
    <3>3. Fresh(caller[c].seen)'
      BY <1>2, <3>2, FreshKept DEF Fresh
    <3>4. ASSUME caller[c].at = "store"
          PROVE  /\ caller[c].token.n > caller[c].seen.token.n
                 /\ caller[c].token.n <= provider'.issued
      <4>1. caller[c].token.n \in Nat /\ provider.issued \in Nat /\ provider'.issued \in Nat
        BY <3>1, <3>4 DEF Refreshing, Storing, Token, Typed, SecretsTypeOK
      <4> QED
        BY <3>4, <4>1 DEF FreshInv, CallerHolds
    <3> QED
      BY <1>2, <3>3, <3>4 DEF CallerHolds
  <2> QED
    BY <2>1, <2>2
<1>3. \A j \in Job : JobHolds(j)'
  BY <1>1 DEF JobHolds, At
<1> QED
  BY <1>2, <1>3 DEF FreshInv

\* What a step makes of the token: never an older one, unless crossed.
Forward == crossed \/ atlassian'.token.n >= atlassian.token.n

LEMMA ConnectFresh ==
    ASSUME Typed, Typed', FreshInv, Connect
    PROVE  FreshInv' /\ Forward
<1>1. /\ Numbers(atlassian) /\ provider.issued \in Nat
      /\ provider \in [issued : Nat, grants : Nat, used : SUBSET Nat, dead : SUBSET Nat]
  BY ConnectionNumbers DEF Typed, SecretsTypeOK
<1>2. /\ provider'.issued = provider.issued + 1
      /\ atlassian'.token.n = provider.issued + 1
      /\ UNCHANGED <<job, caller>>
  BY <1>1 DEF Connect, Issue
<1>3. Forward /\ atlassian'.token.n <= provider'.issued /\ provider'.issued >= provider.issued
  BY <1>1, <1>2 DEF FreshInv, Forward, Numbers
<1>4. CASE ~atlassian.present
  <2>1. Turned /\ (crossed => crossed')
    BY <1>4 DEF Connect, Turned
  <2> QED
    BY <1>2, <1>3, <2>1, HoldersKept
<1>5. CASE atlassian.present /\ Held
  <2>1. Turned /\ (crossed => crossed')
    BY <1>5 DEF Connect, Turned
  <2> QED
    BY <1>2, <1>3, <2>1, HoldersKept
<1>6. CASE ~Held
  BY <1>2, <1>3, <1>6 DEF Held, FreshInv, JobHolds, CallerHolds, At
<1> QED
  BY <1>4, <1>5, <1>6

LEMMA CallerFresh ==
    ASSUME Typed, Typed', FreshInv, NEW c \in Caller,
           ReadConnection(c) \/ Refresh(c) \/ StorePair(c) \/ PairLost(c)
    PROVE  FreshInv' /\ Forward
<1>0. /\ UNCHANGED <<job, crossed>>
      /\ \A d \in Caller \ {c} : caller'[d] = caller[d]
  BY DEF ReadConnection, Refresh, StorePair, PairLost, CallerGoes, history, Typed, SecretsTypeOK
<1>1. /\ Numbers(atlassian) /\ provider.issued \in Nat /\ caller \in [Caller -> {Idle} \cup Refreshing \cup Storing]
      /\ provider \in [issued : Nat, grants : Nat, used : SUBSET Nat, dead : SUBSET Nat]
  BY ConnectionNumbers DEF Typed, SecretsTypeOK
<1>2. atlassian.token.n <= provider.issued
  BY DEF FreshInv
<1>3. CASE ReadConnection(c)
  <2>1. caller'[c] = [at |-> "refresh", seen |-> atlassian] /\ UNCHANGED <<atlassian, provider>>
    BY <1>1, <1>3 DEF ReadConnection, CallerGoes
  <2>2. CallerHolds(c)'
    BY <1>0, <1>2, <2>1, ItselfFresh DEF CallerHolds, Fresh
  <2> QED
    BY <1>0, <1>1, <1>2, <2>1, <2>2, HoldersKept DEF Turned, Forward, Numbers
<1>4. CASE Refresh(c)
  <2>1. UNCHANGED atlassian
    BY <1>4 DEF Refresh, rows
  <2>2. CASE caller'[c] = Idle /\ UNCHANGED provider
    <3>1. CallerHolds(c)'
      BY <2>2 DEF CallerHolds, Idle
    <3> QED
      BY <1>0, <1>1, <1>2, <2>1, <2>2, <3>1, HoldersKept DEF Turned, Forward, Numbers
  <2>3. CASE /\ provider'.issued = provider.issued + 1
             /\ caller'[c] = [at |-> "store", seen |-> caller[c].seen,
                              token |-> Issue(caller[c].seen.token.grant)]
    <3>1. caller[c].seen \in Connection /\ Fresh(caller[c].seen)
      BY <1>1, <1>4 DEF Refresh, Refreshing, Storing, Idle, FreshInv, CallerHolds
    <3>2. Numbers(caller[c].seen) /\ caller[c].seen.token.n <= provider.issued
      BY <3>1, ConnectionNumbers DEF Fresh
    <3>3. Turned /\ provider'.issued >= provider.issued /\ atlassian'.token.n <= provider'.issued
      BY <1>1, <1>2, <2>1, <2>3 DEF Turned, Numbers
    <3>4. Fresh(caller[c].seen)'
      <4>1. Fresh(caller[c].seen) /\ (crossed => crossed')
        BY <1>0, <3>1
      <4> DEFINE seen == caller[c].seen
      <4>2. seen \in Connection /\ Fresh(seen)
        BY <3>1
      <4> HIDE DEF seen
      <4>3. seen.id <= atlassian'.id /\ seen.token.n <= provider'.issued
            /\ (atlassian'.present /\ seen.id = atlassian'.id /\ ~crossed' =>
                  /\ seen.version <= atlassian'.version
                  /\ seen.version = atlassian'.version => seen.token = atlassian'.token)
        BY <4>1, <4>2, <3>3, FreshKept DEF Fresh
      <4>4. caller'[c].seen = seen
        BY <2>3 DEF seen
      <4> QED
        BY <4>3, <4>4 DEF Fresh
    <3>5. caller'[c].token.n = provider.issued + 1 /\ caller'[c].seen = caller[c].seen
      BY <2>3 DEF Issue
    <3>6. CallerHolds(c)'
      BY <1>1, <2>3, <3>2, <3>4, <3>5 DEF CallerHolds, Numbers
    <3> QED
      BY <1>0, <1>1, <2>1, <3>3, <3>6, HoldersKept DEF Forward, Numbers
  <2> QED
    BY <1>1, <1>4, <2>2, <2>3 DEF Refresh, CallerGoes
<1>5. CASE StorePair(c)
  <2>1. caller[c] \in Storing
    BY <1>1, <1>5 DEF StorePair, Refreshing, Idle
  <2>2. /\ caller[c].seen \in Connection /\ Fresh(caller[c].seen) /\ caller[c].token.n \in Nat
        /\ caller[c].token.n > caller[c].seen.token.n /\ caller[c].token.n <= provider.issued
    BY <1>5, <2>1 DEF StorePair, Storing, Token, FreshInv, CallerHolds
  <2>3. CallerHolds(c)' /\ UNCHANGED provider
    <3>1. caller'[c] = Idle
      BY <1>1, <1>5 DEF StorePair, CallerGoes
    <3> QED
      BY <1>5, <3>1 DEF CallerHolds, Idle, StorePair
  <2>4. CASE SameRow(caller[c].seen)
    <3>1. /\ atlassian'.id = atlassian.id /\ atlassian'.version = atlassian.version + 1
          /\ atlassian'.token = caller[c].token /\ atlassian.present
      BY <1>5, <2>4 DEF StorePair, SameRow, Typed, SecretsTypeOK, Connection
    <3>2. crossed \/ caller[c].seen.token = atlassian.token
      BY <2>2, <2>4, Guarded
    <3>3. Forward
      BY <1>1, <2>2, <3>1, <3>2 DEF Forward, Numbers
    <3>4. Turned /\ atlassian'.token.n <= provider'.issued /\ provider'.issued >= provider.issued
      BY <1>1, <2>2, <2>3, <3>1 DEF Turned
    <3> QED
      BY <1>0, <2>3, <3>3, <3>4, HoldersKept
  <2>5. CASE UNCHANGED atlassian
    BY <1>0, <1>1, <1>2, <2>3, <2>5, HoldersKept DEF Turned, Forward, Numbers
  <2> QED
    BY <1>5, <2>4, <2>5 DEF StorePair
<1>6. CASE PairLost(c)
  <2>1. caller'[c] = Idle /\ UNCHANGED <<atlassian, provider>>
    BY <1>1, <1>6 DEF PairLost, CallerGoes, rows
  <2>2. CallerHolds(c)'
    BY <2>1 DEF CallerHolds, Idle
  <2> QED
    BY <1>0, <1>1, <1>2, <2>1, <2>2, HoldersKept DEF Turned, Forward, Numbers
<1> QED
  BY <1>3, <1>4, <1>5, <1>6

LEMMA JobFresh ==
    ASSUME Typed, Typed', FreshInv, NEW j \in Job, JobStep(j) \/ \E kind \in Kind : Start(j, kind)
    PROVE  FreshInv' /\ Forward
<1>0. UNCHANGED <<caller, crossed, provider>>
  BY DEF JobStep, Describe, CreateKey, CreateAlias, Record, ReadColumn, RewriteColumn, ReadAtlassian,
     RewriteAtlassian, ReadGoogle, RewriteGoogle, Throws, Start, history
<1>1. Numbers(atlassian) /\ provider.issued \in Nat /\ SecretsTypeOK
      /\ atlassian.token.n <= provider.issued
  BY ConnectionNumbers DEF Typed, SecretsTypeOK, FreshInv
<1>2. CASE ReadAtlassian(j)
  <2>1. UNCHANGED atlassian
    BY <1>2 DEF ReadAtlassian, rows
  <2>2. JobHolds(j)'
    BY <1>0, <1>1, <1>2, <2>1, ItselfFresh, ReadsAtlassian DEF JobHolds, At, Fresh
  <2>3. \A i \in Job \ {j} : job'[i] = job[i]
    BY <1>1, <1>2, ReadsAtlassian
  <2> QED
    BY <1>0, <1>1, <2>1, <2>2, <2>3, HoldersKept DEF Turned, Forward, Numbers
<1>3. CASE RewriteAtlassian(j)
  <2>1. job[j].seen \in Connection /\ Fresh(job[j].seen)
    BY <1>3 DEF RewriteAtlassian, Typed, Reading, FreshInv, JobHolds, At
  <2>2. JobHolds(j)' /\ \A i \in Job \ {j} : job'[i] = job[i]
    BY <1>1, <1>3, GoesOn DEF RewriteAtlassian, At, Place, JobHolds
  <2>3. CASE SameRow(job[j].seen)
    <3>1. /\ atlassian'.id = atlassian.id /\ atlassian'.version = atlassian.version
          /\ atlassian'.token = job[j].seen.token /\ atlassian.present
      BY <1>1, <1>3, <2>3 DEF RewriteAtlassian, Rewritten, SameRow, SecretsTypeOK, Connection
    <3>2. crossed \/ job[j].seen.token = atlassian.token
      BY <2>1, <2>3, Guarded
    <3>3. Turned /\ Forward /\ atlassian'.token.n <= provider'.issued
      BY <1>0, <1>1, <2>1, <3>1, <3>2 DEF Turned, Forward, Fresh, Numbers
    <3> QED
      BY <1>0, <1>1, <2>2, <3>3, HoldersKept
  <2>4. CASE UNCHANGED atlassian
    BY <1>0, <1>1, <2>2, <2>4, HoldersKept DEF Turned, Forward, Numbers
  <2> QED
    BY <1>3, <2>3, <2>4 DEF RewriteAtlassian, Rewritten
<1>4. CASE ~(ReadAtlassian(j) \/ RewriteAtlassian(j))
  <2>1. UNCHANGED atlassian
    BY <1>4 DEF JobStep, Describe, CreateKey, CreateAlias, Record, ReadColumn, RewriteColumn,
       ReadGoogle, RewriteGoogle, Throws, Start, rows
  <2>2. JobHolds(j)' /\ \A i \in Job \ {j} : job'[i] = job[i]
    <3>1. CASE ReadColumn(j) \/ ReadGoogle(j)
      BY <1>1, <3>1, ReadsColumn, ReadsGoogle DEF JobHolds, At
    <3>2. CASE RewriteColumn(j) \/ RewriteGoogle(j)
      BY <1>1, <3>2, GoesOn, EndsIdle DEF RewriteColumn, RewriteGoogle, JobHolds, At, Place
    <3> QED
      BY <1>4, <3>1, <3>2, ProvisionMoves DEF JobStep, JobHolds, At
  <2> QED
    BY <1>0, <1>1, <2>1, <2>2, HoldersKept DEF Turned, Forward, Numbers
<1> QED
  BY <1>2, <1>3, <1>4

LEMMA NextFresh == Typed /\ FreshInv /\ [Next]_vars => FreshInv' /\ Forward
<1> SUFFICES ASSUME Typed, FreshInv, [Next]_vars PROVE FreshInv' /\ Forward
  OBVIOUS
<1>0. Typed' /\ Numbers(atlassian) /\ provider.issued \in Nat /\ atlassian.token.n <= provider.issued
  BY NextTyped, ConnectionNumbers DEF Typed, SecretsTypeOK, FreshInv
<1>1. CASE UNCHANGED <<atlassian, crossed, job, caller>> /\ provider'.issued = provider.issued
  BY <1>0, <1>1, HoldersKept DEF Turned, Forward, Numbers
<1>2. CASE WindowEnds
  <2>1. provider'.issued = provider.issued
    BY <1>2 DEF WindowEnds, Typed, SecretsTypeOK
  <2> QED
    BY <1>1, <1>2, <2>1 DEF WindowEnds, rows, history
<1>3. CASE Disconnect
  <2>1. Turned /\ atlassian'.token = atlassian.token /\ UNCHANGED <<crossed, job, caller, provider>>
    BY <1>3 DEF Disconnect, Turned, Typed, SecretsTypeOK, Connection, history
  <2> QED
    BY <1>0, <2>1, HoldersKept DEF Forward, Numbers
<1>4. CASE WriteColumn \/ SignIn \/ Revoke \/ UNCHANGED vars
  BY <1>1, <1>4 DEF WriteColumn, SignIn, Revoke, vars, rows, history
<1> QED
  BY <1>0, <1>2, <1>3, <1>4, ConnectFresh, CallerFresh, JobFresh DEF Next

LEMMA AlwaysFresh == Spec => []FreshInv
<1>1. Init => FreshInv
  <2> SUFFICES ASSUME Init PROVE FreshInv
    OBVIOUS
  <2>1. (\A j \in Job : job[j].at = "none") /\ \A c \in Caller : caller[c].at = "none"
    BY DEF Init, Idle
  <2>2. atlassian.token.n = 1 /\ provider.issued = 1
    BY DEF Init
  <2> QED
    <3>1. (\A j \in Job : JobHolds(j)) /\ \A c \in Caller : CallerHolds(c)
      BY <2>1 DEF JobHolds, CallerHolds, At
    <3>2. atlassian.token.n <= provider.issued
      BY <2>2
    <3> QED
      BY <3>1, <3>2 DEF FreshInv
<1> QED
  BY <1>1, NextFresh, AlwaysTyped, PTL DEF Spec

\* Re-encryption, refreshes and the app's own writes never put an older value of a
\* column, a Google token or an Atlassian token back, but where a connect has come
\* between the read and the write, or where the rotation's unguarded update writes a
\* Google token that a sign-in has replaced since it was read.
THEOREM NothingGoesBackAlways == Spec => NothingGoesBack
<1>1. Typed /\ MarkInv /\ FreshInv /\ [Next]_vars =>
        [/\ column'.value >= column.value
         /\ google'.value >= google.value \/ \E j \in Job : Outdated(j)
         /\ crossed \/ atlassian'.token.n >= atlassian.token.n]_vars
  BY NextMarks, NextFresh DEF Forward, NoneOlder
<1> QED
  BY <1>1, AlwaysFresh, AlwaysTyped, AlwaysMarked, PTL DEF Spec, NothingGoesBack

-----------------------------------------------------------------------------
(***************************************************************************)
(* What a migration leaves of the connection. A legacy row is as it was    *)
(* read; whoever else writes it encrypts it.                               *)
(***************************************************************************)
Legacy == atlassian.present /\ atlassian.format # "kms"

\* A migration that has the connection behind it.
Behind(j) ==
    Is(j, "migrate") =>
        /\ At(j, "atlassian write") /\ Legacy => SameRow(job[j].seen)
        /\ job[j].at \in {"google", "google write"} => ~Legacy

LegacyInv ==
    /\ \A j \in Job : At(j, "none") \/ Behind(j)
    /\ migrated => ~Legacy

LEMMA LegacyUntouched == Typed /\ [Next]_vars => ~Legacy' \/ UNCHANGED atlassian
<1> SUFFICES ASSUME Typed, [Next]_vars PROVE ~Legacy' \/ UNCHANGED atlassian
  OBVIOUS
<1>0. atlassian \in Connection
  BY DEF Typed, SecretsTypeOK
<1>1. ASSUME NEW j \in Job, JobStep(j) \/ \E kind \in Kind : Start(j, kind)
      PROVE  ~Legacy' \/ UNCHANGED atlassian
  BY <1>0, <1>1 DEF JobStep, Describe, CreateKey, CreateAlias, Record, ReadColumn, RewriteColumn,
     ReadAtlassian, RewriteAtlassian, Rewritten, ReadGoogle, RewriteGoogle, Throws, Start, rows,
     Legacy, Connection
<1>2. CASE \E c \in Caller : ReadConnection(c) \/ Refresh(c) \/ StorePair(c) \/ PairLost(c)
  BY <1>0, <1>2 DEF ReadConnection, Refresh, StorePair, PairLost, rows, Legacy, Connection
<1>3. CASE Connect \/ Disconnect
  BY <1>0, <1>3 DEF Connect, Disconnect, Legacy, Connection
<1> QED
  BY <1>1, <1>2, <1>3 DEF Next, WriteColumn, SignIn, WindowEnds, Revoke, vars, rows

LEMMA LegacyKept ==
    ASSUME LegacyInv, ~Legacy' \/ UNCHANGED atlassian, migrated' => migrated \/ ~Legacy',
           \A j \in Job : job'[j] = job[j] \/ At(j, "none")' \/ Behind(j)'
    PROVE  LegacyInv'
<1>1. ASSUME NEW j \in Job, job'[j] = job[j] PROVE At(j, "none")' \/ Behind(j)'
  BY <1>1 DEF LegacyInv, At, Behind, Is, Legacy, SameRow
<1> QED
  BY <1>1 DEF LegacyInv, Legacy

LEMMA JobLegacy ==
    ASSUME Typed, Typed', LegacyInv, ~Legacy' \/ UNCHANGED atlassian,
           NEW j \in Job, JobStep(j) \/ \E kind \in Kind : Start(j, kind)
    PROVE  LegacyInv'
<1>0. SecretsTypeOK /\ migrated \in BOOLEAN
  BY DEF Typed, SecretsTypeOK
<1>1. CASE ReadAtlassian(j)
  <2>1. UNCHANGED <<atlassian, migrated>>
    BY <1>1 DEF ReadAtlassian, rows, history
  <2>2. Behind(j)'
    BY <1>0, <1>1, <2>1, ReadsAtlassian DEF Behind, At, Is, Legacy, SameRow, Probes
  <2>3. \A i \in Job \ {j} : job'[i] = job[i]
    BY <1>0, <1>1, ReadsAtlassian
  <2> QED
    BY <2>1, <2>2, <2>3, LegacyKept
<1>2. CASE RewriteAtlassian(j)
  <2>1. UNCHANGED migrated /\ job'[j].at = "google" /\ job'[j].kind = job[j].kind
        /\ \A i \in Job \ {j} : job'[i] = job[i]
    BY <1>0, <1>2, GoesOn DEF RewriteAtlassian, At, Place, history
  <2>2. Is(j, "migrate") => ~Legacy'
    <3>1. CASE SameRow(job[j].seen)
      BY <1>0, <1>2, <3>1 DEF RewriteAtlassian, Rewritten, Legacy, SecretsTypeOK, Connection
    <3>2. CASE ~SameRow(job[j].seen)
      BY <1>2, <3>2 DEF RewriteAtlassian, Rewritten, Legacy, LegacyInv, Behind, At
    <3> QED
      BY <3>1, <3>2
  <2>3. Behind(j)'
    BY <2>1, <2>2 DEF Behind, At, Is
  <2> QED
    BY <2>1, <2>3, LegacyKept
<1>3. CASE ReadGoogle(j) \/ RewriteGoogle(j)
  <2>1. UNCHANGED atlassian /\ (Is(j, "migrate") => ~Legacy)
    BY <1>3 DEF ReadGoogle, RewriteGoogle, rows, LegacyInv, Behind, At
  <2>2. migrated' => migrated \/ ~Legacy'
    BY <1>0, <1>3, <2>1 DEF ReadGoogle, RewriteGoogle, Ends, Legacy
  <2>3. /\ \/ job'[j].at = "none" \/ (job'[j].at = "google write" /\ job'[j].kind = job[j].kind)
        /\ \A i \in Job \ {j} : job'[i] = job[i]
    BY <1>0, <1>3, ReadsGoogle, EndsIdle DEF RewriteGoogle
  <2>4. At(j, "none")' \/ Behind(j)'
    BY <2>1, <2>3 DEF At, Behind, Is, Legacy
  <2> QED
    BY <2>2, <2>3, <2>4, LegacyKept
<1>4. CASE ReadColumn(j) \/ RewriteColumn(j)
  <2>1. UNCHANGED migrated /\ job'[j].at \notin {"atlassian write", "google", "google write"}
        /\ \A i \in Job \ {j} : job'[i] = job[i]
    BY <1>0, <1>4, ReadsColumn, GoesOn DEF ReadColumn, RewriteColumn, At, Place, history
  <2> QED
    BY <2>1, LegacyKept DEF Behind, At
<1>5. CASE \/ Describe(j) \/ CreateKey(j) \/ CreateAlias(j) \/ Record(j)
           \/ Throws(j) \/ \E kind \in Kind : Start(j, kind)
  <2>1. migrated' => migrated
    <3>1. CASE Record(j)
      <4>1. UNCHANGED migrated \/ (Is(j, "provision") /\ migrated' = (migrated \/ Is(j, "migrate")))
        BY <3>1 DEF Record, Ends
      <4>2. Is(j, "provision") => ~Is(j, "migrate")
        BY DEF Is
      <4> QED
        BY <1>0, <4>1, <4>2
    <3> QED
      BY <1>5, <3>1 DEF Describe, CreateKey, CreateAlias, Throws, Start, history
  <2>2. Behind(j)' /\ \A i \in Job \ {j} : job'[i] = job[i]
    BY <1>5, ProvisionMoves DEF Behind, At, Is
  <2> QED
    BY <2>1, <2>2, LegacyKept
<1> QED
  BY <1>1, <1>2, <1>3, <1>4, <1>5 DEF JobStep

LEMMA NextLegacy == Typed /\ LegacyInv /\ [Next]_vars => LegacyInv'
<1> SUFFICES ASSUME Typed, LegacyInv, [Next]_vars PROVE LegacyInv'
  OBVIOUS
<1>0. Typed' /\ (~Legacy' \/ UNCHANGED atlassian)
  BY NextTyped, LegacyUntouched
<1>1. CASE UNCHANGED <<job, migrated>>
  BY <1>0, <1>1, LegacyKept
<1>2. ASSUME NEW j \in Job, JobStep(j) \/ \E kind \in Kind : Start(j, kind) PROVE LegacyInv'
  BY <1>0, <1>2, JobLegacy
<1>3. CASE \E c \in Caller : ReadConnection(c) \/ Refresh(c) \/ StorePair(c) \/ PairLost(c)
  BY <1>1, <1>3 DEF ReadConnection, Refresh, StorePair, PairLost, history
<1> QED
  BY <1>1, <1>2, <1>3 DEF Next, WriteColumn, SignIn, Connect, Disconnect, WindowEnds, Revoke, vars,
     history

\* A migration that has finished leaves nothing the legacy key is needed for, whoever
\* was refreshing, connecting, rotating and writing meanwhile.
THEOREM NothingLegacyAfterwardsAlways == Spec => []NothingLegacyAfterwards
<1>1. Init => LegacyInv
  <2> SUFFICES ASSUME Init PROVE LegacyInv
    OBVIOUS
  <2>1. ~migrated /\ \A j \in Job : job[j].at = "none"
    BY DEF Init, Idle
  <2> QED
    BY <2>1 DEF LegacyInv, At
<1>2. MarkInv /\ LegacyInv => NothingLegacyAfterwards
  BY DEF MarkInv, LegacyInv, Told, NothingLegacyAfterwards, Legacy
<1> QED
  BY <1>1, <1>2, NextLegacy, AlwaysTyped, AlwaysMarked, PTL DEF Spec
-----------------------------------------------------------------------------
(***************************************************************************)
(* The refresh token that is stored. What a caller has read is the pair    *)
(* that is there, or an older one; what it is about to store nobody has    *)
(* seen, and so nobody has used.                                           *)
(***************************************************************************)
Older(seen) ==
    \/ seen.id = atlassian.id /\ seen.version = atlassian.version /\ seen.token = atlassian.token
    \/ seen.token.n < atlassian.token.n

Unseen(c) ==
    /\ caller[c].token.n \notin provider.used /\ caller[c].token.n # atlassian.token.n
    /\ \A d \in Caller :
          /\ caller[d].at # "none" => caller[d].seen.token.n # caller[c].token.n
          /\ caller[d].at = "store" /\ d # c => caller[d].token.n # caller[c].token.n

\* A used token is stored only while its successor is on its way.
Succeeded ==
    atlassian.present /\ atlassian.token.n \in provider.used =>
        \/ lost
        \/ \E c \in Caller : caller[c].at = "store" /\ caller[c].seen.token = atlassian.token

TokensInv ==
    /\ provider.dead \subseteq provider.used /\ \A n \in provider.used : n <= provider.issued
    /\ ~crossed =>
         /\ \A c \in Caller : caller[c].at # "none" => Older(caller[c].seen)
         /\ \A c \in Caller : caller[c].at = "store" => Unseen(c)
         /\ Succeeded

\* What the callers hold, in numbers.
LEMMA CallersNumbers ==
    ASSUME Typed, FreshInv, NEW c \in Caller, caller[c].at # "none"
    PROVE  /\ caller[c].seen \in Connection /\ Numbers(caller[c].seen)
           /\ caller[c].seen.token.n <= provider.issued
           /\ caller[c].at = "store" =>
                 /\ caller[c].token.n \in Nat /\ caller[c].token.n <= provider.issued
                 /\ caller[c].token.n > caller[c].seen.token.n
<1>1. caller[c] \in Refreshing \cup Storing
  BY DEF Typed, SecretsTypeOK, Idle
<1>2. caller[c].seen \in Connection /\ Fresh(caller[c].seen)
  BY <1>1 DEF Refreshing, Storing, FreshInv, CallerHolds
<1>3. caller[c].at = "store" => caller[c].token.n \in Nat
  BY <1>1 DEF Refreshing, Storing, Token
<1> QED
  BY <1>2, <1>3, ConnectionNumbers DEF Fresh, FreshInv, CallerHolds

\* A caller that goes on, or is done, leaves the others alone.
LEMMA CallerGone ==
    ASSUME Typed, NEW c \in Caller, NEW entry, CallerGoes(c, entry)
    PROVE  caller'[c] = entry /\ \A d \in Caller \ {c} : caller'[d] = caller[d]
BY DEF CallerGoes, Typed, SecretsTypeOK

Lineage ==
    /\ \A c \in Caller : caller[c].at # "none" => Older(caller[c].seen)
    /\ \A c \in Caller : caller[c].at = "store" => Unseen(c)
    /\ Succeeded

\* A step that leaves the pair, the tokens used and the callers alone.
LEMMA LineageStands ==
    ASSUME Lineage, UNCHANGED <<caller, lost>>, provider'.used = provider.used,
           atlassian'.present => atlassian.present,
           atlassian'.id = atlassian.id, atlassian'.version = atlassian.version,
           atlassian'.token = atlassian.token
    PROVE  Lineage'
<1>1. (\A c \in Caller : caller[c].at # "none" => Older(caller[c].seen))'
  BY DEF Lineage, Older
<1>2. (\A c \in Caller : caller[c].at = "store" => Unseen(c))'
  BY DEF Lineage, Unseen
<1>3. Succeeded'
  BY DEF Lineage, Succeeded
<1> QED
  BY <1>1, <1>2, <1>3 DEF Lineage

LEMMA ConnectLineage ==
    ASSUME Typed, FreshInv, TokensInv, Lineage, Connect
    PROVE  Lineage'
<1>1. /\ Numbers(atlassian) /\ provider.issued \in Nat
      /\ provider \in [issued : Nat, grants : Nat, used : SUBSET Nat, dead : SUBSET Nat]
      /\ \A n \in provider.used : n <= provider.issued
  BY ConnectionNumbers DEF Typed, SecretsTypeOK, TokensInv
<1>2. /\ atlassian'.token.n = provider.issued + 1 /\ provider'.used = provider.used
      /\ UNCHANGED caller
  BY <1>1 DEF Connect, Issue
<1>3. atlassian'.token.n \notin provider'.used
  BY <1>1, <1>2
<1>4. ASSUME NEW c \in Caller, caller[c].at # "none" PROVE Older(caller[c].seen)'
  BY <1>1, <1>2, <1>4, CallersNumbers DEF Older, Numbers
<1>5. ASSUME NEW c \in Caller, caller[c].at = "store" PROVE Unseen(c)'
  <2>1. caller[c].token.n \in Nat /\ caller[c].token.n <= provider.issued /\ Unseen(c)
    BY <1>5, CallersNumbers DEF Lineage
  <2>2. caller[c].token.n # atlassian'.token.n
    BY <1>1, <1>2, <2>1
  <2> QED
    BY <1>2, <2>1, <2>2 DEF Unseen
<1> QED
  BY <1>2, <1>3, <1>4, <1>5 DEF Lineage, Succeeded

LEMMA ReadLineage ==
    ASSUME Typed, Lineage, NEW c \in Caller, ReadConnection(c)
    PROVE  Lineage'
<1>1. /\ caller'[c] = [at |-> "refresh", seen |-> atlassian]
      /\ \A d \in Caller \ {c} : caller'[d] = caller[d]
      /\ UNCHANGED <<atlassian, provider, lost>> /\ caller[c].at = "none"
  BY CallerGone DEF ReadConnection, history
<1>2. caller'[c].at = "refresh" /\ caller'[c].seen = atlassian
  BY <1>1
<1>3. ASSUME NEW d \in Caller, caller'[d].at # "none" PROVE Older(caller[d].seen)'
  BY <1>1, <1>2, <1>3 DEF Lineage, Older
<1>4. ASSUME NEW d \in Caller, caller'[d].at = "store" PROVE Unseen(d)'
  <2>1. d # c /\ Unseen(d) /\ caller'[d] = caller[d]
    BY <1>1, <1>2, <1>4 DEF Lineage
  <2> QED
    BY <1>1, <1>2, <2>1 DEF Unseen
<1>5. Succeeded'
  BY <1>1, <1>2 DEF Lineage, Succeeded
<1> QED
  BY <1>3, <1>4, <1>5 DEF Lineage

\* A caller that is done: what it held no longer counts.
LEMMA DoneLineage ==
    ASSUME Typed, Lineage, NEW c \in Caller, caller'[c].at = "none",
           \A d \in Caller \ {c} : caller'[d] = caller[d],
           UNCHANGED <<atlassian, provider>>, Succeeded'
    PROVE  Lineage'
<1>1. ASSUME NEW d \in Caller, caller'[d].at # "none" PROVE Older(caller[d].seen)'
  BY <1>1 DEF Lineage, Older
<1>2. ASSUME NEW d \in Caller, caller'[d].at = "store" PROVE Unseen(d)'
  <2>1. d # c /\ Unseen(d) /\ caller'[d] = caller[d]
    BY <1>2 DEF Lineage
  <2> QED
    BY <2>1 DEF Unseen
<1> QED
  BY <1>1, <1>2 DEF Lineage

LEMMA RefreshLineage ==
    ASSUME Typed, FreshInv, TokensInv, Lineage, NEW c \in Caller, Refresh(c)
    PROVE  Lineage'
<1>0. caller[c].at = "refresh" /\ UNCHANGED <<atlassian, lost>>
  BY DEF Refresh, rows, history
<1>1. CASE CallerGoes(c, Idle) /\ UNCHANGED provider
  <2>1. caller'[c].at = "none" /\ \A d \in Caller \ {c} : caller'[d] = caller[d]
    BY <1>1, CallerGone DEF Idle
  <2>2. Succeeded'
    BY <1>0, <1>1, <2>1 DEF Lineage, Succeeded
  <2> QED
    BY <1>0, <1>1, <2>1, <2>2, DoneLineage
<1>2. CASE /\ provider' = [provider EXCEPT !.issued = @ + 1, !.used = @ \cup {caller[c].seen.token.n}]
           /\ CallerGoes(c, [at |-> "store", seen |-> caller[c].seen,
                             token |-> Issue(caller[c].seen.token.grant)])
  <2> DEFINE seen == caller[c].seen
             n == seen.token.n
             fresh == provider.issued + 1
  <2>1. /\ provider \in [issued : Nat, grants : Nat, used : SUBSET Nat, dead : SUBSET Nat]
        /\ Numbers(atlassian) /\ atlassian.token.n <= provider.issued
        /\ \A m \in provider.used : m <= provider.issued
    BY ConnectionNumbers DEF Typed, SecretsTypeOK, FreshInv, TokensInv
  <2>2. provider'.used = provider.used \cup {n}
    BY <1>2, <2>1
  <2>3. /\ caller'[c] = [at |-> "store", seen |-> seen, token |-> Issue(seen.token.grant)]
        /\ \A d \in Caller \ {c} : caller'[d] = caller[d]
    BY <1>2, CallerGone
  <2>4. caller'[c].at = "store" /\ caller'[c].seen = seen /\ caller'[c].token.n = fresh
    BY <2>3 DEF Issue
  <2>5. Older(seen) /\ n \in Nat /\ n <= provider.issued /\ fresh \in Nat
    BY <1>0, <2>1, CallersNumbers DEF Lineage, Numbers
  <2>6. /\ fresh \notin provider'.used /\ fresh # atlassian.token.n
        /\ fresh # n
    BY <2>1, <2>2, <2>5 DEF Numbers
  <2>7. ASSUME NEW d \in Caller \ {c}, caller[d].at # "none"
        PROVE  /\ caller[d].seen.token.n # fresh
               /\ caller[d].at = "store" => caller[d].token.n # fresh
    BY <2>1, <2>7, CallersNumbers DEF Numbers
  <2> HIDE DEF seen, n, fresh
  <2>8. ASSUME NEW d \in Caller, caller'[d].at # "none" PROVE Older(caller[d].seen)'
    BY <1>0, <2>3, <2>4, <2>5, <2>8 DEF Lineage, Older
  <2>9. ASSUME NEW d \in Caller, caller'[d].at = "store" PROVE Unseen(d)'
    <3>1. CASE d = c
      <4>1. caller'[c].token.n \notin provider'.used /\ caller'[c].token.n # atlassian'.token.n
        BY <1>0, <2>4, <2>6
      <4>2. ASSUME NEW e \in Caller
            PROVE  /\ caller'[e].at # "none" => caller'[e].seen.token.n # fresh
                   /\ caller'[e].at = "store" /\ e # c => caller'[e].token.n # fresh
        <5>1. CASE e = c
          BY <2>4, <2>6, <5>1 DEF n
        <5>2. CASE e # c
          BY <2>3, <2>7, <5>2
        <5> QED
          BY <5>1, <5>2
      <4> QED
        BY <2>4, <3>1, <4>1, <4>2 DEF Unseen
    <3>2. CASE d # c
      <4>1. caller'[d] = caller[d] /\ Unseen(d) /\ caller[d].token.n # fresh
        BY <2>3, <2>7, <2>9, <3>2 DEF Lineage
      <4>2. caller[d].token.n # n
        BY <1>0, <4>1 DEF Unseen, n, seen
      <4>3. \A e \in Caller :
               /\ caller'[e].at # "none" => caller'[e].seen.token.n # caller[d].token.n
               /\ caller'[e].at = "store" /\ e # d => caller'[e].token.n # caller[d].token.n
        BY <2>3, <2>4, <4>1, <4>2 DEF Unseen, n
      <4> QED
        BY <1>0, <2>2, <4>1, <4>2, <4>3 DEF Unseen
    <3> QED
      BY <3>1, <3>2
  <2>10. Succeeded'
    <3> SUFFICES ASSUME atlassian.present, atlassian.token.n \in provider.used \cup {n}, ~lost
                 PROVE  \E d \in Caller : /\ caller'[d].at = "store"
                                          /\ caller'[d].seen.token = atlassian.token
      BY <1>0, <2>2 DEF Succeeded
    <3>1. CASE atlassian.token.n \in provider.used
      <4>1. PICK d \in Caller : caller[d].at = "store" /\ caller[d].seen.token = atlassian.token
        BY <3>1 DEF Lineage, Succeeded
      <4> QED
        BY <1>0, <2>3, <4>1
    <3>2. CASE atlassian.token.n = n
      BY <2>1, <2>4, <2>5, <3>2 DEF Older, Numbers, n
    <3> QED
      BY <3>1, <3>2
  <2> QED
    BY <2>8, <2>9, <2>10 DEF Lineage
<1> QED
  BY <1>1, <1>2 DEF Refresh

LEMMA StoreLineage ==
    ASSUME Typed, FreshInv, TokensInv, Lineage, ~crossed, NEW c \in Caller, StorePair(c)
    PROVE  Lineage'
<1> DEFINE seen == caller[c].seen
           token == caller[c].token
<1>1. /\ caller[c].at = "store" /\ UNCHANGED provider
      /\ caller'[c].at = "none" /\ \A d \in Caller \ {c} : caller'[d] = caller[d]
  BY CallerGone DEF StorePair, Idle
<1>2. /\ Older(seen) /\ Unseen(c) /\ Numbers(seen) /\ Numbers(atlassian)
      /\ token.n \in Nat /\ token.n > seen.token.n
  BY <1>1, CallersNumbers, ConnectionNumbers DEF Lineage, Typed, SecretsTypeOK
<1> HIDE DEF seen, token
<1>3. CASE SameRow(seen)
  <2>1. /\ atlassian'.id = atlassian.id /\ atlassian'.token = token
        /\ seen.token = atlassian.token
    <3>1. seen \in Connection /\ Fresh(seen)
      BY <1>1, CallersNumbers DEF seen, FreshInv, CallerHolds
    <3>2. atlassian' = [atlassian EXCEPT !.format = "kms", !.token = token,
                                         !.version = seen.version + 1]
      BY <1>3 DEF StorePair, seen, token
    <3>3. atlassian \in Connection
      BY DEF Typed, SecretsTypeOK
    <3> QED
      BY <1>3, <3>1, <3>2, <3>3, Guarded DEF Connection
  <2>2. atlassian'.token.n > atlassian.token.n
    BY <1>2, <2>1
  <2>3. ASSUME NEW d \in Caller, caller'[d].at # "none" PROVE Older(caller[d].seen)'
    <3>1. d # c /\ caller'[d] = caller[d] /\ Older(caller[d].seen) /\ Numbers(caller[d].seen)
      BY <1>1, <2>3, CallersNumbers DEF Lineage
    <3>2. caller[d].seen.token.n <= atlassian.token.n
      BY <1>2, <3>1 DEF Older, Numbers
    <3>3. caller[d].seen.token.n < atlassian'.token.n
      BY <1>2, <2>1, <2>2, <3>1, <3>2 DEF Numbers
    <3> QED
      BY <3>1, <3>3 DEF Older
  <2>4. ASSUME NEW d \in Caller, caller'[d].at = "store" PROVE Unseen(d)'
    <3>1. d # c /\ Unseen(d) /\ caller'[d] = caller[d] /\ token.n # caller[d].token.n
      BY <1>1, <1>2, <2>4 DEF Lineage, Unseen, token
    <3> QED
      BY <1>1, <2>1, <3>1 DEF Unseen
  <2>5. Succeeded'
    BY <1>1, <1>2, <2>1 DEF Succeeded, Unseen, token
  <2> QED
    BY <2>3, <2>4, <2>5 DEF Lineage
<1>4. CASE ~SameRow(seen)
  <2>1. UNCHANGED <<atlassian, lost>>
    BY <1>4 DEF StorePair, seen
  <2>2. atlassian.present => seen.token # atlassian.token
    BY <1>2, <1>4 DEF Older, SameRow, Numbers
  <2>3. Succeeded'
    BY <1>1, <2>1, <2>2 DEF Lineage, Succeeded, seen
  <2> QED
    BY <1>1, <2>1, <2>3, DoneLineage
<1> QED
  BY <1>3, <1>4

LEMMA NextTokens ==
    ASSUME Typed, FreshInv, TokensInv, [Next]_vars
    PROVE  TokensInv'
<1>0. /\ provider \in [issued : Nat, grants : Nat, used : SUBSET Nat, dead : SUBSET Nat]
      /\ crossed \in BOOLEAN /\ atlassian \in Connection
      /\ provider.dead \subseteq provider.used /\ \A n \in provider.used : n <= provider.issued
  BY DEF Typed, SecretsTypeOK, TokensInv
<1> DEFINE Used == provider.dead \subseteq provider.used
                   /\ \A n \in provider.used : n <= provider.issued
<1>1. SUFFICES Used' /\ (~crossed' => Lineage')
  BY DEF TokensInv, Lineage
<1>2. ~crossed => Lineage
  BY DEF TokensInv, Lineage
<1>3. CASE Connect
  <2>1. Used' /\ (crossed => crossed')
    BY <1>0, <1>3 DEF Connect
  <2> QED
    BY <1>2, <1>3, <2>1, ConnectLineage
<1>4. ASSUME NEW c \in Caller,
             ReadConnection(c) \/ Refresh(c) \/ StorePair(c) \/ PairLost(c)
      PROVE  Used' /\ (~crossed' => Lineage')
  <2>0. UNCHANGED crossed
    BY <1>4 DEF ReadConnection, Refresh, StorePair, PairLost, history
  <2>1. CASE ReadConnection(c)
    <3>1. UNCHANGED provider
      BY <2>1 DEF ReadConnection
    <3> QED
      BY <1>0, <1>2, <2>0, <2>1, <3>1, ReadLineage
  <2>2. CASE Refresh(c)
    <3>1. caller[c].at # "none"
      BY <2>2 DEF Refresh
    <3>2. caller[c].seen.token.n \in Nat /\ caller[c].seen.token.n <= provider.issued
      BY <3>1, CallersNumbers DEF Numbers
    <3>3. \/ UNCHANGED provider
          \/ provider' = [provider EXCEPT !.issued = @ + 1,
                                          !.used = @ \cup {caller[c].seen.token.n}]
      BY <2>2 DEF Refresh
    <3>4. /\ provider'.dead = provider.dead /\ provider'.issued >= provider.issued
          /\ provider'.used \subseteq provider.used \cup {caller[c].seen.token.n}
          /\ provider.used \subseteq provider'.used /\ provider'.issued \in Nat
      <4>1. PICK n : n = caller[c].seen.token.n
        OBVIOUS
      <4>2. provider.issued \in Nat
        BY <1>0
      <4>3. CASE provider' = [provider EXCEPT !.issued = @ + 1, !.used = @ \cup {n}]
        <5>1. /\ provider'.dead = provider.dead /\ provider'.issued = provider.issued + 1
              /\ provider'.used = provider.used \cup {n}
          BY <1>0, <4>3
        <5> QED
          BY <4>1, <4>2, <5>1
      <4>4. CASE UNCHANGED provider
        BY <4>2, <4>4
      <4> QED
        BY <3>3, <4>1, <4>3, <4>4
    <3>5. ASSUME NEW m \in provider'.used PROVE m <= provider'.issued
      <4>1. m \in Nat /\ m <= provider.issued /\ provider.issued \in Nat
        BY <1>0, <3>2, <3>4
      <4> QED
        BY <3>4, <4>1
    <3>6. provider'.dead \subseteq provider'.used
      BY <1>0, <3>4
    <3>7. Used'
      BY <3>5, <3>6
    <3> QED
      BY <1>2, <2>0, <2>2, <3>7, RefreshLineage
  <2>3. CASE StorePair(c)
    <3>1. UNCHANGED provider
      BY <2>3 DEF StorePair
    <3> QED
      BY <1>0, <1>2, <2>0, <2>3, <3>1, StoreLineage
  <2>4. CASE PairLost(c)
    <3>1. UNCHANGED <<provider, atlassian>> /\ lost' = TRUE
      BY <2>4 DEF PairLost, rows
    <3>2. caller'[c].at = "none" /\ \A d \in Caller \ {c} : caller'[d] = caller[d]
      BY <2>4, CallerGone DEF PairLost, Idle
    <3>3. Succeeded'
      BY <3>1 DEF Succeeded
    <3> QED
      BY <1>0, <1>2, <2>0, <3>1, <3>2, <3>3, DoneLineage
  <2> QED
    BY <1>4, <2>1, <2>2, <2>3, <2>4
<1>5. ASSUME NEW j \in Job, JobStep(j) \/ \E kind \in Kind : Start(j, kind)
      PROVE  Used' /\ (~crossed' => Lineage')
  <2>1. UNCHANGED <<caller, crossed, lost, provider>>
    BY <1>5 DEF JobStep, Describe, CreateKey, CreateAlias, Record, ReadColumn, RewriteColumn,
       ReadAtlassian, RewriteAtlassian, ReadGoogle, RewriteGoogle, Throws, Start, history
  <2>2. CASE RewriteAtlassian(j) /\ ~crossed
    <3>1. job[j].seen \in Connection /\ Fresh(job[j].seen)
      BY <2>2 DEF RewriteAtlassian, Typed, Reading, FreshInv, JobHolds, At
    <3>2. SameRow(job[j].seen) => job[j].seen.token = atlassian.token
      BY <2>2, <3>1, Guarded
    <3>3. /\ atlassian'.id = atlassian.id /\ atlassian'.version = atlassian.version
          /\ atlassian'.token = atlassian.token /\ atlassian'.present = atlassian.present
      BY <1>0, <2>2, <3>2 DEF RewriteAtlassian, Rewritten, Connection
    <3> QED
      BY <1>0, <1>2, <2>1, <3>3, LineageStands
  <2>3. CASE ~RewriteAtlassian(j)
    <3>1. UNCHANGED atlassian
      BY <1>5, <2>3 DEF JobStep, Describe, CreateKey, CreateAlias, Record, ReadColumn,
         RewriteColumn, ReadAtlassian, ReadGoogle, RewriteGoogle, Throws, Start, rows
    <3> QED
      BY <1>0, <1>2, <2>1, <3>1, LineageStands
  <2> QED
    BY <1>0, <2>1, <2>2, <2>3
<1>6. CASE WindowEnds
  <2>1. Used' /\ provider'.used = provider.used /\ UNCHANGED <<atlassian, caller, lost, crossed>>
    BY <1>0, <1>6 DEF WindowEnds, rows, history
  <2> QED
    BY <1>2, <2>1, LineageStands
<1>7. CASE Disconnect
  <2>1. /\ UNCHANGED <<provider, caller, lost, crossed>> /\ ~atlassian'.present
        /\ atlassian'.id = atlassian.id /\ atlassian'.version = atlassian.version
        /\ atlassian'.token = atlassian.token
    BY <1>0, <1>7 DEF Disconnect, history, Connection
  <2> QED
    BY <1>0, <1>2, <2>1, LineageStands
<1>8. CASE WriteColumn \/ SignIn \/ Revoke \/ UNCHANGED vars
  <2>1. UNCHANGED <<provider, atlassian, caller, lost, crossed>>
    BY <1>8 DEF WriteColumn, SignIn, Revoke, vars, rows, history
  <2> QED
    BY <1>0, <1>2, <2>1, LineageStands
<1> QED
  BY <1>3, <1>4, <1>5, <1>6, <1>7, <1>8 DEF Next

\* However many processes refresh the token at once, and whatever is re-encrypted,
\* disconnected and connected beside them: a token that Atlassian takes no more is
\* stored only while a caller has its successor, or after that was lost, or when a
\* connect came in between.
THEOREM StoredTokenLivesAlways == Spec => []StoredTokenLives
<1>1. Init => TokensInv
  <2> SUFFICES ASSUME Init PROVE TokensInv
    OBVIOUS
  <2>1. \A c \in Caller : caller[c].at = "none"
    BY DEF Init, Idle
  <2>2. provider.used = {} /\ provider.dead = {}
    BY DEF Init
  <2> QED
    BY <2>1, <2>2 DEF TokensInv, Succeeded
<1>2. TokensInv => StoredTokenLives
  BY DEF TokensInv, Succeeded, StoredTokenLives
<1> QED
  BY <1>1, <1>2, NextTokens, AlwaysFresh, AlwaysTyped, PTL DEF Spec
=============================================================================
