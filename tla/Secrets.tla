------------------------------ MODULE Secrets -------------------------------
(***************************************************************************)
(* What is encrypted at rest for one org, and the jobs that re-encrypt it. *)
(*                                                                         *)
(* Three rows stand for the kinds of them: one of a version-marked column  *)
(* (recaps, answers, transcripts, the Trello token), the Google refresh    *)
(* token of a member, and the org's Atlassian connection, whose refresh    *)
(* token changes with every use. The org's key in KMS is provisioned, the  *)
(* rows of before are migrated to it, and the key is rotated, by Inngest   *)
(* jobs that read a row, call KMS and write the row back, while the app    *)
(* writes new values, workers refresh the connection's token, and admins   *)
(* connect it again.                                                       *)
(*                                                                         *)
(* A plaintext is a number, larger for one written later; a ciphertext is  *)
(* its plaintext, its format, and the number of the write that sealed it.  *)
(***************************************************************************)
EXTENDS Naturals, FiniteSets

CONSTANTS
    Job,          \* the slots for provisioning, migration and rotation runs
    Caller,       \* the processes that may be refreshing the Atlassian token
    MaxRetries,   \* `retries` of the three functions: 3
    MaxJobs,      \* bound on runs started
    MaxWrites,    \* bound on new values, sign-ins, connects and disconnects
    MaxRefreshes, \* bound on refreshes
    MaxFailures   \* bound on what fails

ASSUME SecretsAssumption ==
    /\ MaxRetries \in Nat /\ MaxJobs \in Nat /\ MaxWrites \in Nat
    /\ MaxRefreshes \in Nat /\ MaxFailures \in Nat

VARIABLES
    kms,        \* the org's keys: how many were made, the one its alias names
    record,     \* org_encryption_keys: the key it names, and its status
    column,     \* the row of a version-marked column
    google,     \* the row of user_google_tokens
    atlassian,  \* the row of atlassian_connections
    provider,   \* Atlassian: the tokens and grants issued, those used, those dead
    job,        \* job[j]: the run in flight
    caller,     \* caller[c]: the refresh in flight
    budget,     \* what is left of the bounds
    migrated,   \* history: a migration has finished
    lost,       \* history: a refreshed pair was not stored, and none since
    crossed     \* history: a connect came between a read of the connection and its write

history == <<migrated, lost, crossed>>
vars == <<kms, record, column, google, atlassian, provider, job, caller, budget, history>>
rows == <<column, google, atlassian>>

Kind == {"provision", "migrate", "rotate"}
Idle == [at |-> "none"]

\* An org of before the per-org keys, with legacy rows or none.
Init ==
    /\ kms = [made |-> 0, alias |-> 0]
    /\ record = [key |-> 0, status |-> "none"]
    /\ \E format \in {"none", "legacy"} :
         /\ column = [value |-> 0, format |-> format, marked |-> FALSE, seal |-> 0]
         /\ google = column
    /\ \E present \in BOOLEAN, version \in 0..1 :
         /\ present \/ version = 0
         /\ atlassian = [present |-> present, id |-> 1, format |-> "legacy",
                         version |-> version, token |-> [grant |-> 1, n |-> 1]]
    /\ provider = [issued |-> 1, grants |-> 1, used |-> {}, dead |-> {}]
    /\ job = [j \in Job |-> Idle]
    /\ caller = [c \in Caller |-> Idle]
    /\ budget = [jobs |-> MaxJobs, writes |-> MaxWrites, refreshes |-> MaxRefreshes,
                 failures |-> MaxFailures]
    /\ migrated = FALSE
    /\ lost = FALSE
    /\ crossed = FALSE

Spend(what) == budget[what] > 0 /\ budget' = [budget EXCEPT ![what] = @ - 1]

\* Encrypting addresses the org's key by its alias.
CanEncrypt == kms.alias # 0

-----------------------------------------------------------------------------
(***************************************************************************)
(* The app's own writes.                                                   *)
(***************************************************************************)
SealedUnmarked(row, value) ==
    [value |-> value, format |-> "kms", marked |-> row.marked, seal |-> row.seal + 1]
Sealed(row, value) == [value |-> value, format |-> "kms", marked |-> TRUE, seal |-> row.seal + 1]

WriteColumn ==
    /\ CanEncrypt /\ Spend("writes")
    /\ column' = Sealed(column, column.value + 1)
    /\ UNCHANGED <<kms, record, google, atlassian, provider, job, caller, history>>

\* The OAuth callback of a sign-in.
SignIn ==
    /\ CanEncrypt /\ Spend("writes")
    /\ google' = Sealed(google, google.value + 1)
    /\ UNCHANGED <<kms, record, column, atlassian, provider, job, caller, history>>

\* Someone has read the connection and will write it.
Held ==
    \/ \E j \in Job : job[j].at = "atlassian write"
    \/ \E c \in Caller : caller[c].at # "none"

Issue(grant) == [grant |-> grant, n |-> provider.issued + 1]

\* The OAuth callback of a connect: an upsert by org, so a row that is there keeps
\* its id; token_version is 0 in any case.
Connect ==
    LET grant == provider.grants + 1
    IN  /\ CanEncrypt /\ Spend("writes")
        /\ atlassian' = [present |-> TRUE, format |-> "kms", version |-> 0,
                         id |-> IF atlassian.present THEN atlassian.id ELSE atlassian.id + 1,
                         token |-> Issue(grant)]
        /\ provider' = [provider EXCEPT !.issued = @ + 1, !.grants = grant]
        /\ lost' = FALSE
        /\ crossed' = (crossed \/ (atlassian.present /\ Held))
        /\ UNCHANGED <<kms, record, column, google, job, caller, migrated>>

\* maybeDisconnectCredential deletes the row.
Disconnect ==
    /\ atlassian.present /\ Spend("writes")
    /\ atlassian' = [atlassian EXCEPT !.present = FALSE]
    /\ UNCHANGED <<kms, record, column, google, provider, job, caller, history>>

-----------------------------------------------------------------------------
(***************************************************************************)
(* getValidAtlassianToken, of a token that has expired. Callers in one     *)
(* process share one refresh, and are one caller here.                     *)
(***************************************************************************)
CallerGoes(c, entry) == caller' = [caller EXCEPT ![c] = entry]

ReadConnection(c) ==
    /\ caller[c].at = "none"
    /\ atlassian.present /\ atlassian.format = "kms"
    /\ Spend("refreshes")
    /\ CallerGoes(c, [at |-> "refresh", seen |-> atlassian])
    /\ UNCHANGED <<kms, record, column, google, atlassian, provider, job, history>>

\* Atlassian answers with a new token and takes the old one for used; one that is
\* dead it refuses.
Refresh(c) ==
    /\ caller[c].at = "refresh"
    /\ LET token == caller[c].seen.token
       IN  IF token.n \in provider.dead
           THEN CallerGoes(c, Idle) /\ UNCHANGED provider
           ELSE /\ provider' = [provider EXCEPT !.issued = @ + 1, !.used = @ \cup {token.n}]
                /\ CallerGoes(c, [at |-> "store", seen |-> caller[c].seen,
                                  token |-> Issue(token.grant)])
    /\ UNCHANGED <<kms, record, rows, job, budget, history>>

SameRow(seen) ==
    atlassian.present /\ atlassian.id = seen.id /\ atlassian.version = seen.version

\* The guarded update; a caller that lost the race reads the winner's pair.
StorePair(c) ==
    /\ caller[c].at = "store"
    /\ IF SameRow(caller[c].seen)
       THEN /\ atlassian' = [atlassian EXCEPT !.format = "kms", !.token = caller[c].token,
                                              !.version = caller[c].seen.version + 1]
            /\ lost' = FALSE
       ELSE UNCHANGED <<atlassian, lost>>
    /\ CallerGoes(c, Idle)
    /\ UNCHANGED <<kms, record, column, google, provider, job, budget, migrated, crossed>>

\* The answer, the encryption or the update fails.
PairLost(c) ==
    /\ caller[c].at = "store"
    /\ Spend("failures")
    /\ lost' = TRUE
    /\ CallerGoes(c, Idle)
    /\ UNCHANGED <<kms, record, rows, provider, job, migrated, crossed>>

\* The reuse window of the used tokens is over.
WindowEnds ==
    /\ provider.used \ provider.dead # {}
    /\ provider' = [provider EXCEPT !.dead = provider.used]
    /\ UNCHANGED <<kms, record, rows, job, caller, budget, history>>

-----------------------------------------------------------------------------
(***************************************************************************)
(* The jobs. The steps of a migration are inside one Inngest step, which   *)
(* starts again as a whole; a rotation has a step for each page of a       *)
(* column, for Atlassian and for Google.                                   *)
(***************************************************************************)
At(j, place) == job[j].at = place
Is(j, kind) == job[j].kind = kind
Goes(j, place) == job' = [job EXCEPT ![j].at = place, ![j].key = 0, ![j].seen = Idle]
GoesWith(j, place, seen) == job' = [job EXCEPT ![j].at = place, ![j].seen = seen]
Ends(j) ==
    /\ job' = [job EXCEPT ![j] = Idle]
    /\ migrated' = (migrated \/ Is(j, "migrate"))

Start(j, kind) ==
    /\ At(j, "none") /\ Spend("jobs")
    /\ job' = [job EXCEPT ![j] = [kind |-> kind, tries |-> 0, key |-> 0, seen |-> Idle,
                                  at |-> IF kind = "rotate" THEN "column" ELSE "describe"]]
    /\ UNCHANGED <<kms, record, rows, provider, caller, history>>

\* provisionOrgKey: DescribeKey by the alias, and nothing to create if it is there.
Describe(j) ==
    /\ At(j, "describe")
    /\ job' = [job EXCEPT ![j].at = IF kms.alias = 0 THEN "create" ELSE "record",
                          ![j].key = kms.alias]
    /\ UNCHANGED <<kms, record, rows, provider, caller, budget, history>>

CreateKey(j) ==
    /\ At(j, "create")
    /\ kms' = [kms EXCEPT !.made = @ + 1]
    /\ job' = [job EXCEPT ![j].at = "alias", ![j].key = kms.made + 1]
    /\ UNCHANGED <<record, rows, provider, caller, budget, history>>

AdoptedOwn(j) == job[j].key

\* The key a run goes on with, once the alias is there: the one the alias names.
Adopted(j) == kms'.alias

\* CreateAlias, and the second look when it fails, or says the alias exists.
CreateAlias(j) ==
    /\ At(j, "alias")
    /\ \/ kms' = [kms EXCEPT !.alias = IF @ = 0 THEN job[j].key ELSE @]
          /\ UNCHANGED budget
       \/ UNCHANGED kms /\ kms.alias # 0 /\ Spend("failures")
    /\ job' = [job EXCEPT ![j].at = "record", ![j].key = Adopted(j)]
    /\ UNCHANGED <<record, rows, provider, caller, history>>

Recorded(j) == [key |-> job[j].key, status |-> "active"]

\* The upsert of org_encryption_keys.
Record(j) ==
    /\ At(j, "record")
    /\ record' = Recorded(j)
    /\ IF Is(j, "provision") THEN Ends(j) ELSE Goes(j, "column") /\ UNCHANGED migrated
    /\ UNCHANGED <<kms, rows, provider, caller, budget, lost, crossed>>

\* The rows a job takes: a migration those with an older mark, whatever is in them;
\* a rotation those with the mark and something in them.
Takes(j, row) == IF Is(j, "migrate") THEN ~row.marked ELSE row.marked /\ row.format # "none"

ReadColumn(j) ==
    /\ At(j, "column")
    /\ IF Takes(j, column) THEN GoesWith(j, "column write", column) ELSE Goes(j, "atlassian")
    /\ UNCHANGED <<kms, record, rows, provider, caller, budget, history>>

\* A row without a ciphertext gets the mark, so that the pass can end.
Stamped(row) == [row EXCEPT !.marked = TRUE]

MigratedUnguarded(row, seen) ==
    IF seen.format = "none" THEN Stamped(row) ELSE Sealed(row, seen.value)

\* The update of a migration, guarded by the mark.
Migrated(row, seen) ==
    IF seen.format = "none" THEN Stamped(row)
    ELSE IF row.marked THEN row ELSE Sealed(row, seen.value)

RotatedUnguarded(row, seen) == Sealed(row, seen.value)

\* That of a rotation, guarded by the ciphertext that was read.
Rotated(row, seen) == IF row.seal = seen.seal THEN Sealed(row, seen.value) ELSE row

Encrypts(j) == job[j].seen.format # "none" => CanEncrypt

\* A migration reads the column again until a pass finds no row.
RewriteColumn(j) ==
    /\ At(j, "column write") /\ Encrypts(j)
    /\ column' = IF Is(j, "migrate") THEN Migrated(column, job[j].seen)
                 ELSE Rotated(column, job[j].seen)
    /\ Goes(j, IF Is(j, "migrate") THEN "column" ELSE "atlassian")
    /\ UNCHANGED <<kms, record, google, atlassian, provider, caller, budget, history>>

ProbesByVersion(j) == Is(j, "migrate") /\ atlassian.version > 0

\* A migration decrypts to find out: what does is encrypted already.
Probes(j) == Is(j, "migrate") /\ atlassian.format = "kms"

\* A rotation can only decrypt what is encrypted with the org's key.
ReadAtlassian(j) ==
    /\ At(j, "atlassian")
    /\ IF ~atlassian.present \/ Probes(j)
       THEN Goes(j, "google")
       ELSE /\ Is(j, "migrate") \/ atlassian.format = "kms"
            /\ GoesWith(j, "atlassian write", atlassian)
    /\ UNCHANGED <<kms, record, rows, provider, caller, budget, history>>

RewrittenUnguarded(seen) ==
    IF atlassian.present THEN [atlassian EXCEPT !.format = "kms", !.token = seen.token]
    ELSE atlassian

\* The update of the pair, guarded by token_version, which it leaves as it is.
Rewritten(seen) ==
    IF SameRow(seen) THEN [atlassian EXCEPT !.format = "kms", !.token = seen.token]
    ELSE atlassian

RewriteAtlassian(j) ==
    /\ At(j, "atlassian write") /\ CanEncrypt
    /\ atlassian' = Rewritten(job[j].seen)
    /\ Goes(j, "google")
    /\ UNCHANGED <<kms, record, column, google, provider, caller, budget, history>>

ReadGoogle(j) ==
    /\ At(j, "google")
    /\ IF Takes(j, google) THEN GoesWith(j, "google write", google) /\ UNCHANGED migrated
       ELSE Ends(j)
    /\ UNCHANGED <<kms, record, rows, provider, caller, budget, lost, crossed>>

\* The rotation's update of a Google token has no guard.
RewriteGoogle(j) ==
    /\ At(j, "google write") /\ Encrypts(j)
    /\ google' = IF Is(j, "migrate") THEN Migrated(google, job[j].seen)
                 ELSE Sealed(google, job[j].seen.value)
    /\ Ends(j)
    /\ UNCHANGED <<kms, record, column, atlassian, provider, caller, budget, lost, crossed>>

\* What the check constraint of the table admits.
StatusAllowed == {"active", "disabled", "rotating"}

\* disableOrgKey, a run of mode `revoke`: an update the constraint refuses fails, and
\* with it the run.
Revoke ==
    /\ Spend("jobs")
    /\ record' = IF record.status # "none" /\ "revoked" \in StatusAllowed
                 THEN [record EXCEPT !.status = "revoked"] ELSE record
    /\ UNCHANGED <<kms, rows, provider, job, caller, migrated, lost, crossed>>

\* Where a run that throws starts again.
StepOf(j) ==
    IF ~Is(j, "rotate") THEN "describe"
    ELSE IF job[j].at = "column write" THEN "column"
    ELSE IF job[j].at = "atlassian write" THEN "atlassian"
    ELSE IF job[j].at = "google write" THEN "google"
    ELSE job[j].at

Undecryptable(j) ==
    At(j, "atlassian") /\ Is(j, "rotate") /\ atlassian.present /\ atlassian.format # "kms"

Throws(j) ==
    /\ ~At(j, "none")
    /\ Spend("failures") \/ (Undecryptable(j) /\ UNCHANGED budget)
    /\ job' = [job EXCEPT ![j] =
         IF job[j].tries = MaxRetries THEN Idle
         ELSE [job[j] EXCEPT !.at = StepOf(j), !.tries = job[j].tries + 1, !.seen = Idle]]
    /\ UNCHANGED <<kms, record, rows, provider, caller, history>>

-----------------------------------------------------------------------------
JobStep(j) ==
    \/ Describe(j) \/ CreateKey(j) \/ CreateAlias(j) \/ Record(j)
    \/ ReadColumn(j) \/ RewriteColumn(j) \/ ReadAtlassian(j) \/ RewriteAtlassian(j)
    \/ ReadGoogle(j) \/ RewriteGoogle(j) \/ Throws(j)

Next ==
    \/ WriteColumn \/ SignIn \/ Connect \/ Disconnect
    \/ \E c \in Caller : ReadConnection(c) \/ Refresh(c) \/ StorePair(c) \/ PairLost(c)
    \/ WindowEnds
    \/ \E j \in Job : JobStep(j) \/ \E kind \in Kind : Start(j, kind)
    \/ Revoke

Spec == Init /\ [][Next]_vars

-----------------------------------------------------------------------------
(***************************************************************************)
(* Properties.                                                             *)
(***************************************************************************)
Format == {"none", "legacy", "kms"}
Row == [value : Nat, format : Format, marked : BOOLEAN, seal : Nat]
Token == [grant : Nat, n : Nat]
Connection == [present : BOOLEAN, id : Nat, format : Format, version : Nat, token : Token]
Place == {"describe", "create", "alias", "record", "column", "column write", "atlassian",
          "atlassian write", "google", "google write"}
Run == [kind : Kind, tries : Nat, key : Nat, at : Place, seen : {Idle} \cup Row \cup Connection]
Refreshing == [at : {"refresh"}, seen : Connection]
Storing == [at : {"store"}, seen : Connection, token : Token]

\* The shape of the state: in particular the status is one the table admits.
SecretsTypeOK ==
    /\ kms \in [made : Nat, alias : Nat]
    /\ record \in [key : Nat, status : {"none"} \cup StatusAllowed]
    /\ column \in Row /\ google \in Row /\ atlassian \in Connection
    /\ provider \in [issued : Nat, grants : Nat, used : SUBSET Nat, dead : SUBSET Nat]
    /\ job \in [Job -> {Idle} \cup Run]
    /\ caller \in [Caller -> {Idle} \cup Refreshing \cup Storing]
    /\ migrated \in BOOLEAN /\ lost \in BOOLEAN /\ crossed \in BOOLEAN

\* The version of a row tells its format, at every moment of a migration, a
\* rotation and the writes beside them: no row is marked and still legacy, which
\* nothing could decrypt any more, and none is encrypted anew without its mark,
\* which a migration would decrypt with the wrong key.
MarksTellTheFormat ==
    \A row \in {column, google} : row.format # "none" => (row.marked <=> row.format = "kms")

\* After a migration has finished nothing is left in the old format, whoever was
\* refreshing, connecting and writing meanwhile: what the migration that drops the
\* legacy helpers relies on.
NothingLegacyAfterwards ==
    migrated => /\ column.format # "legacy" /\ google.format # "legacy"
                /\ atlassian.present => atlassian.format = "kms"

\* A rotation writes what it read of a Google token that was replaced meanwhile.
Outdated(j) ==
    /\ At(j, "google write") /\ ~Is(j, "migrate") /\ job[j].seen.seal # google.seal
    /\ google' = Sealed(google, job[j].seen.value)

\* No write puts an older value back over a newer one: neither a plaintext of a
\* column, nor a Google refresh token, nor an Atlassian token. Two cases are
\* excepted, and no other: a connect, which sets token_version back to 0, came
\* between the read of the connection and its write; and a rotation's update of
\* a Google token, which has no guard, writes what a sign-in has replaced since.
NothingGoesBack ==
    [][/\ column'.value >= column.value
       /\ google'.value >= google.value \/ \E j \in Job : Outdated(j)
       /\ crossed \/ atlassian'.token.n >= atlassian.token.n]_vars

\* The refresh token that is stored is one Atlassian still takes, or a caller has
\* its successor, or that was lost; but for a connect that came in between.
StoredTokenLives ==
    atlassian.present /\ atlassian.token.n \in provider.dead =>
        \/ lost \/ crossed
        \/ \E c \in Caller : caller[c].at = "store" /\ caller[c].seen.token = atlassian.token

\* The record names the key everything is encrypted with, however many runs
\* provision it at once and whichever call of theirs fails.
RecordNamesTheKey == record.status # "none" => record.key = kms.alias /\ kms.alias # 0
=============================================================================
