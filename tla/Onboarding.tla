----------------------------- MODULE Onboarding -----------------------------
(***************************************************************************)
(* OnboardingService (aurix_core/onboarding/service.py) for one tenant:    *)
(* files are uploaded, staged, mapped row by row into the canonical tables *)
(* by CanonicalMapper (aurix_core/data_foundation/db_mapper.py), their     *)
(* rejected rows are quarantined, and one commit ends the run together     *)
(* with its IngestionRun.  Runs interleave at every database statement.    *)
(*                                                                         *)
(* A run is one database transaction, and the mapper rolls the WHOLE       *)
(* transaction back when the insert of a single row fails: the rows before *)
(* it and the staged file are gone, and the run goes on with what is left. *)
(* Any other exception ends the mapping, after the same rollback.          *)
(*                                                                         *)
(* Parsing, schema discovery and validation are data: a file says how its  *)
(* columns map and what becomes of each of its rows.                       *)
(***************************************************************************)
EXTENDS Naturals, Sequences, FiniteSets

CONSTANTS
    Runs,        \* run ids, each for one upload
    Keys,        \* business ids of the rows
    Traced,      \* ids of the tables with a column for the run: all but purchase_orders
    Foreign,     \* ids the database refuses: the primary key is another tenant's
    Files,       \* what may be uploaded
    None,        \* no run, no status
    Unnamed,     \* a row is there and names no run
    MaxResumes   \* bound: mappings resolved by hand

Entities == {"operational", "analytical"}
Fates == {"accepted", "incomplete", "rejected"}   \* incomplete: accepted, then skipped

ASSUME FilesAssumption ==
    Files \subseteq [entity : Entities,
                     mapping : {"clear", "ambiguous", "unknown"},
                     rows : Seq([key : Keys, fate : Fates])]
ASSUME NoneAssumption ==
    /\ None \notin Runs /\ None \notin Files /\ Unnamed \notin Runs \cup {None}
    /\ None \notin {"USER_INPUT_REQUIRED", "COMPLETED", "PARTIAL_SUCCESS", "PROCESSING",
                  "RESUMED"}
ASSUME KeysAssumption == Foreign \subseteq Keys /\ Traced \subseteq Keys

VARIABLES
    rows,        \* canonical rows: for each id the run the row names
    staged,      \* onboarding_datasets: status of each run's staged file
    audit,       \* ingestion_runs
    quarantine,  \* onboarding_quarantine: positions of rejected rows, per run
    file,        \* what each run was given
    pc,          \* where each run is
    at,          \* the row it is at
    session,     \* its open transaction
    answer,      \* what its client was told last
    resumes      \* number of mappings resolved

database == <<rows, staged, audit, quarantine>>
vars == <<database, file, pc, at, session, answer, resumes>>

(***************************************************************************)
(* The open transaction: the staged file's status, the ids added or        *)
(* changed, those of them flushed (and so locked), the quarantined rows,   *)
(* and success_count, which is a Python variable and survives a rollback.  *)
(***************************************************************************)
Empty == [staged |-> None, written |-> {}, locked |-> {}, kept |-> {}, count |-> 0]

RolledBack(s) == [Empty EXCEPT !.count = s.count]
Counted(s, id) == [s EXCEPT !.written = @ \cup {id}, !.count = @ + 1]
Flushed(s) == [s EXCEPT !.locked = s.written]

Row(r) == file[r].rows[at[r]]
Rejected(r) == {i \in DOMAIN file[r].rows : file[r].rows[i].fate = "rejected"}

Init ==
    /\ rows = [k \in Keys |-> None]
    /\ staged = [r \in Runs |-> None]
    /\ audit = [r \in Runs |-> None]
    /\ quarantine = [r \in Runs |-> {}]
    /\ file = [r \in Runs |-> None]
    /\ pc = [r \in Runs |-> "idle"]
    /\ at = [r \in Runs |-> 1]
    /\ session = [r \in Runs |-> Empty]
    /\ answer = [r \in Runs |-> None]
    /\ resumes = 0

GoTo(r, label) == pc' = [pc EXCEPT ![r] = label]
Answer(r, status) == answer' = [answer EXCEPT ![r] = status]
Session(r, s) == session' = [session EXCEPT ![r] = s]
NextRow(r) == at' = [at EXCEPT ![r] = @ + 1]

\* The canonical rows with those of the run: the last run that writes a row is the one
\* it names.
Written(r) ==
    [k \in Keys |-> IF k \notin session[r].written THEN rows[k]
                    ELSE IF k \in Traced THEN r ELSE Unnamed]

\* Another transaction has flushed, and so locked, one of the ids.
Blocked(r, ids) == \E s \in Runs \ {r} : session[s].locked \cap ids # {}

-----------------------------------------------------------------------------
(***************************************************************************)
(* onboard_file.  A file that is not safe or not parsable is answered      *)
(* FAILED and nothing is stored.  A file with ambiguous columns is staged  *)
(* and committed; one whose entity is not recognised is only flushed, and  *)
(* the session is closed without a commit.                                 *)
(***************************************************************************)
Refuse(r) ==
    /\ file[r] = None /\ answer[r] = None
    /\ Answer(r, "FAILED")
    /\ UNCHANGED <<database, file, pc, at, session, resumes>>

UploadUnclear(r, f) ==
    /\ file[r] = None /\ answer[r] = None
    /\ f.mapping # "clear"
    /\ file' = [file EXCEPT ![r] = f]
    /\ staged' = [staged EXCEPT ![r] = IF f.mapping = "ambiguous" THEN "USER_INPUT_REQUIRED" ELSE @]
    /\ Answer(r, "USER_INPUT_REQUIRED")
    /\ UNCHANGED <<rows, audit, quarantine, pc, at, session, resumes>>

\* Analytical entities have no table to be mapped to.
Upload(r, f) ==
    /\ file[r] = None /\ answer[r] = None
    /\ f.mapping = "clear"
    /\ file' = [file EXCEPT ![r] = f]
    /\ Session(r, [Empty EXCEPT !.staged = "PROCESSING"])
    /\ GoTo(r, IF f.entity = "operational" THEN "row" ELSE "quarantine")
    /\ UNCHANGED <<database, at, answer, resumes>>

(***************************************************************************)
(* CanonicalMapper.map_*: look the row's id up, change the row that is     *)
(* there (flushed later) or insert one and flush.  Rejected rows are not   *)
(* passed to it, and it skips incomplete ones.                             *)
(***************************************************************************)
LookUp(r) ==
    /\ pc[r] = "row"
    /\ at[r] <= Len(file[r].rows)
    /\ LET found == rows[Row(r).key] # None \/ Row(r).key \in session[r].written IN
       \/ /\ Row(r).fate # "accepted"
          /\ NextRow(r)
          /\ UNCHANGED <<pc, session>>
       \/ /\ Row(r).fate = "accepted" /\ found
          /\ Session(r, Counted(session[r], Row(r).key))
          /\ NextRow(r)
          /\ UNCHANGED pc
       \/ /\ Row(r).fate = "accepted" /\ ~found
          /\ GoTo(r, "insert")
          /\ UNCHANGED <<at, session>>
    /\ UNCHANGED <<database, file, answer, resumes>>

\* The insert waits for a transaction that holds one of the ids it flushes.
Insert(r) ==
    /\ pc[r] = "insert"
    /\ Row(r).key \notin Foreign /\ rows[Row(r).key] = None
    /\ ~Blocked(r, session[r].written \cup {Row(r).key})
    /\ Session(r, Flushed(Counted(session[r], Row(r).key)))
    /\ NextRow(r)
    /\ GoTo(r, "row")
    /\ UNCHANGED <<database, file, answer, resumes>>

\* Mutant of InsertFails: the row that failed is counted.
InsertFails_Counted(r) ==
    /\ pc[r] = "insert"
    /\ \/ Row(r).key \in Foreign
       \/ rows[Row(r).key] # None
       \/ Blocked(r, session[r].written \cup {Row(r).key})
    /\ Session(r, [RolledBack(session[r]) EXCEPT !.count = @ + 1])
    /\ NextRow(r)
    /\ GoTo(r, "row")
    /\ UNCHANGED <<database, file, answer, resumes>>

\* The id is another tenant's or was inserted by somebody else meanwhile, or the
\* wait ends in a deadlock or a statement timeout.  Everything is rolled back.
InsertFails(r) ==
    /\ pc[r] = "insert"
    /\ \/ Row(r).key \in Foreign
       \/ rows[Row(r).key] # None
       \/ Blocked(r, session[r].written \cup {Row(r).key})
    /\ Session(r, RolledBack(session[r]))
    /\ NextRow(r)
    /\ GoTo(r, "row")
    /\ UNCHANGED <<database, file, answer, resumes>>

\* A resumed run is answered here; see resolve_manual_mapping below.
LeaveRows(r) == GoTo(r, IF answer[r] = None THEN "quarantine" ELSE "answer")

EndRows(r) ==
    /\ pc[r] = "row"
    /\ at[r] > Len(file[r].rows)
    /\ LeaveRows(r)
    /\ UNCHANGED <<database, file, at, session, answer, resumes>>

\* An exception that is not the database's, such as a number that does not convert,
\* leaves the mapper: everything is rolled back, nothing counts as stored, the rows
\* that are left are not looked at, and the run goes on.
MapperRaises(r) ==
    /\ pc[r] = "row"
    /\ at[r] <= Len(file[r].rows) /\ Row(r).fate # "rejected"
    /\ Session(r, Empty)
    /\ at' = [at EXCEPT ![r] = Len(file[r].rows) + 1]
    /\ LeaveRows(r)
    /\ UNCHANGED <<database, file, answer, resumes>>

\* Mutant of Quarantine: a failure is logged and the run goes on.
Quarantine_GoesOn(r) ==
    /\ pc[r] = "quarantine"
    /\ \/ /\ ~Blocked(r, session[r].written)
          /\ Session(r, [Flushed(session[r]) EXCEPT !.kept = Rejected(r)])
       \/ Session(r, RolledBack(session[r]))
    /\ GoTo(r, "commit")
    /\ UNCHANGED <<database, file, at, answer, resumes>>

\* The rejected rows are added and flushed, with what was changed before.
Quarantine(r) ==
    /\ pc[r] = "quarantine"
    /\ \/ /\ Rejected(r) # {}
          /\ ~Blocked(r, session[r].written)
          /\ Session(r, [Flushed(session[r]) EXCEPT !.kept = Rejected(r)])
       \/ Rejected(r) = {} /\ UNCHANGED session
    /\ GoTo(r, "commit")
    /\ UNCHANGED <<database, file, at, answer, resumes>>

\* The run is whole as far as it knows: no row rejected, each counted as stored.
Whole(r) ==
    /\ Rejected(r) = {}
    /\ file[r].entity = "operational" => session[r].count = Len(file[r].rows)

\* The one commit: rows, staged file (if it is still there), quarantine and audit.
\* Capabilities that are only partly available lower the status, not the audit's.
Commit(r) ==
    /\ pc[r] = "commit"
    /\ ~Blocked(r, session[r].written)
    /\ \E status \in {"COMPLETED", "PARTIAL_SUCCESS"} :
          /\ status = "COMPLETED" => Whole(r)
          /\ staged' = [staged EXCEPT ![r] = IF session[r].staged = None THEN @ ELSE status]
          /\ Answer(r, status)
    /\ rows' = Written(r)
    /\ quarantine' = [quarantine EXCEPT ![r] = session[r].kept]
    /\ audit' = [audit EXCEPT ![r] = IF Whole(r) THEN "COMPLETED" ELSE "PARTIAL_SUCCESS"]
    /\ Session(r, Empty)
    /\ GoTo(r, "idle")
    /\ UNCHANGED <<file, at, resumes>>

\* A failed quarantine, a failed commit, a lost connection or a dead process.
Fail(r) ==
    /\ pc[r] # "idle"
    /\ Session(r, Empty)
    /\ GoTo(r, "idle")
    /\ Answer(r, "ERROR")
    /\ UNCHANGED <<database, file, at, resumes>>

-----------------------------------------------------------------------------
(***************************************************************************)
(* resolve_manual_mapping.  It resumes a run from its staged file, or from *)
(* the records the client sends again, whatever the status of the run; it  *)
(* maps the rows and answers, and nobody commits: the session is closed.   *)
(***************************************************************************)
Resume(r) ==
    /\ resumes < MaxResumes
    /\ resumes' = resumes + 1
    /\ pc[r] = "idle" /\ file[r] # None
    /\ \/ /\ Session(r, [Empty EXCEPT !.staged = staged[r]])
          /\ at' = [at EXCEPT ![r] = 1]
          /\ GoTo(r, IF file[r].entity = "operational" THEN "row" ELSE "answer")
          /\ Answer(r, "RESUMED")
       \/ /\ Answer(r, "USER_INPUT_REQUIRED")            \* the entity stays unknown
          /\ UNCHANGED <<at, pc, session>>
       \/ /\ staged[r] = None                            \* and nothing was sent
          /\ Answer(r, "FAILED")
          /\ UNCHANGED <<at, pc, session>>
    /\ UNCHANGED <<database, file>>

\* Mutant of AnswerResumed: the rows are committed.
AnswerResumed_Commits(r) ==
    /\ pc[r] = "answer"
    /\ ~Blocked(r, session[r].written)
    /\ Answer(r, IF Whole(r) THEN "COMPLETED" ELSE "PARTIAL_SUCCESS")
    /\ rows' = Written(r)
    /\ Session(r, Empty)
    /\ GoTo(r, "idle")
    /\ UNCHANGED <<staged, audit, quarantine, file, at, resumes>>

AnswerResumed(r) ==
    /\ pc[r] = "answer"
    /\ Answer(r, IF Whole(r) THEN "COMPLETED" ELSE "PARTIAL_SUCCESS")
    /\ Session(r, Empty)
    /\ GoTo(r, "idle")
    /\ UNCHANGED <<database, file, at, resumes>>

Step(r) ==
    \/ LookUp(r) \/ Insert(r) \/ InsertFails(r) \/ EndRows(r)
    \/ MapperRaises(r) \/ Quarantine(r) \/ Commit(r) \/ AnswerResumed(r)

Next ==
    \E r \in Runs :
        \/ Refuse(r)
        \/ \E f \in Files : UploadUnclear(r, f) \/ Upload(r, f)
        \/ Step(r) \/ Fail(r) \/ Resume(r)

Spec == Init /\ [][Next]_vars

-----------------------------------------------------------------------------
Statuses == {"USER_INPUT_REQUIRED", "COMPLETED", "PARTIAL_SUCCESS"}

Sessions ==
    [staged : Statuses \cup {None, "PROCESSING"}, written : SUBSET Keys,
     locked : SUBSET Keys, kept : SUBSET (Nat \ {0}), count : Nat]

TypeOK ==
    /\ rows \in [Keys -> Runs \cup {None, Unnamed}]
    /\ staged \in [Runs -> Statuses \cup {None}]
    /\ audit \in [Runs -> Statuses \cup {None}]
    /\ quarantine \in [Runs -> SUBSET (Nat \ {0})]
    /\ file \in [Runs -> Files \cup {None}]
    /\ pc \in [Runs -> {"idle", "row", "insert", "quarantine", "commit", "answer"}]
    /\ at \in [Runs -> Nat \ {0}]
    /\ session \in [Runs -> Sessions]
    /\ answer \in [Runs -> Statuses \cup {None, "FAILED", "RESUMED", "ERROR"}]
    /\ resumes \in Nat

\* A run on record as COMPLETED has all of its rows in the tables and its file
\* staged, although any failing insert discards the rows before it
\* (db_mapper.py:178-180, service.py:1160-1190, 1232-1247).
CompletedIsWhole ==
    \A r \in Runs : audit[r] = "COMPLETED" =>
        /\ staged[r] # None
        /\ file[r].entity = "operational" =>
              \A i \in DOMAIN file[r].rows : rows[file[r].rows[i].key] # None

\* A run on record has kept every row it rejected, whatever was rolled back on the
\* way: "never silently discarded" (service.py:1117-1158).
RejectedAreKept ==
    \A r \in Runs : audit[r] # None => quarantine[r] = Rejected(r)

\* Provenance, of the tables that have it: a canonical row that onboarding wrote, other
\* than a purchase order, names a run that is on record, so a run that failed, or whose
\* mapping was resolved by hand, has left none of these behind (service.py:1269-1271).
\* A purchase order names no run (db_mapper.py:545-594).
RowsAreAudited ==
    \A k \in Traced : rows[k] # None => rows[k] \in Runs /\ audit[rows[k]] # None
=============================================================================
