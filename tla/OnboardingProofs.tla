-------------------------- MODULE OnboardingProofs --------------------------
(***************************************************************************)
(* For any runs, ids, files and interleaving: a run on record as COMPLETED *)
(* is whole, every run on record has kept the rows it rejected, and every  *)
(* canonical row of a table with a column for it names a run on record.    *)
(*                                                                         *)
(* The argument is about success_count.  It survives a rollback, but the   *)
(* row whose failure causes one is not counted: from then on the count     *)
(* lags behind the position in the file, so a count that has not lagged    *)
(* says that nothing was rolled back.  An exception that leaves the mapper *)
(* sets the count to 0 and passes over rows, and so lags as well.          *)
(***************************************************************************)
EXTENDS Onboarding, SequenceTheorems, TLAPS

Length(r) == Len(file[r].rows)

\* A run that was given nothing has done nothing.
Fresh(r) == file[r] = None => at[r] = 1 /\ pc[r] = "idle" /\ audit[r] = None

\* Where a run stands in its file.
Position(r) ==
    /\ pc[r] # "idle" => file[r] # None /\ at[r] <= Length(r) + 1
    /\ pc[r] \in {"row", "insert"} => file[r].entity = "operational"
    /\ pc[r] = "insert" => at[r] <= Length(r)
    /\ pc[r] \in {"quarantine", "commit"} =>
          /\ answer[r] = None
          /\ at[r] = IF file[r].entity = "operational" THEN Length(r) + 1 ELSE 1
    /\ pc[r] # "idle" => session[r].kept = IF pc[r] = "commit" THEN Rejected(r) ELSE {}

\* An open transaction whose count is that of the rows passed has lost nothing.
NothingLost(r) ==
    pc[r] # "idle" =>
        /\ session[r].count <= at[r] - 1
        /\ session[r].count = at[r] - 1 =>
              /\ answer[r] = None => session[r].staged # None
              /\ \A i \in 1..(at[r] - 1) :
                    \/ file[r].rows[i].key \in session[r].written
                    \/ rows[file[r].rows[i].key] # None

Stored == CompletedIsWhole /\ RejectedAreKept /\ RowsAreAudited

IInv ==
    /\ TypeOK
    /\ \A r \in Runs : Fresh(r) /\ Position(r) /\ NothingLost(r)
    /\ Stored

\* What a file is.
LEMMA FileShape ==
    ASSUME NEW f \in Files
    PROVE  /\ f # None
           /\ f.entity \in Entities
           /\ Len(f.rows) \in Nat /\ DOMAIN f.rows = 1..Len(f.rows)
           /\ \A i \in DOMAIN f.rows : f.rows[i].key \in Keys /\ f.rows[i].fate \in Fates
<1>1. f \in [entity : Entities, mapping : {"clear", "ambiguous", "unknown"},
              rows : Seq([key : Keys, fate : Fates])]
  BY FilesAssumption
<1>2. f.entity \in Entities /\ f.rows \in Seq([key : Keys, fate : Fates])
  BY <1>1
<1>3. Len(f.rows) \in Nat /\ DOMAIN f.rows = 1..Len(f.rows)
  BY <1>2
<1>4. \A i \in DOMAIN f.rows : f.rows[i] \in [key : Keys, fate : Fates]
  BY <1>2, <1>3, ElementOfSeq
<1> QED
  BY <1>2, <1>3, <1>4, NoneAssumption

\* A status is not the marker for none.
LEMMA PendingStatus == "PROCESSING" # None
BY NoneAssumption

\* At first nothing is staged or on record.
LEMMA InitEstablishes == Init => IInv
<1> SUFFICES ASSUME Init PROVE IInv
  OBVIOUS
<1>1. TypeOK
  BY DEF Init, TypeOK, Sessions, Empty, Statuses
<1>2. \A r \in Runs : Fresh(r) /\ Position(r) /\ NothingLost(r)
  BY DEF Init, Fresh, Position, NothingLost
<1>3. Stored
  BY NoneAssumption, KeysAssumption DEF Init, Stored, CompletedIsWhole, RejectedAreKept, RowsAreAudited
<1> QED
  BY <1>1, <1>2, <1>3 DEF IInv

-----------------------------------------------------------------------------
(***************************************************************************)
(* Types.                                                                  *)
(***************************************************************************)
LEMMA SessionTypes ==
    ASSUME NEW s \in Sessions
    PROVE  /\ Empty \in Sessions /\ RolledBack(s) \in Sessions
           /\ Empty.count = 0 /\ RolledBack(s).count = s.count
           /\ Empty.kept = {} /\ RolledBack(s).kept = {}
           /\ \A id \in Keys :
                 /\ Counted(s, id) \in Sessions
                 /\ Counted(s, id).count = s.count + 1
                 /\ Counted(s, id).written = s.written \cup {id}
                 /\ Counted(s, id).staged = s.staged /\ Counted(s, id).kept = s.kept
           /\ Flushed(s) \in Sessions /\ Flushed(s).count = s.count
           /\ Flushed(s).written = s.written /\ Flushed(s).staged = s.staged
           /\ Flushed(s).kept = s.kept
           /\ \A q \in SUBSET (Nat \ {0}) : [s EXCEPT !.kept = q] \in Sessions
<1>1. Empty \in Sessions /\ Empty.count = 0 /\ Empty.kept = {}
  BY DEF Sessions, Empty
<1>2. s.count \in Nat
  BY DEF Sessions
<1>3. /\ RolledBack(s) \in Sessions /\ RolledBack(s).count = s.count
      /\ RolledBack(s).kept = {}
  BY <1>2 DEF Sessions, Empty, RolledBack
<1>4. ASSUME NEW id \in Keys
      PROVE  /\ Counted(s, id) \in Sessions /\ Counted(s, id).count = s.count + 1
             /\ Counted(s, id).written = s.written \cup {id}
             /\ Counted(s, id).staged = s.staged /\ Counted(s, id).kept = s.kept
  <2>1. s.count + 1 \in Nat /\ s.written \cup {id} \in SUBSET Keys
    BY <1>2 DEF Sessions
  <2> QED
    BY <2>1 DEF Counted, Sessions
<1>5. /\ Flushed(s) \in Sessions /\ Flushed(s).count = s.count
      /\ Flushed(s).written = s.written /\ Flushed(s).staged = s.staged
      /\ Flushed(s).kept = s.kept
  BY DEF Flushed, Sessions
<1>6. \A q \in SUBSET (Nat \ {0}) : [s EXCEPT !.kept = q] \in Sessions
  BY DEF Sessions
<1> QED
  BY <1>1, <1>3, <1>4, <1>5, <1>6

\* Every step keeps the types.
LEMMA TypesPreserved ==
    ASSUME IInv, Next
    PROVE  TypeOK'
<1> USE DEF IInv
<1>1. PICK r \in Runs :
          \/ Refuse(r) \/ (\E f \in Files : UploadUnclear(r, f) \/ Upload(r, f))
          \/ LookUp(r) \/ Insert(r) \/ InsertFails(r) \/ EndRows(r)
          \/ MapperRaises(r) \/ Quarantine(r) \/ Commit(r) \/ AnswerResumed(r) \/ Fail(r) \/ Resume(r)
  BY DEF Next, Step
<1>2. session[r] \in Sessions /\ TypeOK
  BY DEF TypeOK
<1>3. CASE Refuse(r)
  BY <1>2, <1>3 DEF Refuse, Answer, database, TypeOK
<1>4. CASE \E f \in Files : UploadUnclear(r, f)
  BY <1>2, <1>4 DEF UploadUnclear, Answer, database, TypeOK, Statuses
<1>5. CASE \E f \in Files : Upload(r, f)
  <2>1. [Empty EXCEPT !.staged = "PROCESSING"] \in Sessions
    BY DEF Sessions, Empty
  <2> QED
    BY <1>2, <1>5, <2>1 DEF Upload, Session, GoTo, database, TypeOK
<1>6. CASE LookUp(r)
  <2>1. pc[r] # "idle" /\ file[r] \in Files /\ at[r] \in DOMAIN file[r].rows
    BY <1>2, <1>6, FileShape DEF LookUp, Position, TypeOK
  <2>2. Row(r).key \in Keys
    BY <2>1, FileShape DEF Row
  <2>3. \/ UNCHANGED session
        \/ session' = [session EXCEPT ![r] = Counted(session[r], Row(r).key)]
    BY <1>6 DEF LookUp, Session
  <2>4. Counted(session[r], Row(r).key) \in Sessions
    BY <1>2, <2>2, SessionTypes
  <2>5. session' \in [Runs -> Sessions]
    BY <1>2, <2>3, <2>4 DEF TypeOK
  <2>6. /\ at' \in [Runs -> Nat \ {0}]
        /\ pc' \in [Runs -> {"idle", "row", "insert", "quarantine", "commit", "answer"}]
    <3>1. at[r] + 1 \in Nat \ {0}
      BY <1>2 DEF TypeOK
    <3>2. /\ at' = at \/ at' = [at EXCEPT ![r] = at[r] + 1]
          /\ pc' = pc \/ pc' = [pc EXCEPT ![r] = "insert"]
      BY <1>6 DEF LookUp, NextRow, GoTo
    <3> QED
      BY <1>2, <3>1, <3>2 DEF TypeOK
  <2> QED
    BY <1>2, <1>6, <2>5, <2>6 DEF LookUp, database, TypeOK
<1>7. CASE Insert(r) \/ InsertFails(r)
  <2>1. pc[r] # "idle" /\ file[r] \in Files /\ at[r] \in DOMAIN file[r].rows
    BY <1>2, <1>7, FileShape DEF Insert, InsertFails, Position, Length, TypeOK
  <2>2. Row(r).key \in Keys
    BY <2>1, FileShape DEF Row
  <2>3. /\ Flushed(Counted(session[r], Row(r).key)) \in Sessions
        /\ RolledBack(session[r]) \in Sessions
    BY <1>2, <2>2, SessionTypes
  <2>4. session' \in [Runs -> Sessions]
    BY <1>2, <1>7, <2>3 DEF Insert, InsertFails, Session, TypeOK
  <2>5. /\ at' \in [Runs -> Nat \ {0}]
        /\ pc' \in [Runs -> {"idle", "row", "insert", "quarantine", "commit", "answer"}]
    BY <1>2, <1>7 DEF Insert, InsertFails, NextRow, GoTo, TypeOK
  <2> QED
    BY <1>2, <1>7, <2>4, <2>5 DEF Insert, InsertFails, database, TypeOK
<1>8. CASE EndRows(r)
  BY <1>2, <1>8 DEF EndRows, LeaveRows, GoTo, database, TypeOK
<1>13. CASE MapperRaises(r)
  <2>1. file[r] \in Files
    BY <1>2, <1>13 DEF MapperRaises, Position, TypeOK
  <2>2. Empty \in Sessions
    BY <1>2, SessionTypes
  <2>3. Len(file[r].rows) + 1 \in Nat \ {0}
    BY <2>1, FileShape
  <2>4. session' \in [Runs -> Sessions] /\ at' \in [Runs -> Nat \ {0}]
    BY <1>2, <1>13, <2>2, <2>3 DEF MapperRaises, Session, TypeOK
  <2> QED
    BY <1>2, <1>13, <2>4 DEF MapperRaises, LeaveRows, GoTo, database, TypeOK
<1>9. CASE Quarantine(r)
  <2>1. file[r] \in Files
    BY <1>2, <1>9 DEF Quarantine, Position, TypeOK
  <2>2. Rejected(r) \in SUBSET (Nat \ {0})
    BY <2>1, FileShape DEF Rejected
  <2>3. [Flushed(session[r]) EXCEPT !.kept = Rejected(r)] \in Sessions
    BY <1>2, <2>2, SessionTypes
  <2>4. session' \in [Runs -> Sessions]
    BY <1>2, <1>9, <2>3 DEF Quarantine, Session, TypeOK
  <2> QED
    BY <1>2, <1>9, <2>4 DEF Quarantine, GoTo, database, TypeOK
<1>10. CASE Commit(r)
  <2>1. /\ staged' \in [Runs -> Statuses \cup {None}] /\ audit' \in [Runs -> Statuses \cup {None}]
        /\ answer' \in [Runs -> Statuses \cup {None, "FAILED", "RESUMED", "ERROR"}]
    BY <1>2, <1>10 DEF Commit, Answer, TypeOK, Statuses
  <2>2. rows' \in [Keys -> Runs \cup {None, Unnamed}] /\ quarantine' \in [Runs -> SUBSET (Nat \ {0})]
    BY <1>2, <1>10 DEF Commit, Written, TypeOK, Sessions
  <2>3. session' \in [Runs -> Sessions]
    BY <1>2, <1>10, SessionTypes DEF Commit, Session, TypeOK
  <2> QED
    BY <1>2, <1>10, <2>1, <2>2, <2>3 DEF Commit, GoTo, TypeOK
<1>11. CASE AnswerResumed(r) \/ Fail(r)
  <2>1. Empty \in Sessions
    BY <1>2, SessionTypes
  <2>2. answer' \in [Runs -> Statuses \cup {None, "FAILED", "RESUMED", "ERROR"}]
    BY <1>2, <1>11 DEF AnswerResumed, Fail, Answer, TypeOK, Statuses
  <2> QED
    BY <1>2, <1>11, <2>1, <2>2 DEF AnswerResumed, Fail, Session, GoTo, database, TypeOK
<1>12. CASE Resume(r)
  <2>1. [Empty EXCEPT !.staged = staged[r]] \in Sessions
    BY <1>2 DEF TypeOK, Sessions, Empty
  <2>2. /\ session' \in [Runs -> Sessions] /\ at' \in [Runs -> Nat \ {0}]
        /\ pc' \in [Runs -> {"idle", "row", "insert", "quarantine", "commit", "answer"}]
        /\ resumes' \in Nat
    BY <1>2, <1>12, <2>1 DEF Resume, Session, GoTo, TypeOK
  <2>3. answer' \in [Runs -> Statuses \cup {None, "FAILED", "RESUMED", "ERROR"}]
    BY <1>2, <1>12 DEF Resume, Answer, TypeOK, Statuses
  <2> QED
    BY <1>2, <1>12, <2>2, <2>3 DEF Resume, database, TypeOK
<1> QED
  BY <1>1, <1>3, <1>4, <1>5, <1>6, <1>7, <1>8, <1>9, <1>10, <1>11, <1>12, <1>13

-----------------------------------------------------------------------------
(***************************************************************************)
(* The runs.  A step of one run leaves the others' variables alone, and    *)
(* rows that are stored stay stored.                                       *)
(***************************************************************************)
SameRun(s) ==
    /\ file'[s] = file[s] /\ pc'[s] = pc[s] /\ at'[s] = at[s]
    /\ session'[s] = session[s] /\ answer'[s] = answer[s] /\ audit'[s] = audit[s]

Action(r) ==
    \/ Refuse(r) \/ (\E f \in Files : UploadUnclear(r, f) \/ Upload(r, f))
    \/ Step(r) \/ Fail(r) \/ Resume(r)

\* A run that takes no step stays where it is.
LEMMA OthersStay ==
    ASSUME TypeOK, NEW r \in Runs, Action(r)
    PROVE  /\ \A s \in Runs \ {r} : SameRun(s)
           /\ \A k \in Keys : rows[k] # None => rows'[k] # None
<1>1. /\ \A s \in Runs \ {r} : /\ pc'[s] = pc[s] /\ at'[s] = at[s]
                                /\ session'[s] = session[s]
  BY DEF Action, Step, TypeOK, Refuse, UploadUnclear, Upload, LookUp, Insert, InsertFails,
         EndRows, MapperRaises, LeaveRows, Quarantine, Commit, AnswerResumed, Fail, Resume, GoTo, NextRow, Session
<1>2. /\ \A s \in Runs \ {r} : /\ file'[s] = file[s] /\ answer'[s] = answer[s]
                                /\ audit'[s] = audit[s]
  BY DEF Action, Step, TypeOK, Refuse, UploadUnclear, Upload, LookUp, Insert, InsertFails,
         EndRows, MapperRaises, LeaveRows, Quarantine, Commit, AnswerResumed, Fail, Resume, Answer, database
<1>3. rows' = rows \/ rows' = Written(r)
  BY DEF Action, Step, TypeOK, Refuse, UploadUnclear, Upload, LookUp, Insert, InsertFails,
         EndRows, MapperRaises, LeaveRows, Quarantine, Commit, AnswerResumed, Fail, Resume, database
<1>4. \A k \in Keys : rows[k] # None => rows'[k] # None
  BY <1>3, NoneAssumption DEF Written
<1> QED
  BY <1>1, <1>2, <1>4 DEF SameRun

\* The step of a run keeps what is claimed of the others.
LEMMA OthersPreserved ==
    ASSUME IInv, NEW r \in Runs, Action(r), NEW s \in Runs \ {r}
    PROVE  Fresh(s)' /\ Position(s)' /\ NothingLost(s)'
<1>1. SameRun(s) /\ \A k \in Keys : rows[k] # None => rows'[k] # None
  BY OthersStay DEF IInv
<1>2. Fresh(s) /\ Position(s) /\ NothingLost(s)
  BY DEF IInv
<1>3. Fresh(s)'
  BY <1>1, <1>2 DEF SameRun, Fresh
<1>4. Position(s)'
  BY <1>1, <1>2 DEF SameRun, Position, Length, Rejected
<1>5. NothingLost(s)'
  <2>1. SUFFICES ASSUME pc[s] # "idle" PROVE NothingLost(s)'
    BY <1>1 DEF SameRun, NothingLost
  <2>2. file[s] \in Files /\ at[s] \in Nat \ {0}
    BY <1>2, <2>1 DEF Position, IInv, TypeOK
  <2>3. \A i \in 1..(at[s] - 1) : i \in DOMAIN file[s].rows
    BY <1>2, <2>1, <2>2, FileShape DEF Position, Length, IInv, TypeOK
  <2>4. \A i \in 1..(at[s] - 1) : file[s].rows[i].key \in Keys
    BY <2>2, <2>3, FileShape
  <2> QED
    BY <1>1, <1>2, <2>1, <2>4 DEF SameRun, NothingLost
<1> QED
  BY <1>3, <1>4, <1>5

\* The step of a run keeps what is claimed of itself.
LEMMA OwnPreserved ==
    ASSUME IInv, TypeOK', NEW r \in Runs, Action(r)
    PROVE  Fresh(r)' /\ Position(r)' /\ NothingLost(r)'
<1>1. Fresh(r) /\ Position(r) /\ NothingLost(r) /\ TypeOK
  BY DEF IInv
<1>2. session[r] \in Sessions /\ at[r] \in Nat \ {0} /\ session[r].count \in Nat
  BY <1>1 DEF TypeOK, Sessions
<1>3. CASE Refuse(r)
  BY <1>1, <1>3 DEF Refuse, Answer, database, Fresh, Position, NothingLost, TypeOK
<1>4. CASE \E f \in Files : UploadUnclear(r, f)
  BY <1>1, <1>4, NoneAssumption
     DEF UploadUnclear, Answer, Fresh, Position, NothingLost, TypeOK
<1>5. CASE \E f \in Files : Upload(r, f)
  <2>1. PICK f \in Files : Upload(r, f)
    BY <1>5
  <2>2. /\ file'[r] = f /\ at'[r] = 1 /\ answer'[r] = None /\ audit'[r] = audit[r]
        /\ pc'[r] = IF f.entity = "operational" THEN "row" ELSE "quarantine"
        /\ session'[r] = [Empty EXCEPT !.staged = "PROCESSING"]
    BY <1>1, <2>1 DEF Upload, Session, GoTo, database, Fresh, TypeOK
  <2>3. session'[r].count = 0 /\ session'[r].staged # None /\ session'[r].kept = {}
    BY <2>2, PendingStatus DEF Empty
  <2>4. f # None /\ Len(f.rows) \in Nat
    BY FileShape
  <2>5. Fresh(r)' /\ Position(r)'
    BY <2>2, <2>3, <2>4 DEF Fresh, Position, Length
  <2>6. NothingLost(r)'
    BY <2>2, <2>3 DEF NothingLost
  <2> QED
    BY <2>5, <2>6
<1>6. CASE LookUp(r) \/ Insert(r) \/ InsertFails(r)
  <2>1. /\ file[r] \in Files /\ at[r] \in 1..Length(r) /\ file'[r] = file[r]
        /\ answer'[r] = answer[r] /\ pc[r] \in {"row", "insert"} /\ rows' = rows
        /\ audit' = audit
    BY <1>1, <1>2, <1>6, FileShape
       DEF LookUp, Insert, InsertFails, Position, Length, TypeOK, database
  <2>2. Row(r).key \in Keys /\ Row(r) = file[r].rows[at[r]] /\ Length(r) \in Nat
    BY <2>1, FileShape DEF Row, Length
  <2>3. Fresh(r)'
    BY <2>1, FileShape DEF Fresh
  <2>4. CASE pc'[r] = "insert"
    <3>1. at'[r] = at[r] /\ session'[r] = session[r]
      BY <1>1, <1>6, <2>4 DEF LookUp, Insert, InsertFails, GoTo, TypeOK
    <3> QED
      BY <1>1, <2>1, <2>3, <2>4, <3>1 DEF Position, NothingLost, Length
  <2>5. CASE pc'[r] # "insert"
    <3>1. pc'[r] = "row" /\ at'[r] = at[r] + 1
      BY <1>1, <1>2, <1>6, <2>5 DEF LookUp, Insert, InsertFails, GoTo, NextRow, TypeOK
    <3>2. \/ session'[r] = session[r]
          \/ session'[r] = Counted(session[r], Row(r).key)
          \/ session'[r] = Flushed(Counted(session[r], Row(r).key))
          \/ session'[r] = RolledBack(session[r])
      BY <1>1, <1>6 DEF LookUp, Insert, InsertFails, Session, TypeOK
    <3>3. Counted(session[r], Row(r).key) \in Sessions
      BY <1>2, <2>2, SessionTypes
    <3>4. /\ session'[r].kept = {}
          /\ \/ session'[r].count = session[r].count
             \/ /\ session'[r].count = session[r].count + 1
                /\ session'[r].written = session[r].written \cup {Row(r).key}
                /\ session'[r].staged = session[r].staged
      BY <1>1, <1>2, <2>1, <2>2, <3>2, <3>3, SessionTypes DEF Position
    <3>5. Position(r)'
      BY <1>1, <1>2, <2>1, <2>2, <3>1, <3>4 DEF Position, Length
    <3>6. NothingLost(r)'
      <4>1. CASE session'[r].count = session[r].count
        BY <1>1, <1>2, <2>1, <3>1, <4>1 DEF NothingLost
      <4>2. CASE /\ session'[r].count = session[r].count + 1
                 /\ session'[r].written = session[r].written \cup {Row(r).key}
                 /\ session'[r].staged = session[r].staged
        <5>1. \A i \in 1..at[r] : i = at[r] \/ i \in 1..(at[r] - 1)
          BY <1>2
        <5> QED
          BY <1>1, <1>2, <2>1, <2>2, <3>1, <4>2, <5>1 DEF NothingLost
      <4> QED
        BY <3>4, <4>1, <4>2
    <3> QED
      BY <2>3, <3>5, <3>6
  <2> QED
    BY <2>4, <2>5
<1>7. CASE EndRows(r)
  <2>1. /\ file'[r] = file[r] /\ at'[r] = at[r] /\ session'[r] = session[r] /\ rows' = rows
        /\ answer'[r] = answer[r] /\ audit'[r] = audit[r] /\ pc[r] = "row"
        /\ pc'[r] = IF answer[r] = None THEN "quarantine" ELSE "answer"
        /\ at[r] > Length(r)
    BY <1>1, <1>7 DEF EndRows, LeaveRows, GoTo, database, Length, TypeOK
  <2>2. file[r] \in Files /\ Length(r) \in Nat
    BY <1>1, <2>1, FileShape DEF Position, Length, TypeOK
  <2>3. Fresh(r)' /\ Position(r)'
    BY <1>1, <1>2, <2>1, <2>2 DEF Fresh, Position, Length
  <2>4. NothingLost(r)'
    BY <1>1, <2>1 DEF NothingLost
  <2> QED
    BY <2>3, <2>4
<1>11. CASE MapperRaises(r)
  <2>1. /\ file[r] \in Files /\ at[r] <= Length(r) /\ Length(r) \in Nat
        /\ file[r].entity = "operational"
    BY <1>1, <1>11, FileShape DEF MapperRaises, Position, Length, TypeOK
  <2>2. /\ file'[r] = file[r] /\ at'[r] = Length(r) + 1 /\ session'[r] = Empty /\ rows' = rows
        /\ answer'[r] = answer[r] /\ audit'[r] = audit[r]
        /\ pc'[r] = IF answer[r] = None THEN "quarantine" ELSE "answer"
    BY <1>1, <1>11 DEF MapperRaises, LeaveRows, Session, GoTo, database, Length, TypeOK
  <2>3. session'[r].kept = {} /\ session'[r].count = 0
    BY <2>2 DEF Empty
  <2>4. Fresh(r)' /\ Position(r)'
    BY <1>1, <1>2, <2>1, <2>2, <2>3, FileShape DEF Fresh, Position, Length
  <2>5. session'[r].count <= at'[r] - 1 /\ session'[r].count # at'[r] - 1
    BY <1>2, <2>1, <2>2, <2>3
  <2>6. NothingLost(r)'
    BY <2>5 DEF NothingLost
  <2> QED
    BY <2>4, <2>6
<1>8. CASE Quarantine(r)
  <2>1. /\ file'[r] = file[r] /\ at'[r] = at[r] /\ rows' = rows /\ audit'[r] = audit[r]
        /\ answer'[r] = answer[r] /\ pc[r] = "quarantine" /\ pc'[r] = "commit"
    BY <1>1, <1>8 DEF Quarantine, GoTo, database, TypeOK
  <2>2. /\ session'[r].count = session[r].count /\ session'[r].staged = session[r].staged
        /\ session'[r].written = session[r].written /\ session'[r].kept = Rejected(r)
    <3>1. CASE Rejected(r) # {}
      <4>1. session'[r] = [Flushed(session[r]) EXCEPT !.kept = Rejected(r)]
        BY <1>1, <1>8, <3>1 DEF Quarantine, Session, TypeOK
      <4> QED
        BY <1>2, <4>1 DEF Flushed, Sessions
    <3>2. CASE Rejected(r) = {}
      BY <1>1, <1>8, <3>2, <2>1 DEF Quarantine, Position
    <3> QED
      BY <3>1, <3>2
  <2>3. Fresh(r)' /\ Position(r)'
    BY <1>1, <2>1, <2>2 DEF Fresh, Position, Length, Rejected
  <2>4. NothingLost(r)'
    BY <1>1, <2>1, <2>2 DEF NothingLost
  <2> QED
    BY <2>3, <2>4
<1>9. CASE Commit(r) \/ AnswerResumed(r) \/ Fail(r)
  <2>1. pc'[r] = "idle" /\ file'[r] = file[r] /\ file[r] # None
    BY <1>1, <1>9 DEF Commit, AnswerResumed, Fail, GoTo, Position, TypeOK
  <2> QED
    BY <2>1 DEF Fresh, Position, NothingLost
<1>10. CASE Resume(r)
  <2>1. /\ file'[r] = file[r] /\ file[r] \in Files /\ rows' = rows /\ Length(r) \in Nat
        /\ pc[r] = "idle"
    BY <1>1, <1>10, FileShape DEF Resume, database, Length, TypeOK
  <2>2. CASE pc'[r] = "idle"
    BY <2>1, <2>2, NoneAssumption DEF Fresh, Position, NothingLost
  <2>3. CASE pc'[r] # "idle"
    <3>1. /\ at'[r] = 1 /\ answer'[r] = "RESUMED"
          /\ session'[r] = [Empty EXCEPT !.staged = staged[r]]
          /\ pc'[r] = IF file[r].entity = "operational" THEN "row" ELSE "answer"
      BY <1>1, <1>10, <2>1, <2>3 DEF Resume, GoTo, Answer, Session, TypeOK
    <3>2. session'[r].count = 0 /\ answer'[r] # None /\ session'[r].kept = {}
      BY <3>1, NoneAssumption DEF Empty
    <3>3. Fresh(r)' /\ Position(r)'
      BY <2>1, <3>1, <3>2, NoneAssumption DEF Fresh, Position, Length
    <3>4. NothingLost(r)'
      BY <3>1, <3>2 DEF NothingLost
    <3> QED
      BY <3>3, <3>4
  <2> QED
    BY <2>2, <2>3
<1> QED
  BY <1>3, <1>4, <1>5, <1>6, <1>7, <1>8, <1>9, <1>10, <1>11 DEF Action, Step

-----------------------------------------------------------------------------
(***************************************************************************)
(* What is stored.                                                         *)
(***************************************************************************)
LEMMA CommitStores ==
    ASSUME IInv, NEW r \in Runs, Commit(r)
    PROVE  Stored'
<1>1. /\ pc[r] = "commit" /\ file' = file /\ file[r] \in Files
      /\ audit' = [audit EXCEPT ![r] = IF Whole(r) THEN "COMPLETED" ELSE "PARTIAL_SUCCESS"]
      /\ rows' = Written(r)
      /\ quarantine' = [quarantine EXCEPT ![r] = session[r].kept]
  BY DEF Commit, IInv, Position, TypeOK
<1>2. PICK status \in {"COMPLETED", "PARTIAL_SUCCESS"} :
          staged' = [staged EXCEPT ![r] = IF session[r].staged = None THEN @ ELSE status]
  BY DEF Commit
<1>3. Position(r) /\ NothingLost(r) /\ TypeOK /\ Stored
  BY DEF IInv
<1>4. audit'[r] # None /\ \A s \in Runs \ {r} : audit'[s] = audit[s]
  BY <1>1, <1>3, NoneAssumption DEF TypeOK
<1>5. \A k \in Keys : /\ rows[k] # None => rows'[k] # None
                      /\ k \in session[r].written => rows'[k] # None
                      /\ k \in Traced => rows'[k] \in {rows[k], r}
  BY <1>1, NoneAssumption DEF Written
<1>6. RejectedAreKept'
  BY <1>1, <1>3, <1>4 DEF Stored, RejectedAreKept, Rejected, Position, TypeOK
<1>7. RowsAreAudited'
  <2> SUFFICES ASSUME NEW k \in Traced, rows'[k] # None
               PROVE  rows'[k] \in Runs /\ audit'[rows'[k]] # None
    BY DEF RowsAreAudited
  <2>1. CASE rows'[k] = r
    BY <1>4, <2>1
  <2>2. CASE rows'[k] # r
    <3>1. rows'[k] = rows[k]
      BY <1>5, <2>2, KeysAssumption
    <3> QED
      BY <1>3, <1>4, <2>2, <3>1 DEF Stored, RowsAreAudited
  <2> QED
    BY <2>1, <2>2
<1>8. CompletedIsWhole'
  <2>1. ASSUME NEW s \in Runs, audit'[s] = "COMPLETED", s # r
        PROVE  /\ staged'[s] # None
               /\ file'[s].entity = "operational" =>
                     \A i \in DOMAIN file'[s].rows : rows'[file'[s].rows[i].key] # None
    <3>1. audit[s] = "COMPLETED" /\ staged'[s] = staged[s]
      BY <1>2, <1>3, <1>4, <2>1 DEF TypeOK
    <3>2. file[s] \in Files
      BY <1>3, <3>1, NoneAssumption DEF IInv, Fresh, TypeOK
    <3> QED
      BY <1>1, <1>3, <1>5, <3>1, <3>2, FileShape DEF Stored, CompletedIsWhole
  <2>2. ASSUME audit'[r] = "COMPLETED"
        PROVE  /\ staged'[r] # None
               /\ file'[r].entity = "operational" =>
                     \A i \in DOMAIN file'[r].rows : rows'[file'[r].rows[i].key] # None
    <3>1. Whole(r)
      BY <1>1, <1>3, <2>2 DEF TypeOK
    <3>2. /\ session[r].count <= at[r] - 1 /\ session[r].count \in Nat /\ answer[r] = None
          /\ at[r] = IF file[r].entity = "operational" THEN Length(r) + 1 ELSE 1
      BY <1>1, <1>3 DEF Position, NothingLost, TypeOK, Sessions
    <3>3. Length(r) \in Nat /\ DOMAIN file[r].rows = 1..Length(r)
      BY <1>1, FileShape DEF Length
    <3>4. session[r].count = at[r] - 1
      BY <3>1, <3>2, <3>3 DEF Whole, Length
    <3>5. session[r].staged # None
      BY <1>1, <1>3, <3>2, <3>4 DEF NothingLost
    <3>6. staged'[r] # None
      BY <1>2, <1>3, <3>5, NoneAssumption DEF TypeOK
    <3>7. ASSUME file[r].entity = "operational", NEW i \in DOMAIN file[r].rows
          PROVE  rows'[file[r].rows[i].key] # None
      <4>1. i \in 1..(at[r] - 1) /\ file[r].rows[i].key \in Keys
        BY <1>1, <3>2, <3>3, <3>7, FileShape
      <4>2. file[r].rows[i].key \in session[r].written \/ rows[file[r].rows[i].key] # None
        BY <1>1, <1>3, <3>4, <4>1 DEF NothingLost
      <4> QED
        BY <1>5, <4>1, <4>2
    <3> QED
      BY <1>1, <3>6, <3>7
  <2> QED
    BY <2>1, <2>2 DEF CompletedIsWhole
<1> QED
  BY <1>6, <1>7, <1>8 DEF Stored

\* Every step keeps what is claimed of the runs on record.
LEMMA StoredPreserved ==
    ASSUME IInv, NEW r \in Runs, Action(r)
    PROVE  Stored'
<1>1. CASE Commit(r)
  BY <1>1, CommitStores
<1>2. CASE ~Commit(r)
  <2>1. /\ rows' = rows /\ audit' = audit /\ quarantine' = quarantine
        /\ \A s \in Runs : file[s] # None => file'[s] = file[s] /\ staged'[s] = staged[s]
    BY <1>2 DEF Action, Step, Refuse, UploadUnclear, Upload, LookUp, Insert, InsertFails,
           EndRows, MapperRaises, LeaveRows, Quarantine, AnswerResumed, Fail, Resume, database, IInv, TypeOK
  <2>2. \A s \in Runs : audit[s] # None => file[s] # None
    BY DEF IInv, Fresh
  <2> QED
    BY <2>1, <2>2, NoneAssumption
       DEF IInv, Stored, CompletedIsWhole, RejectedAreKept, RowsAreAudited, Rejected
<1> QED
  BY <1>1, <1>2

\* Every step keeps the invariant.
LEMMA NextPreserves == IInv /\ [Next]_vars => IInv'
<1> SUFFICES ASSUME IInv, [Next]_vars PROVE IInv'
  OBVIOUS
<1>1. CASE Next
  <2>1. PICK r \in Runs : Action(r)
    BY <1>1 DEF Next, Action
  <2>2. TypeOK'
    BY <1>1, TypesPreserved
  <2> QED
    BY <2>1, <2>2, OwnPreserved, OthersPreserved, StoredPreserved DEF IInv
<1>2. CASE UNCHANGED vars
  <2>1. /\ UNCHANGED <<rows, staged, audit, quarantine, file>>
        /\ UNCHANGED <<pc, at, session, answer, resumes>>
    BY <1>2 DEF vars, database
  <2>2. TypeOK'
    BY <2>1 DEF IInv, TypeOK
  <2>3. \A r \in Runs : Fresh(r)' /\ Position(r)' /\ NothingLost(r)'
    BY <2>1 DEF IInv, Fresh, Position, Length, Rejected, NothingLost
  <2>4. Stored'
    BY <2>1 DEF IInv, Stored, CompletedIsWhole, RejectedAreKept, RowsAreAudited, Rejected
  <2> QED
    BY <2>2, <2>3, <2>4 DEF IInv
<1> QED
  BY <1>1, <1>2

\* The inductive invariant, which includes type correctness, holds in every reachable
\* state of onboard_file and resolve_manual_mapping.
THEOREM Invariant == Spec => []IInv
<1>1. Init => IInv
  BY InitEstablishes
<1>2. IInv /\ [Next]_vars => IInv'
  BY NextPreserves
<1> QED
  BY <1>1, <1>2, PTL DEF Spec

\* Every variable of the onboarding service keeps its type.
THEOREM Types == Spec => []TypeOK
<1>1. IInv => TypeOK
  BY DEF IInv
<1> QED
  BY <1>1, Invariant, PTL

\* A run on record as COMPLETED has all its rows and its staged file, however many
\* inserts fail and whatever other runs do (service.py:1228-1271).
THEOREM WholeRuns == Spec => []CompletedIsWhole
<1>1. IInv => CompletedIsWhole
  BY DEF IInv, Stored
<1> QED
  BY <1>1, Invariant, PTL

\* The rows a recorded run rejected are in the quarantine (service.py:1117-1158).
THEOREM Kept == Spec => []RejectedAreKept
<1>1. IInv => RejectedAreKept
  BY DEF IInv, Stored
<1> QED
  BY <1>1, Invariant, PTL

\* Every canonical row that onboarding wrote, other than a purchase order, names a run
\* that is on record (service.py:1269-1271).
THEOREM Audited == Spec => []RowsAreAudited
<1>1. IInv => RowsAreAudited
  BY DEF IInv, Stored
<1> QED
  BY <1>1, Invariant, PTL
=============================================================================
