------------------------ MODULE EventProcessorProofs ------------------------
(***************************************************************************)
(* For any number of events, topics and failures: the work of an event is  *)
(* committed at most once while the process lives, nothing is computed     *)
(* twice over the same datasets, a mark stands or falls with the work that *)
(* is committed with it, and an alert has one row.                         *)
(*                                                                         *)
(* None of that depends on the quarantine or on the answers, so its proof   *)
(* speaks of what a processing does to the cache, the alerts and the rows. *)
(* The second half is about the answers and the quarantine alone.          *)
(***************************************************************************)
EXTENDS EventProcessor, FiniteSetTheorems, SequenceTheorems, TLAPS

RowTypes ==
    /\ cache \subseteq Events /\ marked \in [Ids -> Events \cup {NoEvent}]
    /\ alerts \in [Topics -> {"none", "ACTIVE", "ACKNOWLEDGED"}]
    /\ effects \in [Events -> Nat] /\ alertRows \in [Topics -> Nat]
    /\ restarts \in Nat

\* While the process lives, work that is committed is remembered in the cache
\* and an alert that has a row is remembered in memory.
WorkRemembered ==
    restarts = 0 => \A e \in Events : effects[e] <= 1 /\ (effects[e] > 0 => e \in cache)
AlertsRemembered ==
    restarts = 0 => \A t \in Topics : alertRows[t] <= 1 /\ (alertRows[t] > 0 => alerts[t] # "none")

IInv == RowTypes /\ WorkRemembered /\ AlertsRemembered /\ MarkAtomicWithWork

\* A run that ended is found by its hash ever after.
RunsOnce == runs \in [Keys -> Nat] /\ \A k \in Keys : runs[k] <= 1

\* At first there is nothing in memory or on record.
LEMMA InitEstablishes == Init => IInv
BY DEF Init, IInv, RowTypes, WorkRemembered, AlertsRemembered, MarkAtomicWithWork

\* What raising the alert of an event may do to the alerts.
LEMMA AlertKeptEffect ==
    ASSUME RowTypes, NEW e \in Events, AlertKept(e)
    PROVE  /\ alerts' \in [Topics -> {"none", "ACTIVE", "ACKNOWLEDGED"}]
           /\ \A t \in Topics : alerts[t] # "none" => alerts'[t] # "none"
           /\ RaisesAlert(e) => topic[e] \in Topics /\ alerts[topic[e]] = "none"
                                    /\ alerts'[topic[e]] # "none"
BY TopicsAssumption DEF RowTypes, AlertKept, RaisesAlert

\* A processing that commits nothing, whatever it does to memory.
LEMMA NothingCommitted ==
    ASSUME IInv, cache \subseteq cache', cache' \subseteq Events,
           alerts' \in [Topics -> {"none", "ACTIVE", "ACKNOWLEDGED"}],
           \A t \in Topics : alerts[t] # "none" => alerts'[t] # "none",
           UNCHANGED <<tables, restarts>>
    PROVE  IInv'
<1>1. UNCHANGED <<marked, effects, alertRows, restarts>>
  BY DEF tables
<1>2. RowTypes'
  BY <1>1 DEF IInv, RowTypes
<1>3. WorkRemembered'
  BY <1>1 DEF IInv, WorkRemembered
<1>4. AlertsRemembered'
  BY <1>1 DEF IInv, AlertsRemembered
<1>5. MarkAtomicWithWork'
  BY <1>1 DEF IInv, MarkAtomicWithWork
<1> QED
  BY <1>2, <1>3, <1>4, <1>5 DEF IInv

\* An outcome that commits puts work and mark into memory and rows together.
LEMMA CompletesPreserves ==
    ASSUME IInv, NEW e \in Events, NEW n, NEW q, NEW d, ProcessCompletes(e, n, q, d),
           UNCHANGED restarts
    PROVE  IInv'
<1> USE DEF IInv
<1>1. /\ e \notin cache /\ cache' = cache \cup {e} /\ marked' = [marked EXCEPT ![idOf[e]] = e]
      /\ effects' = [effects EXCEPT ![e] = @ + 1]
      /\ alertRows' = IF RaisesAlert(e) THEN [alertRows EXCEPT ![topic[e]] = @ + 1] ELSE alertRows
  BY DEF ProcessCompletes, CommitWork, New
<1>2. /\ alerts' \in [Topics -> {"none", "ACTIVE", "ACKNOWLEDGED"}]
      /\ \A t \in Topics : alerts[t] # "none" => alerts'[t] # "none"
      /\ RaisesAlert(e) => topic[e] \in Topics /\ alerts[topic[e]] = "none"
                               /\ alerts'[topic[e]] # "none"
  BY AlertKeptEffect DEF ProcessCompletes
<1>3. /\ effects' \in [Events -> Nat] /\ effects'[e] = effects[e] + 1
      /\ \A f \in Events \ {e} : effects'[f] = effects[f]
  BY <1>1 DEF RowTypes
<1>4. RowTypes'
  BY <1>1, <1>2, <1>3, EventsAssumption DEF RowTypes
<1>5. WorkRemembered'
  BY <1>1, <1>3 DEF RowTypes, WorkRemembered
<1>6. AlertsRemembered'
  <2>1. CASE RaisesAlert(e)
    BY <1>1, <1>2, <2>1 DEF RowTypes, AlertsRemembered
  <2>2. CASE ~RaisesAlert(e)
    BY <1>1, <1>2, <2>2 DEF RowTypes, AlertsRemembered
  <2> QED
    BY <2>1, <2>2
<1>7. MarkAtomicWithWork'
  <2> SUFFICES ASSUME NEW i \in Ids
               PROVE  IF marked'[i] = NoEvent
                      THEN \A f \in Events : idOf[f] = i => effects'[f] = 0
                      ELSE idOf[marked'[i]] = i /\ effects'[marked'[i]] > 0
    BY DEF MarkAtomicWithWork
  <2>1. CASE i = idOf[e]
    <3>1. marked'[i] = e /\ e # NoEvent /\ effects'[e] > 0
      BY <1>1, <1>3, <2>1, EventsAssumption DEF RowTypes
    <3> QED
      BY <2>1, <3>1
  <2>2. CASE i # idOf[e]
    <3>1. marked'[i] = marked[i] /\ marked[i] \in Events \cup {NoEvent}
      BY <1>1, <2>2 DEF RowTypes
    <3> QED
      BY <1>3, <2>2, <3>1 DEF MarkAtomicWithWork
  <2> QED
    BY <2>1, <2>2
<1> QED
  BY <1>4, <1>5, <1>6, <1>7

\* Processing commits or does not.
LEMMA ProcessPreserves ==
    ASSUME IInv, NEW e \in Events, NEW n, NEW q, NEW d, Process(e, n, q, d), UNCHANGED restarts
    PROVE  IInv'
<1>1. CASE ProcessCompletes(e, n, q, d)
  BY <1>1, CompletesPreserves
<1>2. CASE ProcessInvalid(e, n, q) \/ ProcessDuplicate(e, n, q)
  BY <1>2, NothingCommitted DEF ProcessInvalid, ProcessDuplicate, database, IInv, RowTypes
<1>3. CASE ProcessUnmarked(e, n, q, d)
  BY <1>3, AlertKeptEffect, NothingCommitted DEF ProcessUnmarked, IInv, RowTypes
<1>4. CASE ProcessFails(e, n, q, d)
  <2>1. /\ \/ UNCHANGED <<cache, alerts>>
           \/ AlertKept(e) /\ UNCHANGED cache
           \/ AlertKept(e) /\ cache' = cache \cup {e}
        /\ UNCHANGED tables
    BY <1>4 DEF ProcessFails
  <2>2. CASE UNCHANGED <<cache, alerts>>
    BY <2>1, <2>2, NothingCommitted DEF IInv, RowTypes
  <2>3. CASE AlertKept(e) /\ (UNCHANGED cache \/ cache' = cache \cup {e})
    BY <2>1, <2>3, AlertKeptEffect, NothingCommitted DEF IInv, RowTypes
  <2> QED
    BY <2>1, <2>2, <2>3
<1> QED
  BY <1>1, <1>2, <1>3, <1>4 DEF Process

\* An alert that is acknowledged is still in memory.
LEMMA AcknowledgePreserves ==
    ASSUME IInv, NEW t \in Topics, Acknowledge(t)
    PROVE  IInv'
<1>1. alerts' \in [Topics -> {"none", "ACTIVE", "ACKNOWLEDGED"}]
  BY DEF Acknowledge, IInv, RowTypes
<1>2. \A s \in Topics : alerts[s] # "none" => alerts'[s] # "none"
  BY DEF Acknowledge, IInv, RowTypes
<1> QED
  BY <1>1, <1>2, NothingCommitted DEF Acknowledge, database, IInv, RowTypes

\* Memory is lost, and the promises that rest on it end; rows stay as they are.
LEMMA RestartPreserves == IInv /\ Restart => IInv'
BY DEF Restart, tables, IInv, RowTypes, WorkRemembered, AlertsRemembered, MarkAtomicWithWork

\* Every step keeps memory in line with the rows.
LEMMA NextPreserves == IInv /\ [Next]_vars => IInv'
<1> SUFFICES ASSUME IInv, [Next]_vars PROVE IInv'
  OBVIOUS
<1>1. CASE \E e \in Events : Arrive(e) \/ Redeliver(e) \/ RetryQuarantined(e)
  BY <1>1, ProcessPreserves DEF Arrive, Redeliver, RetryQuarantined
<1>2. CASE \E t \in Topics : Acknowledge(t)
  BY <1>2, AcknowledgePreserves
<1>3. CASE Restart
  BY <1>3, RestartPreserves
<1>4. CASE UNCHANGED vars
  BY <1>4 DEF vars, memory, database, tables, IInv, RowTypes, WorkRemembered, AlertsRemembered,
              MarkAtomicWithWork
<1> QED
  BY <1>1, <1>2, <1>3, <1>4 DEF Next

\* A run is computed only if its hash is not found.
LEMMA RunsPreserved == RunsOnce /\ [Next]_vars => RunsOnce'
<1> SUFFICES ASSUME RunsOnce, [Next]_vars PROVE RunsOnce'
  OBVIOUS
<1>1. ASSUME NEW e \in Events, NEW d, Recomputes(e, d), d \in Datasets \cup {NoData} PROVE RunsOnce'
  <2>1. CASE RunEnds(e, d)
    <3>1. <<dirty[e], d>> \in Keys
      BY <1>1, <2>1, RunsAssumption DEF RunEnds, Keys
    <3> QED
      BY <2>1, <3>1 DEF RunEnds, RunsOnce
  <2>2. CASE RunLeavesNothing
    BY <2>2 DEF RunLeavesNothing, RunsOnce
  <2> QED
    BY <1>1, <2>1, <2>2 DEF Recomputes
<1>2. ASSUME NEW e \in Events, NEW n, NEW q, NEW d \in Datasets \cup {NoData}, Process(e, n, q, d)
      PROVE  RunsOnce'
  <2>1. Recomputes(e, d)
    BY <1>2 DEF Process, ProcessInvalid, ProcessDuplicate, ProcessCompletes, ProcessUnmarked,
                ProcessFails, database, Recomputes, RunLeavesNothing
  <2> QED
    BY <1>1, <2>1
<1>3. CASE \E e \in Events : Arrive(e) \/ Redeliver(e) \/ RetryQuarantined(e)
  BY <1>2, <1>3 DEF Arrive, Redeliver, RetryQuarantined
<1>4. CASE \E t \in Topics : Acknowledge(t)
  BY <1>4 DEF Acknowledge, database, RunsOnce
<1>5. CASE Restart
  <2>1. CASE RunLeavesNothing
    BY <2>1 DEF RunLeavesNothing, RunsOnce
  <2>2. CASE \E e \in Events, d \in Datasets : New(e) /\ RunEnds(e, d)
    BY <1>1, <2>2 DEF Recomputes
  <2> QED
    BY <1>5, <2>1, <2>2 DEF Restart
<1>6. CASE UNCHANGED vars
  BY <1>6 DEF vars, database, RunsOnce
<1> QED
  BY <1>3, <1>4, <1>5, <1>6 DEF Next

-----------------------------------------------------------------------------
\* Memory remembers what the rows hold, in every reachable state.
THEOREM Invariant == Spec => []IInv
BY InitEstablishes, NextPreserves, PTL DEF Spec

\* While the process lives, the work of an event is committed at most once
\* (processor.py:147-199), for any deliveries, failures and retries; and no run is
\* computed twice over the same datasets, by whatever events (service.py:83-97).
THEOREM WorkedOnce == Spec => []EffectsAtMostOnce
<1>1. Init => RunsOnce
  BY DEF Init, RunsOnce
<1>2. IInv /\ RunsOnce => EffectsAtMostOnce
  BY DEF IInv, WorkRemembered, RunsOnce, EffectsAtMostOnce
<1> QED
  BY <1>1, <1>2, Invariant, RunsPreserved, PTL DEF Spec

\* The row of an event_id is that of an event whose work was committed, and there
\* is one as soon as there is such an event (processor.py:97-119, 200-226), restarts
\* included.
THEOREM MarkedWithWork == Spec => []MarkAtomicWithWork
<1>1. IInv => MarkAtomicWithWork
  BY DEF IInv
<1> QED
  BY <1>1, Invariant, PTL

\* One alert row per deduplication key while the process lives
\* (processor.py:306-316).
THEOREM OneAlertRow == Spec => []AlertRowsDeduplicated
<1>1. IInv => AlertRowsDeduplicated
  BY DEF IInv, AlertsRemembered, AlertRowsDeduplicated
<1> QED
  BY <1>1, Invariant, PTL

-----------------------------------------------------------------------------
(***************************************************************************)
(* The quarantine: what taking the first entry of an event out of a list   *)
(* leaves in it.                                                           *)
(***************************************************************************)
LEMMA SetHasMinimum ==
    ASSUME NEW S, S \subseteq Nat, S # {}
    PROVE  Min(S) \in S
<1> DEFINE T == {1..x : x \in S}
<1>1. T \subseteq FiniteSubsetsOf(Nat) /\ T # {}
  <2>1. \A x \in S : 1..x \in SUBSET Nat /\ IsFiniteSet(1..x)
    BY FS_Interval
  <2> QED
    BY <2>1 DEF FiniteSubsetsOf
<1>2. \E x \in S : \A y \in S : x =< y
  <2>1. \E m \in T : \A n \in T : <<n, m>> \notin StrictSubsetOrdering(Nat)
    BY <1>1, FS_StrictSubsetOrderingWellFounded, WFMin
  <2>2. PICK x \in S : \A y \in S : <<1..y, 1..x>> \notin StrictSubsetOrdering(Nat)
    BY <2>1
  <2>3. ASSUME NEW y \in S, y < x PROVE FALSE
    <3>1. 1..y \subseteq 1..x /\ x \in 1..x /\ x \notin 1..y
      BY <2>3
    <3>2. 1..y \in SUBSET Nat /\ 1..x \in SUBSET Nat /\ 1..y # 1..x
      BY <3>1
    <3> QED
      BY <2>2, <3>1, <3>2 DEF StrictSubsetOrdering
  <2> QED
    BY <2>3
<1> QED
  BY <1>2 DEF Min

\* The first entry of e is one of its entries.
LEMMA FirstIsEntry ==
    ASSUME NEW s \in Seq(Events), NEW e, Contains(s, e)
    PROVE  \E i \in 1..Len(s) : s[i] = e /\ RemoveFirst(s, e) = RemoveAt(s, i)
<1> DEFINE I == {i \in 1..Len(s) : s[i] = e}
<1>1. I # {} /\ I \subseteq Nat
  BY DEF Contains
<1>2. Min(I) \in I
  BY <1>1, SetHasMinimum
<1>3. SelectInSeq(s, LAMBDA v : v = e) = Min(I)
  BY <1>1 DEF SelectInSeq
<1> QED
  BY <1>2, <1>3 DEF RemoveFirst, Contains

\* Entries of other events stay, and nothing new comes in.
LEMMA RemoveFirstKeepsOthers ==
    ASSUME NEW s \in Seq(Events), NEW e, Contains(s, e)
    PROVE  /\ RemoveFirst(s, e) \in Seq(Events)
           /\ \A f \in Events \ {e} : Contains(s, f) => Contains(RemoveFirst(s, e), f)
<1>1. PICK i \in 1..Len(s) : s[i] = e /\ RemoveFirst(s, e) = RemoveAt(s, i)
  BY FirstIsEntry
<1> DEFINE r == SubSeq(s, 1, i - 1) \o SubSeq(s, i + 1, Len(s))
<1>2. /\ r \in Seq(Events) /\ Len(r) = Len(s) - 1
      /\ \A j \in 1..(i - 1) : r[j] = s[j]
      /\ \A j \in i..(Len(s) - 1) : r[j] = s[j + 1]
  <2> DEFINE front == SubSeq(s, 1, i - 1)
             back == SubSeq(s, i + 1, Len(s))
  <2>1. /\ front \in Seq(Events) /\ Len(front) = i - 1
        /\ \A j \in 1..(i - 1) : front[j] = s[j]
    BY SubSeqProperties
  <2>2. /\ back \in Seq(Events) /\ Len(back) = Len(s) - i
        /\ \A j \in 1..(Len(s) - i) : back[j] = s[i + j]
    BY SubSeqProperties
  <2> HIDE DEF front, back
  <2>3. /\ front \o back \in Seq(Events) /\ Len(front \o back) = Len(s) - 1
        /\ \A j \in 1..(Len(s) - 1) :
              (front \o back)[j] = IF j <= i - 1 THEN front[j] ELSE back[j - (i - 1)]
    <3> DEFINE joined == front \o back
    <3>1. /\ joined \in Seq(Events) /\ Len(joined) = Len(front) + Len(back)
          /\ \A j \in 1..(Len(front) + Len(back)) :
                joined[j] = IF j <= Len(front) THEN front[j] ELSE back[j - Len(front)]
      BY <2>1, <2>2, ConcatProperties, Zenon
    <3> HIDE DEF joined
    <3>2. Len(s) \in Nat /\ Len(front) + Len(back) = Len(s) - 1
      BY <2>1, <2>2
    <3>3. /\ joined \in Seq(Events) /\ Len(joined) = Len(s) - 1
          /\ \A j \in 1..(Len(s) - 1) :
                joined[j] = IF j <= i - 1 THEN front[j] ELSE back[j - (i - 1)]
      BY <2>1, <3>1, <3>2, Zenon
    <3> QED
      BY <3>3, Zenon DEF joined
  <2>4. ASSUME NEW j \in i..(Len(s) - 1) PROVE (front \o back)[j] = s[j + 1]
    <3>1. j - (i - 1) \in 1..(Len(s) - i) /\ i + (j - (i - 1)) = j + 1 /\ j \in 1..(Len(s) - 1)
      OBVIOUS
    <3>2. (front \o back)[j] = back[j - (i - 1)]
      <4>1. ~(j <= i - 1)
        OBVIOUS
      <4> QED
        BY <2>3, <3>1, <4>1, Zenon
    <3>3. back[j - (i - 1)] = s[j + 1]
      BY <2>2, <3>1, Zenon
    <3> QED
      BY <3>2, <3>3, Zenon
  <2>5. \A j \in 1..(i - 1) : (front \o back)[j] = s[j]
    BY <2>1, <2>3
  <2> QED
    BY <2>3, <2>4, <2>5 DEF front, back
<1>3. RemoveFirst(s, e) = r
  BY <1>1 DEF RemoveAt
<1> HIDE DEF r
<1>4. ASSUME NEW f \in Events \ {e}, Contains(s, f) PROVE Contains(r, f)
  <2>1. PICK k \in 1..Len(s) : s[k] = f
    BY <1>4 DEF Contains
  <2>2. CASE k < i
    BY <1>2, <2>1, <2>2 DEF Contains
  <2>3. CASE k > i
    <3>1. k - 1 \in i..(Len(s) - 1) /\ k - 1 \in 1..Len(r) /\ (k - 1) + 1 = k
      BY <1>2, <2>1, <2>3
    <3>2. r[k - 1] = f
      BY <1>2, <2>1, <3>1
    <3> QED
      BY <3>1, <3>2 DEF Contains
  <2> QED
    BY <1>1, <2>1, <2>2, <2>3
<1> QED
  BY <1>2, <1>3, <1>4

Answers == {"NONE", "COMPLETED", "DUPLICATE", "RETRYING", "QUARANTINED"}
Listed == restarts = 0 => \A e \in Events : status[e] = "QUARANTINED" => Contains(quarantine, e)
QuarantineInv ==
    /\ status \in [Events -> Answers]
    /\ quarantine \in Seq(Events)
    /\ restarts \in Nat
    /\ Listed

\* An invalid event is quarantined and nothing else.
InvalidInv ==
    \A e \in Invalid : /\ status[e] \in {"NONE", "QUARANTINED"}
                       /\ e \notin cache /\ marked[idOf[e]] # e /\ effects[e] = 0

\* An appended entry keeps the earlier ones.
LEMMA AppendKeeps ==
    ASSUME NEW q \in Seq(Events), NEW e \in Events
    PROVE  /\ Append(q, e) \in Seq(Events) /\ Contains(Append(q, e), e)
           /\ \A f \in Events : Contains(q, f) => Contains(Append(q, e), f)
<1>1. /\ Append(q, e) \in Seq(Events) /\ Len(Append(q, e)) = Len(q) + 1
      /\ \A i \in 1..Len(q) : Append(q, e)[i] = q[i]
      /\ Append(q, e)[Len(q) + 1] = e
  OBVIOUS
<1> QED
  BY <1>1 DEF Contains

\* A processing answers for its event and adds to the list it was given.
LEMMA ProcessAnswers ==
    ASSUME NEW e \in Events, NEW n, NEW q \in Seq(Events), NEW d, Process(e, n, q, d)
    PROVE  \E s \in Answers :
              /\ status' = [status EXCEPT ![e] = s]
              /\ quarantine' = IF s = "QUARANTINED" THEN Append(q, e) ELSE q
<1>1. CASE ProcessInvalid(e, n, q)
  BY <1>1 DEF ProcessInvalid, Result, Answers
<1>2. CASE ProcessDuplicate(e, n, q)
  BY <1>2 DEF ProcessDuplicate, Result, Answers
<1>3. CASE ProcessCompletes(e, n, q, d)
  BY <1>3 DEF ProcessCompletes, Result, Answers
<1>4. CASE ProcessUnmarked(e, n, q, d)
  BY <1>4 DEF ProcessUnmarked, Result, Answers
<1>5. CASE ProcessFails(e, n, q, d)
  BY <1>5 DEF ProcessFails, Result, Answers
<1> QED
  BY <1>1, <1>2, <1>3, <1>4, <1>5 DEF Process

\* What processing quarantines is listed.
LEMMA ProcessLists ==
    ASSUME QuarantineInv, NEW e \in Events, NEW n, NEW q \in Seq(Events), NEW d,
           \A f \in Events \ {e} : Contains(quarantine, f) => Contains(q, f),
           Process(e, n, q, d), UNCHANGED restarts
    PROVE  QuarantineInv'
<1>1. PICK s \in Answers :
         /\ status' = [status EXCEPT ![e] = s]
         /\ quarantine' = IF s = "QUARANTINED" THEN Append(q, e) ELSE q
  BY ProcessAnswers
<1>2. /\ status' \in [Events -> Answers] /\ status'[e] = s
      /\ \A f \in Events \ {e} : status'[f] = status[f]
  BY <1>1 DEF QuarantineInv
<1>3. /\ quarantine' \in Seq(Events)
      /\ s = "QUARANTINED" => Contains(quarantine', e)
      /\ \A f \in Events : Contains(q, f) => Contains(quarantine', f)
  BY <1>1, AppendKeeps
<1>4. Listed'
  BY <1>2, <1>3 DEF QuarantineInv, Listed
<1> QED
  BY <1>2, <1>3, <1>4 DEF QuarantineInv

\* Every step keeps the list complete.
LEMMA NextLists == QuarantineInv /\ [Next]_vars => QuarantineInv'
<1> SUFFICES ASSUME QuarantineInv, [Next]_vars PROVE QuarantineInv'
  OBVIOUS
<1>1. ASSUME NEW e \in Events, Arrive(e) \/ Redeliver(e) PROVE QuarantineInv'
  BY <1>1, ProcessLists DEF Arrive, Redeliver, QuarantineInv
<1>2. ASSUME NEW e \in Events, RetryQuarantined(e) PROVE QuarantineInv'
  <2>1. /\ RemoveFirst(quarantine, e) \in Seq(Events)
        /\ \A f \in Events \ {e} :
              Contains(quarantine, f) => Contains(RemoveFirst(quarantine, e), f)
    <3>1. quarantine \in Seq(Events)
      BY DEF QuarantineInv
    <3>2. Contains(quarantine, e)
      BY <1>2, <3>1 DEF RetryQuarantined, Contains
    <3> QED
      BY <3>1, <3>2, RemoveFirstKeepsOthers
  <2> QED
    BY <1>2, <2>1, ProcessLists DEF RetryQuarantined
<1>3. CASE \E t \in Topics : Acknowledge(t)
  BY <1>3 DEF Acknowledge, QuarantineInv, Listed
<1>4. CASE Restart
  BY <1>4 DEF Restart, QuarantineInv, Listed, Answers
<1>5. CASE UNCHANGED vars
  BY <1>5 DEF vars, memory, QuarantineInv, Listed
<1> QED
  BY <1>1, <1>2, <1>3, <1>4, <1>5 DEF Next

\* A processing of a valid event leaves the invalid ones alone.
LEMMA ProcessSparesInvalid ==
    ASSUME IInv, QuarantineInv, InvalidInv, NEW e \in Events, NEW n, NEW q, NEW d,
           Process(e, n, q, d)
    PROVE  InvalidInv'
<1>1. CASE e \in Invalid
  <2>1. ProcessInvalid(e, n, q)
    BY <1>1 DEF Process, ProcessDuplicate, ProcessCompletes, ProcessUnmarked, ProcessFails, New
  <2>2. UNCHANGED <<cache, marked, effects>> /\ status' = [status EXCEPT ![e] = "QUARANTINED"]
    BY <2>1 DEF ProcessInvalid, Result, database, tables
  <2> QED
    BY <2>2, EventsAssumption DEF InvalidInv, QuarantineInv
<1>2. CASE e \notin Invalid
  <2>1. PICK s \in Answers : status' = [status EXCEPT ![e] = s]
    BY <1>2 DEF Process, ProcessInvalid, ProcessDuplicate, ProcessCompletes, ProcessUnmarked,
                ProcessFails, Result, Answers
  <2>2. cache' \in {cache, cache \cup {e}}
    BY <1>2 DEF Process, ProcessInvalid, ProcessDuplicate, ProcessCompletes, ProcessUnmarked,
                ProcessFails
  <2>3. /\ marked' \in {marked, [marked EXCEPT ![idOf[e]] = e]}
        /\ effects' \in {effects, [effects EXCEPT ![e] = @ + 1]}
    BY <1>2 DEF Process, ProcessInvalid, ProcessDuplicate, ProcessCompletes, ProcessUnmarked,
                ProcessFails, CommitWork, database, tables
  <2>4. ASSUME NEW f \in Invalid
        PROVE  /\ status'[f] \in {"NONE", "QUARANTINED"}
               /\ f \notin cache' /\ marked'[idOf[f]] # f /\ effects'[f] = 0
    <3>1. f # e /\ f \in Events /\ idOf[f] \in Ids
      BY <1>2, EventsAssumption
    <3>2. status'[f] = status[f] /\ effects'[f] = effects[f] /\ marked'[idOf[f]] \in {marked[idOf[f]], e}
      BY <2>1, <2>3, <3>1 DEF IInv, RowTypes, QuarantineInv
    <3> QED
      BY <2>2, <3>1, <3>2 DEF InvalidInv
  <2> QED
    BY <2>4 DEF InvalidInv
<1> QED
  BY <1>1, <1>2

\* Every step keeps the invalid events out.
LEMMA InvalidStay == IInv /\ QuarantineInv /\ InvalidInv /\ [Next]_vars => InvalidInv'
<1> SUFFICES ASSUME IInv, QuarantineInv, InvalidInv, [Next]_vars PROVE InvalidInv'
  OBVIOUS
<1>1. CASE \E e \in Events : Arrive(e) \/ Redeliver(e) \/ RetryQuarantined(e)
  BY <1>1, ProcessSparesInvalid DEF Arrive, Redeliver, RetryQuarantined
<1>2. CASE \E t \in Topics : Acknowledge(t)
  BY <1>2 DEF Acknowledge, database, tables, InvalidInv
<1>3. CASE Restart
  BY <1>3, EventsAssumption DEF Restart, tables, InvalidInv, QuarantineInv
<1>4. CASE UNCHANGED vars
  BY <1>4 DEF vars, memory, database, tables, InvalidInv
<1> QED
  BY <1>1, <1>2, <1>3, <1>4 DEF Next

\* While the process lives, an event that was answered QUARANTINED is in the
\* quarantine (processor.py:132-143, 247-269), whatever was retried meanwhile; and an
\* invalid event is nowhere else.
THEOREM QuarantineComplete == Spec => []QuarantinedIsListed
<1>1. Init => QuarantineInv /\ InvalidInv
  BY EventsAssumption DEF Init, QuarantineInv, Listed, InvalidInv, Answers
<1>2. QuarantineInv /\ InvalidInv => QuarantinedIsListed
  BY DEF QuarantineInv, Listed, InvalidInv, QuarantinedIsListed
<1> QED
  BY <1>1, <1>2, Invariant, NextLists, InvalidStay, PTL DEF Spec

-----------------------------------------------------------------------------
(***************************************************************************)
(* Attempts: no event is ever attempted a fourth time, because the third   *)
(* failure is not answered RETRYING and a retry starts again from zero.    *)
(***************************************************************************)
AttemptsInv ==
    /\ attempts \in [Events -> 0..3]
    /\ \A e \in Events : status[e] = "RETRYING" => attempts[e] <= 2
    /\ arrivals \in 0..MaxArrivals /\ retries \in 0..MaxRetries /\ restarts \in 0..MaxRestarts

\* An event is processed a bounded number of times.
LEMMA ProcessCounts ==
    ASSUME QuarantineInv, AttemptsInv, NEW e \in Events, NEW n \in 0..2, NEW q, NEW d,
           Process(e, n, q, d)
    PROVE  /\ attempts' \in [Events -> 0..3]
           /\ \A f \in Events : status'[f] = "RETRYING" => attempts'[f] <= 2
<1>1. PICK s \in Answers, m \in 0..3 :
         Result(e, s, m) /\ (s = "RETRYING" => m <= 2)
  <2>1. n \in 0..3 /\ n + 1 \in 0..3
    OBVIOUS
  <2>2. CASE ProcessInvalid(e, n, q) \/ ProcessDuplicate(e, n, q)
    BY <2>1, <2>2 DEF ProcessInvalid, ProcessDuplicate, Answers
  <2>3. CASE ProcessCompletes(e, n, q, d) \/ ProcessUnmarked(e, n, q, d)
    BY <2>1, <2>3 DEF ProcessCompletes, ProcessUnmarked, Answers
  <2>4. CASE ProcessFails(e, n, q, d)
    BY <2>1, <2>4 DEF ProcessFails, Answers
  <2> QED
    BY <2>2, <2>3, <2>4 DEF Process
<1>2. /\ status' = [status EXCEPT ![e] = s]
      /\ attempts' = [attempts EXCEPT ![e] = m]
  BY <1>1 DEF Result
<1> QED
  BY <1>1, <1>2 DEF QuarantineInv, AttemptsInv

\* Every step keeps these counts.
LEMMA NextCounts == QuarantineInv /\ AttemptsInv /\ [Next]_vars => AttemptsInv'
<1> SUFFICES ASSUME QuarantineInv, AttemptsInv, [Next]_vars PROVE AttemptsInv'
  OBVIOUS
<1> USE BoundsAssumption
<1>1. ASSUME NEW e \in Events, Arrive(e) PROVE AttemptsInv'
  <2>1. /\ arrivals' \in 0..MaxArrivals /\ retries' \in 0..MaxRetries
        /\ restarts' \in 0..MaxRestarts
    BY <1>1 DEF Arrive, AttemptsInv
  <2>2. 0 \in 0..2
    OBVIOUS
  <2> QED
    BY <1>1, <2>1, <2>2, ProcessCounts DEF Arrive, AttemptsInv
<1>2. ASSUME NEW e \in Events, Redeliver(e) PROVE AttemptsInv'
  <2>1. attempts[e] \in 0..2
    BY <1>2 DEF Redeliver, AttemptsInv
  <2> QED
    BY <1>2, <2>1, ProcessCounts DEF Redeliver, AttemptsInv
<1>3. ASSUME NEW e \in Events, RetryQuarantined(e) PROVE AttemptsInv'
  <2>1. /\ arrivals' \in 0..MaxArrivals /\ retries' \in 0..MaxRetries
        /\ restarts' \in 0..MaxRestarts
    BY <1>3 DEF RetryQuarantined, AttemptsInv
  <2>2. 0 \in 0..2
    OBVIOUS
  <2> QED
    BY <1>3, <2>1, <2>2, ProcessCounts DEF RetryQuarantined, AttemptsInv
<1>4. CASE \E t \in Topics : Acknowledge(t)
  BY <1>4 DEF Acknowledge, AttemptsInv
<1>5. CASE Restart
  BY <1>5 DEF Restart, QuarantineInv, AttemptsInv, Answers
<1>6. CASE UNCHANGED vars
  BY <1>6 DEF vars, AttemptsInv
<1> QED
  BY <1>1, <1>2, <1>3, <1>4, <1>5, <1>6 DEF Next

\* Every variable has its type, and no event is attempted more than three times
\* (processor.py:247-269, contracts.py).
THEOREM Types == Spec => []TypeOK
<1>1. Init => QuarantineInv /\ AttemptsInv /\ RunsOnce
  BY BoundsAssumption DEF Init, QuarantineInv, Listed, AttemptsInv, Answers, RunsOnce
<1>2. IInv /\ RunsOnce /\ QuarantineInv /\ AttemptsInv => TypeOK
  BY DEF IInv, RowTypes, RunsOnce, QuarantineInv, AttemptsInv, Answers, TypeOK
<1> QED
  BY <1>1, <1>2, Invariant, RunsPreserved, NextLists, NextCounts, PTL DEF Spec
=============================================================================
