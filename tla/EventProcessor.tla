--------------------------- MODULE EventProcessor ---------------------------
(***************************************************************************)
(* Operational events of one tenant: EventProcessor (aurix_core/events/    *)
(* processor.py), the retry and acknowledge routes of aurix_api/routers/   *)
(* events.py, and what Phase16EventBridge adds to the transaction.         *)
(*                                                                         *)
(* The processor keeps its idempotency cache, its quarantine and its       *)
(* alerts in memory, and writes rows for each of them; only memory is ever *)
(* read back.  Its callers are coroutines of one process that do not await *)
(* while an event is processed, so processing an event is one step, with   *)
(* one outcome for each place at which it can fail or die.                 *)
(*                                                                         *)
(* What it commits comes in two parts.  A caller may hand over datasets;   *)
(* then the capabilities an event made dirty are computed again, by a run  *)
(* (intelligence/service.py) that looks its hash up, and that commits by   *)
(* itself before alert, case and mark are written.                         *)
(***************************************************************************)
EXTENDS Naturals, Sequences, SequencesExt

CONSTANTS
    Events,       \* identity of an event: event_id with payload_hash
    Ids,          \* event_ids
    idOf,         \* the event_id of an event; events of one id differ in payload
    NoEvent,      \* no row for an id
    Invalid,      \* those that validate_event refuses
    Caps,         \* sets of capabilities the router can find dirty
    dirty,        \* that of an event, NoCaps if it requires no recomputation
    NoCaps,
    Datasets,     \* what a caller may hand over to compute with
    NoData,       \* a caller that hands over nothing
    Topics,       \* deduplication keys of alerts
    topic,        \* the alert key of an event, NoTopic if its type raises none
    NoTopic,
    MaxArrivals,  \* bound on deliveries by a source
    MaxRetries,   \* bound on operator retries
    MaxRestarts   \* bound on restarts of the process

ASSUME EventsAssumption ==
    Invalid \subseteq Events /\ NoEvent \notin Events /\ idOf \in [Events -> Ids]
ASSUME RunsAssumption ==
    NoCaps \notin Caps /\ NoData \notin Datasets /\ dirty \in [Events -> Caps \cup {NoCaps}]
ASSUME TopicsAssumption ==
    NoTopic \notin Topics /\ topic \in [Events -> Topics \cup {NoTopic}]
ASSUME BoundsAssumption == MaxArrivals \in Nat /\ MaxRetries \in Nat /\ MaxRestarts \in Nat

VARIABLES
    status,       \* result of the last processing of an event
    attempts,     \* attempt_count of its latest object
    cache,        \* _PROCESSED_EVENTS_CACHE
    quarantine,   \* _QUARANTINED_STORE, a list
    alerts,       \* _ACTIVE_ALERTS: [Topics -> status]
    marked,       \* persistent_events: [Ids -> the event its key is of, or NoEvent]
    effects,      \* how often the work of an event (its case) was committed
    runs,         \* ended intelligence runs by what was computed: [Keys -> Nat]
    alertRows,    \* persistent_alerts rows by topic
    arrivals, retries, restarts

Keys == Caps \X Datasets
memory == <<cache, quarantine, alerts>>
tables == <<marked, effects, alertRows>>
database == <<tables, runs>>
vars == <<status, attempts, memory, database, arrivals, retries, restarts>>

Init ==
    /\ status = [e \in Events |-> "NONE"]
    /\ attempts = [e \in Events |-> 0]
    /\ cache = {} /\ quarantine = << >>
    /\ alerts = [t \in Topics |-> "none"]
    /\ marked = [i \in Ids |-> NoEvent]
    /\ effects = [e \in Events |-> 0]
    /\ runs = [k \in Keys |-> 0]
    /\ alertRows = [t \in Topics |-> 0]
    /\ arrivals = 0 /\ retries = 0 /\ restarts = 0

-----------------------------------------------------------------------------
(***************************************************************************)
(* process_event for an event that has been attempted n times, handed over *)
(* with the datasets d, when q is the quarantine list.                     *)
(***************************************************************************)
Result(e, s, n) == /\ status' = [status EXCEPT ![e] = s]
                   /\ attempts' = [attempts EXCEPT ![e] = n]

\* Mutant of RaisesAlert: an acknowledged alert no longer suppresses new ones.
RaisesAlert_Acknowledged(e) == topic[e] # NoTopic /\ alerts[topic[e]] # "ACTIVE"

RaisesAlert(e) == topic[e] # NoTopic /\ alerts[topic[e]] = "none"
AlertKept(e) == alerts' = IF RaisesAlert(e) THEN [alerts EXCEPT ![topic[e]] = "ACTIVE"] ELSE alerts

\* The run of what the event made dirty is not found by its hash, ends, and is
\* committed.
RunEnds(e, d) ==
    /\ dirty[e] # NoCaps /\ d # NoData
    /\ runs[<<dirty[e], d>>] = 0
    /\ runs' = [runs EXCEPT ![<<dirty[e], d>>] = @ + 1]

\* Nothing is asked for, the run is found, or it answers FAILED and is rolled back,
\* which nobody looks at.
RunLeavesNothing == UNCHANGED runs
Recomputes(e, d) == RunEnds(e, d) \/ RunLeavesNothing

ProcessInvalid(e, n, q) ==
    /\ e \in Invalid
    /\ Result(e, "QUARANTINED", n)
    /\ quarantine' = Append(q, e)
    /\ UNCHANGED <<cache, alerts, database>>

ProcessDuplicate(e, n, q) ==
    /\ e \notin Invalid /\ e \in cache
    /\ Result(e, "DUPLICATE", n)
    /\ quarantine' = q
    /\ UNCHANGED <<cache, alerts, database>>

New(e) == e \notin Invalid /\ e \notin cache

\* The case, the alert row and the mark; the upsert goes by event_id, and puts the
\* key of this payload where that of another was.
CommitWork(e) ==
    /\ marked' = [marked EXCEPT ![idOf[e]] = e]
    /\ effects' = [effects EXCEPT ![e] = @ + 1]
    /\ alertRows' = IF RaisesAlert(e) THEN [alertRows EXCEPT ![topic[e]] = @ + 1] ELSE alertRows

\* Mutant of ProcessCompletes: the event is not remembered in the cache.
ProcessCompletes_NotCached(e, n, q, d) ==
    /\ New(e)
    /\ Recomputes(e, d)
    /\ Result(e, "COMPLETED", n + 1)
    /\ quarantine' = q
    /\ AlertKept(e)
    /\ CommitWork(e)
    /\ UNCHANGED cache

\* The run commits first; work, alert row and mark are committed together.
ProcessCompletes(e, n, q, d) ==
    /\ New(e)
    /\ Recomputes(e, d)
    /\ Result(e, "COMPLETED", n + 1)
    /\ quarantine' = q
    /\ cache' = cache \cup {e}
    /\ AlertKept(e)
    /\ CommitWork(e)

\* Mutant of ProcessUnmarked: the failed mark is not rolled back with the work.
ProcessUnmarked_KeepsWork(e, n, q, d) ==
    /\ New(e)
    /\ Recomputes(e, d)
    /\ Result(e, "COMPLETED", n + 1)
    /\ quarantine' = q
    /\ cache' = cache \cup {e}
    /\ AlertKept(e)
    /\ effects' = [effects EXCEPT ![e] = @ + 1]
    /\ UNCHANGED <<marked, alertRows>>

\* The upsert of the mark fails: mark_processed rolls back everything but the run,
\* says nothing, and an empty transaction is committed.
ProcessUnmarked(e, n, q, d) ==
    /\ New(e)
    /\ Recomputes(e, d)
    /\ Result(e, "COMPLETED", n + 1)
    /\ quarantine' = q
    /\ cache' = cache \cup {e}
    /\ AlertKept(e)
    /\ UNCHANGED tables

\* Mutant of ProcessFails: the last failed attempt is not put in the quarantine.
ProcessFails_NotListed(e, n, q, d) ==
    /\ New(e)
    /\ Recomputes(e, d)
    /\ \/ UNCHANGED <<cache, alerts>>
       \/ AlertKept(e) /\ UNCHANGED cache
       \/ AlertKept(e) /\ cache' = cache \cup {e}
    /\ Result(e, IF n + 1 < 3 THEN "RETRYING" ELSE "QUARANTINED", n + 1)
    /\ quarantine' = q
    /\ UNCHANGED tables

\* An exception before or after the run, after the alert, or at the commit (the
\* cache holds the event by then).  The transaction is rolled back; a run that
\* committed and the memory are not.
ProcessFails(e, n, q, d) ==
    /\ New(e)
    /\ Recomputes(e, d)
    /\ \/ UNCHANGED <<cache, alerts>>
       \/ AlertKept(e) /\ UNCHANGED cache
       \/ AlertKept(e) /\ cache' = cache \cup {e}
    /\ IF n + 1 < 3 THEN Result(e, "RETRYING", n + 1) /\ quarantine' = q
                    ELSE Result(e, "QUARANTINED", n + 1) /\ quarantine' = Append(q, e)
    /\ UNCHANGED tables

Process(e, n, q, d) ==
    \/ ProcessInvalid(e, n, q) \/ ProcessDuplicate(e, n, q) \/ ProcessCompletes(e, n, q, d)
    \/ ProcessUnmarked(e, n, q, d) \/ ProcessFails(e, n, q, d)

-----------------------------------------------------------------------------
\* A source delivers an event, perhaps again, as a new object.
Arrive(e) ==
    /\ arrivals < MaxArrivals
    /\ arrivals' = arrivals + 1
    /\ \E d \in Datasets \cup {NoData} : Process(e, 0, quarantine, d)
    /\ UNCHANGED <<retries, restarts>>

\* Whoever holds an event answered RETRYING processes the same object again.
Redeliver(e) ==
    /\ status[e] = "RETRYING"
    /\ \E d \in Datasets \cup {NoData} : Process(e, attempts[e], quarantine, d)
    /\ UNCHANGED <<arrivals, retries, restarts>>

\* retry_quarantined_event: the first entry with the event_id is taken out of the
\* quarantine and its attempts are reset; then it is processed, without datasets.
RetryQuarantined(e) ==
    /\ retries < MaxRetries
    /\ retries' = retries + 1
    /\ \E p \in DOMAIN quarantine :
          /\ quarantine[p] = e
          /\ \A r \in 1..p - 1 : idOf[quarantine[r]] # idOf[e]
    /\ Process(e, 0, RemoveFirst(quarantine, e), NoData)
    /\ UNCHANGED <<arrivals, restarts>>

Acknowledge(t) ==
    /\ alerts[t] \in {"ACTIVE", "ACKNOWLEDGED"}
    /\ alerts' = [alerts EXCEPT ![t] = "ACKNOWLEDGED"]
    /\ UNCHANGED <<status, attempts, cache, quarantine, database, arrivals, retries, restarts>>

\* Nothing of the memory is rebuilt from the rows.  A process that dies while it
\* works on an event leaves at most the run behind.
Restart ==
    /\ restarts < MaxRestarts
    /\ restarts' = restarts + 1
    /\ \/ RunLeavesNothing /\ UNCHANGED arrivals
       \/ /\ arrivals < MaxArrivals /\ arrivals' = arrivals + 1
          /\ \E e \in Events, d \in Datasets : New(e) /\ RunEnds(e, d)
    /\ cache' = {} /\ quarantine' = << >> /\ alerts' = [t \in Topics |-> "none"]
    /\ status' = [e \in Events |-> IF status[e] = "RETRYING" THEN "NONE" ELSE status[e]]
    /\ UNCHANGED <<attempts, tables, retries>>

Next ==
    \/ \E e \in Events : Arrive(e) \/ Redeliver(e) \/ RetryQuarantined(e)
    \/ \E t \in Topics : Acknowledge(t)
    \/ Restart

Spec == Init /\ [][Next]_vars

-----------------------------------------------------------------------------
\* Every variable has its type.
TypeOK ==
    /\ status \in [Events -> {"NONE", "COMPLETED", "DUPLICATE", "RETRYING", "QUARANTINED"}]
    /\ attempts \in [Events -> 0..3]
    /\ cache \subseteq Events /\ marked \in [Ids -> Events \cup {NoEvent}]
    /\ quarantine \in Seq(Events)
    /\ alerts \in [Topics -> {"none", "ACTIVE", "ACKNOWLEDGED"}]
    /\ effects \in [Events -> Nat] /\ runs \in [Keys -> Nat] /\ alertRows \in [Topics -> Nat]
    /\ arrivals \in 0..MaxArrivals /\ retries \in 0..MaxRetries /\ restarts \in 0..MaxRestarts

\* While the process lives, the work of an event is committed at most once,
\* whatever mixture of deliveries, failures, redeliveries and operator retries
\* it goes through; and although the run of an event that fails after it stays
\* committed, nothing is computed twice over the same datasets, by whichever
\* events, retries or lives of the process (processor.py:147-199, service.py:83-97).
EffectsAtMostOnce ==
    /\ restarts = 0 => \A e \in Events : effects[e] <= 1
    /\ \A k \in Keys : runs[k] <= 1

\* The mark and the work committed with it stand or fall together, however the
\* transaction ended: an id has a row exactly if an event of that id was worked on,
\* and the key in the row is that of one (processor.py:97-119, 200-226).
\* The intelligence run is not part of it: it commits before.
MarkAtomicWithWork ==
    \A i \in Ids :
        IF marked[i] = NoEvent THEN \A e \in Events : idOf[e] = i => effects[e] = 0
                               ELSE idOf[marked[i]] = i /\ effects[marked[i]] > 0

\* One alert row per deduplication key while the process lives, over all the
\* events that share the key (processor.py:306-316).
AlertRowsDeduplicated == restarts = 0 => \A t \in Topics : alertRows[t] <= 1

\* An event whose last answer was QUARANTINED can be found in the quarantine while
\* the process lives, and one that is invalid is never anywhere else: not among the
\* processed events, not in the tables, and not waiting for a retry
\* (processor.py:132-143, 247-269).
QuarantinedIsListed ==
    /\ restarts = 0 => \A e \in Events : status[e] = "QUARANTINED" => Contains(quarantine, e)
    /\ \A e \in Invalid : /\ status[e] \in {"NONE", "QUARANTINED"}
                          /\ e \notin cache /\ marked[idOf[e]] # e /\ effects[e] = 0

\* processor.py:75 (check_idempotency): "Returns True if the event has already
\* been successfully processed for this tenant."
DuplicateWasProcessed == \A e \in Events : status[e] = "DUPLICATE" => effects[e] > 0
=============================================================================
