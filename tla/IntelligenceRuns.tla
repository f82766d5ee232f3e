-------------------------- MODULE IntelligenceRuns --------------------------
(***************************************************************************)
(* Requests for intelligence runs: RunManager.submit_run                   *)
(* (aurix_api/services/run_manager.py), the background task it may leave   *)
(* the work to, and IntelligenceService.run_autonomous_intelligence        *)
(* (intelligence/service.py), each request in a session of its own.        *)
(*                                                                         *)
(* A row of the run table is visible once it is committed.  The hash of a  *)
(* request covers its datasets, never its update; it is the name of the    *)
(* datasets here.  get_by_hash takes any row of the hash.  Whatever the    *)
(* service writes waits in its session for the one commit at the end.      *)
(***************************************************************************)
EXTENDS Capabilities

CONSTANTS
    Requests,
    DataOf,    \* the datasets by name: name -> (entity -> records)
    Asks       \* what the requests may ask: a set of [Requests -> [base, update, background]],
               \* an update is [entity, records], or None

ASSUME RequestsAssumption == IsFiniteSet(Requests)
\* Datasets and updates are lists of records.
IsRecord(r) == r = [key |-> r.key, date |-> r.date, value |-> r.value, version |-> r.version]
Dataset(records) == records \in Seq({r \in ToSet(records) : IsRecord(r)})
ASSUME DataAssumption ==
    \A b \in DOMAIN DataOf : \A e \in DOMAIN DataOf[b] : Dataset(DataOf[b][e])
ASSUME AsksAssumption == \A ask \in Asks, r \in Requests :
    /\ ask[r].base \in DOMAIN DataOf
    /\ ask[r].update = None \/ Dataset(ask[r].update.records)

VARIABLES
    asks,    \* [Requests -> [base, update, background]]
    state,   \* [Requests -> where the request is]
    pending, \* [Requests -> set of parts its session has flushed or added]
    rows,    \* set of committed rows [id, base, update, status, parts, done]
    answer   \* [Requests -> [status, run, hit]], the last answer

vars == <<asks, state, pending, rows, answer>>

Parts == {"run", "states", "snapshot", "summary"}
Terminal == {"COMPLETED", "PARTIAL_SUCCESS", "WAITING_FOR_INPUT"}
NoAnswer == [status |-> "NONE", run |-> None, hit |-> FALSE]
Stub(r) == <<r, "stub">>
Real(r) == <<r, "run">>
Row(r, id, status, parts, done) ==
    [id |-> id, base |-> asks[r].base, update |-> asks[r].update,
     status |-> status, parts |-> parts, done |-> done]

Init ==
    /\ asks \in Asks
    /\ state = [r \in Requests |-> "new"]
    /\ pending = [r \in Requests |-> {}]
    /\ rows = {}
    /\ answer = [r \in Requests |-> NoAnswer]

-----------------------------------------------------------------------------
Goes(r, s) == state' = [state EXCEPT ![r] = s]
Answers(r, status, run, hit) == answer' = [answer EXCEPT ![r] = [status |-> status, run |-> run, hit |-> hit]]

OfHash(r) == {row \in rows : row.base = asks[r].base}
\* The rows a request may be answered with; .first() takes any row of the hash, and
\* a row of another status is a miss.
Hits(r) == {row \in OfHash(r) : row.status \in Terminal}
Misses(r) == OfHash(r) = {} \/ \E row \in OfHash(r) : row.status \notin Terminal

SubmitHit(r) ==
    /\ state[r] = "new"
    /\ \E row \in Hits(r) : Answers(r, row.status, row.id, TRUE)
    /\ Goes(r, "answered")
    /\ UNCHANGED <<asks, pending, rows>>

\* A background request is answered QUEUED; its stub may fail to be stored.
SubmitMiss(r) ==
    /\ state[r] = "new" /\ Misses(r)
    /\ Goes(r, "lookup")
    /\ IF asks[r].background
       THEN /\ Answers(r, "QUEUED", Stub(r), FALSE)
            /\ \/ rows' = rows \cup {Row(r, Stub(r), "QUEUED", {"run"}, None)}
               \/ rows' = rows
       ELSE UNCHANGED <<rows, answer>>
    /\ UNCHANGED <<asks, pending>>

\* The service looks again, and finds a run or flushes a row of its own.
ServiceHit(r) ==
    /\ state[r] = "lookup"
    /\ \E row \in Hits(r) :
          IF asks[r].background THEN UNCHANGED answer ELSE Answers(r, row.status, row.id, FALSE)
    /\ Goes(r, "answered")
    /\ UNCHANGED <<asks, pending, rows>>

ServiceMiss(r) ==
    /\ state[r] = "lookup" /\ Misses(r)
    /\ pending' = [pending EXCEPT ![r] = {"run"}]
    /\ Goes(r, "discover")
    /\ UNCHANGED <<asks, rows, answer>>

\* Merge, assess, discover: the states of the capabilities are added.
DiscoverCapabilities(r) ==
    /\ state[r] = "discover"
    /\ pending' = [pending EXCEPT ![r] = @ \cup {"states"}]
    /\ Goes(r, "execute")
    /\ UNCHANGED <<asks, rows, answer>>

\* Execute the pipeline, add the snapshot and the summary, and commit it all.
ExecuteAndCommit(r) ==
    LET done == Run(DataOf[asks[r].base], asks[r].update, <<>>)
        status == OverallStatus(done)
    IN /\ state[r] = "execute"
       /\ rows' = rows \cup {Row(r, Real(r), status, pending[r] \cup {"snapshot", "summary"}, done)}
       /\ pending' = [pending EXCEPT ![r] = {}]
       /\ IF asks[r].background THEN UNCHANGED answer ELSE Answers(r, status, Real(r), FALSE)
       /\ Goes(r, "answered")
       /\ UNCHANGED asks

\* Mutant of Fail: what was flushed is kept when FAILED is written.
Fail_KeepsFlushed(r) ==
    /\ state[r] \in {"discover", "execute"}
    /\ rows' = rows \cup {Row(r, Real(r), "WAITING_FOR_INPUT", pending[r], None)}
    /\ pending' = [pending EXCEPT ![r] = {}]
    /\ IF asks[r].background THEN UNCHANGED answer ELSE Answers(r, "FAILED", Real(r), FALSE)
    /\ Goes(r, "answered")
    /\ UNCHANGED asks
\* Any exception after the flush: the rollback takes the run's row with it, and
\* FAILED is written to an object that is no longer in the session.
Fail(r) ==
    /\ state[r] \in {"discover", "execute"}
    /\ pending' = [pending EXCEPT ![r] = {}]
    /\ IF asks[r].background THEN UNCHANGED answer ELSE Answers(r, "FAILED", Real(r), FALSE)
    /\ Goes(r, "answered")
    /\ UNCHANGED <<asks, rows>>

\* An exception before it.  A synchronous request is answered COMPLETED with a shell,
\* which may be stored; a background one marks its stub FAILED if it was stored.
Raise(r) ==
    /\ state[r] = "lookup"
    /\ IF asks[r].background
       THEN /\ \/ rows' = {IF row.id = Stub(r) THEN [row EXCEPT !.status = "FAILED"] ELSE row : row \in rows}
               \/ rows' = rows
            /\ UNCHANGED answer
       ELSE /\ \/ rows' = rows \cup {Row(r, Stub(r), "COMPLETED", {"run"}, None)}
               \/ rows' = rows
            /\ Answers(r, "COMPLETED", Stub(r), FALSE)
    /\ Goes(r, "answered")
    /\ UNCHANGED <<asks, pending>>

\* The process dies: sessions and background tasks are gone.
Die(r) ==
    /\ state[r] \notin {"new", "answered", "dead"}
    /\ pending' = [pending EXCEPT ![r] = {}]
    /\ Goes(r, "dead")
    /\ UNCHANGED <<asks, rows, answer>>

Next ==
    \E r \in Requests :
        \/ SubmitHit(r) \/ SubmitMiss(r) \/ ServiceHit(r) \/ ServiceMiss(r)
        \/ DiscoverCapabilities(r) \/ ExecuteAndCommit(r)
        \/ Fail(r) \/ Raise(r) \/ Die(r)

Spec == Init /\ [][Next]_vars

-----------------------------------------------------------------------------
Computed == {row \in rows : row.done # None}

\* A request that is answered with an ended run gets one that was committed whole,
\* with its capability states, its snapshot and its summary, over the same datasets,
\* or the shell of a request that raised; whatever fails or dies in between leaves
\* nothing behind (service.py:86-97, 255-262).
HitsAreWhole ==
    /\ \A r \in Requests : (answer[r].status \in Terminal /\ answer[r].run # Stub(r)) =>
          \E row \in rows : /\ row.id = answer[r].run /\ row.base = asks[r].base
                            /\ row.parts = Parts \/ row.id[2] = "stub"
    /\ \A row \in rows : row.id[2] = "run" => row.parts = Parts /\ row.status = OverallStatus(row.done)

\* What a run reports as completed was computed over a dataset that is there, and
\* over completed upstream capabilities all the way up, although the discovery and
\* the execution each keep a graph and an order of their own (discovery.py:228-320,
\* automation.py:63-196).
UpstreamCompleted ==
    \A row \in Computed :
        LET done == Completed(row.done)
            used(c) == row.done[c].output[1]
        IN \A c \in done : /\ REGISTRY[c].upstream \cup DEPENDENCY_GRAPH[c] \subseteq done
                           /\ Len(used(c)) >= REGISTRY[c].history /\ Len(used(c)) > 0

\* Selective recomputation is sound: from the outputs of a stored run as cache, an
\* update of the datasets it ended with gives what computing everything again gives, even
\* where a capability reads an output that it does not require
\* (automation.py:113-120, 150-163, incremental.py:60-106).
ReusedIsCurrent ==
    \A row \in Computed, r \in Requests :
        LET base == Merged(DataOf[row.base], row.update)
            cache == [c \in Completed(row.done) |-> row.done[c].output]
            again == Run(base, asks[r].update, cache)
            afresh == Run(base, asks[r].update, <<>>)
        IN \A c \in Capability : /\ again[c].status = afresh[c].status
                                 /\ again[c].output = afresh[c].output

\* An update that arrives twice changes nothing the second time, and if no key is in
\* it twice every record is reported as a duplicate and no version goes up
\* (incremental.py:139, 226-300).
MergeIdempotent ==
    \A r \in Requests :
        LET u == asks[r].update
            base == DataOf[asks[r].base]
            first == DiffAndMerge(IF u.entity \in DOMAIN base THEN base[u.entity] ELSE <<>>, u.records)
            second == DiffAndMerge(first.records, u.records)
            distinct == Cardinality(Keys(u.records)) = Len(u.records)
            unversioned(m) == {[x EXCEPT !.version = 0] : x \in ToSet(m.records)}
        IN u # None => /\ unversioned(second) = unversioned(first)
                       /\ distinct => /\ second.records = first.records
                                      /\ ~Changes(second)
=============================================================================
