------------------------- MODULE Phase16Idempotency -------------------------
(***************************************************************************)
(* The idempotent writes of one tenant in Phase 16: begin and complete of  *)
(* aurix_core/phase16/idempotency.py around the services of services.py.   *)
(*                                                                         *)
(* The routes are synchronous, so requests run concurrently in a thread    *)
(* pool, each in one READ COMMITTED transaction: begin's look-ups and its  *)
(* insert are statements of their own, and the record, the writes of the   *)
(* service and complete's result are committed together.  An insert that   *)
(* collides with a row of an open transaction waits until that transaction *)
(* ends.  A request that fails (a domain refusal, an exception, the death  *)
(* of the process) is rolled back when its session is closed.              *)
(*                                                                         *)
(* A client's retry is another member of Requests with the same names.     *)
(***************************************************************************)
EXTENDS FiniteSets

CONSTANTS
    Requests,
    Names,        \* idempotency keys and source identities
    NoName,       \* not given
    givenKey,     \* metadata.idempotency_key of each request
    identity,     \* source_system:external_record_id of each request
    Unanswered, Failed, Raised

ASSUME NamesAssumption ==
    /\ NoName \notin Names
    /\ givenKey \in [Requests -> Names \cup {NoName}]
    /\ identity \in [Requests -> Names \cup {NoName}]
ASSUME AnswersAssumption ==
    /\ Unanswered \notin Requests /\ Failed \notin Requests /\ Raised \notin Requests
    /\ Failed # Unanswered /\ Raised # Unanswered /\ Raised # Failed

VARIABLES
    pc,           \* where each request is
    rows,         \* requests whose record is committed, always COMPLETED
    open,         \* requests with a record in their open transaction
    applied,      \* requests whose writes are committed
    reply         \* what each request was answered: a request's result, ...

vars == <<pc, rows, open, applied, reply>>

\* effective_key
Key(r) == IF givenKey[r] # NoName THEN givenKey[r] ELSE identity[r]

\* The two unique indexes; a NULL source identity never collides.
SameKey(q, r) == Key(q) = Key(r)
SameIdentity(q, r) == identity[q] # NoName /\ identity[q] = identity[r]
Collides(q, r) == SameKey(q, r) \/ SameIdentity(q, r)

Init ==
    /\ pc = [r \in Requests |-> "key"]
    /\ rows = {} /\ open = {} /\ applied = {}
    /\ reply = [r \in Requests |-> Unanswered]

GoTo(r, s) == pc' = [pc EXCEPT ![r] = s]
Answer(r, a) == reply' = [reply EXCEPT ![r] = a] /\ GoTo(r, "done")

\* No name: the request runs without a record.
BeginUnnamed(r) ==
    /\ pc[r] = "key"
    /\ Key(r) = NoName
    /\ GoTo(r, "working")
    /\ UNCHANGED <<rows, open, applied, reply>>

LookupKey(r) ==
    /\ pc[r] = "key"
    /\ Key(r) # NoName
    /\ \/ \E q \in rows : SameKey(q, r) /\ Answer(r, q)
       \/ /\ \A q \in rows : ~SameKey(q, r)
          /\ GoTo(r, IF identity[r] # NoName THEN "identity" ELSE "insert")
          /\ UNCHANGED reply
    /\ UNCHANGED <<rows, open, applied>>

LookupIdentity(r) ==
    /\ pc[r] = "identity"
    /\ \/ \E q \in rows : SameIdentity(q, r) /\ Answer(r, q)
       \/ (\A q \in rows : ~SameIdentity(q, r)) /\ GoTo(r, "insert") /\ UNCHANGED reply
    /\ UNCHANGED <<rows, open, applied>>

\* Mutant of Insert: the unique index on the source identity is missing.
Insert_KeyIndexOnly(r) ==
    /\ pc[r] = "insert"
    /\ \A q \in open \cup rows : ~SameKey(q, r)
    /\ open' = open \cup {r}
    /\ GoTo(r, "working")
    /\ UNCHANGED <<rows, applied, reply>>

\* The insert in its savepoint, once no open transaction holds a colliding row.
Insert(r) ==
    /\ pc[r] = "insert"
    /\ \A q \in open \cup rows : ~Collides(q, r)
    /\ open' = open \cup {r}
    /\ GoTo(r, "working")
    /\ UNCHANGED <<rows, applied, reply>>

\* IntegrityError: looked up again by key only; not found, it is raised on.
InsertCollides(r) ==
    /\ pc[r] = "insert"
    /\ \A q \in open : ~Collides(q, r)
    /\ \E q \in rows : Collides(q, r)
    /\ \/ \E q \in rows : SameKey(q, r) /\ Answer(r, q)
       \/ (\A q \in rows : ~SameKey(q, r)) /\ Answer(r, Raised)
    /\ UNCHANGED <<rows, open, applied>>

\* complete and the commit of the service.
Commit(r) ==
    /\ pc[r] = "working"
    /\ rows' = IF r \in open THEN rows \cup {r} ELSE rows
    /\ open' = open \ {r}
    /\ applied' = applied \cup {r}
    /\ Answer(r, r)

\* Mutants of Abort: the writes were committed before the failure; the
\* transaction is left open.
Abort_AfterWrites(r) ==
    /\ pc[r] # "done"
    /\ open' = open \ {r}
    /\ applied' = IF pc[r] = "working" THEN applied \cup {r} ELSE applied
    /\ Answer(r, Failed)
    /\ UNCHANGED rows
Abort_KeepsOpen(r) ==
    /\ pc[r] # "done"
    /\ Answer(r, Failed)
    /\ UNCHANGED <<rows, open, applied>>

Abort(r) ==
    /\ pc[r] # "done"
    /\ open' = open \ {r}
    /\ Answer(r, Failed)
    /\ UNCHANGED <<rows, applied>>

Next == \E r \in Requests :
    BeginUnnamed(r) \/ LookupKey(r) \/ LookupIdentity(r) \/ Insert(r)
        \/ InsertCollides(r) \/ Commit(r) \/ Abort(r)

Spec == Init /\ [][Next]_vars

\* A running request keeps running; nothing obliges it to fail.
Step(r) == BeginUnnamed(r) \/ LookupKey(r) \/ LookupIdentity(r) \/ Insert(r)
               \/ InsertCollides(r) \/ Commit(r)
FairSpec == Spec /\ \A r \in Requests : WF_vars(Step(r))

-----------------------------------------------------------------------------
\* Every variable has its type.
TypeOK ==
    /\ pc \in [Requests -> {"key", "identity", "insert", "working", "done"}]
    /\ rows \subseteq Requests /\ open \subseteq Requests /\ applied \subseteq Requests
    /\ reply \in [Requests -> Requests \cup {Unanswered, Failed, Raised}]

\* Equivalent requests: both named, with the same key or the same identity.
Equivalent(q, r) == Key(q) # NoName /\ Key(r) # NoName /\ Collides(q, r)

\* Of all the requests that carry a key, or a source identity, at most one is
\* ever applied, however their look-ups, inserts, commits and failures
\* interleave (idempotency.py:43-47).
AppliedOncePerName ==
    \A q, r \in applied : Equivalent(q, r) => q = r

\* A result handed out is the result of writes that are committed, for a
\* request with one of the same names (idempotency.py:73-74, 113-114).
ReplyIsCommitted ==
    \A r \in Requests : reply[r] \in Requests =>
        reply[r] \in applied /\ (reply[r] = r \/ Equivalent(reply[r], r))

\* The database steps implement the promise made to clients.
MappedReply == [r \in Requests |-> IF reply[r] = Raised THEN Failed ELSE reply[r]]
Promise == INSTANCE AtMostOnce WITH Same <- Equivalent, answer <- MappedReply
ImplementsPromise == Promise!ASpec

\* Requests that wait for one another's rows all end.
EveryRequestEnds == \A r \in Requests : <>(pc[r] = "done")
=============================================================================
