---------------------------- MODULE Phase16Proofs ----------------------------
(***************************************************************************)
(* The writes of Phase 16, for any number of calls, lines, locations and   *)
(* quantities.  First the idempotency layer: equivalent requests are       *)
(* applied at most once, and the database steps implement AtMostOnce.      *)
(* Then reserve: the locks it takes make what it promises add up.  Then    *)
(* the purchase order: what overlapping receipts, revisions, transitions   *)
(* and invoices leave of its counters, its closure and its invoice match.  *)
(* Last the explosions: what a plan adds up to and a promise covers, by    *)
(* what the frames on the stack still require.                             *)
(***************************************************************************)
EXTENDS Phase16Idempotency, Fulfillment, Procurement, Planning, Sums, SequenceTheorems

(***************************************************************************)
(* Idempotent writes: Phase16Idempotency.                                  *)
(***************************************************************************)
\* A record is open or committed only for a named request, in the right place
\* of its life; a working request that is named has its record.
RecordsFollowPc ==
    /\ \A r \in open : pc[r] = "working" /\ Key(r) # NoName
    /\ \A r \in rows : Key(r) # NoName
    /\ \A r \in rows \cup applied : pc[r] = "done"
    /\ \A r \in Requests : pc[r] = "working" /\ Key(r) # NoName => r \in open
    /\ \A r \in Requests : pc[r] \in {"identity", "insert"} => Key(r) # NoName

\* What the two unique indexes maintain, over committed and open records.
IndexesUnique == \A q, r \in rows \cup open : Collides(q, r) => q = r

\* The writes and the record are committed together.
AppliedHasRow ==
    /\ rows \subseteq applied
    /\ \A r \in applied : Key(r) # NoName => r \in rows

AnsweredWhenDone == \A r \in Requests : reply[r] = Unanswered <=> pc[r] # "done"

IInv == TypeOK /\ RecordsFollowPc /\ IndexesUnique /\ AppliedHasRow
            /\ AnsweredWhenDone /\ ReplyIsCommitted

\* A collision is symmetric, so it does not matter which request came first.
LEMMA CollidesSymmetric ==
    ASSUME NEW q \in Requests, NEW r \in Requests, Collides(q, r)
    PROVE  Collides(r, q)
BY DEF Collides, SameKey, SameIdentity

\* Every request starts without record, writes or answer.
LEMMA InitEstablishes == Init => IInv
BY AnswersAssumption, NamesAssumption
   DEF Init, IInv, TypeOK, RecordsFollowPc, IndexesUnique, AppliedHasRow,
       AnsweredWhenDone, ReplyIsCommitted

\* A request that is answered without touching the tables: replays, raises.
LEMMA AnswerPreserves ==
    ASSUME IInv, NEW r \in Requests, pc[r] \notin {"working", "done"},
           UNCHANGED <<rows, open, applied>>,
           NEW a, Answer(r, a),
           \/ a = Raised
           \/ a \in rows /\ Key(r) # NoName /\ Collides(a, r)
    PROVE  IInv'
<1>1. TypeOK'
  BY DEF IInv, TypeOK, Answer, GoTo
<1>2. RecordsFollowPc'
  BY DEF IInv, TypeOK, RecordsFollowPc, Answer, GoTo, Key
<1>3. IndexesUnique' /\ AppliedHasRow'
  BY DEF IInv, IndexesUnique, AppliedHasRow, Collides, SameKey, SameIdentity, Key
<1>4. AnsweredWhenDone'
  BY AnswersAssumption DEF IInv, TypeOK, AnsweredWhenDone, Answer, GoTo
<1>5. ReplyIsCommitted'
  BY AnswersAssumption
     DEF IInv, TypeOK, ReplyIsCommitted, Answer, GoTo, RecordsFollowPc, AppliedHasRow,
         Equivalent, Collides, SameKey, SameIdentity, Key
<1> QED BY <1>1, <1>2, <1>3, <1>4, <1>5 DEF IInv

\* A request that moves on without answer or record.
LEMMA MovePreserves ==
    ASSUME IInv, NEW r \in Requests, pc[r] \notin {"working", "done"},
           UNCHANGED <<rows, open, applied, reply>>,
           NEW s, GoTo(r, s),
           \/ s = "working" /\ Key(r) = NoName
           \/ s \in {"identity", "insert"} /\ Key(r) # NoName
    PROVE  IInv'
<1>1. TypeOK'
  BY DEF IInv, TypeOK, GoTo
<1>2. RecordsFollowPc'
  BY DEF IInv, TypeOK, RecordsFollowPc, GoTo, Key
<1>3. IndexesUnique' /\ AppliedHasRow'
  BY DEF IInv, IndexesUnique, AppliedHasRow, Collides, SameKey, SameIdentity, Key
<1>4. AnsweredWhenDone' /\ ReplyIsCommitted'
  BY DEF IInv, TypeOK, AnsweredWhenDone, ReplyIsCommitted, GoTo,
         Equivalent, Collides, SameKey, SameIdentity, Key
<1> QED BY <1>1, <1>2, <1>3, <1>4 DEF IInv

\* Every step of every request keeps the invariant.
LEMMA NextPreserves == IInv /\ [Next]_vars => IInv'
<1> SUFFICES ASSUME IInv, [Next]_vars PROVE IInv'
  OBVIOUS
<1>1. CASE UNCHANGED vars
  BY <1>1 DEF vars, IInv, TypeOK, RecordsFollowPc, IndexesUnique, AppliedHasRow,
     AnsweredWhenDone, ReplyIsCommitted, Equivalent, Collides, SameKey, SameIdentity, Key
<1>2. ASSUME NEW r \in Requests, BeginUnnamed(r) PROVE IInv'
  BY <1>2, MovePreserves DEF BeginUnnamed
<1>3. ASSUME NEW r \in Requests, LookupKey(r) PROVE IInv'
  <2>1. CASE \E q \in rows : SameKey(q, r) /\ Answer(r, q)
    BY <1>3, <2>1, AnswerPreserves DEF LookupKey, Collides
  <2>2. CASE GoTo(r, IF identity[r] # NoName THEN "identity" ELSE "insert") /\ UNCHANGED reply
    <3>1. PICK s \in {"identity", "insert"} : GoTo(r, s)
      BY <2>2
    <3> QED BY <1>3, <2>2, <3>1, MovePreserves DEF LookupKey
  <2> QED BY <1>3, <2>1, <2>2 DEF LookupKey
<1>4. ASSUME NEW r \in Requests, LookupIdentity(r) PROVE IInv'
  <2>1. Key(r) # NoName
    BY <1>4 DEF IInv, RecordsFollowPc, LookupIdentity
  <2>2. CASE \E q \in rows : SameIdentity(q, r) /\ Answer(r, q)
    BY <1>4, <2>1, <2>2, AnswerPreserves DEF LookupIdentity, Collides
  <2>3. CASE GoTo(r, "insert") /\ UNCHANGED reply
    BY <1>4, <2>1, <2>3, MovePreserves DEF LookupIdentity
  <2> QED BY <1>4, <2>2, <2>3 DEF LookupIdentity
<1>5. ASSUME NEW r \in Requests, Insert(r) PROVE IInv'
  <2> USE <1>5 DEF Insert
  <2>1. TypeOK'
    BY DEF IInv, TypeOK, GoTo
  <2>2. RecordsFollowPc'
    BY DEF IInv, TypeOK, RecordsFollowPc, GoTo, Key
  <2>3. IndexesUnique'
    <3> SUFFICES ASSUME NEW p \in rows \cup open \cup {r}, NEW q \in rows \cup open \cup {r},
                        Collides(p, q), p # q
                 PROVE  FALSE
      BY DEF IndexesUnique, Collides, SameKey, SameIdentity, Key
    <3>1. p \in Requests /\ q \in Requests
      BY DEF IInv, TypeOK
    <3>2. CASE p = r \/ q = r
      BY <3>1, <3>2, CollidesSymmetric
    <3>3. CASE p # r /\ q # r
      BY <3>3 DEF IInv, IndexesUnique
    <3> QED BY <3>2, <3>3
  <2>4. AppliedHasRow' /\ AnsweredWhenDone' /\ ReplyIsCommitted'
    BY DEF IInv, TypeOK, AppliedHasRow, AnsweredWhenDone, ReplyIsCommitted, GoTo,
           Equivalent, Collides, SameKey, SameIdentity, Key
  <2> QED BY <2>1, <2>2, <2>3, <2>4 DEF IInv
<1>6. ASSUME NEW r \in Requests, InsertCollides(r) PROVE IInv'
  <2>1. Key(r) # NoName
    BY <1>6 DEF IInv, RecordsFollowPc, InsertCollides
  <2>2. CASE \E q \in rows : SameKey(q, r) /\ Answer(r, q)
    BY <1>6, <2>1, <2>2, AnswerPreserves DEF InsertCollides, Collides
  <2>3. CASE Answer(r, Raised)
    BY <1>6, <2>3, AnswerPreserves DEF InsertCollides
  <2> QED BY <1>6, <2>2, <2>3 DEF InsertCollides
<1>7. ASSUME NEW r \in Requests, Commit(r) PROVE IInv'
  <2> USE <1>7 DEF Commit, Answer, GoTo
  <2>1. TypeOK'
    BY DEF IInv, TypeOK
  <2>2. RecordsFollowPc'
    BY DEF IInv, TypeOK, RecordsFollowPc, Key
  <2>3. IndexesUnique'
    <3>1. rows' \cup open' \subseteq rows \cup open
      BY DEF IInv, TypeOK
    <3> QED BY <3>1 DEF IInv, IndexesUnique, Collides, SameKey, SameIdentity, Key
  <2>4. AppliedHasRow'
    BY DEF IInv, TypeOK, RecordsFollowPc, AppliedHasRow, Key
  <2>5. AnsweredWhenDone'
    BY AnswersAssumption DEF IInv, TypeOK, AnsweredWhenDone
  <2>6. ReplyIsCommitted'
    BY DEF IInv, TypeOK, ReplyIsCommitted, Equivalent, Collides, SameKey, SameIdentity, Key
  <2> QED BY <2>1, <2>2, <2>3, <2>4, <2>5, <2>6 DEF IInv
<1>8. ASSUME NEW r \in Requests, Abort(r) PROVE IInv'
  <2> USE <1>8 DEF Abort, Answer, GoTo
  <2>1. TypeOK'
    BY DEF IInv, TypeOK
  <2>2. RecordsFollowPc'
    BY DEF IInv, TypeOK, RecordsFollowPc, Key
  <2>3. IndexesUnique' /\ AppliedHasRow'
    BY DEF IInv, IndexesUnique, AppliedHasRow, Collides, SameKey, SameIdentity, Key
  <2>4. AnsweredWhenDone' /\ ReplyIsCommitted'
    BY AnswersAssumption
       DEF IInv, TypeOK, AnsweredWhenDone, ReplyIsCommitted,
           Equivalent, Collides, SameKey, SameIdentity, Key
  <2> QED BY <2>1, <2>2, <2>3, <2>4 DEF IInv
<1> QED BY <1>1, <1>2, <1>3, <1>4, <1>5, <1>6, <1>7, <1>8 DEF Next

\* The inductive invariant holds in every reachable state.
THEOREM IdempotencyInvariant == Spec => []IInv
<1>1. Init => IInv
  BY InitEstablishes
<1>2. IInv /\ [Next]_vars => IInv'
  BY NextPreserves
<1> QED BY <1>1, <1>2, PTL DEF Spec

\* Every variable of the protocol has its type (idempotency.py, begin and complete).
THEOREM IdempotencyTypes == Spec => []TypeOK
<1>1. IInv => TypeOK
  BY DEF IInv
<1> QED BY <1>1, IdempotencyInvariant, PTL

\* At most one of the requests that share a key or a source identity is ever
\* applied, for any set of concurrent requests (idempotency.py, begin).
THEOREM AppliedOnce == Spec => []AppliedOncePerName
<1>1. IInv => AppliedOncePerName
  BY DEF IInv, AppliedOncePerName, IndexesUnique, AppliedHasRow, Equivalent
<1> QED BY <1>1, IdempotencyInvariant, PTL

\* Every result a client is given is the committed result of its own request
\* or of an equivalent one (idempotency.py, begin and complete).
THEOREM RepliesCommitted == Spec => []ReplyIsCommitted
<1>1. IInv => ReplyIsCommitted
  BY DEF IInv
<1> QED BY <1>1, IdempotencyInvariant, PTL

-----------------------------------------------------------------------------
(***************************************************************************)
(* Refinement.                                                             *)
(***************************************************************************)
\* Replays and raises are the abstract Replay and Fail.
LEMMA AnswerRefines ==
    ASSUME IInv, NEW r \in Requests, pc[r] # "done", UNCHANGED applied,
           NEW a, Answer(r, a),
           \/ a \in {Raised, Failed}
           \/ a \in rows /\ Key(r) # NoName /\ Collides(a, r)
    PROVE  Promise!ANext
<1>1. MappedReply[r] = Unanswered
  BY AnswersAssumption DEF IInv, AnsweredWhenDone, MappedReply
<1>2. CASE a \in {Raised, Failed}
  <2>1. MappedReply' = [MappedReply EXCEPT ![r] = Failed]
    BY <1>2, AnswersAssumption DEF IInv, TypeOK, Answer, MappedReply
  <2> QED BY <1>1, <2>1 DEF Promise!ANext, Promise!Fail
<1>3. CASE a \in rows /\ Key(r) # NoName /\ Collides(a, r)
  <2>1. a \in applied /\ Equivalent(a, r) /\ a # Raised
    BY <1>3, AnswersAssumption DEF IInv, TypeOK, AppliedHasRow, RecordsFollowPc, Equivalent
  <2>2. MappedReply' = [MappedReply EXCEPT ![r] = a]
    BY <2>1, AnswersAssumption DEF IInv, TypeOK, Answer, MappedReply
  <2> QED BY <1>1, <2>1, <2>2 DEF Promise!ANext, Promise!Replay
<1> QED BY <1>2, <1>3

\* Every step of the code is a step of the promise or changes nothing in it.
LEMMA StepRefines ==
    IInv /\ [Next]_vars => [Promise!ANext]_<<applied, MappedReply>>
<1> SUFFICES ASSUME IInv, [Next]_vars
             PROVE  Promise!ANext \/ UNCHANGED <<applied, MappedReply>>
  OBVIOUS
<1>1. CASE UNCHANGED <<applied, reply>>
  BY <1>1 DEF MappedReply
<1>2. ASSUME NEW r \in Requests, LookupKey(r), ~UNCHANGED reply PROVE Promise!ANext
  BY <1>2, AnswerRefines DEF LookupKey, Collides
<1>3. ASSUME NEW r \in Requests, LookupIdentity(r), ~UNCHANGED reply PROVE Promise!ANext
  <2>1. Key(r) # NoName
    BY <1>3 DEF IInv, RecordsFollowPc, LookupIdentity
  <2> QED BY <1>3, <2>1, AnswerRefines DEF LookupIdentity, Collides
<1>4. ASSUME NEW r \in Requests, InsertCollides(r) PROVE Promise!ANext
  <2>1. Key(r) # NoName
    BY <1>4 DEF IInv, RecordsFollowPc, InsertCollides
  <2>2. CASE \E q \in rows : SameKey(q, r) /\ Answer(r, q)
    BY <1>4, <2>1, <2>2, AnswerRefines DEF InsertCollides, Collides
  <2>3. CASE Answer(r, Raised)
    BY <1>4, <2>3, AnswerRefines DEF InsertCollides
  <2> QED BY <1>4, <2>2, <2>3 DEF InsertCollides
<1>5. ASSUME NEW r \in Requests, Commit(r) PROVE Promise!ANext
  <2>1. MappedReply[r] = Unanswered
    BY <1>5, AnswersAssumption DEF Commit, IInv, AnsweredWhenDone, MappedReply
  <2>2. MappedReply' = [MappedReply EXCEPT ![r] = r]
    BY <1>5, AnswersAssumption DEF Commit, IInv, TypeOK, Answer, MappedReply
  <2>3. ASSUME NEW q \in applied, Equivalent(q, r) PROVE FALSE
    <3>1. q \in rows /\ r \in open /\ r \notin rows
      BY <1>5, <2>3 DEF Commit, IInv, TypeOK, RecordsFollowPc, AppliedHasRow, Equivalent
    <3> QED BY <2>3, <3>1 DEF IInv, IndexesUnique, Equivalent
  <2> QED BY <1>5, <2>1, <2>2, <2>3 DEF Commit, Promise!ANext, Promise!Apply
<1>6. ASSUME NEW r \in Requests, Abort(r) PROVE Promise!ANext
  BY <1>6, AnswerRefines DEF Abort
<1> QED BY <1>1, <1>2, <1>3, <1>4, <1>5, <1>6
        DEF Next, vars, BeginUnnamed, LookupKey, LookupIdentity, Insert

\* The idempotency layer implements the promise of AtMostOnce.
THEOREM Implements == Spec => ImplementsPromise
<1>1. Init => Promise!AInit
  BY AnswersAssumption DEF Init, Promise!AInit, MappedReply
<1>2. IInv /\ [Next]_vars => [Promise!ANext]_<<applied, MappedReply>>
  BY StepRefines
<1> QED BY <1>1, <1>2, IdempotencyInvariant, PTL DEF Spec, ImplementsPromise, Promise!ASpec

-----------------------------------------------------------------------------
(***************************************************************************)
(* Promising stock: Fulfillment.                                           *)
(***************************************************************************)
\* The types of what reserve keeps.
FTypes ==
    /\ supply \in [Locations -> Nat]
    /\ allocated \in [Lines -> Nat]
    /\ allocation \in [Reserves -> Nat]
    /\ req \in [Reserves -> [pc : {"line", "rows", "decide", "done"}, line : Lines,
                             quantity : Amounts, base : Nat, seen : Nat]]
    /\ held \in [Reserves -> SUBSET Locations]
    /\ shrunk \in BOOLEAN

\* A request holds rows of its selection only, all of them when it decides and none
\* before or after; no row and no line has two holders; the allocation of a
\* request is committed when it ends, and its line is then still as it read it.
Locks ==
    /\ \A r \in Reserves :
          /\ held[r] \subseteq Selected(r)
          /\ req[r].pc = "decide" => held[r] = Selected(r)
          /\ req[r].pc \in {"line", "done"} => held[r] = {}
          /\ req[r].pc # "done" => allocation[r] = 0
          /\ HoldsLine(r) => /\ req[r].base = allocated[req[r].line]
                             /\ req[r].base + req[r].quantity <= ordered[req[r].line]
    /\ \A r, q \in Reserves : r # q =>
          /\ held[r] \cap held[q] = {}
          /\ HoldsLine(r) /\ HoldsLine(q) => req[r].line # req[q].line

\* The requests that lock a row this one locks.
Rivals(r) == {q \in Reserves : Selected(q) \cap Selected(r) # {}}

\* What a deciding request has seen is at least what its rivals have been promised.
Views == \A r \in Reserves : req[r].pc = "decide" => Allocated(Rivals(r)) <= req[r].seen

\* The requests for the lines of a location, and for a line.
At(p) == {r \in Reserves : place[req[r].line] = p}
Of(l) == {r \in Reserves : req[r].line = l}

\* The inductive invariant: the last three conjuncts are what is claimed, the others
\* are what they need.
FIInv == FTypes /\ Locks /\ Views /\ LineConsistent /\ NoOverPromise /\ LocationCovered

-----------------------------------------------------------------------------
\* Any set of calls of reserve is finite.
LEMMA ReservesFinite == ASSUME NEW S \in SUBSET Reserves PROVE IsFiniteSet(S)
BY ReservesAssumption, FS_Subset

\* What a set of requests has been promised is a quantity.
LEMMA AllocatedType ==
    ASSUME FTypes, NEW S \in SUBSET Reserves
    PROVE  Allocated(S) \in Nat
<1>1. IsFiniteSet(S) /\ \A y \in S : allocation[y] \in Nat
  BY ReservesFinite DEF FTypes
<1> QED BY <1>1, NatSum DEF Allocated

\* What a set of locations holds is a quantity.
LEMMA SupplyType ==
    ASSUME FTypes, NEW S \in SUBSET Locations
    PROVE  Supply(S) \in Nat
<1>1. IsFiniteSet(S) /\ \A y \in S : supply[y] \in Nat
  BY LocationsAssumption, FS_Subset DEF FTypes
<1> QED BY <1>1, NatSum DEF Supply

\* A commit adds its quantity to every sum it belongs to.
LEMMA Promised ==
    ASSUME NEW f, \A y \in Reserves : f[y] \in Nat, NEW r \in Reserves, f[r] = 0, NEW n \in Nat,
           NEW g, \A y \in Reserves : g[y] = IF y = r THEN n ELSE f[y], NEW S \in SUBSET Reserves
    PROVE  SumFunctionOnSet(g, S) = SumFunctionOnSet(f, S) + (IF r \in S THEN n ELSE 0)
<1>1. /\ IsFiniteSet(S) /\ \A y \in S : f[y] \in Int /\ g[y] \in Int
      /\ \A y \in S \ {r} : g[y] = f[y]
      /\ g[r] = n
  BY ReservesFinite
<1>2. SumFunctionOnSet(f, S) \in Int
  BY <1>1, IntSum
<1>3. CASE r \in S
  <2>1. SumFunctionOnSet(g, S) = SumFunctionOnSet(f, S) - f[r] + g[r]
    <3>1. /\ \A y \in S : f[y] \in Int /\ g[y] \in Int
          /\ \A y \in S \ {r} : g[y] = f[y]
      BY <1>1
    <3> QED BY <1>1, <1>3, <3>1, SumChanges
  <2> QED BY <1>1, <1>2, <1>3, <2>1
<1>4. CASE r \notin S
  <2>1. \A y \in S : f[y] \in Int /\ g[y] = f[y]
    BY <1>1, <1>4
  <2>2. SumFunctionOnSet(g, S) = SumFunctionOnSet(f, S)
    BY <1>1, <2>1, SumSame
  <2> QED BY <1>2, <1>4, <2>2
<1> QED BY <1>3, <1>4

\* Requests never change their line; so neither what they select.
LEMMA SameSelection ==
    ASSUME FTypes, \A r \in Reserves : req'[r].line = req[r].line
    PROVE  /\ \A r \in Reserves : Selected(r)' = Selected(r) /\ Rivals(r)' = Rivals(r)
           /\ \A p : At(p)' = At(p)
           /\ \A l : Of(l)' = Of(l)
BY DEF Selected, Rivals, At, Of

-----------------------------------------------------------------------------
\* Before the first call nothing is locked, read or promised.
LEMMA FInitEstablishes == FInit => FIInv
<1> SUFFICES ASSUME FInit PROVE FIInv
  OBVIOUS
<1>1. PICK ln \in [Reserves -> Lines], n \in [Reserves -> Amounts] :
          req = [r \in Reserves |-> [pc |-> "line", line |-> ln[r], quantity |-> n[r],
                                     base |-> 0, seen |-> 0]]
  BY DEF FInit
<1>2. FTypes
  <2>1. supply \in [Locations -> Nat]
    BY SupplyAssumption DEF FInit
  <2>2. req \in [Reserves -> [pc : {"line", "rows", "decide", "done"}, line : Lines,
                             quantity : Amounts, base : Nat, seen : Nat]]
    BY <1>1
  <2> QED BY <2>1, <2>2 DEF FInit, FTypes
<1>3. Locks
  BY <1>1 DEF FInit, Locks, HoldsLine
<1>4. Views
  BY <1>1 DEF Views
<1>5. \A S \in SUBSET Reserves : Allocated(S) = 0
  <2> SUFFICES ASSUME NEW S \in SUBSET Reserves PROVE Allocated(S) = 0
    OBVIOUS
  <2> DEFINE V == {0}
  <2>1. 0 \in V /\ \A a, b \in V : a + b \in V
    OBVIOUS
  <2>2. \A y \in S : allocation[y] \in V
    BY DEF FInit
  <2> HIDE DEF V
  <2>3. Allocated(S) \in V
    BY <2>1, <2>2, ReservesFinite, SumType DEF Allocated
  <2> QED BY <2>3 DEF V
<1>6. LineConsistent
  <2>1. \A l \in Lines : Allocated({r \in Reserves : req[r].line = l}) = 0
    BY <1>5
  <2>2. \A l \in Lines : allocated[l] = 0 /\ ordered[l] \in Nat
    BY LinesAssumption DEF FInit
  <2> QED BY <2>1, <2>2 DEF LineConsistent
<1>7. NoOverPromise
  BY <1>2, <1>5, SupplyType DEF NoOverPromise
<1>8. LocationCovered
  <2>1. \A p \in Locations : Allocated({r \in Reserves : place[req[r].line] = p}) = 0
    BY <1>5
  <2> QED BY <1>2, <2>1 DEF LocationCovered, FTypes
<1> QED BY <1>2, <1>3, <1>4, <1>6, <1>7, <1>8 DEF FIInv

\* Steps that promise nothing and leave positions and lines alone.
LEMMA PromisesSame ==
    ASSUME FIInv, UNCHANGED <<supply, allocated, allocation, shrunk>>,
           \A r \in Reserves : req'[r].line = req[r].line
    PROVE  LineConsistent' /\ NoOverPromise' /\ LocationCovered'
BY SameSelection DEF FIInv, LineConsistent, NoOverPromise, LocationCovered, Allocated, Supply, At, Of

\* What deciding requests have seen stays good while nothing is committed.
LEMMA ViewsSame ==
    ASSUME FIInv, allocation' = allocation, \A r \in Reserves : req'[r].line = req[r].line,
           \A r \in Reserves : req'[r].pc = "decide"
                                  => req[r].pc = "decide" /\ req'[r].seen = req[r].seen
    PROVE  Views'
BY SameSelection DEF FIInv, Views, Allocated

\* The end of a request that commits nothing.
LEMMA EndsPreserves ==
    ASSUME FIInv, NEW r \in Reserves, Ends(r), UNCHANGED <<supply, allocated, allocation, shrunk>>
    PROVE  FIInv'
<1>1. \A q \in Reserves : req'[q].line = req[q].line
  BY DEF FIInv, FTypes, Ends
<1>2. FTypes'
  BY DEF FIInv, FTypes, Ends
<1>3. Locks'
  BY <1>1, SameSelection DEF FIInv, FTypes, Locks, Ends, HoldsLine
<1>4. Views'
  <2>1. \A q \in Reserves : req'[q].pc = "decide" => req[q].pc = "decide" /\ req'[q].seen = req[q].seen
    BY DEF FIInv, FTypes, Ends
  <2> QED BY <1>1, <2>1, ViewsSame
<1> QED BY <1>1, <1>2, <1>3, <1>4, PromisesSame DEF FIInv

\* The line lock keeps what the request has read of its line current.
LEMMA LockLinePreserves ==
    ASSUME FIInv, NEW r \in Reserves, LockLine(r) PROVE FIInv'
<1>1. \A q \in Reserves : req'[q].line = req[q].line
  BY DEF FIInv, FTypes, LockLine
<1>2. FTypes'
  BY DEF FIInv, FTypes, LockLine
<1>3. Locks'
  <2>1. req[r].base \in Nat /\ req[r].quantity \in Nat /\ ordered[req[r].line] \in Nat
        /\ allocated[req[r].line] \in Nat
    BY LinesAssumption, AmountsAssumption DEF FIInv, FTypes
  <2>2. allocated[req[r].line] + req[r].quantity <= ordered[req[r].line]
    BY <2>1 DEF LockLine
  <2> QED BY <1>1, <2>2, SameSelection DEF FIInv, FTypes, Locks, LockLine, HoldsLine
<1>4. Views'
  <2>1. \A q \in Reserves : req'[q].pc = "decide" => req[q].pc = "decide" /\ req'[q].seen = req[q].seen
    BY DEF FIInv, FTypes, LockLine
  <2> QED BY <1>1, <2>1, ViewsSame DEF LockLine
<1> QED BY <1>1, <1>2, <1>3, <1>4, PromisesSame DEF FIInv, LockLine

\* A row is only taken from nobody.
LEMMA LockRowPreserves ==
    ASSUME FIInv, NEW r \in Reserves, LockRow(r) PROVE FIInv'
<1>1. req' = req /\ req[r].pc = "rows" /\ UNCHANGED <<supply, allocated, allocation, shrunk>>
  BY DEF LockRow
<1>2. PICK p \in Selected(r) : (\A q \in Reserves : p \notin held[q])
                               /\ held' = [held EXCEPT ![r] = @ \cup {p}]
  BY DEF LockRow
<1>3. p \in Locations
  BY LinesAssumption DEF FIInv, FTypes, Selected
<1>4. FTypes'
  BY <1>1, <1>2, <1>3 DEF FIInv, FTypes
<1>5. Locks'
  <2>1. \A q \in Reserves : Selected(q)' = Selected(q)
    BY <1>1 DEF Selected
  <2>2. \A q \in Reserves : held'[q] = IF q = r THEN held[r] \cup {p} ELSE held[q]
    BY <1>2 DEF FIInv, FTypes
  <2> QED BY <1>1, <1>2, <2>1, <2>2 DEF FIInv, Locks, HoldsLine
<1>6. Views' /\ LineConsistent' /\ NoOverPromise' /\ LocationCovered'
  BY <1>1, PromisesSame, ViewsSame
<1> QED BY <1>4, <1>5, <1>6 DEF FIInv

\* All allocations are at least those of the rivals.
LEMMA ReadAllocationsPreserves ==
    ASSUME FIInv, NEW r \in Reserves, ReadAllocations(r) PROVE FIInv'
<1>1. /\ req' = [req EXCEPT ![r].pc = "decide", ![r].seen = Allocated(Reserves)]
      /\ req[r].pc = "rows" /\ held[r] = Selected(r)
      /\ UNCHANGED <<supply, allocated, allocation, held, shrunk>>
  BY DEF ReadAllocations
<1>2. Allocated(Reserves) \in Nat
  BY AllocatedType DEF FIInv
<1>3. \A q \in Reserves : req'[q].line = req[q].line
  BY <1>1 DEF FIInv, FTypes
<1>4. FTypes'
  BY <1>1, <1>2 DEF FIInv, FTypes
<1>5. Locks'
  BY <1>1, <1>3, SameSelection DEF FIInv, FTypes, Locks, HoldsLine
<1>6. Views'
  <2> SUFFICES ASSUME NEW q \in Reserves, req'[q].pc = "decide"
               PROVE  Allocated(Rivals(q))' <= req'[q].seen
    BY DEF Views
  <2>1. Allocated(Rivals(q))' = Allocated(Rivals(q))
    BY <1>1, <1>3, SameSelection DEF FIInv, Allocated
  <2>2. CASE q = r
    <3>1. Allocated(Rivals(r)) <= Allocated(Reserves)
      <4>1. Rivals(r) \in SUBSET Reserves /\ \A y \in Reserves : allocation[y] \in Nat
        BY DEF Rivals, FIInv, FTypes
      <4> QED BY <4>1, ReservesAssumption, SumOfFewer DEF Allocated
    <3>2. req'[r].seen = Allocated(Reserves)
      BY <1>1 DEF FIInv, FTypes
    <3> QED BY <2>1, <2>2, <3>1, <3>2
  <2>3. CASE q # r
    <3>1. req'[q] = req[q]
      BY <1>1, <2>3 DEF FIInv, FTypes
    <3> QED BY <2>1, <3>1 DEF FIInv, Views
  <2> QED BY <2>2, <2>3
<1> QED BY <1>1, <1>3, <1>4, <1>5, <1>6, PromisesSame DEF FIInv

-----------------------------------------------------------------------------
\* What a commit leaves to be shown, in numbers.
LEMMA CommitReservePreserves ==
    ASSUME FIInv, NEW r \in Reserves, CommitReserve(r) PROVE FIInv'
<1> DEFINE n == req[r].quantity
           l == req[r].line
           Sum(S) == SumFunctionOnSet(allocation', S)
<1>1. /\ req[r].pc = "decide" /\ n <= Supply(Selected(r)) - req[r].seen
      /\ allocation' = [allocation EXCEPT ![r] = n]
      /\ allocated' = [allocated EXCEPT ![l] = req[r].base + n]
      /\ Ends(r) /\ UNCHANGED <<supply, shrunk>>
  BY DEF CommitReserve, Promisable
<1>2. n \in Nat \ {0} /\ l \in Lines /\ allocation \in [Reserves -> Nat] /\ allocation[r] = 0
      /\ req[r].base \in Nat /\ req[r].seen \in Nat
  BY <1>1, AmountsAssumption DEF FIInv, FTypes, Locks
<1>3. \A q \in Reserves : req'[q].line = req[q].line
  BY <1>1 DEF FIInv, FTypes, Ends
<1>4. FTypes'
  <2>1. allocated' \in [Lines -> Nat] /\ allocation' \in [Reserves -> Nat]
    <3>1. req[r].base + n \in Nat
      BY <1>2
    <3> HIDE DEF n
    <3> QED BY <1>1, <1>2, <3>1 DEF FIInv, FTypes
  <2>2. req' \in [Reserves -> [pc : {"line", "rows", "decide", "done"}, line : Lines,
                             quantity : Amounts, base : Nat, seen : Nat]]
        /\ held' \in [Reserves -> SUBSET Locations]
    BY <1>1 DEF FIInv, FTypes, Ends
  <2> QED BY <1>1, <2>1, <2>2 DEF FIInv, FTypes
<1>5. \A S \in SUBSET Reserves : Sum(S) = Allocated(S) + (IF r \in S THEN n ELSE 0)
  <2> HIDE DEF n
  <2>1. /\ n \in Nat /\ allocation[r] = 0 /\ \A y \in Reserves : allocation[y] \in Nat
        /\ \A y \in Reserves : allocation'[y] = IF y = r THEN n ELSE allocation[y]
    BY <1>1, <1>2
  <2> QED BY <2>1, Promised DEF Allocated
<1>6. \A q \in Reserves : q # r /\ HoldsLine(q) => req[q].line # l
  BY <1>1 DEF FIInv, Locks, HoldsLine
<1>7. Locks'
  <2>1. req' = [req EXCEPT ![r].pc = "done", ![r].base = 0, ![r].seen = 0]
        /\ held' = [held EXCEPT ![r] = {}]
    BY <1>1 DEF Ends
  <2>2. \A q \in Reserves : Selected(q)' = Selected(q)
    BY <1>3, SameSelection DEF FIInv
  <2>3. \A q \in Reserves \ {r} : /\ req'[q] = req[q] /\ held'[q] = held[q]
                                  /\ allocation'[q] = allocation[q]
                                  /\ HoldsLine(q) => allocated'[req[q].line] = allocated[req[q].line]
                                  /\ HoldsLine(q)' = HoldsLine(q)
    BY <1>1, <1>6, <2>1 DEF FIInv, FTypes, HoldsLine
  <2>4. req'[r].pc = "done" /\ held'[r] = {} /\ ~HoldsLine(r)'
    BY <2>1 DEF FIInv, FTypes, HoldsLine
  <2>5. ASSUME NEW q \in Reserves
        PROVE /\ held'[q] \subseteq Selected(q)'
              /\ req'[q].pc = "decide" => held'[q] = Selected(q)'
              /\ req'[q].pc \in {"line", "done"} => held'[q] = {}
              /\ req'[q].pc # "done" => allocation'[q] = 0
              /\ HoldsLine(q)' => /\ req'[q].base = allocated'[req'[q].line]
                                  /\ req'[q].base + req'[q].quantity <= ordered[req'[q].line]
    <3>1. CASE q = r
      BY <2>4, <3>1
    <3>2. CASE q # r
      BY <2>2, <2>3, <3>2 DEF FIInv, Locks
    <3> QED BY <3>1, <3>2
  <2>6. ASSUME NEW q \in Reserves, NEW o \in Reserves, q # o
        PROVE  /\ held'[q] \cap held'[o] = {}
               /\ HoldsLine(q)' /\ HoldsLine(o)' => req'[q].line # req'[o].line
    BY <2>3, <2>4, <2>6 DEF FIInv, Locks
  <2> QED BY <2>5, <2>6 DEF Locks
<1>8. Views'
  <2> SUFFICES ASSUME NEW q \in Reserves, req'[q].pc = "decide"
               PROVE  Allocated(Rivals(q))' <= req'[q].seen
    BY DEF Views
  <2>1. q # r /\ req'[q] = req[q]
    BY <1>1 DEF Ends, FIInv, FTypes
  <2>2. r \notin Rivals(q)
    BY <1>1, <2>1 DEF FIInv, Locks, Rivals
  <2>3. Rivals(q)' = Rivals(q) /\ Rivals(q) \in SUBSET Reserves
    BY <1>3, SameSelection DEF FIInv, Rivals
  <2>4. Allocated(Rivals(q))' = Sum(Rivals(q))
    BY <2>3 DEF Allocated
  <2>5. Allocated(Rivals(q)) \in Nat
    BY <2>3, AllocatedType DEF FIInv
  <2> HIDE DEF Sum
  <2>6. Allocated(Rivals(q))' = Allocated(Rivals(q))
    BY <1>5, <2>2, <2>3, <2>4, <2>5
  <2> QED BY <2>1, <2>6 DEF FIInv, Views
<1>9. LineConsistent'
  <2> SUFFICES ASSUME NEW k \in Lines
               PROVE  allocated'[k] = Allocated(Of(k))' /\ allocated'[k] <= ordered[k]
    BY DEF LineConsistent, Of
  <2>1. Of(k)' = Of(k) /\ Of(k) \in SUBSET Reserves
    BY <1>3, SameSelection DEF FIInv, Of
  <2>2. Allocated(Of(k))' = Sum(Of(k)) /\ (r \in Of(k) <=> k = l)
    BY <2>1 DEF Allocated, Of
  <2>3. allocated[k] = Allocated(Of(k)) /\ allocated[k] <= ordered[k] /\ allocated[k] \in Nat
    BY DEF FIInv, FTypes, LineConsistent, Of
  <2>4. req[r].base = allocated[l] /\ req[r].base + n <= ordered[l]
    BY <1>1 DEF FIInv, Locks, HoldsLine
  <2>5. allocated'[k] = IF k = l THEN req[r].base + n ELSE allocated[k]
    BY <1>1 DEF FIInv, FTypes
  <2> HIDE DEF Sum
  <2> QED BY <1>2, <1>5, <2>1, <2>2, <2>3, <2>4, <2>5
<1>10. ASSUME ~shrunk PROVE NoOverPromise' /\ LocationCovered'
  <2> DEFINE p == place[l]
             elsewhere == {q \in Reserves : place[req[q].line] \in Locations \ {p}}
  <2>1. /\ \A S \in SUBSET Reserves : Allocated(S) \in Nat
        /\ \A S \in SUBSET Locations : Supply(S) \in Nat
    BY AllocatedType, SupplyType DEF FIInv
  <2>2. Allocated(Rivals(r)) <= req[r].seen
    BY <1>1 DEF FIInv, Views
  <2>3. /\ \A k \in Locations : Allocated(At(k)) <= supply[k] /\ supply[k] \in Nat
        /\ Allocated(Reserves) <= Supply(Locations)
    BY <1>10 DEF FIInv, FTypes, LocationCovered, NoOverPromise, At
  <2>4. \A k : At(k)' = At(k) /\ At(k) \in SUBSET Reserves /\ (r \in At(k) <=> k = p)
    BY <1>3, SameSelection DEF FIInv, At
  <2>5. \A k \in Locations : Allocated(At(k))' = Allocated(At(k)) + (IF k = p THEN n ELSE 0)
    <3>1. \A k \in Locations : Allocated(At(k))' = Sum(At(k))
      BY <2>4 DEF Allocated
    <3> HIDE DEF Sum
    <3> QED BY <1>5, <2>4, <3>1
  <2>6. Allocated(Reserves)' = Allocated(Reserves) + n
    <3>1. Allocated(Reserves)' = Sum(Reserves)
      BY DEF Allocated
    <3> HIDE DEF Sum
    <3> QED BY <1>5, <3>1
  <2>7. p \in Locations \cup {NoLocation} /\ \A q \in Reserves : place[req[q].line] \in Locations \cup {NoLocation}
    BY <1>2, LinesAssumption DEF FIInv, FTypes
  <2>8. CASE p = NoLocation
    <3>1. Selected(r) = Locations
      BY <2>8 DEF Selected
    <3>2. Locations # {}
      <4>1. Supply({}) = 0
        BY SumOfNothing DEF Supply
      <4> QED BY <1>1, <1>2, <3>1, <4>1
    <3>3. Rivals(r) = Reserves
      BY <2>7, <3>1, <3>2 DEF Rivals, Selected
    <3>4. Allocated(Reserves) + n <= Supply(Locations)
      BY <1>1, <1>2, <2>1, <2>2, <3>1, <3>3
    <3>5. \A k \in Locations : k # p
      BY <2>8, LocationsAssumption
    <3> HIDE DEF n, p
    <3>6. NoOverPromise'
      BY <1>1, <2>6, <3>4 DEF NoOverPromise, Supply
    <3>7. \A k \in Locations : Allocated(At(k))' <= supply'[k]
      BY <1>1, <2>1, <2>3, <2>4, <2>5, <3>5
    <3>8. LocationCovered'
      BY <3>7 DEF LocationCovered, At
    <3> QED BY <3>6, <3>8
  <2>9. CASE p \in Locations
    <3>1. Selected(r) = {p} /\ Supply({p}) = supply[p] /\ supply[p] \in Nat
      <4>1. Selected(r) = {p}
        BY <2>9, LocationsAssumption DEF Selected
      <4>2. supply[p] \in Int
        BY <2>3, <2>9
      <4> QED BY <2>3, <2>9, <4>1, <4>2, SumOfOne DEF Supply
    <3>2. Rivals(r) = At(p) \cup At(NoLocation) /\ At(p) \cap At(NoLocation) = {}
      BY <2>7, <2>9, <3>1, LocationsAssumption DEF Rivals, At, Selected
    <3>3. /\ elsewhere \cap Rivals(r) = {} /\ elsewhere \cup Rivals(r) = Reserves
          /\ elsewhere \in SUBSET Reserves /\ Rivals(r) \in SUBSET Reserves
      BY <2>7, <2>9, <3>2, LocationsAssumption DEF At
    <3>4. /\ \A S \in SUBSET Reserves : IsFiniteSet(S) /\ \A y \in S : allocation[y] \in Int
          /\ At(p) \in SUBSET Reserves /\ At(NoLocation) \in SUBSET Reserves
      BY <1>2, ReservesFinite DEF At
    <3>5. Allocated(Rivals(r)) = Allocated(At(p)) + Allocated(At(NoLocation))
      <4>1. SumFunctionOnSet(allocation, At(p) \cup At(NoLocation))
              = SumFunctionOnSet(allocation, At(p)) + SumFunctionOnSet(allocation, At(NoLocation))
        BY <3>2, <3>4, SumOfTwo
      <4> QED BY <3>2, <4>1 DEF Allocated
    <3>6. Allocated(Reserves) = Allocated(elsewhere) + Allocated(Rivals(r))
      <4>1. SumFunctionOnSet(allocation, elsewhere \cup Rivals(r))
              = SumFunctionOnSet(allocation, elsewhere) + SumFunctionOnSet(allocation, Rivals(r))
        <5> HIDE DEF elsewhere
        <5> QED BY <3>3, <3>4, SumOfTwo
      <4> QED BY <3>3, <4>1 DEF Allocated
    <3>7. Allocated(elsewhere) <= Supply(Locations \ {p})
      <4> DEFINE K == Locations \ {p}
                 h == [q \in Reserves |-> place[req[q].line]]
      <4>1. IsFiniteSet(K) /\ \A k \in K : supply[k] \in Int
        BY <2>3, LocationsAssumption, FS_Subset
      <4>2. \A k \in K : {q \in Reserves : h[q] = k} = At(k)
        BY DEF At
      <4>3. \A k \in K : SumFunctionOnSet(allocation, {q \in Reserves : h[q] = k}) <= supply[k]
        BY <2>3, <4>2 DEF Allocated
      <4>4. elsewhere = {q \in Reserves : h[q] \in K}
        OBVIOUS
      <4> HIDE DEF K, h, elsewhere
      <4>5. SumFunctionOnSet(allocation, {q \in Reserves : h[q] \in K}) <= SumFunctionOnSet(supply, K)
        BY <3>4, <4>1, <4>3, SumByClass
      <4>6. Allocated(elsewhere) <= Supply(K)
        BY <4>4, <4>5 DEF Allocated, Supply
      <4> QED BY <4>6 DEF K
    <3>8. Supply(Locations) = supply[p] + Supply(Locations \ {p})
      <4>1. \A y \in Locations : supply[y] \in Int
        BY <2>3
      <4> HIDE DEF p
      <4> QED BY <2>9, <4>1, LocationsAssumption, SumRemoves DEF Supply
    <3>9. n + Allocated(At(p)) + Allocated(At(NoLocation)) <= supply[p]
      <4>1. n <= supply[p] - req[r].seen
        BY <1>1, <3>1
      <4>2. Allocated(At(p)) + Allocated(At(NoLocation)) <= req[r].seen
        BY <2>2, <3>5
      <4>3. Allocated(At(p)) \in Nat /\ Allocated(At(NoLocation)) \in Nat
        BY <2>1, <3>4
      <4> HIDE DEF n, p
      <4> QED BY <1>2, <3>1, <4>1, <4>2, <4>3
    <3>10. /\ Allocated(At(p)) \in Nat /\ Allocated(At(NoLocation)) \in Nat
           /\ Allocated(elsewhere) \in Nat /\ Supply(Locations \ {p}) \in Nat
      <4>1. Locations \ {p} \in SUBSET Locations
        OBVIOUS
      <4> HIDE DEF elsewhere
      <4> QED BY <2>1, <3>3, <3>4, <4>1
    <3> HIDE DEF n, p, elsewhere
    <3>11. Allocated(Reserves)' <= Supply(Locations)
      BY <1>2, <2>6, <3>1, <3>5, <3>6, <3>7, <3>8, <3>9, <3>10
    <3>12. NoOverPromise'
      BY <1>1, <3>11 DEF NoOverPromise, Supply
    <3>13. \A k \in Locations : Allocated(At(k))' <= supply[k]
      BY <1>2, <2>1, <2>3, <2>4, <2>5, <3>9, <3>10
    <3>14. LocationCovered'
      BY <1>1, <3>13 DEF LocationCovered, At
    <3> QED BY <3>12, <3>14
  <2> QED BY <2>7, <2>8, <2>9
<1>11. NoOverPromise' /\ LocationCovered'
  BY <1>1, <1>10 DEF NoOverPromise, LocationCovered
<1> QED BY <1>4, <1>7, <1>8, <1>9, <1>11 DEF FIInv

\* The feed raises a position, or is known to have lowered one.
LEMMA FeedPreserves ==
    ASSUME FIInv, NEW p \in Locations, Feed(p) PROVE FIInv'
<1>1. PICK n \in 0..MaxSupply : supply' = [supply EXCEPT ![p] = n] /\ shrunk' = (shrunk \/ n < supply[p])
  BY DEF Feed
<1>2. UNCHANGED <<allocated, allocation, req, held>>
  BY DEF Feed
<1>3. FTypes' /\ n \in Nat
  BY <1>1, <1>2, SupplyAssumption DEF FIInv, FTypes
<1>4. Locks' /\ Views' /\ LineConsistent'
  <2>1. Locks'
    BY <1>2 DEF FIInv, Locks, HoldsLine, Selected
  <2>2. Views'
    BY <1>2 DEF FIInv, Views, Rivals, Selected, Allocated
  <2>3. LineConsistent'
    BY <1>2 DEF FIInv, LineConsistent, Allocated
  <2> QED BY <2>1, <2>2, <2>3
<1>5. ASSUME ~shrunk' PROVE \A k \in Locations : supply[k] \in Nat /\ supply'[k] \in Nat /\ supply[k] <= supply'[k]
  <2> TAKE k \in Locations
  <2>1. supply[k] \in Nat /\ supply'[k] = IF k = p THEN n ELSE supply[k]
    BY <1>1 DEF FIInv, FTypes
  <2>2. ~(n < supply[p])
    BY <1>1, <1>5
  <2> QED BY <1>3, <2>1, <2>2
<1>6. LocationCovered'
  <2> SUFFICES ASSUME ~shrunk', NEW k \in Locations PROVE Allocated(At(k))' <= supply'[k]
    BY DEF LocationCovered, At
  <2>1. Allocated(At(k))' = Allocated(At(k)) /\ Allocated(At(k)) <= supply[k]
    BY <1>1, <1>2 DEF Allocated, At, FIInv, LocationCovered
  <2>2. Allocated(At(k)) \in Nat
    BY AllocatedType DEF FIInv, At
  <2> QED BY <1>5, <2>1, <2>2
<1>7. NoOverPromise'
  <2> SUFFICES ASSUME ~shrunk' PROVE Allocated(Reserves)' <= Supply(Locations)'
    BY DEF NoOverPromise
  <2>1. Allocated(Reserves)' = Allocated(Reserves) /\ Allocated(Reserves) <= Supply(Locations)
    BY <1>1, <1>2 DEF Allocated, FIInv, NoOverPromise
  <2>2. Supply(Locations) <= Supply(Locations)'
    BY <1>5, LocationsAssumption, SumOfSmaller DEF Supply
  <2>3. Allocated(Reserves) \in Nat /\ Supply(Locations) \in Nat /\ Supply(Locations)' \in Nat
    <3>1. \A k \in Locations : supply'[k] \in Nat
      BY <1>3 DEF FTypes
    <3>2. SumFunctionOnSet(supply', Locations) \in Nat
      BY <3>1, LocationsAssumption, NatSum
    <3> QED BY <3>2, AllocatedType, SupplyType DEF FIInv, Supply
  <2> QED BY <2>1, <2>2, <2>3
<1> QED BY <1>3, <1>4, <1>6, <1>7 DEF FIInv

\* Every step of reserve and of the feed keeps the invariant.
LEMMA FNextPreserves == FIInv /\ [FNext]_fvars => FIInv'
<1> SUFFICES ASSUME FIInv, [FNext]_fvars PROVE FIInv'
  OBVIOUS
<1>1. ASSUME NEW r \in Reserves, FStep(r) \/ AbortReserve(r) PROVE FIInv'
  <2>1. CASE RefuseOverAllocation(r) \/ RefuseInsufficient(r) \/ AbortReserve(r)
    BY <2>1, EndsPreserves DEF RefuseOverAllocation, RefuseInsufficient, AbortReserve
  <2> QED BY <1>1, <2>1, LockLinePreserves, LockRowPreserves, ReadAllocationsPreserves,
             CommitReservePreserves DEF FStep
<1>2. CASE UNCHANGED fvars
  <2>1. UNCHANGED <<supply, allocated, allocation, req, held, shrunk>>
    BY <1>2 DEF fvars
  <2>2. FTypes' /\ Locks'
    BY <2>1 DEF FIInv, FTypes, Locks, HoldsLine, Selected
  <2>3. Views'
    BY <2>1 DEF FIInv, Views, Rivals, Selected, Allocated
  <2>4. LineConsistent' /\ NoOverPromise' /\ LocationCovered'
    BY <2>1 DEF FIInv, LineConsistent, NoOverPromise, LocationCovered, Allocated, Supply
  <2> QED BY <2>2, <2>3, <2>4 DEF FIInv
<1> QED BY <1>1, <1>2, FeedPreserves DEF FNext

\* The inductive invariant of reserve holds in every reachable state.
THEOREM FulfillmentInvariant == FSpec => []FIInv
<1> QED BY FInitEstablishes, FNextPreserves, PTL DEF FSpec

\* No more is promised than there is, unless the feed takes stock away, for any number
\* of concurrent calls of reserve, with a location or without (services.py, reserve).
THEOREM NothingOverPromised == FSpec => []NoOverPromise
<1>1. FIInv => NoOverPromise
  BY DEF FIInv
<1> QED BY <1>1, FulfillmentInvariant, PTL

\* No more is promised to the lines of a location than it has, although a line without
\* a location draws on all of them (services.py, reserve).
THEOREM LocationsCovered == FSpec => []LocationCovered
<1>1. FIInv => LocationCovered
  BY DEF FIInv
<1> QED BY <1>1, FulfillmentInvariant, PTL

\* The allocated quantity of every line is the sum of its allocations and within its
\* order: the row lock loses no update (services.py, reserve).
THEOREM LinesConsistent == FSpec => []LineConsistent
<1>1. FIInv => LineConsistent
  BY DEF FIInv
<1> QED BY <1>1, FulfillmentInvariant, PTL

-----------------------------------------------------------------------------
(***************************************************************************)
(* Purchase orders: Procurement.                                           *)
(***************************************************************************)
\* Rows of the order's lines, items of a document, fields of a call.
LineRows == [sku : Skus, quantity : Nat, received : Nat, accepted : Nat, rejected : Nat]
ItemRows == [line : Nat, quantity : Nat]
ItemLists == UNION {[1..n -> ItemRows] : n \in Nat}
CallFields == {"pc", "target", "status", "revision", "seen", "items", "invoiced", "doc"}

\* The items name lines of this set.
NamesLines(items, S) == \A i \in DOMAIN items : items[i].line \in S

\* The types of what the calls on an order keep.
PTypes ==
    /\ line \in Seq(LineRows)
    /\ DOMAIN order = {"status", "revision", "lines", "revisions"}
    /\ order.status \in Statuses /\ order.lines \subseteq DOMAIN line
    /\ DOMAIN receipt = Calls /\ DOMAIN document = Calls /\ DOMAIN call = Calls
    /\ \A c \in Calls : DOMAIN call[c] = CallFields /\ call[c].target \in Statuses
    /\ vouched \in BOOLEAN /\ overlap \in BOOLEAN
    /\ \A c \in Calls : \A l \in DOMAIN receipt[c] :
          l \in DOMAIN line /\ receipt[c][l].received \in Nat /\ receipt[c][l].accepted \in Nat
    /\ \A c \in Calls : document[c] # Empty =>
          document[c].items \in ItemLists /\ NamesLines(document[c].items, DOMAIN line)

\* A call files its receipt or document when it ends.
NothingFiledBefore ==
    \A c \in Calls : call[c].pc # "done" => receipt[c] = Empty /\ document[c] = Empty

\* What a receipt has read of the lines: all of the order's lines or, after a revision,
\* none of them; quantities never change.
ReceiptRead(c) ==
    LET s == call[c].seen  i == call[c].items IN
    /\ DOMAIN i # {} /\ DOMAIN i \subseteq DOMAIN s /\ DOMAIN s \subseteq DOMAIN line
    /\ DOMAIN s = order.lines \/ DOMAIN s \cap order.lines = {}
    /\ \A l \in DOMAIN s : s[l] \in LineRows /\ s[l].quantity = line[l].quantity
    /\ \A l \in DOMAIN i :
          /\ i[l].received \in Nat /\ i[l].accepted \in Nat
          /\ i[l].accepted <= i[l].received
          /\ s[l].received + i[l].received <= s[l].quantity
\* What a document has read of the receipts can only have grown since.
DocumentRead(c) ==
    LET s == call[c].seen  items == call[c].doc.items IN
    /\ items \in ItemLists /\ NamesLines(items, DOMAIN s)
    /\ DOMAIN s \subseteq DOMAIN line
    /\ \A l \in DOMAIN s : s[l] \in Nat /\ s[l] <= Accepted(l)
    /\ call[c].doc.status = "UNMATCHED"
InvoicesRead(c) ==
    call[c].invoiced # Empty =>
        NamesLines(call[c].doc.items, DOMAIN call[c].invoiced) /\ DOMAIN call[c].invoiced \subseteq DOMAIN line

\* Each of these holds from the read to the commit.
Reads ==
    \A c \in Calls :
        /\ call[c].pc = "received" => ReceiptRead(c)
        /\ call[c].pc \in {"receipts", "document"} => DocumentRead(c)
        /\ call[c].pc = "document" => InvoicesRead(c)

\* The inductive invariant: the last three conjuncts are what is claimed.
PIInv == PTypes /\ NothingFiledBefore /\ Reads /\ LinesExact /\ ClosedIsComplete /\ MatchedCovered

-----------------------------------------------------------------------------
\* Any set of calls is finite.
LEMMA CallsFinite == ASSUME NEW S \in SUBSET Calls PROVE IsFiniteSet(S)
BY CallsAssumption, FS_Subset

\* What the receipts say of a line are two quantities.
LEMMA ReceivedType ==
    ASSUME PTypes, NEW l PROVE Received(l) \in Nat /\ Accepted(l) \in Nat
<1> DEFINE S == {c \in Calls : l \in DOMAIN receipt[c]}
           f == [c \in Calls |-> receipt[c][l].received]
           g == [c \in Calls |-> receipt[c][l].accepted]
<1>1. IsFiniteSet(S) /\ \A c \in S : f[c] \in Nat /\ g[c] \in Nat
  BY CallsFinite DEF PTypes
<1>2. Received(l) = SumFunctionOnSet(f, S) /\ Accepted(l) = SumFunctionOnSet(g, S)
  BY DEF Received, Accepted
<1> HIDE DEF S, f, g
<1> QED BY <1>1, <1>2, NatSum

\* No receipt, nothing received.
LEMMA NothingReceived ==
    ASSUME NEW l, \A c \in Calls : l \notin DOMAIN receipt[c]
    PROVE  Received(l) = 0 /\ Accepted(l) = 0
<1>1. {c \in Calls : l \in DOMAIN receipt[c]} = {}
  OBVIOUS
<1> QED BY <1>1, SumOfNothing DEF Received, Accepted

\* What a receipt that is filed adds to the lines it names.
LEMMA ReceiptFiled ==
    ASSUME PTypes, NEW c \in Calls, receipt[c] = Empty, NEW items,
           receipt' = [receipt EXCEPT ![c] = items],
           \A l \in DOMAIN items : items[l].received \in Nat /\ items[l].accepted \in Nat
    PROVE  \A l : /\ l \in DOMAIN items => /\ Received(l)' = Received(l) + items[l].received
                                           /\ Accepted(l)' = Accepted(l) + items[l].accepted
                  /\ l \notin DOMAIN items => Received(l)' = Received(l) /\ Accepted(l)' = Accepted(l)
<1> TAKE l
<1> DEFINE S == {d \in Calls : l \in DOMAIN receipt[d]}
           f == [d \in Calls |-> receipt[d][l].received]
           g == [d \in Calls |-> receipt[d][l].accepted]
           S1 == {d \in Calls : l \in DOMAIN receipt'[d]}
           f1 == [d \in Calls |-> receipt'[d][l].received]
           g1 == [d \in Calls |-> receipt'[d][l].accepted]
<1>1. DOMAIN receipt[c] = {}
  BY DEF Empty
<1>2. DOMAIN receipt = Calls
  BY DEF PTypes
<1>3. \A d \in Calls : receipt'[d] = IF d = c THEN items ELSE receipt[d]
  BY <1>2
<1>4. IsFiniteSet(S) /\ c \notin S
  BY <1>1, CallsFinite
<1>5. \A d \in S : f[d] \in Int /\ g[d] \in Int /\ f1[d] = f[d] /\ g1[d] = g[d]
  BY <1>3, <1>4 DEF PTypes
<1>6. /\ Received(l) = SumFunctionOnSet(f, S) /\ Accepted(l) = SumFunctionOnSet(g, S)
      /\ Received(l)' = SumFunctionOnSet(f1, S1) /\ Accepted(l)' = SumFunctionOnSet(g1, S1)
  BY DEF Received, Accepted
<1>7. CASE l \in DOMAIN items
  <2>1. S1 = S \cup {c} /\ f1[c] = items[l].received /\ g1[c] = items[l].accepted
    BY <1>3, <1>7
  <2>2. f1[c] \in Int /\ g1[c] \in Int
    BY <1>7, <2>1
  <2> HIDE DEF S, f, g, S1, f1, g1
  <2>3. /\ SumFunctionOnSet(f1, S \cup {c}) = SumFunctionOnSet(f, S) + f1[c]
        /\ SumFunctionOnSet(g1, S \cup {c}) = SumFunctionOnSet(g, S) + g1[c]
    BY <1>4, <1>5, <2>2, SumGains
  <2> QED BY <1>6, <1>7, <2>1, <2>3
<1>8. CASE l \notin DOMAIN items
  <2>1. S1 = S
    BY <1>1, <1>3, <1>8
  <2> HIDE DEF S, f, g, S1, f1, g1
  <2>2. /\ SumFunctionOnSet(f1, S) = SumFunctionOnSet(f, S)
        /\ SumFunctionOnSet(g1, S) = SumFunctionOnSet(g, S)
    BY <1>4, <1>5, SumSame
  <2> QED BY <1>6, <1>8, <2>1, <2>2
<1> QED BY <1>7, <1>8

\* What a list of items bills of a line.
LEMMA BilledType ==
    ASSUME NEW items \in ItemLists, NEW l
    PROVE  /\ Billed(items, l) \in Nat
           /\ (\A i \in DOMAIN items : items[i].line # l) => Billed(items, l) = 0
           /\ \A i \in DOMAIN items :
                 /\ items[i].line = l
                 /\ \A j \in DOMAIN items : items[j].line = l => j = i
                 => Billed(items, l) = items[i].quantity
<1> DEFINE S == {i \in DOMAIN items : items[i].line = l}
           f == Pieces(items)
<1>1. IsFiniteSet(S) /\ \A i \in DOMAIN items : items[i].quantity \in Nat
  <2>1. PICK n \in Nat : items \in [1..n -> ItemRows]
    BY DEF ItemLists
  <2>2. IsFiniteSet(1..n) /\ S \in SUBSET (1..n)
    BY <2>1, FS_Interval
  <2> QED BY <2>1, <2>2, FS_Subset DEF ItemRows
<1>2. \A i \in DOMAIN items : f[i] = items[i].quantity
  BY DEF Pieces
<1>3. Billed(items, l) = SumFunctionOnSet(f, S)
  BY DEF Billed
<1>4. Billed(items, l) \in Nat
  <2>1. \A i \in S : f[i] \in Nat
    BY <1>1, <1>2
  <2> HIDE DEF S, f
  <2> QED BY <1>1, <1>3, <2>1, NatSum
<1>5. ASSUME \A i \in DOMAIN items : items[i].line # l PROVE Billed(items, l) = 0
  <2>1. S = {}
    BY <1>5
  <2> HIDE DEF S, f
  <2> QED BY <1>3, <2>1, SumOfNothing
<1>6. ASSUME NEW i \in DOMAIN items, items[i].line = l, \A j \in DOMAIN items : items[j].line = l => j = i
      PROVE  Billed(items, l) = items[i].quantity
  <2>1. S = {i} /\ f[i] = items[i].quantity /\ f[i] \in Int
    BY <1>1, <1>2, <1>6
  <2> HIDE DEF S, f
  <2> QED BY <1>3, <2>1, SumOfOne
<1> QED BY <1>4, <1>5, <1>6

\* Whoever filed a document is a call with a document.
LEMMA FiledAreCalls ==
    ASSUME NEW kinds PROVE Filed(kinds) \in SUBSET Calls /\ \A c \in Filed(kinds) : document[c] # Empty
BY DEF Filed

\* What a set of invoices bills of a line is a quantity, and more invoices bill more.
LEMMA InvoicedType ==
    ASSUME PTypes, NEW l, NEW S \in SUBSET Calls, \A c \in S : document[c] # Empty
    PROVE  /\ Invoiced(l, S) \in Nat
           /\ \A T \in SUBSET S : Invoiced(l, T) \in Nat /\ Invoiced(l, T) <= Invoiced(l, S)
           /\ (l \notin DOMAIN line => Invoiced(l, S) = 0)
<1> DEFINE f == [c \in Calls |-> Billed(document[c].items, l)]
<1>1. \A T \in SUBSET S : IsFiniteSet(T) /\ \A c \in T : f[c] \in Nat
  BY CallsFinite, BilledType DEF PTypes
<1>2. \A T : Invoiced(l, T) = SumFunctionOnSet(f, T)
  BY DEF Invoiced
<1>3. ASSUME l \notin DOMAIN line PROVE \A c \in S : f[c] = 0
  <2> TAKE c \in S
  <2>1. document[c].items \in ItemLists /\ \A i \in DOMAIN document[c].items : document[c].items[i].line # l
    BY <1>3 DEF PTypes, NamesLines
  <2> QED BY <2>1, BilledType
<1> HIDE DEF f
<1>4. ASSUME l \notin DOMAIN line PROVE Invoiced(l, S) = 0
  <2> DEFINE V == {0}
  <2>1. 0 \in V /\ (\A a, b \in V : a + b \in V) /\ \A c \in S : f[c] \in V
    BY <1>3, <1>4
  <2> HIDE DEF V
  <2>2. SumFunctionOnSet(f, S) \in V
    BY <1>1, <2>1, SumType
  <2> QED BY <1>2, <2>2 DEF V
<1>5. \A T \in SUBSET S : SumFunctionOnSet(f, T) \in Nat
  BY <1>1, NatSum
<1>6. \A T \in SUBSET S : SumFunctionOnSet(f, T) <= SumFunctionOnSet(f, S)
  BY <1>1, SumOfFewer
<1> QED BY <1>2, <1>4, <1>5, <1>6

-----------------------------------------------------------------------------
\* A line that is made has counted nothing.
LEMMA FreshRow ==
    ASSUME NEW sku \in Skus, NEW n \in Nat
    PROVE  /\ Fresh(sku, n) \in LineRows /\ Fresh(sku, n).quantity = n
           /\ Fresh(sku, n).received = 0 /\ Fresh(sku, n).accepted = 0 /\ Fresh(sku, n).rejected = 0
BY DEF Fresh, LineRows

\* A new order has no receipts and no documents.
LEMMA PInitEstablishes == PInit => PIInv
<1> SUFFICES ASSUME PInit PROVE PIInv
  OBVIOUS
<1>1. PICK n \in 1..MaxItems, skus \in [1..MaxItems -> Skus], q \in [1..MaxItems -> Quantities] :
          line = [l \in 1..n |-> Fresh(skus[l], q[l])]
  BY DEF PInit
<1>2. MaxItems \in Nat /\ Quantities \subseteq Nat
  BY BoundsAssumption DEF Quantities
<1>3. /\ line \in Seq(LineRows) /\ DOMAIN line = 1..n
      /\ \A l \in 1..n : /\ line[l].received = 0 /\ line[l].accepted = 0 /\ line[l].rejected = 0
                         /\ line[l].quantity \in Nat
  <2>0. n \in 1..MaxItems /\ 1..n \subseteq 1..MaxItems
    BY <1>2
  <2>1. \A l \in 1..n : skus[l] \in Skus /\ q[l] \in Nat
    <3> TAKE l \in 1..n
    <3>1. l \in 1..MaxItems
      BY <2>0
    <3> QED BY <1>2, <3>1
  <2>2. line \in [1..n -> LineRows]
    BY <1>1, <2>1, FreshRow
  <2> QED BY <1>1, <1>2, <2>1, <2>2, FreshRow
<1>4. /\ \A c \in Calls : receipt[c] = Empty /\ document[c] = Empty /\ call[c] = Idle
      /\ DOMAIN Empty = {}
  BY DEF PInit, Empty
<1>5. PTypes
  <2>1. /\ DOMAIN order = {"status", "revision", "lines", "revisions"}
        /\ order.status \in Statuses /\ order.lines = DOMAIN line
    BY DEF PInit, Statuses
  <2>2. DOMAIN receipt = Calls /\ DOMAIN document = Calls /\ DOMAIN call = Calls
    BY DEF PInit
  <2>3. DOMAIN Idle = CallFields /\ Idle.target \in Statuses
    BY DEF Idle, CallFields, Statuses
  <2>4. vouched \in BOOLEAN /\ overlap \in BOOLEAN
    BY DEF PInit
  <2> QED BY <1>3, <1>4, <2>1, <2>2, <2>3, <2>4 DEF PTypes
<1>6. NothingFiledBefore /\ Reads
  BY <1>4 DEF NothingFiledBefore, Reads, Idle
<1>7. \A l : Received(l) = 0 /\ Accepted(l) = 0
  BY <1>4, NothingReceived
<1>8. LinesExact
  BY <1>3, <1>7 DEF LinesExact
<1>9. ClosedIsComplete
  BY DEF PInit, ClosedIsComplete
<1>10. MatchedCovered
  <2>1. Matched = {}
    BY <1>4 DEF Matched, Filed
  <2>2. \A l : Invoiced(l, Matched) = 0
    BY <2>1, SumOfNothing DEF Invoiced
  <2> QED BY <1>7, <2>2 DEF MatchedCovered
<1> QED BY <1>5, <1>6, <1>8, <1>9, <1>10 DEF PIInv

-----------------------------------------------------------------------------
\* A call goes on to read, or ends having filed nothing: the tables are as they were.
LEMMA CallMoves ==
    ASSUME PIInv, NEW c \in Calls, UNCHANGED <<order, line, receipt, document, overlap, vouched>>,
           NEW r, call' = [call EXCEPT ![c] = r], DOMAIN r = CallFields, r.target \in Statuses,
           call[c].pc # "done",
           r.pc = "received" => ReceiptRead(c)',
           r.pc \in {"receipts", "document"} => DocumentRead(c)',
           r.pc = "document" => InvoicesRead(c)'
    PROVE  PIInv'
<1>1. call'[c] = r /\ \A d \in Calls \ {c} : call'[d] = call[d]
  BY DEF PIInv, PTypes
<1>2. PTypes'
  BY <1>1 DEF PIInv, PTypes
<1>3. NothingFiledBefore'
  BY <1>1 DEF PIInv, NothingFiledBefore
<1>4. \A l : Accepted(l)' = Accepted(l) /\ Received(l)' = Received(l)
  BY DEF Accepted, Received
<1>5. \A d \in Calls \ {c} : /\ ReceiptRead(d) => ReceiptRead(d)'
                             /\ DocumentRead(d) => DocumentRead(d)'
                             /\ InvoicesRead(d) => InvoicesRead(d)'
  BY <1>1, <1>4 DEF ReceiptRead, DocumentRead, InvoicesRead
<1>6. Reads'
  BY <1>1, <1>5 DEF PIInv, Reads
<1>7. LinesExact' /\ ClosedIsComplete'
  BY <1>4 DEF PIInv, LinesExact, ClosedIsComplete
<1>8. MatchedCovered'
  BY <1>4 DEF PIInv, MatchedCovered, Matched, Filed, NamesOnce, Invoiced
<1> QED BY <1>2, <1>3, <1>6, <1>7, <1>8 DEF PIInv

\* A call that has ended has the fields of one that has not begun.
LEMMA IdleFields ==
    /\ DOMAIN Idle = CallFields /\ [Idle EXCEPT !.pc = "done"].pc = "done"
    /\ DOMAIN [Idle EXCEPT !.pc = "done"] = CallFields
    /\ [Idle EXCEPT !.pc = "done"].target \in Statuses
BY DEF Idle, CallFields, Statuses

\* A call that is rolled back has changed nothing but itself.
LEMMA AbortCallPreserves ==
    ASSUME PIInv, NEW c \in Calls, AbortCall(c) PROVE PIInv'
<1>1. call[c].pc # "done"
  BY DEF AbortCall
<1> QED BY <1>1, IdleFields, CallMoves DEF AbortCall, Done, Goes

\* A transition reads the status.
LEMMA BeginTransitionPreserves ==
    ASSUME PIInv, NEW c \in Calls, BeginTransition(c) PROVE PIInv'
<1>1. PICK t \in Statuses : call' = [call EXCEPT ![c] = [Idle EXCEPT !.pc = "transition", !.target = t]]
  BY DEF BeginTransition, Goes, PIInv, PTypes, allowed, Statuses
<1> DEFINE r == [Idle EXCEPT !.pc = "transition", !.target = t]
<1>2. r.pc = "transition" /\ DOMAIN r = CallFields /\ r.target \in Statuses
  BY DEF Idle, CallFields
<1>3. call[c].pc # "done" /\ UNCHANGED <<order, line, receipt, document, overlap, vouched>>
  BY DEF BeginTransition, Begins
<1> HIDE DEF r
<1> QED BY <1>1, <1>2, <1>3, CallMoves DEF r

\* A receipt reads the status.
LEMMA BeginReceiptPreserves ==
    ASSUME PIInv, NEW c \in Calls, BeginReceipt(c) PROVE PIInv'
<1> DEFINE r == [Idle EXCEPT !.pc = "receive", !.status = order.status]
<1>1. call' = [call EXCEPT ![c] = r]
  BY DEF BeginReceipt, Goes
<1>2. r.pc = "receive" /\ DOMAIN r = CallFields /\ r.target \in Statuses
  BY DEF Idle, CallFields, Statuses
<1>3. call[c].pc # "done" /\ UNCHANGED <<order, line, receipt, document, overlap, vouched>>
  BY DEF BeginReceipt, Begins
<1> HIDE DEF r
<1> QED BY <1>1, <1>2, <1>3, CallMoves

\* Then it reads the lines, all of those the order has.
LEMMA ReadLinesPreserves ==
    ASSUME PIInv, NEW c \in Calls, ReadLines(c) PROVE PIInv'
<1>0. PICK S \in (SUBSET order.lines) \ {{}} :
          \E items \in [S -> [received : 0..MaxQuantity, accepted : 0..MaxQuantity]] :
          /\ \A l \in S : Fits(l, items[l])
          /\ Goes(c, [call[c] EXCEPT !.pc = "received", !.items = items,
                                     !.seen = [l \in order.lines |-> line[l]]])
  BY DEF ReadLines
<1>a. S # {} /\ S \subseteq order.lines
  OBVIOUS
<1>1. PICK items \in [S -> [received : 0..MaxQuantity, accepted : 0..MaxQuantity]] :
          /\ \A l \in S : Fits(l, items[l])
          /\ Goes(c, [call[c] EXCEPT !.pc = "received", !.items = items,
                                     !.seen = [l \in order.lines |-> line[l]]])
  BY <1>0
<1> DEFINE r == [call[c] EXCEPT !.pc = "received", !.items = items,
                                !.seen = [l \in order.lines |-> line[l]]]
<1>2. DOMAIN r = CallFields /\ r.pc = "received" /\ r.items = items /\ r.target \in Statuses
      /\ r.seen = [l \in order.lines |-> line[l]]
  BY DEF PIInv, PTypes, CallFields
<1>3. UNCHANGED <<order, line, receipt, document, overlap, vouched>> /\ call[c].pc # "done"
      /\ call' = [call EXCEPT ![c] = r]
  BY <1>1 DEF ReadLines, Goes
<1> HIDE DEF r
<1>4. ReceiptRead(c)'
  <2>1. call'[c] = r
    BY <1>3 DEF PIInv, PTypes
  <2>2. order.lines \subseteq DOMAIN line /\ \A l \in DOMAIN line : line[l] \in LineRows
    BY DEF PIInv, PTypes
  <2>3. 0..MaxQuantity \subseteq Nat
    BY BoundsAssumption
  <2>4. \A l \in S : /\ items[l].received \in Nat /\ items[l].accepted \in Nat
                     /\ items[l].accepted <= items[l].received
                     /\ line[l].received + items[l].received <= line[l].quantity
    BY <1>1, <2>3 DEF Fits
  <2>5. /\ DOMAIN items = S /\ S # {} /\ S \subseteq order.lines
        /\ DOMAIN r.seen = order.lines /\ \A l \in order.lines : r.seen[l] = line[l]
    <3>1. S # {} /\ S \subseteq order.lines
      BY <1>a
    <3>2. DOMAIN items = S
      OBVIOUS
    <3>3. DOMAIN r.seen = order.lines /\ \A l \in order.lines : r.seen[l] = line[l]
      BY <1>2
    <3> QED BY <3>1, <3>2, <3>3
  <2>6. call'[c].items = items /\ call'[c].seen = r.seen
    BY <1>2, <2>1
  <2> QED BY <1>3, <2>2, <2>4, <2>5, <2>6 DEF ReceiptRead
<1> QED BY <1>2, <1>3, <1>4, CallMoves

\* A document reads what is ordered and accepted by now.
LEMMA BeginDocumentPreserves ==
    ASSUME PIInv, NEW c \in Calls, BeginDocument(c) PROVE PIInv'
<1>0. PICK n \in Numbers, k \in 0..MaxItems, priced \in BOOLEAN :
          \E items \in [1..k -> [line : DOMAIN line, quantity : Quantities]] :
          Goes(c, [Idle EXCEPT
                !.pc = IF k > 0 THEN "receipts" ELSE "document",
                !.doc = [number |-> n, items |-> items, priced |-> priced, status |-> "UNMATCHED"],
                !.items = [l \in order.lines |-> IF k > 0 THEN line[l].quantity ELSE 0],
                !.seen = [l \in DOMAIN line |-> IF k > 0 THEN Accepted(l) ELSE 0]])
  BY DEF BeginDocument
<1>1. PICK items \in [1..k -> [line : DOMAIN line, quantity : Quantities]] :
          Goes(c, [Idle EXCEPT
                !.pc = IF k > 0 THEN "receipts" ELSE "document",
                !.doc = [number |-> n, items |-> items, priced |-> priced, status |-> "UNMATCHED"],
                !.items = [l \in order.lines |-> IF k > 0 THEN line[l].quantity ELSE 0],
                !.seen = [l \in DOMAIN line |-> IF k > 0 THEN Accepted(l) ELSE 0]])
  BY <1>0
<1> DEFINE r == [Idle EXCEPT
                !.pc = IF k > 0 THEN "receipts" ELSE "document",
                !.doc = [number |-> n, items |-> items, priced |-> priced, status |-> "UNMATCHED"],
                !.items = [l \in order.lines |-> IF k > 0 THEN line[l].quantity ELSE 0],
                !.seen = [l \in DOMAIN line |-> IF k > 0 THEN Accepted(l) ELSE 0]]
<1>2. /\ DOMAIN r = CallFields /\ r.pc \in {"receipts", "document"} /\ r.invoiced = Empty
      /\ r.target \in Statuses
      /\ r.doc.items = items /\ r.doc.status = "UNMATCHED"
      /\ DOMAIN r.seen = DOMAIN line
      /\ \A l \in DOMAIN line : r.seen[l] \in {0, Accepted(l)}
  BY DEF Idle, CallFields, Statuses
<1>3. UNCHANGED <<order, line, receipt, document, overlap, vouched>> /\ call[c].pc # "done"
      /\ call' = [call EXCEPT ![c] = r]
  BY <1>1 DEF BeginDocument, Begins, Goes
<1> HIDE DEF r
<1>4. call'[c] = r
  BY <1>3 DEF PIInv, PTypes
<1>5. DocumentRead(c)'
  <2>1. items \in ItemLists /\ NamesLines(items, DOMAIN line)
    <3>1. k \in Nat /\ Quantities \subseteq Nat /\ DOMAIN line \subseteq Nat
      BY BoundsAssumption DEF PIInv, PTypes, Quantities
    <3>2. items \in [1..k -> ItemRows]
      BY <3>1 DEF ItemRows
    <3> QED BY <3>1, <3>2 DEF ItemLists, NamesLines
  <2>2. \A l : Accepted(l)' = Accepted(l) /\ Accepted(l) \in Nat
    BY <1>3, ReceivedType DEF Accepted, PIInv
  <2>3. \A l \in DOMAIN line : r.seen[l] \in Nat /\ r.seen[l] <= Accepted(l)'
    BY <1>2, <2>2
  <2> QED BY <1>2, <1>3, <1>4, <2>1, <2>3 DEF DocumentRead
<1>6. InvoicesRead(c)'
  BY <1>2, <1>4 DEF InvoicesRead
<1>7. r.pc # "received"
  BY <1>2
<1> QED BY <1>2, <1>3, <1>5, <1>6, <1>7, CallMoves

\* Then it reads what is invoiced by now.
LEMMA ReadInvoicesPreserves ==
    ASSUME PIInv, NEW c \in Calls, ReadInvoices(c) PROVE PIInv'
<1> DEFINE r == [call[c] EXCEPT !.pc = "document",
                                !.invoiced = [l \in DOMAIN line |-> Invoiced(l, Invoices)]]
<1>1. UNCHANGED <<order, line, receipt, document, overlap, vouched>> /\ call[c].pc = "receipts"
      /\ call' = [call EXCEPT ![c] = r]
  BY DEF ReadInvoices, Goes
<1>2. /\ DOMAIN r = CallFields /\ r.pc = "document" /\ DOMAIN r.invoiced = DOMAIN line
      /\ r.doc = call[c].doc /\ r.seen = call[c].seen /\ r.target \in Statuses
  BY DEF PIInv, PTypes, CallFields
<1> HIDE DEF r
<1>3. call'[c] = r
  BY <1>1 DEF PIInv, PTypes
<1>4. DocumentRead(c)
  BY <1>1 DEF PIInv, Reads
<1>5. \A l : Accepted(l)' = Accepted(l)
  BY <1>1 DEF Accepted
<1>6. DocumentRead(c)'
  BY <1>1, <1>2, <1>3, <1>4, <1>5 DEF DocumentRead
<1>7. InvoicesRead(c)'
  BY <1>1, <1>2, <1>3, <1>4 DEF InvoicesRead, DocumentRead, NamesLines
<1> QED BY <1>1, <1>2, <1>6, <1>7, CallMoves

-----------------------------------------------------------------------------
\* The end of a call that changes the order but no line, receipt or document.
LEMMA OrderMoves ==
    ASSUME PIInv, NEW c \in Calls, UNCHANGED <<line, receipt, document, overlap>>,
           DOMAIN order' = DOMAIN order, order'.lines = order.lines, Done(c), vouched' \in BOOLEAN,
           order'.status \in Statuses, ClosedIsComplete'
    PROVE  PIInv'
<1> DEFINE r == [Idle EXCEPT !.pc = "done"]
<1>1. call'[c] = r /\ r.pc = "done" /\ DOMAIN r = CallFields /\ r.target \in Statuses
      /\ DOMAIN call' = Calls /\ \A d \in Calls \ {c} : call'[d] = call[d]
  BY IdleFields DEF Done, Goes, PIInv, PTypes
<1>2. order'.lines = order.lines /\ DOMAIN order' = DOMAIN order
  OBVIOUS
<1> HIDE DEF r
<1>3. PTypes'
  BY <1>1, <1>2 DEF PIInv, PTypes
<1>4. NothingFiledBefore'
  BY <1>1 DEF PIInv, NothingFiledBefore
<1>5. \A l : Accepted(l)' = Accepted(l) /\ Received(l)' = Received(l)
  BY DEF Accepted, Received
<1>6. Reads'
  <2>1. \A d \in Calls \ {c} : /\ ReceiptRead(d) => ReceiptRead(d)'
                               /\ DocumentRead(d) => DocumentRead(d)'
                               /\ InvoicesRead(d) => InvoicesRead(d)'
    BY <1>1, <1>2, <1>5 DEF ReceiptRead, DocumentRead, InvoicesRead
  <2> QED BY <1>1, <2>1 DEF PIInv, Reads
<1>7. LinesExact'
  BY <1>5 DEF PIInv, LinesExact
<1>8. MatchedCovered'
  BY <1>5 DEF PIInv, MatchedCovered, Matched, Filed, NamesOnce, Invoiced
<1> QED BY <1>3, <1>4, <1>6, <1>7, <1>8 DEF PIInv

\* A transition keeps what a receipt vouches for only when it closes the order.
LEMMA EndTransitionPreserves ==
    ASSUME PIInv, NEW c \in Calls, EndTransition(c) PROVE PIInv'
<1>1. /\ order' = [order EXCEPT !.status = call[c].target]
      /\ vouched' = (vouched /\ call[c].target = "CLOSED" /\ order.status \in {"FULLY_RECEIVED", "CLOSED"})
      /\ Done(c) /\ UNCHANGED <<line, receipt, document, overlap>>
  BY DEF EndTransition
<1>2. order'.status = call[c].target /\ order'.lines = order.lines /\ DOMAIN order' = DOMAIN order
  BY <1>1 DEF PIInv, PTypes
<1>3. ClosedIsComplete'
  BY <1>1, <1>2 DEF PIInv, ClosedIsComplete, Received
<1>4. vouched' \in BOOLEAN /\ order'.status \in Statuses
  BY <1>1, <1>2 DEF PIInv, PTypes
<1> QED BY <1>1, <1>2, <1>3, <1>4, OrderMoves

\* An acknowledgement sets a status that claims no receipt.
LEMMA AcknowledgePreserves ==
    ASSUME PIInv, NEW c \in Calls, Acknowledge(c) PROVE PIInv'
<1>1. PICK s \in {"ACKNOWLEDGED", "REJECTED"} : order' = [order EXCEPT !.status = s]
  BY DEF Acknowledge
<1>2. Done(c) /\ ~vouched' /\ vouched' \in BOOLEAN /\ UNCHANGED <<line, receipt, document, overlap>>
  BY DEF Acknowledge
<1>3. order'.status = s /\ order'.lines = order.lines /\ DOMAIN order' = DOMAIN order
  BY <1>1 DEF PIInv, PTypes
<1>4. ClosedIsComplete'
  BY <1>2 DEF ClosedIsComplete
<1>5. order'.status \in Statuses
  BY <1>3 DEF Statuses
<1> QED BY <1>2, <1>3, <1>4, <1>5, OrderMoves

\* The feed reads the row.
LEMMA BeginFeedPreserves ==
    ASSUME PIInv, NEW c \in Calls, BeginFeed(c) PROVE PIInv'
<1> DEFINE r == [Idle EXCEPT !.pc = "feed", !.status = order.status, !.revision = order.revision]
<1>1. call' = [call EXCEPT ![c] = r]
  BY DEF BeginFeed, Goes
<1>2. r.pc = "feed" /\ DOMAIN r = CallFields /\ r.target \in Statuses
  BY DEF Idle, CallFields, Statuses
<1>3. call[c].pc # "done" /\ UNCHANGED <<order, line, receipt, document, overlap, vouched>>
  BY DEF BeginFeed, Begins
<1> HIDE DEF r
<1> QED BY <1>1, <1>2, <1>3, CallMoves

\* A status that the feed writes claims no receipt; one it leaves alone is as it was.
LEMMA EndFeedPreserves ==
    ASSUME PIInv, NEW c \in Calls, EndFeed(c) PROVE PIInv'
<1>1. PICK s \in Statuses, n \in 1..MaxRevision :
          /\ order' = [order EXCEPT !.status = IF s = call[c].status THEN @ ELSE s,
                                    !.revision = IF n = call[c].revision THEN @ ELSE n]
          /\ vouched' = (vouched /\ s = call[c].status)
  BY DEF EndFeed
<1>2. Done(c) /\ UNCHANGED <<line, receipt, document, overlap>>
  BY DEF EndFeed
<1>3. /\ order'.status = (IF s = call[c].status THEN order.status ELSE s)
      /\ order'.lines = order.lines /\ DOMAIN order' = DOMAIN order
  BY <1>1 DEF PIInv, PTypes
<1>4. ClosedIsComplete'
  BY <1>1, <1>2, <1>3 DEF PIInv, ClosedIsComplete, Received
<1>5. vouched' \in BOOLEAN /\ order'.status \in Statuses
  BY <1>1, <1>3 DEF PIInv, PTypes
<1> QED BY <1>2, <1>3, <1>4, <1>5, OrderMoves

\* A revision: new lines, on which nothing has been received.
LEMMA RevisePreserves ==
    ASSUME PIInv, NEW c \in Calls, Revise(c) PROVE PIInv'
<1>0. PICK n \in 1..MaxItems : \E items \in [1..n -> [sku : Skus, quantity : Quantities]] :
          /\ line' = line \o [i \in 1..n |-> Fresh(items[i].sku, items[i].quantity)]
          /\ order' = [order EXCEPT !.revision = @ + 1, !.revisions = @ \cup {order.revision + 1},
                                    !.lines = (Len(line) + 1)..(Len(line) + n)]
  BY DEF Revise
<1>1. PICK items \in [1..n -> [sku : Skus, quantity : Quantities]] :
          /\ line' = line \o [i \in 1..n |-> Fresh(items[i].sku, items[i].quantity)]
          /\ order' = [order EXCEPT !.revision = @ + 1, !.revisions = @ \cup {order.revision + 1},
                                    !.lines = (Len(line) + 1)..(Len(line) + n)]
  BY <1>0
<1> DEFINE old == 1..Len(line)
           new == (Len(line) + 1)..(Len(line) + n)
<1>2. /\ order.status \notin {"CLOSED", "CANCELLED", "REJECTED", "FULLY_RECEIVED"}
      /\ Done(c) /\ UNCHANGED <<receipt, document, vouched, overlap>> /\ call[c].pc # "done"
  BY DEF Revise, Begins
<1>3. n \in Nat /\ Quantities \subseteq Nat /\ line \in Seq(LineRows) /\ Len(line) \in Nat
  BY BoundsAssumption DEF PIInv, PTypes, Quantities
<1>4. /\ line' \in Seq(LineRows) /\ DOMAIN line = old /\ DOMAIN line' = old \cup new
      /\ \A l \in old : line'[l] = line[l]
      /\ \A l \in new : /\ line'[l].received = 0 /\ line'[l].accepted = 0 /\ line'[l].rejected = 0
                        /\ line'[l].quantity \in Nat
  <2> DEFINE fresh == [i \in 1..n |-> Fresh(items[i].sku, items[i].quantity)]
  <2>1. fresh \in Seq(LineRows) /\ Len(fresh) = n
    <3>1. \A i \in 1..n : items[i].sku \in Skus /\ items[i].quantity \in Nat
      BY <1>3
    <3>2. fresh \in [1..n -> LineRows]
      BY <3>1, FreshRow
    <3> QED BY <1>3, <3>2
  <2>2. \A i \in 1..n : /\ fresh[i].received = 0 /\ fresh[i].accepted = 0 /\ fresh[i].rejected = 0
                        /\ fresh[i].quantity \in Nat
    <3>1. \A i \in 1..n : items[i].sku \in Skus /\ items[i].quantity \in Nat
      BY <1>3
    <3> QED BY <3>1, FreshRow
  <2> HIDE DEF fresh
  <2>3. /\ line' \in Seq(LineRows) /\ Len(line') = Len(line) + n
        /\ \A l \in 1..(Len(line) + n) :
              line'[l] = IF l <= Len(line) THEN line[l] ELSE fresh[l - Len(line)]
    BY <1>1, <1>3, <2>1 DEF fresh
  <2>4. \A l \in new : l - Len(line) \in 1..n /\ line'[l] = fresh[l - Len(line)]
    BY <1>3, <2>3
  <2>5. \A l \in old : line'[l] = line[l]
    BY <1>3, <2>3
  <2>6. DOMAIN line = old /\ DOMAIN line' = old \cup new
    BY <1>3, <2>3
  <2> QED BY <2>2, <2>3, <2>4, <2>5, <2>6
<1>5. old \cap new = {}
  BY <1>3
<1>6. order'.lines = new /\ order'.status = order.status /\ DOMAIN order' = DOMAIN order
  BY <1>1 DEF PIInv, PTypes
<1> DEFINE r == [Idle EXCEPT !.pc = "done"]
<1>7. call'[c] = r /\ r.pc = "done" /\ DOMAIN r = CallFields /\ r.target \in Statuses
      /\ DOMAIN call' = Calls /\ \A d \in Calls \ {c} : call'[d] = call[d]
  BY <1>2, IdleFields DEF Done, Goes, PIInv, PTypes
<1> HIDE DEF r, old, new
<1>8. PTypes'
  BY <1>2, <1>4, <1>6, <1>7 DEF PIInv, PTypes, NamesLines
<1>9. NothingFiledBefore'
  BY <1>2, <1>7 DEF PIInv, NothingFiledBefore
<1>10. \A l : Accepted(l)' = Accepted(l) /\ Received(l)' = Received(l)
  BY <1>2 DEF Accepted, Received
<1>11. \A d \in Calls \ {c} : ReceiptRead(d) => ReceiptRead(d)'
  <2> TAKE d \in Calls \ {c}
  <2> SUFFICES ASSUME ReceiptRead(d) PROVE ReceiptRead(d)'
    OBVIOUS
  <2>1. call'[d] = call[d]
    BY <1>7
  <2>2. DOMAIN call[d].seen \subseteq old
    BY <1>4 DEF ReceiptRead
  <2>3. DOMAIN call[d].seen \cap order'.lines = {} /\ DOMAIN call[d].seen \subseteq DOMAIN line'
    BY <1>4, <1>5, <1>6, <2>2
  <2>4. \A l \in DOMAIN call[d].seen : line'[l] = line[l]
    BY <1>4, <2>2
  <2> QED BY <2>1, <2>3, <2>4 DEF ReceiptRead
<1>12. \A d \in Calls \ {c} : /\ DocumentRead(d) => DocumentRead(d)'
                              /\ InvoicesRead(d) => InvoicesRead(d)'
  BY <1>4, <1>7, <1>10 DEF DocumentRead, InvoicesRead
<1>13. Reads'
  BY <1>7, <1>11, <1>12 DEF PIInv, Reads
<1>14. LinesExact'
  <2>1. \A l \in new : Received(l) = 0 /\ Accepted(l) = 0
    <3> TAKE l \in new
    <3>1. \A d \in Calls : l \notin DOMAIN receipt[d]
      BY <1>4, <1>5 DEF PIInv, PTypes
    <3> QED BY <3>1, NothingReceived
  <2>2. \A l \in old : /\ line'[l].received <= line'[l].quantity
           /\ ~overlap' => /\ line'[l].received = Received(l)' /\ line'[l].accepted = Accepted(l)'
                           /\ line'[l].accepted + line'[l].rejected = line'[l].received
    BY <1>2, <1>4, <1>10 DEF PIInv, LinesExact
  <2>3. \A l \in new : /\ line'[l].received <= line'[l].quantity
           /\ ~overlap' => /\ line'[l].received = Received(l)' /\ line'[l].accepted = Accepted(l)'
                           /\ line'[l].accepted + line'[l].rejected = line'[l].received
    BY <1>4, <1>10, <2>1
  <2> QED BY <1>4, <2>2, <2>3 DEF PIInv, LinesExact
<1>15. ClosedIsComplete'
  BY <1>2, <1>6 DEF ClosedIsComplete
<1>16. MatchedCovered'
  <2>1. Matched' = Matched /\ \A d \in Calls : NamesOnce(d)' = NamesOnce(d)
    BY <1>2 DEF Matched, Filed, NamesOnce
  <2>2. \A l : Invoiced(l, Matched)' = Invoiced(l, Matched)
    BY <1>2 DEF Invoiced, Matched, Filed
  <2>3. Matched \in SUBSET Calls /\ \A d \in Matched : document[d] # Empty
    BY FiledAreCalls DEF Matched
  <2>4. \A l \in new : Invoiced(l, Matched) = 0 /\ Accepted(l) \in Nat
    BY <1>4, <1>5, <2>3, InvoicedType, ReceivedType DEF PIInv
  <2>5. ASSUME ~overlap', \A d \in Matched' : NamesOnce(d)', NEW l \in DOMAIN line'
        PROVE  Invoiced(l, Matched)' <= Accepted(l)'
    <3>1. CASE l \in old
      BY <1>2, <1>4, <1>10, <2>1, <2>2, <2>3, <2>5, <3>1 DEF PIInv, MatchedCovered
    <3>2. CASE l \in new
      <4>1. Invoiced(l, Matched)' = 0 /\ Accepted(l)' \in Nat
        BY <1>10, <2>2, <2>4, <3>2
      <4> QED BY <4>1
    <3> QED BY <1>4, <2>5, <3>1, <3>2
  <2> QED BY <2>5 DEF MatchedCovered
<1> QED BY <1>8, <1>9, <1>13, <1>14, <1>15, <1>16 DEF PIInv

-----------------------------------------------------------------------------
\* A receipt books what it read plus what it received.  If nobody came between, that is
\* what the line had plus what it received, and the status it computes is true of every
\* line; a status it leaves alone was true before, and receipts only add.
LEMMA CommitReceiptPreserves ==
    ASSUME PIInv, NEW c \in Calls, CommitReceipt(c) PROVE PIInv'
<1> DEFINE s == call[c].seen
           i == call[c].items
<1>1. /\ call[c].pc = "received" /\ \A l \in DOMAIN i : i[l].received > 0 => l \in order.lines
      /\ line' = [l \in DOMAIN line |-> IF l \in DOMAIN i THEN Booked(c, l) ELSE line[l]]
      /\ receipt' = [receipt EXCEPT ![c] = i]
      /\ order' = [order EXCEPT !.status = IF ReceiptStatus(c) = call[c].status THEN @ ELSE ReceiptStatus(c)]
      /\ overlap' = (overlap \/ s # [l \in order.lines |-> line[l]])
      /\ vouched' = (vouched \/ order'.status = ReceiptStatus(c))
      /\ Done(c) /\ UNCHANGED document
  BY DEF CommitReceipt
<1>2. ReceiptRead(c) /\ receipt[c] = Empty
  BY <1>1 DEF PIInv, Reads, NothingFiledBefore
<1>3. /\ DOMAIN i \subseteq DOMAIN s /\ DOMAIN s \subseteq DOMAIN line
      /\ \A l \in DOMAIN s : s[l] \in LineRows /\ s[l].quantity = line[l].quantity
      /\ \A l \in DOMAIN i :
            /\ i[l].received \in Nat /\ i[l].accepted \in Nat
            /\ i[l].accepted <= i[l].received
            /\ s[l].received + i[l].received <= s[l].quantity
  BY <1>1, <1>2 DEF ReceiptRead
<1>4. \A l \in DOMAIN line : line[l] \in LineRows
  BY DEF PIInv, PTypes
<1> HIDE DEF s, i
<1>5. \A l \in DOMAIN i :
          /\ Booked(c, l) \in LineRows
          /\ Booked(c, l).quantity = line[l].quantity
          /\ Booked(c, l).received = (IF i[l].received = 0 THEN line[l].received
                                      ELSE s[l].received + i[l].received)
          /\ Booked(c, l).accepted = (IF i[l].accepted = 0 THEN line[l].accepted
                                      ELSE s[l].accepted + i[l].accepted)
          /\ Booked(c, l).rejected = (IF i[l].accepted = i[l].received THEN line[l].rejected
                                      ELSE s[l].rejected + i[l].received - i[l].accepted)
  <2> TAKE l \in DOMAIN i
  <2> DEFINE a == IF i[l].accepted = 0 THEN line[l].accepted ELSE s[l].accepted + i[l].accepted
             j == IF i[l].accepted = i[l].received THEN line[l].rejected
                  ELSE s[l].rejected + i[l].received - i[l].accepted
             t == IF i[l].received = 0 THEN line[l].received ELSE s[l].received + i[l].received
  <2>1. line[l] \in LineRows /\ s[l] \in LineRows
    BY <1>3, <1>4
  <2>2. t \in Nat /\ a \in Nat /\ j \in Nat
    BY <1>3, <2>1 DEF LineRows
  <2>3. Booked(c, l) = [line[l] EXCEPT !.received = t, !.accepted = a, !.rejected = j]
    BY <2>1 DEF Booked, s, i, LineRows
  <2> HIDE DEF a, j, t
  <2>4. Booked(c, l) \in LineRows /\ Booked(c, l).quantity = line[l].quantity
        /\ Booked(c, l).received = t /\ Booked(c, l).accepted = a /\ Booked(c, l).rejected = j
    BY <2>1, <2>2, <2>3 DEF LineRows
  <2> QED BY <2>4 DEF a, j, t
<1>6. /\ line' \in Seq(LineRows) /\ DOMAIN line' = DOMAIN line
      /\ \A l \in DOMAIN line : line'[l] = IF l \in DOMAIN i THEN Booked(c, l) ELSE line[l]
      /\ \A l \in DOMAIN line : line'[l].quantity = line[l].quantity /\ line'[l] \in LineRows
  <2>1. DOMAIN line' = DOMAIN line
        /\ \A l \in DOMAIN line : line'[l] = IF l \in DOMAIN i THEN Booked(c, l) ELSE line[l]
    BY <1>1
  <2>2. \A l \in DOMAIN line : line'[l].quantity = line[l].quantity /\ line'[l] \in LineRows
    BY <1>4, <1>5, <2>1
  <2>3. line' \in Seq(LineRows)
    <3>1. line \in Seq(LineRows) /\ Len(line) \in Nat /\ DOMAIN line = 1..Len(line)
      BY DEF PIInv, PTypes
    <3>2. line' \in [1..Len(line) -> LineRows]
      BY <1>1, <2>1, <2>2, <3>1
    <3> QED BY <3>1, <3>2
  <2> QED BY <2>1, <2>2, <2>3
<1>7. \A l : /\ l \in DOMAIN i => /\ Received(l)' = Received(l) + i[l].received
                                  /\ Accepted(l)' = Accepted(l) + i[l].accepted
             /\ l \notin DOMAIN i => Received(l)' = Received(l) /\ Accepted(l)' = Accepted(l)
  BY <1>1, <1>2, <1>3, ReceiptFiled DEF PIInv
<1>8. \A l : Received(l) \in Nat /\ Accepted(l) \in Nat
  BY ReceivedType DEF PIInv
<1>9. \A l : Accepted(l)' \in Nat /\ Accepted(l) <= Accepted(l)'
  BY <1>3, <1>7, <1>8
<1>10. /\ order'.lines = order.lines /\ DOMAIN order' = DOMAIN order
       /\ order'.status = IF ReceiptStatus(c) = call[c].status THEN order.status ELSE ReceiptStatus(c)
       /\ order'.status \in Statuses
  <2>1. ReceiptStatus(c) \in Statuses
    BY DEF ReceiptStatus, Statuses
  <2> DEFINE t == IF ReceiptStatus(c) = call[c].status THEN order.status ELSE ReceiptStatus(c)
  <2>2. t \in Statuses
    BY <2>1 DEF PIInv, PTypes
  <2>3. order' = [order EXCEPT !.status = t]
    BY <1>1
  <2> HIDE DEF t
  <2>4. order'.lines = order.lines /\ DOMAIN order' = DOMAIN order /\ order'.status = t
    <3>1. DOMAIN order = {"status", "revision", "lines", "revisions"}
      BY DEF PIInv, PTypes
    <3> QED BY <2>3, <3>1
  <2>5. order'.status \in Statuses
    BY <2>2, <2>4
  <2>6. order'.status = IF ReceiptStatus(c) = call[c].status THEN order.status ELSE ReceiptStatus(c)
    BY <2>4 DEF t
  <2> QED BY <2>4, <2>5, <2>6
<1> DEFINE r == [Idle EXCEPT !.pc = "done"]
<1>11. call'[c] = r /\ r.pc = "done" /\ DOMAIN r = CallFields /\ r.target \in Statuses
       /\ DOMAIN call' = Calls /\ \A d \in Calls \ {c} : call'[d] = call[d]
  BY <1>1, IdleFields DEF Done, Goes, PIInv, PTypes
<1> HIDE DEF r
<1>12. receipt'[c] = i /\ DOMAIN receipt' = Calls /\ \A d \in Calls \ {c} : receipt'[d] = receipt[d]
  BY <1>1 DEF PIInv, PTypes
<1>13. PTypes'
  <2>1. \A d \in Calls : \A l \in DOMAIN receipt'[d] :
           l \in DOMAIN line' /\ receipt'[d][l].received \in Nat /\ receipt'[d][l].accepted \in Nat
    BY <1>3, <1>6, <1>12 DEF PIInv, PTypes
  <2>2. overlap' \in BOOLEAN
    BY <1>1
  <2>3. \A d \in Calls : document'[d] # Empty =>
           document'[d].items \in ItemLists /\ NamesLines(document'[d].items, DOMAIN line')
    BY <1>1, <1>6 DEF PIInv, PTypes
  <2>4. \A d \in Calls : DOMAIN call'[d] = CallFields /\ call'[d].target \in Statuses
    BY <1>11 DEF PIInv, PTypes
  <2>5. /\ DOMAIN order' = {"status", "revision", "lines", "revisions"} /\ order'.status \in Statuses
        /\ order'.lines \subseteq DOMAIN line' /\ DOMAIN document' = Calls /\ vouched' \in BOOLEAN
    <3>1. /\ DOMAIN order = {"status", "revision", "lines", "revisions"} /\ order.lines \subseteq DOMAIN line
          /\ DOMAIN document = Calls
      BY DEF PIInv, PTypes
    <3>2. document' = document /\ vouched' \in BOOLEAN /\ DOMAIN line' = DOMAIN line
      BY <1>1, <1>6
    <3> QED BY <1>10, <3>1, <3>2
  <2> QED BY <1>6, <1>11, <1>12, <2>1, <2>2, <2>3, <2>4, <2>5 DEF PTypes
<1>14. NothingFiledBefore'
  BY <1>1, <1>11, <1>12 DEF PIInv, NothingFiledBefore
<1>15. Reads'
  <2>1. \A d \in Calls \ {c} : ReceiptRead(d) => ReceiptRead(d)'
    <3> TAKE d \in Calls \ {c}
    <3> SUFFICES ASSUME ReceiptRead(d) PROVE ReceiptRead(d)'
      OBVIOUS
    <3>1. call'[d] = call[d]
      BY <1>11
    <3> QED BY <1>6, <1>10, <3>1 DEF ReceiptRead
  <2>2. \A d \in Calls \ {c} : DocumentRead(d) => DocumentRead(d)'
    <3> TAKE d \in Calls \ {c}
    <3> SUFFICES ASSUME DocumentRead(d) PROVE DocumentRead(d)'
      OBVIOUS
    <3>1. call'[d] = call[d]
      BY <1>11
    <3>2. \A l \in DOMAIN call[d].seen : call[d].seen[l] \in Nat /\ call[d].seen[l] <= Accepted(l)'
      <4> TAKE l \in DOMAIN call[d].seen
      <4>1. call[d].seen[l] \in Nat /\ call[d].seen[l] <= Accepted(l)
        BY DEF DocumentRead
      <4> QED BY <1>8, <1>9, <4>1
    <3> QED BY <1>6, <3>1, <3>2 DEF DocumentRead
  <2>3. \A d \in Calls \ {c} : InvoicesRead(d) => InvoicesRead(d)'
    BY <1>6, <1>11 DEF InvoicesRead
  <2> QED BY <1>11, <2>1, <2>2, <2>3 DEF PIInv, Reads
<1>16. \A l \in DOMAIN line' : line'[l].received <= line'[l].quantity
  <2> TAKE l \in DOMAIN line'
  <2>1. line[l].received <= line[l].quantity
    BY <1>6 DEF PIInv, LinesExact
  <2> QED BY <1>3, <1>5, <1>6, <2>1
<1>17. ASSUME ~overlap', NEW l \in DOMAIN line'
       PROVE  /\ line'[l].received = Received(l)' /\ line'[l].accepted = Accepted(l)'
              /\ line'[l].accepted + line'[l].rejected = line'[l].received
  <2>1. ~overlap /\ DOMAIN s = order.lines /\ \A k \in order.lines : line[k] = s[k]
    BY <1>1, <1>17
  <2>2. /\ line[l].received = Received(l) /\ line[l].accepted = Accepted(l)
        /\ line[l].accepted + line[l].rejected = line[l].received
        /\ line[l] \in LineRows
    BY <1>4, <1>6, <2>1 DEF PIInv, LinesExact
  <2>3. CASE l \in DOMAIN i
    <3>1. line[l] = s[l] /\ line'[l] = Booked(c, l)
      BY <1>3, <1>6, <2>1, <2>3
    <3>2. /\ line'[l].received = line[l].received + i[l].received
          /\ line'[l].accepted = line[l].accepted + i[l].accepted
          /\ line'[l].rejected = line[l].rejected + i[l].received - i[l].accepted
      <4>1. line[l].accepted \in Nat /\ line[l].rejected \in Nat /\ line[l].received \in Nat
        BY <2>2 DEF LineRows
      <4> QED BY <1>3, <1>5, <2>3, <3>1, <4>1
    <3>3. line[l].accepted \in Nat /\ line[l].rejected \in Nat /\ line[l].received \in Nat
      BY <2>2 DEF LineRows
    <3> QED BY <1>3, <1>7, <2>2, <2>3, <3>2, <3>3
  <2>4. CASE l \notin DOMAIN i
    BY <1>6, <1>7, <2>2, <2>4
  <2> QED BY <2>3, <2>4
<1>18. LinesExact'
  BY <1>16, <1>17 DEF LinesExact
<1>19. ClosedIsComplete'
  <2> SUFFICES ASSUME order'.status \in {"FULLY_RECEIVED", "CLOSED"}, vouched', ~overlap', NEW l \in order.lines
               PROVE  Received(l)' = line'[l].quantity
    BY <1>10 DEF ClosedIsComplete
  <2>1. ~overlap /\ DOMAIN s = order.lines /\ \A k \in order.lines : line[k] = s[k]
    BY <1>1
  <2>2. line[l] \in LineRows /\ l \in DOMAIN line /\ line[l] = s[l]
    BY <1>3, <1>4, <2>1
  <2>3. /\ line'[l].received = Received(l)' /\ line'[l].received <= line'[l].quantity
        /\ line'[l].quantity = line[l].quantity
        /\ line'[l].received \in Nat /\ line[l].quantity \in Nat /\ line[l].received \in Nat
    BY <1>6, <1>16, <1>17, <2>2 DEF LineRows
  <2>4. CASE order'.status = ReceiptStatus(c)
    <3>1. ReceiptStatus(c) = "FULLY_RECEIVED"
      BY <2>4 DEF ReceiptStatus
    <3>2. s[l].received + (IF l \in DOMAIN i THEN i[l].received ELSE 0) >= s[l].quantity
      BY <2>1, <3>1 DEF ReceiptStatus, s, i
    <3>3. line'[l].received >= line[l].quantity
      <4>1. CASE l \in DOMAIN i
        <5>1. line'[l].received = s[l].received + i[l].received
          BY <1>3, <1>5, <1>6, <2>2, <2>3, <4>1
        <5> QED BY <2>2, <3>2, <4>1, <5>1
      <4>2. CASE l \notin DOMAIN i
        <5>1. line'[l] = s[l]
          BY <1>6, <2>2, <4>2
        <5> QED BY <2>2, <2>3, <3>2, <4>2, <5>1
      <4> QED BY <4>1, <4>2
    <3> QED BY <2>3, <3>3
  <2>5. CASE order'.status # ReceiptStatus(c)
    <3>1. vouched /\ order.status = order'.status
      BY <1>1, <1>10, <2>5
    <3>2. Received(l) = line[l].quantity
      BY <2>1, <3>1 DEF PIInv, ClosedIsComplete
    <3>3. Received(l)' >= Received(l)
      BY <1>3, <1>7, <1>8
    <3> QED BY <2>3, <3>2, <3>3
  <2> QED BY <2>4, <2>5
<1>20. MatchedCovered'
  <2> SUFFICES ASSUME ~overlap', \A d \in Matched' : NamesOnce(d)', NEW l \in DOMAIN line'
               PROVE  Invoiced(l, Matched)' <= Accepted(l)'
    BY DEF MatchedCovered
  <2>1. Matched' = Matched /\ (\A d \in Calls : NamesOnce(d)' = NamesOnce(d))
        /\ Invoiced(l, Matched)' = Invoiced(l, Matched)
    BY <1>1 DEF Matched, Filed, NamesOnce, Invoiced
  <2>2. Matched \in SUBSET Calls /\ \A d \in Matched : document[d] # Empty
    BY FiledAreCalls DEF Matched
  <2>3. Invoiced(l, Matched) <= Accepted(l) /\ Invoiced(l, Matched) \in Nat
    BY <1>1, <1>6, <2>1, <2>2, InvoicedType DEF PIInv, MatchedCovered
  <2> QED BY <1>8, <1>9, <2>1, <2>3
<1> QED BY <1>13, <1>14, <1>15, <1>18, <1>19, <1>20 DEF PIInv

-----------------------------------------------------------------------------
\* A document that matches bills, with what was invoiced before, no more than it saw
\* accepted; and if no invoice came between, that is all there is.
LEMMA CommitDocumentPreserves ==
    ASSUME PIInv, NEW c \in Calls, CommitDocument(c) PROVE PIInv'
<1> DEFINE doc == IF call[c].invoiced = Empty THEN call[c].doc
                  ELSE [call[c].doc EXCEPT !.status = MatchStatus(c)]
           items == call[c].doc.items
<1>1. /\ call[c].pc = "document" /\ document' = [document EXCEPT ![c] = doc]
      /\ overlap' = (overlap \/ \E l \in DOMAIN call[c].invoiced : Invoiced(l, Invoices) # call[c].invoiced[l])
      /\ Done(c) /\ UNCHANGED <<order, line, receipt, vouched>>
  BY DEF CommitDocument
<1>2. DocumentRead(c) /\ InvoicesRead(c) /\ document[c] = Empty
  BY <1>1 DEF PIInv, Reads, NothingFiledBefore
<1>3. /\ doc.items = items /\ items \in ItemLists /\ NamesLines(items, DOMAIN line)
      /\ doc.status = "MATCHED" => call[c].invoiced # Empty /\ MatchStatus(c) = "MATCHED"
  BY <1>2 DEF DocumentRead, NamesLines
<1> HIDE DEF doc
<1> DEFINE r == [Idle EXCEPT !.pc = "done"]
<1>4. call'[c] = r /\ r.pc = "done" /\ DOMAIN r = CallFields /\ r.target \in Statuses
      /\ DOMAIN call' = Calls /\ \A d \in Calls \ {c} : call'[d] = call[d]
  BY <1>1, IdleFields DEF Done, Goes, PIInv, PTypes
<1> HIDE DEF r
<1>5. document'[c] = doc /\ DOMAIN document' = Calls /\ \A d \in Calls \ {c} : document'[d] = document[d]
  BY <1>1 DEF PIInv, PTypes
<1>6. PTypes'
  <2>1. overlap' \in BOOLEAN
    BY <1>1
  <2>2. \A d \in Calls : document'[d] # Empty =>
           document'[d].items \in ItemLists /\ NamesLines(document'[d].items, DOMAIN line')
    BY <1>1, <1>3, <1>5 DEF PIInv, PTypes
  <2> QED BY <1>1, <1>4, <1>5, <2>1, <2>2 DEF PIInv, PTypes
<1>7. NothingFiledBefore'
  BY <1>1, <1>4, <1>5 DEF PIInv, NothingFiledBefore
<1>8. \A l : Accepted(l)' = Accepted(l) /\ Received(l)' = Received(l)
  BY <1>1 DEF Accepted, Received
<1>9. Reads'
  <2>1. \A d \in Calls \ {c} : /\ ReceiptRead(d) => ReceiptRead(d)'
                               /\ DocumentRead(d) => DocumentRead(d)'
                               /\ InvoicesRead(d) => InvoicesRead(d)'
    BY <1>1, <1>4, <1>8 DEF ReceiptRead, DocumentRead, InvoicesRead
  <2> QED BY <1>4, <2>1 DEF PIInv, Reads
<1>10. overlap => overlap'
  BY <1>1
<1>11. LinesExact' /\ ClosedIsComplete'
  BY <1>1, <1>8, <1>10 DEF PIInv, LinesExact, ClosedIsComplete
<1>12. MatchedCovered'
  <2> SUFFICES ASSUME ~overlap', \A d \in Matched' : NamesOnce(d)', NEW l \in DOMAIN line
               PROVE  Invoiced(l, Matched)' <= Accepted(l)
    BY <1>1, <1>8 DEF MatchedCovered
  <2>1. ~overlap /\ \A k \in DOMAIN call[c].invoiced : Invoiced(k, Invoices) = call[c].invoiced[k]
    BY <1>1
  <2>2. /\ Matched \in SUBSET Invoices /\ Invoices \in SUBSET Calls
        /\ \A d \in Invoices : document[d] # Empty
        /\ c \notin Matched /\ Matched \in SUBSET Calls
    BY <1>2 DEF Matched, Invoices, Filed
  <2>3. Matched' \ {c} = Matched
    BY <1>5, <2>2 DEF Matched, Filed
  <2>4. \A d \in Matched : NamesOnce(d)
    BY <1>5, <2>2, <2>3 DEF NamesOnce
  <2>5. Invoiced(l, Matched) <= Accepted(l)
    BY <2>1, <2>4 DEF PIInv, MatchedCovered
  <2> DEFINE f == [d \in Calls |-> Billed(document[d].items, l)]
             g == [d \in Calls |-> Billed(document'[d].items, l)]
             M == Matched
  <2>6. /\ Invoiced(l, Matched) = SumFunctionOnSet(f, M)
        /\ Invoiced(l, Matched)' = SumFunctionOnSet(g, Matched')
        /\ Invoiced(l, Matched) <= Invoiced(l, Invoices)
        /\ Invoiced(l, Matched) \in Nat /\ Invoiced(l, Invoices) \in Nat
    BY <2>2, InvoicedType DEF Invoiced, PIInv
  <2>7. IsFiniteSet(M) /\ \A d \in M : f[d] \in Int /\ g[d] = f[d]
    <3>1. \A d \in M : d \in Calls /\ d # c /\ document[d].items \in ItemLists
      BY <2>2 DEF PIInv, PTypes
    <3>2. \A d \in M : f[d] \in Nat
      BY <3>1, BilledType
    <3> QED BY <1>5, <2>2, <3>1, <3>2, CallsFinite
  <2>8. g[c] = Billed(items, l) /\ Billed(items, l) \in Nat
    BY <1>3, <1>5, BilledType
  <2>9. CASE c \notin Matched'
    <3>1. Matched' = M
      BY <2>3, <2>9
    <3> HIDE DEF f, g, M
    <3>2. SumFunctionOnSet(g, M) = SumFunctionOnSet(f, M)
      BY <2>7, SumSame
    <3> QED BY <2>5, <2>6, <3>1, <3>2
  <2>10. CASE c \in Matched'
    <3>1. Matched' = M \cup {c} /\ c \notin M
      BY <2>2, <2>3, <2>10
    <3>2. call[c].invoiced # Empty /\ MatchStatus(c) = "MATCHED"
      BY <1>3, <1>5, <2>10 DEF Matched, Filed
    <3>3. \A i \in DOMAIN items : call[c].invoiced[items[i].line] + items[i].quantity <= call[c].seen[items[i].line]
      BY <3>2 DEF MatchStatus
    <3>4. \A i, j \in DOMAIN items : items[i].line = items[j].line => i = j
      BY <1>3, <1>5, <2>10 DEF NamesOnce
    <3>5. SumFunctionOnSet(g, M \cup {c}) = SumFunctionOnSet(f, M) + g[c]
      <4>1. g[c] \in Int
        BY <2>8
      <4> HIDE DEF f, g, M
      <4> QED BY <2>7, <3>1, <4>1, SumGains
    <3>6. Invoiced(l, Matched)' = Invoiced(l, Matched) + Billed(items, l)
      <4> HIDE DEF f, g, M
      <4> QED BY <2>6, <2>8, <3>1, <3>5
    <3>7. CASE \A i \in DOMAIN items : items[i].line # l
      <4>1. Billed(items, l) = 0
        BY <1>3, <3>7, BilledType
      <4> QED BY <2>5, <2>6, <3>6, <4>1
    <3>8. ASSUME NEW i \in DOMAIN items, items[i].line = l PROVE Invoiced(l, Matched)' <= Accepted(l)
      <4>1. Billed(items, l) = items[i].quantity
        BY <1>3, <3>4, <3>8, BilledType
      <4>2. call[c].invoiced[l] = Invoiced(l, Invoices)
        BY <1>2, <2>1, <3>2, <3>8 DEF InvoicesRead, NamesLines
      <4>3. call[c].seen[l] <= Accepted(l) /\ call[c].seen[l] \in Nat
        BY <1>2, <3>8 DEF DocumentRead, NamesLines
      <4>4. Accepted(l) \in Nat
        BY ReceivedType DEF PIInv
      <4>5. Invoiced(l, Invoices) + items[i].quantity <= call[c].seen[l]
        BY <3>3, <3>8, <4>2
      <4>6. items[i].quantity \in Nat
        BY <2>8, <4>1
      <4> HIDE DEF f, g, M, items
      <4> QED BY <2>6, <3>6, <4>1, <4>3, <4>4, <4>5, <4>6
    <3> QED BY <3>7, <3>8
  <2> QED BY <2>9, <2>10
<1> QED BY <1>6, <1>7, <1>9, <1>11, <1>12 DEF PIInv

\* Every step of every call on the order keeps the invariant.
LEMMA PNextPreserves == PIInv /\ [PNext]_pvars => PIInv'
<1> SUFFICES ASSUME PIInv, [PNext]_pvars PROVE PIInv'
  OBVIOUS
<1>1. CASE PNext
  BY <1>1, AbortCallPreserves, BeginTransitionPreserves, EndTransitionPreserves, RevisePreserves,
     BeginFeedPreserves, EndFeedPreserves, AcknowledgePreserves, BeginReceiptPreserves, ReadLinesPreserves, CommitReceiptPreserves,
     BeginDocumentPreserves, ReadInvoicesPreserves, CommitDocumentPreserves DEF PNext
<1>2. CASE UNCHANGED pvars
  <2>1. UNCHANGED <<order, line, receipt, document, call, vouched, overlap>>
    BY <1>2 DEF pvars
  <2>2. \A l : Accepted(l)' = Accepted(l) /\ Received(l)' = Received(l)
    BY <2>1 DEF Accepted, Received
  <2>3. PTypes' /\ NothingFiledBefore'
    BY <2>1 DEF PIInv, PTypes, NothingFiledBefore
  <2>4. Reads'
    BY <2>1, <2>2 DEF PIInv, Reads, ReceiptRead, DocumentRead, InvoicesRead
  <2>5. LinesExact' /\ ClosedIsComplete'
    BY <2>1, <2>2 DEF PIInv, LinesExact, ClosedIsComplete
  <2>6. MatchedCovered'
    BY <2>1, <2>2 DEF PIInv, MatchedCovered, Matched, Filed, NamesOnce, Invoiced
  <2> QED BY <2>3, <2>4, <2>5, <2>6 DEF PIInv
<1> QED BY <1>1, <1>2

\* The inductive invariant of the order holds in every reachable state.
THEOREM ProcurementInvariant == PSpec => []PIInv
<1> QED BY PInitEstablishes, PNextPreserves, PTL DEF PSpec

\* No line counts more than was ordered, and without overlap its counters are what its
\* receipts add up to (services.py, receive_goods).
THEOREM CountersExact == PSpec => []LinesExact
<1>1. PIInv => LinesExact
  BY DEF PIInv
<1> QED BY <1>1, ProcurementInvariant, PTL

\* An order that a receipt has made fully received, closed since or not, has a receipt
\* for every piece of every line, unless receipts overlapped each other or a revision
\* (services.py, receive_goods and transition_purchase_order; db_mapper.py,
\* map_purchase_orders).
THEOREM ClosedComplete == PSpec => []ClosedIsComplete
<1>1. PIInv => ClosedIsComplete
  BY DEF PIInv
<1> QED BY <1>1, ProcurementInvariant, PTL

\* Together the matched invoices bill no more of a line than was accepted
\* (services.py, add_financial_document and _three_way_match).
THEOREM InvoicesCovered == PSpec => []MatchedCovered
<1>1. PIInv => MatchedCovered
  BY DEF PIInv
<1> QED BY <1>1, ProcurementInvariant, PTL

-----------------------------------------------------------------------------
(***************************************************************************)
(* Material requirements and capable-to-promise: Planning.                 *)
(***************************************************************************)
\* The equation of the recursive function in the definition of Total.
Totals(q, n, g) == g = [m \in 0..n |-> IF m = 0 THEN 0 ELSE g[m - 1] + q[m]]

\* The function in the definition of Total exists.
LEMMA TotalsExist ==
    ASSUME NEW q, NEW n \in Nat
    PROVE  \E g : Totals(q, n, g)
<1> DEFINE Has(k) == \E g : Totals(q, k, g)
           T == {k \in Nat : Has(k)}
<1>1. 0 \in T
  <2> DEFINE g == [m \in 0..0 |-> 0]
  <2>1. Totals(q, 0, g)
    BY DEF Totals
  <2> QED BY <2>1
<1>2. ASSUME NEW k \in T PROVE k + 1 \in T
  <2>1. PICK g : Totals(q, k, g)
    OBVIOUS
  <2> DEFINE Body(f, m) == IF m = 0 THEN 0 ELSE f[m - 1] + q[m]
             h == [m \in 0..(k + 1) |-> Body(g, m)]
  <2>2. \A m \in 0..k : h[m] = g[m]
    <3>1. \A m \in 0..k : g[m] = Body(g, m)
      BY <2>1 DEF Totals
    <3> HIDE DEF Body
    <3> QED BY <3>1
  <2>3. \A m \in 0..(k + 1) : m = 0 \/ m - 1 \in 0..k
    OBVIOUS
  <2>4. \A m \in 0..(k + 1) : Body(h, m) = Body(g, m)
    <3> HIDE DEF h
    <3> QED BY <2>2, <2>3
  <2>5. h = [m \in 0..(k + 1) |-> Body(h, m)]
    <3> HIDE DEF Body
    <3> QED BY <2>4
  <2>6. Totals(q, k + 1, h)
    <3> HIDE DEF h
    <3> QED BY <2>5 DEF Totals
  <2> QED BY <2>6
<1>3. T = Nat
  <2> HIDE DEF Has
  <2> QED BY <1>1, <1>2, Induction
<1> QED BY <1>3

\* Total is the last of the partial sums, which are integers.
LEMMA TotalIs ==
    ASSUME NEW q \in Seq(Int)
    PROVE  \E g : /\ Total(q) = g[Len(q)] /\ g[0] = 0
                  /\ \A m \in 0..Len(q) : g[m] \in Int
                  /\ \A m \in 1..Len(q) : g[m] = g[m - 1] + q[m]
<1> DEFINE g == CHOOSE g : Totals(q, Len(q), g)
<1>0. Len(q) \in Nat /\ \A m \in 1..Len(q) : q[m] \in Int
  OBVIOUS
<1>1. Totals(q, Len(q), g)
  BY <1>0, TotalsExist
<1>2. Total(q) = g[Len(q)]
  BY DEF Total, Totals
<1> HIDE DEF g
<1>3. \A m \in 0..Len(q) : g[m] = IF m = 0 THEN 0 ELSE g[m - 1] + q[m]
  BY <1>1 DEF Totals
<1>4. g[0] = 0
  BY <1>0, <1>3
<1>5. \A m \in 1..Len(q) : g[m] = g[m - 1] + q[m]
  BY <1>0, <1>3
<1> DEFINE T == {m \in Nat : m <= Len(q) => g[m] \in Int}
<1>6. 0 \in T
  BY <1>4
<1>7. ASSUME NEW m \in T PROVE m + 1 \in T
  <2>1. m \in Nat /\ (m <= Len(q) => g[m] \in Int)
    OBVIOUS
  <2>2. m + 1 <= Len(q) => g[m + 1] = g[m] + q[m + 1] /\ q[m + 1] \in Int
    <3>1. m + 1 <= Len(q) => m + 1 \in 1..Len(q) /\ (m + 1) - 1 = m
      BY <2>1, <1>0
    <3> QED BY <3>1, <1>5, <1>0
  <2> QED BY <2>1, <2>2, <1>0
<1>8. T = Nat
  <2>1. T \in SUBSET Nat
    OBVIOUS
  <2> HIDE DEF T
  <2> QED BY <2>1, <1>6, <1>7, Induction
<1>9. \A m \in 0..Len(q) : g[m] \in Int
  BY <1>8, <1>0
<1> QED BY <1>2, <1>4, <1>5, <1>9

\* A sum of integers is an integer, and none of them make nothing.
LEMMA TotalInt == ASSUME NEW q \in Seq(Int) PROVE Total(q) \in Int
BY TotalIs

\* The sum of no numbers.
LEMMA TotalOfNone == Total(<<>>) = 0
<1>1. <<>> \in Seq(Int) /\ Len(<<>>) = 0
  OBVIOUS
<1> QED BY <1>1, TotalIs

\* The sum of two sequences, one after the other.
LEMMA TotalOfTwo ==
    ASSUME NEW p \in Seq(Int), NEW q \in Seq(Int)
    PROVE  Total(p \o q) = Total(p) + Total(q)
<1> DEFINE s == p \o q
<1>1. /\ s \in Seq(Int) /\ Len(s) = Len(p) + Len(q) /\ Len(p) \in Nat /\ Len(q) \in Nat
      /\ \A m \in 1..Len(p) : s[m] = p[m]
      /\ \A m \in 1..Len(q) : s[Len(p) + m] = q[m]
  BY ConcatProperties
<1> HIDE DEF s
<1>2. PICK g : /\ Total(s) = g[Len(s)] /\ g[0] = 0
               /\ \A m \in 0..Len(s) : g[m] \in Int
               /\ \A m \in 1..Len(s) : g[m] = g[m - 1] + s[m]
  BY <1>1, TotalIs
<1>3. PICK f : /\ Total(p) = f[Len(p)] /\ f[0] = 0
               /\ \A m \in 0..Len(p) : f[m] \in Int
               /\ \A m \in 1..Len(p) : f[m] = f[m - 1] + p[m]
  BY TotalIs
<1>4. PICK h : /\ Total(q) = h[Len(q)] /\ h[0] = 0
               /\ \A m \in 0..Len(q) : h[m] \in Int
               /\ \A m \in 1..Len(q) : h[m] = h[m - 1] + q[m]
  BY TotalIs
<1> DEFINE T == {m \in Nat : m <= Len(p) => g[m] = f[m]}
           U == {m \in Nat : m <= Len(q) => g[Len(p) + m] = f[Len(p)] + h[m]}
<1>5. T = Nat
  <2>1. 0 \in T
    BY <1>2, <1>3
  <2>2. ASSUME NEW m \in T PROVE m + 1 \in T
    <3>1. m \in Nat /\ (m <= Len(p) => g[m] = f[m])
      OBVIOUS
    <3>2. m + 1 <= Len(p) => m + 1 \in 1..Len(p) /\ m + 1 \in 1..Len(s) /\ (m + 1) - 1 = m
      BY <3>1, <1>1
    <3>3. m + 1 <= Len(p) => g[m + 1] = g[m] + s[m + 1] /\ f[m + 1] = f[m] + p[m + 1]
      BY <3>2, <1>2, <1>3
    <3>4. m + 1 <= Len(p) => s[m + 1] = p[m + 1]
      BY <3>2, <1>1
    <3> QED BY <3>1, <3>3, <3>4, <1>1
  <2>3. T \in SUBSET Nat
    OBVIOUS
  <2> HIDE DEF T
  <2> QED BY <2>1, <2>2, <2>3, Induction
<1>6. g[Len(p)] = f[Len(p)]
  <2>1. Len(p) \in T
    <3> HIDE DEF T
    <3> QED BY <1>5, <1>1
  <2> QED BY <2>1, <1>1
<1>7. U = Nat
  <2>1. 0 \in U
    <3>1. Len(p) + 0 = Len(p) /\ f[Len(p)] \in Int
      BY <1>1, <1>3
    <3> QED BY <3>1, <1>6, <1>4
  <2>2. ASSUME NEW m \in U PROVE m + 1 \in U
    <3> DEFINE i == Len(p) + m
    <3>1. m \in Nat /\ (m <= Len(q) => g[i] = f[Len(p)] + h[m])
      OBVIOUS
    <3>2. ASSUME m + 1 <= Len(q) PROVE g[Len(p) + (m + 1)] = f[Len(p)] + h[m + 1]
      <4>1. /\ i + 1 = Len(p) + (m + 1) /\ i + 1 \in 1..Len(s) /\ (i + 1) - 1 = i
            /\ m + 1 \in 1..Len(q) /\ (m + 1) - 1 = m /\ m \in 0..Len(q)
        <5>1. /\ m \in Nat /\ m + 1 <= Len(q) /\ Len(p) \in Nat /\ Len(q) \in Nat
              /\ Len(s) = Len(p) + Len(q)
          BY <3>1, <3>2, <1>1
        <5> HIDE DEF U, T
        <5> QED BY <5>1
      <4>2. g[i + 1] = g[i] + s[i + 1] /\ h[m + 1] = h[m] + q[m + 1]
        <5>1. g[i + 1] = g[(i + 1) - 1] + s[i + 1]
          BY <4>1, <1>2
        <5>2. h[m + 1] = h[(m + 1) - 1] + q[m + 1]
          BY <4>1, <1>4
        <5> QED BY <5>1, <5>2, <4>1
      <4>3. s[i + 1] = q[m + 1] /\ q[m + 1] \in Int /\ h[m] \in Int /\ f[Len(p)] \in Int
        BY <4>1, <1>1, <1>3, <1>4
      <4>4. g[i] = f[Len(p)] + h[m]
        BY <3>1, <3>2, <1>1
      <4> HIDE DEF i
      <4> QED BY <4>1, <4>2, <4>3, <4>4
    <3> QED BY <3>1, <3>2
  <2>3. U \in SUBSET Nat
    OBVIOUS
  <2> HIDE DEF U
  <2> QED BY <2>1, <2>2, <2>3, Induction
<1>8. g[Len(p) + Len(q)] = f[Len(p)] + h[Len(q)]
  <2>1. Len(q) \in U
    <3> HIDE DEF U
    <3> QED BY <1>7, <1>1
  <2> QED BY <2>1, <1>1
<1> QED BY <1>8, <1>1, <1>2, <1>3, <1>4 DEF s

\* The sum of one number.
LEMMA TotalOfOne == ASSUME NEW x \in Int PROVE Total(<<x>>) = x
<1>1. <<x>> \in Seq(Int) /\ Len(<<x>>) = 1 /\ <<x>>[1] = x
  OBVIOUS
<1>2. PICK g : /\ Total(<<x>>) = g[1] /\ g[0] = 0
               /\ \A m \in 1..1 : g[m] = g[m - 1] + <<x>>[m]
  BY <1>1, TotalIs
<1>3. g[1] = g[1 - 1] + <<x>>[1]
  BY <1>2
<1> QED BY <1>1, <1>2, <1>3

\* The sum of a multiple.
LEMMA TotalOfMultiple ==
    ASSUME NEW p \in Seq(Int), NEW q \in Seq(Int), NEW c \in Int, Len(q) = Len(p),
           \A k \in DOMAIN p : q[k] = c * p[k]
    PROVE  Total(q) = c * Total(p)
<1>1. PICK f : /\ Total(p) = f[Len(p)] /\ f[0] = 0
               /\ \A m \in 0..Len(p) : f[m] \in Int
               /\ \A m \in 1..Len(p) : f[m] = f[m - 1] + p[m]
  BY TotalIs
<1>2. PICK h : /\ Total(q) = h[Len(q)] /\ h[0] = 0
               /\ \A m \in 0..Len(q) : h[m] \in Int
               /\ \A m \in 1..Len(q) : h[m] = h[m - 1] + q[m]
  BY TotalIs
<1>3. Len(p) \in Nat /\ DOMAIN p = 1..Len(p) /\ \A m \in 1..Len(p) : p[m] \in Int
  OBVIOUS
<1> DEFINE T == {m \in Nat : m <= Len(p) => h[m] = c * f[m]}
<1>4. 0 \in T
  BY <1>1, <1>2
<1>5. ASSUME NEW m \in T PROVE m + 1 \in T
  <2>1. m \in Nat /\ (m <= Len(p) => h[m] = c * f[m])
    OBVIOUS
  <2>2. ASSUME m + 1 <= Len(p) PROVE h[m + 1] = c * f[m + 1]
    <3>1. m + 1 \in 1..Len(p) /\ (m + 1) - 1 = m /\ m \in 0..Len(p)
      BY <2>1, <2>2, <1>3
    <3>2. h[m + 1] = h[m] + q[m + 1] /\ f[m + 1] = f[m] + p[m + 1]
      BY <3>1, <1>1, <1>2
    <3>3. q[m + 1] = c * p[m + 1] /\ p[m + 1] \in Int /\ f[m] \in Int
      BY <3>1, <1>1, <1>3
    <3>4. c * (f[m] + p[m + 1]) = c * f[m] + c * p[m + 1]
      BY <3>3
    <3>5. h[m] = c * f[m]
      BY <2>1, <2>2, <1>3
    <3> QED BY <3>2, <3>3, <3>4, <3>5
  <2> QED BY <2>1, <2>2
<1>6. T = Nat
  <2>1. T \in SUBSET Nat
    OBVIOUS
  <2> HIDE DEF T
  <2> QED BY <2>1, <1>4, <1>5, Induction
<1>7. h[Len(p)] = c * f[Len(p)]
  BY <1>6, <1>3
<1> QED BY <1>7, <1>1, <1>2

BillLines == Seq([sku : Items, per : Nat])
Recipes == [Items -> BillLines]
Frames == [op : {"visit", "explode", "leave", "leaf", "component"}, sku : Items, qty : Nat]
Rows == [sku : Items, gross : Nat, net : Nat, cycle : BOOLEAN]

\* What w makes of every element of a sequence.
Each(w, q) == [k \in DOMAIN q |-> w[q[k]]]

\* What a sequence of elements of a set is.
LEMMA SeqFacts ==
    ASSUME NEW V, NEW q \in Seq(V)
    PROVE  Len(q) \in Nat /\ DOMAIN q = 1..Len(q) /\ \A k \in 1..Len(q) : q[k] \in V
OBVIOUS

\* Of two sequences, one after the other, w makes in sum what it makes of each.
LEMMA EachOfTwo ==
    ASSUME NEW V, NEW w \in [V -> Int], NEW p \in Seq(V), NEW q \in Seq(V)
    PROVE  /\ Each(w, p) \in Seq(Int) /\ Each(w, q) \in Seq(Int)
           /\ Total(Each(w, p \o q)) = Total(Each(w, p)) + Total(Each(w, q))
<1>1. \A s \in Seq(V) : /\ Each(w, s) \in Seq(Int) /\ Len(Each(w, s)) = Len(s)
                        /\ \A k \in 1..Len(s) : Each(w, s)[k] = w[s[k]]
  <2> TAKE s \in Seq(V)
  <2>1. Len(s) \in Nat /\ DOMAIN s = 1..Len(s) /\ \A k \in 1..Len(s) : s[k] \in V
    OBVIOUS
  <2>2. Each(w, s) = [k \in 1..Len(s) |-> w[s[k]]]
    BY <2>1 DEF Each
  <2> QED BY <2>1, <2>2
<1>2. /\ p \o q \in Seq(V) /\ Len(p \o q) = Len(p) + Len(q)
      /\ \A k \in 1..Len(p) + Len(q) : (p \o q)[k] = IF k <= Len(p) THEN p[k] ELSE q[k - Len(p)]
  BY ConcatProperties
<1> DEFINE a == Each(w, p)  b == Each(w, q)  c == Each(w, p \o q)
<1>3. /\ a \in Seq(Int) /\ b \in Seq(Int) /\ c \in Seq(Int)
      /\ Len(a) = Len(p) /\ Len(b) = Len(q) /\ Len(c) = Len(p) + Len(q)
      /\ Len(p) \in Nat /\ Len(q) \in Nat
  <2>1. a \in Seq(Int) /\ Len(a) = Len(p)
    BY <1>1
  <2>2. b \in Seq(Int) /\ Len(b) = Len(q)
    BY <1>1
  <2>3. c \in Seq(Int) /\ Len(c) = Len(p) + Len(q)
    BY <1>1, <1>2
  <2>4. Len(p) \in Nat /\ Len(q) \in Nat
    OBVIOUS
  <2> HIDE DEF a, b, c
  <2> QED BY <2>1, <2>2, <2>3, <2>4
<1>4. /\ a \o b \in Seq(Int) /\ Len(a \o b) = Len(a) + Len(b)
      /\ \A k \in 1..Len(a) + Len(b) : (a \o b)[k] = IF k <= Len(a) THEN a[k] ELSE b[k - Len(a)]
  <2> HIDE DEF a, b, c
  <2>1. a \in Seq(Int) /\ b \in Seq(Int)
    BY <1>3
  <2> QED BY <2>1, ConcatProperties
<1>5. ASSUME NEW k \in 1..Len(c) PROVE c[k] = (a \o b)[k]
  <2>0. k \in 1..Len(p) + Len(q)
    BY <1>3
  <2>1. c[k] = w[(p \o q)[k]] /\ (a \o b)[k] = IF k <= Len(p) THEN a[k] ELSE b[k - Len(p)]
    <3>1. c[k] = w[(p \o q)[k]]
      BY <2>0, <1>1, <1>2, <1>3
    <3>2. (a \o b)[k] = IF k <= Len(p) THEN a[k] ELSE b[k - Len(p)]
      <4> HIDE DEF a, b
      <4> QED BY <2>0, <1>3, <1>4
    <3> QED BY <3>1, <3>2
  <2> HIDE DEF c
  <2>2. CASE k <= Len(p)
    <3>1. k \in 1..Len(p)
      BY <2>2, <1>3
    <3>2. a[k] = w[p[k]]
      BY <3>1, <1>1
    <3>3. (p \o q)[k] = p[k]
      BY <2>0, <2>2, <1>2
    <3> HIDE DEF a, b
    <3> QED BY <3>2, <3>3, <2>1, <2>2
  <2>3. CASE ~(k <= Len(p))
    <3>1. k - Len(p) \in 1..Len(q)
      BY <2>3, <1>3
    <3>2. b[k - Len(p)] = w[q[k - Len(p)]]
      BY <3>1, <1>1
    <3>3. (p \o q)[k] = q[k - Len(p)]
      BY <2>0, <2>3, <1>2
    <3> HIDE DEF a, b
    <3> QED BY <3>2, <3>3, <2>1, <2>3
  <2> QED BY <2>2, <2>3
<1>6. c = a \o b
  <2> HIDE DEF a, b, c
  <2> QED BY <1>3, <1>4, <1>5, SeqEqual
<1>7. Total(a \o b) = Total(a) + Total(b)
  <2> HIDE DEF a, b
  <2> QED BY <1>3, TotalOfTwo
<1> QED BY <1>3, <1>6, <1>7

\* Of one element, and of none.
LEMMA EachOfOne ==
    ASSUME NEW V, NEW w \in [V -> Int], NEW x \in V
    PROVE  Total(Each(w, <<x>>)) = w[x]
<1>1. Each(w, <<x>>) = <<w[x]>>
  BY DEF Each
<1> QED BY <1>1, TotalOfOne

\* The same, of a list.
LEMMA EachOfNone == ASSUME NEW w PROVE Total(Each(w, <<>>)) = 0
<1>1. Each(w, <<>>) = <<>>
  BY DEF Each
<1> QED BY <1>1, TotalOfNone

\* What comes on top in the place of the first element, and what comes at the end.
LEMMA EachReplaced ==
    ASSUME NEW V, NEW w \in [V -> Int], NEW q \in Seq(V), q # <<>>, NEW p \in Seq(V)
    PROVE  /\ Total(Each(w, p \o Tail(q))) = Total(Each(w, p)) + Total(Each(w, q)) - w[Head(q)]
           /\ Total(Each(w, p)) \in Int /\ Total(Each(w, q)) \in Int /\ w[Head(q)] \in Int
<1>1. Head(q) \in V /\ Tail(q) \in Seq(V) /\ <<Head(q)>> \in Seq(V) /\ q = <<Head(q)>> \o Tail(q)
  <2>1. Head(q) \in V /\ Tail(q) \in Seq(V)
    BY HeadTailProperties
  <2>2. q = <<Head(q)>> \o Tail(q)
    OBVIOUS
  <2> QED BY <2>1, <2>2
<1>2. Total(Each(w, q)) = w[Head(q)] + Total(Each(w, Tail(q)))
  BY <1>1, EachOfTwo, EachOfOne
<1>3. Total(Each(w, p \o Tail(q))) = Total(Each(w, p)) + Total(Each(w, Tail(q)))
  BY <1>1, EachOfTwo
<1>4. /\ Total(Each(w, p)) \in Int /\ Total(Each(w, q)) \in Int
      /\ Total(Each(w, Tail(q))) \in Int /\ w[Head(q)] \in Int
  BY <1>1, EachOfTwo, TotalInt
<1> QED BY <1>2, <1>3, <1>4

\* One item more in a list.
LEMMA EachAppended ==
    ASSUME NEW V, NEW w \in [V -> Int], NEW q \in Seq(V), NEW x \in V
    PROVE  /\ Total(Each(w, Append(q, x))) = Total(Each(w, q)) + w[x]
           /\ Total(Each(w, q)) \in Int /\ w[x] \in Int
<1>1. <<x>> \in Seq(V) /\ Append(q, x) = q \o <<x>>
  OBVIOUS
<1>2. Total(Each(w, q \o <<x>>)) = Total(Each(w, q)) + Total(Each(w, <<x>>))
  BY <1>1, EachOfTwo
<1> QED BY <1>1, <1>2, EachOfOne, EachOfTwo, TotalInt

-----------------------------------------------------------------------------
\* What a list of lines takes of a SKU is an integer.
LEMMA UsesType == ASSUME NEW lines \in BillLines, NEW s \in Items PROVE Uses(lines, s) \in Int
<1>1. [k \in DOMAIN lines |-> IF lines[k].sku = s THEN lines[k].per ELSE 0] \in Seq(Int)
  <2>1. Len(lines) \in Nat /\ DOMAIN lines = 1..Len(lines)
        /\ \A k \in 1..Len(lines) : lines[k] \in [sku : Items, per : Nat]
    BY SeqFacts DEF BillLines
  <2> QED BY <2>1
<1> QED BY <1>1, TotalInt DEF Uses

\* What a frame will still require of s, and what a row requires of it and, as a
\* parent, uses of it.
WeightOf(recipe, s) ==
    [f \in Frames |-> IF f.op = "visit" THEN IF f.sku = s THEN f.qty ELSE 0
                      ELSE IF f.op = "explode" THEN f.qty * Uses(recipe[f.sku], s) ELSE 0]
Weight(recipe, todo, s) == Total(Each(WeightOf(recipe, s), todo))
GrossOf(s) == [row \in Rows |-> IF row.sku = s THEN row.gross ELSE 0]
ParentOf(recipe, s) == [row \in Rows |-> row.net * Uses(recipe[row.sku], s)]

\* The three are functions from frames and rows to integers.
LEMMA WeightTypes ==
    ASSUME NEW recipe \in Recipes, NEW s \in Items
    PROVE  /\ WeightOf(recipe, s) \in [Frames -> Int]
           /\ GrossOf(s) \in [Rows -> Int] /\ ParentOf(recipe, s) \in [Rows -> Int]
<1>1. \A x \in Items : Uses(recipe[x], s) \in Int
  BY UsesType DEF Recipes
<1>2. \A x \in Items, n \in Nat : n * Uses(recipe[x], s) \in Int
  BY <1>1
<1>3. WeightOf(recipe, s) \in [Frames -> Int]
  <2>1. \A f \in Frames : f.sku \in Items /\ f.qty \in Nat
    BY DEF Frames
  <2> QED BY <1>2, <2>1 DEF WeightOf
<1>4. \A row \in Rows : row.sku \in Items /\ row.net \in Nat /\ row.gross \in Nat
  BY DEF Rows
<1>5. GrossOf(s) \in [Rows -> Int] /\ ParentOf(recipe, s) \in [Rows -> Int]
  BY <1>2, <1>4 DEF GrossOf, ParentOf
<1> QED BY <1>3, <1>5

\* What rows require of a SKU, by themselves and as parents, as sums over the rows.
LEMMA RowsAre ==
    ASSUME NEW recipe, NEW rws \in Seq(Rows), NEW s
    PROVE  /\ Gross(rws, s) = Total(Each(GrossOf(s), rws))
           /\ OfParents(recipe, rws, s) = Total(Each(ParentOf(recipe, s), rws))
<1>1. \A k \in DOMAIN rws : rws[k] \in Rows
  OBVIOUS
<1>2. Each(GrossOf(s), rws) = [k \in DOMAIN rws |-> IF rws[k].sku = s THEN rws[k].gross ELSE 0]
  BY <1>1 DEF Each, GrossOf
<1>3. Each(ParentOf(recipe, s), rws) = [k \in DOMAIN rws |-> rws[k].net * Uses(recipe[rws[k].sku], s)]
  BY <1>1 DEF Each, ParentOf
<1> QED BY <1>2, <1>3 DEF Gross, OfParents

\* A row more.
LEMMA RowAdded ==
    ASSUME NEW recipe \in Recipes, NEW rws \in Seq(Rows), NEW s \in Items, NEW row \in Rows
    PROVE  /\ Gross(Append(rws, row), s) = Gross(rws, s) + IF row.sku = s THEN row.gross ELSE 0
           /\ OfParents(recipe, Append(rws, row), s)
                 = OfParents(recipe, rws, s) + row.net * Uses(recipe[row.sku], s)
           /\ Gross(rws, s) \in Int /\ OfParents(recipe, rws, s) \in Int
<1> DEFINE new == Append(rws, row)
<1>1. new \in Seq(Rows)
  OBVIOUS
<1>2. /\ GrossOf(s)[row] = IF row.sku = s THEN row.gross ELSE 0
      /\ ParentOf(recipe, s)[row] = row.net * Uses(recipe[row.sku], s)
  BY DEF GrossOf, ParentOf
<1>3. /\ Total(Each(GrossOf(s), new)) = Total(Each(GrossOf(s), rws)) + GrossOf(s)[row]
      /\ Total(Each(GrossOf(s), rws)) \in Int
  <2>1. GrossOf(s) \in [Rows -> Int]
    BY WeightTypes
  <2> QED BY <2>1, EachAppended
<1>4. /\ Total(Each(ParentOf(recipe, s), new)) = Total(Each(ParentOf(recipe, s), rws)) + ParentOf(recipe, s)[row]
      /\ Total(Each(ParentOf(recipe, s), rws)) \in Int
  <2>1. ParentOf(recipe, s) \in [Rows -> Int]
    BY WeightTypes
  <2> QED BY <2>1, EachAppended
<1> HIDE DEF new
<1>5. /\ Gross(rws, s) = Total(Each(GrossOf(s), rws)) /\ Gross(new, s) = Total(Each(GrossOf(s), new))
      /\ OfParents(recipe, rws, s) = Total(Each(ParentOf(recipe, s), rws))
      /\ OfParents(recipe, new, s) = Total(Each(ParentOf(recipe, s), new))
  BY <1>1, RowsAre
<1>6. /\ Gross(new, s) = Gross(rws, s) + IF row.sku = s THEN row.gross ELSE 0
      /\ OfParents(recipe, new, s) = OfParents(recipe, rws, s) + row.net * Uses(recipe[row.sku], s)
      /\ Gross(rws, s) \in Int /\ OfParents(recipe, rws, s) \in Int
  BY <1>2, <1>3, <1>4, <1>5
<1> QED BY <1>6 DEF new

\* Frames that are pushed in the place of the top one.
LEMMA WeightReplaced ==
    ASSUME NEW recipe \in Recipes, NEW s \in Items, NEW todo \in Seq(Frames), todo # <<>>,
           NEW new \in Seq(Frames)
    PROVE  /\ Weight(recipe, new \o Tail(todo), s)
                 = Weight(recipe, new, s) + Weight(recipe, todo, s) - WeightOf(recipe, s)[Head(todo)]
           /\ Weight(recipe, new, s) \in Int /\ Weight(recipe, todo, s) \in Int
           /\ WeightOf(recipe, s)[Head(todo)] \in Int
BY WeightTypes, EachReplaced DEF Weight

\* The weight of no frame, and of one.
LEMMA WeightOfNone == ASSUME NEW recipe, NEW s PROVE Weight(recipe, <<>>, s) = 0
BY EachOfNone DEF Weight

\* What one frame stands for.
LEMMA WeightOfOne ==
    ASSUME NEW recipe \in Recipes, NEW s \in Items, NEW f \in Frames
    PROVE  Weight(recipe, <<f>>, s) = WeightOf(recipe, s)[f]
BY WeightTypes, EachOfOne DEF Weight

\* At the start it is what was asked for directly.
LEMMA WeightAsked ==
    ASSUME NEW recipe \in Recipes, NEW s \in Items, NEW w \in Seq(Asked)
    PROVE  /\ [k \in DOMAIN w |-> Frame("visit", w[k].sku, w[k].qty)] \in Seq(Frames)
           /\ Weight(recipe, [k \in DOMAIN w |-> Frame("visit", w[k].sku, w[k].qty)], s) = Direct(w, s)
<1> DEFINE todo == [k \in DOMAIN w |-> Frame("visit", w[k].sku, w[k].qty)]
<1>1. Len(w) \in Nat /\ DOMAIN w = 1..Len(w) /\ \A k \in 1..Len(w) : w[k].sku \in Items /\ w[k].qty \in Nat
  <2>1. Len(w) \in Nat /\ DOMAIN w = 1..Len(w) /\ \A k \in 1..Len(w) : w[k] \in Asked
    BY SeqFacts
  <2> QED BY <2>1 DEF Asked
<1>2. \A k \in DOMAIN w : todo[k] \in Frames
  BY <1>1 DEF Frame, Frames
<1>3. todo \in Seq(Frames) /\ DOMAIN todo = DOMAIN w
  BY <1>1, <1>2
<1>4. \A k \in DOMAIN w : WeightOf(recipe, s)[todo[k]] = IF w[k].sku = s THEN w[k].qty ELSE 0
  BY <1>2 DEF WeightOf, Frame
<1>5. Each(WeightOf(recipe, s), todo) = [k \in DOMAIN w |-> IF w[k].sku = s THEN w[k].qty ELSE 0]
  BY <1>3, <1>4 DEF Each
<1> QED BY <1>3, <1>5 DEF Weight, Direct

\* The components of a bill weigh what the frame that is exploded did.
LEMMA WeightExploded ==
    ASSUME NEW recipe \in Recipes, NEW s \in Items, NEW x \in Items, NEW q \in Nat,
           NEW lines \in BillLines
    PROVE  LET new == [k \in DOMAIN lines |-> Frame("visit", lines[k].sku, q * lines[k].per)]
           IN /\ new \in Seq(Frames)
              /\ Weight(recipe, Append(new, Frame("leave", x, 0)), s) = q * Uses(lines, s)
<1> DEFINE new == [k \in DOMAIN lines |-> Frame("visit", lines[k].sku, q * lines[k].per)]
           used == [k \in DOMAIN lines |-> IF lines[k].sku = s THEN lines[k].per ELSE 0]
           leave == Frame("leave", x, 0)
<1>1. Len(lines) \in Nat /\ DOMAIN lines = 1..Len(lines)
      /\ \A k \in 1..Len(lines) : lines[k].sku \in Items /\ lines[k].per \in Nat
  <2>1. Len(lines) \in Nat /\ DOMAIN lines = 1..Len(lines)
        /\ \A k \in 1..Len(lines) : lines[k] \in [sku : Items, per : Nat]
    BY SeqFacts DEF BillLines
  <2> QED BY <2>1
<1>2. \A k \in DOMAIN lines : new[k] \in Frames
  <2>1. \A n \in Nat : q * n \in Nat
    OBVIOUS
  <2> QED BY <1>1, <2>1 DEF Frame, Frames
<1>3. new \in Seq(Frames) /\ DOMAIN new = DOMAIN lines
  BY <1>1, <1>2
<1>4. leave \in Frames /\ WeightOf(recipe, s)[leave] = 0
  BY DEF Frame, Frames, WeightOf
<1>5. used \in Seq(Int) /\ Len(used) = Len(lines) /\ Total(used) = Uses(lines, s)
  BY <1>1 DEF Uses
<1> DEFINE each == Each(WeightOf(recipe, s), new)
<1>6. each \in Seq(Int) /\ Len(each) = Len(lines)
  <2>1. each = [k \in 1..Len(lines) |-> WeightOf(recipe, s)[new[k]]]
    BY <1>1, <1>3 DEF Each
  <2>2. \A k \in 1..Len(lines) : WeightOf(recipe, s)[new[k]] \in Int
    BY <1>1, <1>2, WeightTypes
  <2> HIDE DEF each, new
  <2> QED BY <2>1, <2>2, <1>1
<1>7. \A k \in DOMAIN lines : each[k] = q * used[k]
  <2> TAKE k \in DOMAIN lines
  <2>1. new[k].op = "visit" /\ new[k].sku = lines[k].sku /\ new[k].qty = q * lines[k].per
    BY DEF Frame
  <2>2. each[k] = IF lines[k].sku = s THEN q * lines[k].per ELSE 0
    BY <2>1, <1>2, <1>3 DEF Each, WeightOf
  <2>3. used[k] = IF lines[k].sku = s THEN lines[k].per ELSE 0
    OBVIOUS
  <2>4. q * 0 = 0
    OBVIOUS
  <2> HIDE DEF used, each, new
  <2> QED BY <2>2, <2>3, <2>4
<1>8. Total(each) = q * Total(used)
  <2>1. DOMAIN used = DOMAIN lines
    OBVIOUS
  <2> HIDE DEF each, used
  <2> QED BY <1>5, <1>6, <1>7, <2>1, TotalOfMultiple
<1>9. Total(Each(WeightOf(recipe, s), Append(new, leave))) = Total(each) + 0 /\ Total(each) \in Int
  <2>1. WeightOf(recipe, s) \in [Frames -> Int]
    BY WeightTypes
  <2> HIDE DEF new, leave
  <2> QED BY <2>1, <1>3, <1>4, EachAppended
<1> HIDE DEF each, used
<1> QED BY <1>3, <1>5, <1>8, <1>9 DEF Weight

\* What requirements are made of, and the equation of the function in Below.
MadeOf(recipe, reqs) ==
    UNION {{<<recipe[y[1]][k].sku, y[2] * recipe[y[1]][k].per>> : k \in DOMAIN recipe[y[1]]} : y \in reqs}
Levels(recipe, x, n, g) == g = [m \in 0..n |-> IF m = 0 THEN {x} ELSE MadeOf(recipe, g[m - 1])]

\* The function in the definition of Below exists.
LEMMA LevelsExist ==
    ASSUME NEW recipe, NEW x, NEW n \in Nat
    PROVE  \E g : Levels(recipe, x, n, g)
<1> DEFINE Has(k) == \E g : Levels(recipe, x, k, g)
           T == {k \in Nat : Has(k)}
<1>1. 0 \in T
  <2> DEFINE g == [m \in 0..0 |-> {x}]
  <2>1. Levels(recipe, x, 0, g)
    BY DEF Levels
  <2> QED BY <2>1
<1>2. ASSUME NEW k \in T PROVE k + 1 \in T
  <2>1. PICK g : Levels(recipe, x, k, g)
    OBVIOUS
  <2> DEFINE Body(f, m) == IF m = 0 THEN {x} ELSE MadeOf(recipe, f[m - 1])
             h == [m \in 0..(k + 1) |-> Body(g, m)]
  <2>2. \A m \in 0..k : h[m] = g[m]
    <3>1. \A m \in 0..k : g[m] = Body(g, m)
      BY <2>1 DEF Levels
    <3> HIDE DEF Body
    <3> QED BY <3>1
  <2>3. \A m \in 0..(k + 1) : m = 0 \/ m - 1 \in 0..k
    OBVIOUS
  <2>4. \A m \in 0..(k + 1) : Body(h, m) = Body(g, m)
    <3> HIDE DEF h
    <3> QED BY <2>2, <2>3
  <2>5. h = [m \in 0..(k + 1) |-> Body(h, m)]
    <3> HIDE DEF Body
    <3> QED BY <2>4
  <2>6. Levels(recipe, x, k + 1, h)
    <3> HIDE DEF h
    <3> QED BY <2>5 DEF Levels
  <2> QED BY <2>6
<1>3. T = Nat
  <2> HIDE DEF Has
  <2> QED BY <1>1, <1>2, Induction
<1> QED BY <1>3

\* The levels below a requirement.
LEMMA BelowIs ==
    ASSUME NEW recipe, NEW x, NEW n \in Nat
    PROVE  /\ Below(recipe, x, n)[0] = {x}
           /\ \A m \in 0..n : m + 1 \in 0..n =>
                 Below(recipe, x, n)[m + 1] = MadeOf(recipe, Below(recipe, x, n)[m])
<1> DEFINE g == CHOOSE g : Levels(recipe, x, n, g)
<1>1. Levels(recipe, x, n, g)
  BY LevelsExist
<1>2. Below(recipe, x, n) = g
  BY DEF Below, Levels, MadeOf
<1> HIDE DEF g
<1>3. \A m \in 0..n : g[m] = IF m = 0 THEN {x} ELSE MadeOf(recipe, g[m - 1])
  BY <1>1 DEF Levels
<1>4. g[0] = {x}
  BY <1>3
<1>5. ASSUME NEW m \in 0..n, m + 1 \in 0..n PROVE g[m + 1] = MadeOf(recipe, g[m])
  <2>1. m + 1 # 0 /\ (m + 1) - 1 = m
    OBVIOUS
  <2> QED BY <2>1, <1>3, <1>5
<1> QED BY <1>2, <1>4, <1>5

\* The component k of a requirement.
Component(recipe, x, k) == <<recipe[x[1]][k].sku, x[2] * recipe[x[1]][k].per>>

\* Whatever requirements are made of is a component of one of them.
LEMMA MadeOfIs ==
    ASSUME NEW recipe, NEW reqs, NEW y
    PROVE  y \in MadeOf(recipe, reqs) <=> \E z \in reqs : \E k \in DOMAIN recipe[z[1]] : y = Component(recipe, z, k)
BY DEF MadeOf, Component

\* What is below a requirement is below one of its components, or is one.
LEMMA BelowOneOf ==
    ASSUME NEW recipe, NEW x, NEW depth \in Nat
    PROVE  \A n \in 0..depth : n + 1 \in 0..depth =>
              \A y \in Below(recipe, x, depth)[n + 1] :
                 \E k \in DOMAIN recipe[x[1]] : y \in Below(recipe, Component(recipe, x, k), depth)[n]
<1> DEFINE Level(z, n) == Below(recipe, z, depth)[n]
           PartOf(k) == Component(recipe, x, k)
           K == DOMAIN recipe[x[1]]
           T == {n \in Nat : n + 1 \in 0..depth => \A y \in Level(x, n + 1) : \E k \in K : y \in Level(PartOf(k), n)}
<1>0. \A z : /\ Level(z, 0) = {z}
             /\ \A m \in 0..depth : m + 1 \in 0..depth => Level(z, m + 1) = MadeOf(recipe, Level(z, m))
  BY BelowIs
<1> HIDE DEF Level
<1>1. 0 \in T
  <2>1. SUFFICES ASSUME 0 + 1 \in 0..depth, NEW y \in Level(x, 0 + 1)
                 PROVE  \E k \in K : y \in Level(PartOf(k), 0)
    OBVIOUS
  <2>2. Level(x, 0 + 1) = MadeOf(recipe, {x})
    <3>1. 0 \in 0..depth
      OBVIOUS
    <3>2. Level(x, 0 + 1) = MadeOf(recipe, Level(x, 0)) /\ Level(x, 0) = {x}
      BY <3>1, <2>1, <1>0
    <3> QED BY <3>2
  <2>3. \E k \in K : y = PartOf(k)
    BY <2>1, <2>2, MadeOfIs
  <2> HIDE DEF PartOf, K
  <2> QED BY <2>3, <1>0
<1>2. ASSUME NEW n \in T PROVE n + 1 \in T
  <2>1. SUFFICES ASSUME (n + 1) + 1 \in 0..depth, NEW y \in Level(x, (n + 1) + 1)
                 PROVE  \E k \in K : y \in Level(PartOf(k), n + 1)
    OBVIOUS
  <2>2. n \in Nat /\ n + 1 \in 0..depth /\ n \in 0..depth
    BY <2>1
  <2>3. y \in MadeOf(recipe, Level(x, n + 1))
    BY <2>1, <2>2, <1>0
  <2>4. PICK z \in Level(x, n + 1) : \E j \in DOMAIN recipe[z[1]] : y = Component(recipe, z, j)
    BY <2>3, MadeOfIs
  <2>5. PICK k \in K : z \in Level(PartOf(k), n)
    BY <2>2, <2>4
  <2>6. y \in MadeOf(recipe, Level(PartOf(k), n))
    <3> HIDE DEF PartOf, K
    <3> QED BY <2>4, <2>5, MadeOfIs
  <2>7. Level(PartOf(k), n + 1) = MadeOf(recipe, Level(PartOf(k), n))
    <3> HIDE DEF PartOf, K
    <3> QED BY <2>2, <1>0
  <2> QED BY <2>5, <2>6, <2>7
<1>3. T = Nat
  <2>1. T \in SUBSET Nat
    OBVIOUS
  <2> HIDE DEF T
  <2> QED BY <2>1, <1>1, <1>2, Induction
<1>4. \A n \in 0..depth : n \in T
  <2> HIDE DEF T
  <2> QED BY <1>3
<1> QED BY <1>4 DEF Level

\* A requirement whose components are covered, with all below them, is covered.
LEMMA CoveredByComponents ==
    ASSUME NEW recipe, NEW spare, NEW x,
           \A k \in DOMAIN recipe[x[1]] :
              /\ Component(recipe, x, k)[2] <= spare[Component(recipe, x, k)[1]]
              /\ CoveredBelow(recipe, spare, Component(recipe, x, k))
    PROVE  CoveredBelow(recipe, spare, x)
<1> DEFINE depth == Cardinality(Items)
<1>0. depth \in Nat
  BY ItemsAssumption, FS_CardinalityType
<1> SUFFICES ASSUME NEW n \in 1..depth, NEW y \in Below(recipe, x, depth)[n] PROVE y[2] <= spare[y[1]]
  BY DEF CoveredBelow
<1>1. n - 1 \in 0..depth /\ (n - 1) + 1 = n /\ n \in 0..depth /\ (n - 1 = 0 \/ n - 1 \in 1..depth)
  BY <1>0
<1>2. PICK k \in DOMAIN recipe[x[1]] : y \in Below(recipe, Component(recipe, x, k), depth)[n - 1]
  <2> HIDE DEF depth
  <2>1. \A m \in 0..depth : m + 1 \in 0..depth =>
              \A v \in Below(recipe, x, depth)[m + 1] :
                 \E k \in DOMAIN recipe[x[1]] : v \in Below(recipe, Component(recipe, x, k), depth)[m]
    BY <1>0, BelowOneOf
  <2> QED BY <1>1, <2>1
<1>3. CASE n - 1 = 0
  <2>1. Below(recipe, Component(recipe, x, k), depth)[0] = {Component(recipe, x, k)}
    BY <1>0, BelowIs
  <2> QED BY <2>1, <1>2, <1>3
<1>4. CASE n - 1 \in 1..depth
  BY <1>2, <1>4 DEF CoveredBelow
<1> QED BY <1>1, <1>3, <1>4

\* What is made of nothing is covered below.
LEMMA CoveredByNothing ==
    ASSUME NEW recipe, NEW spare, NEW x, recipe[x[1]] = <<>>
    PROVE  CoveredBelow(recipe, spare, x)
<1>1. DOMAIN recipe[x[1]] = {}
  OBVIOUS
<1> QED BY <1>1, CoveredByComponents

\* The SKUs a stack will take off the path; a stack on which every frame is of a lower
\* rank than what is left after it; and frames that the stock covers all below.
Leaving(todo) == {todo[j].sku : j \in {i \in DOMAIN todo : todo[i].op = "leave"}}
Down(rank, todo) ==
    \A i, j \in DOMAIN todo :
        i < j /\ todo[j].op = "leave" => rank[todo[i].sku] < rank[todo[j].sku]
Fine(recipe, spare, f) ==
    LET covered == CoveredBelow(recipe, spare, <<f.sku, f.qty>>)
    IN /\ f.op = "visit" => covered
       /\ f.op = "component" => f.qty <= spare[f.sku] /\ covered
AllFine(recipe, spare, todo) == \A k \in DOMAIN todo : Fine(recipe, spare, todo[k])
Ranks == [Items -> 1..Cardinality(Items)]

\* Ranks can be compared.
LEMMA RanksAreNumbers == \A rank \in Ranks, s \in Items : rank[s] \in Int
<1>1. Cardinality(Items) \in Nat
  BY ItemsAssumption, FS_CardinalityType
<1> QED BY <1>1 DEF Ranks

\* The stack after the top frame has been replaced.
LEMMA Replaced ==
    ASSUME NEW todo \in Seq(Frames), todo # <<>>, NEW new \in Seq(Frames)
    PROVE  LET s == new \o Tail(todo)
           IN /\ s \in Seq(Frames) /\ Head(todo) \in Frames /\ Head(todo) = todo[1]
              /\ 1 \in DOMAIN todo /\ DOMAIN s \subseteq Nat /\ DOMAIN todo \subseteq Nat /\ Len(new) \in Nat
              /\ \A i \in DOMAIN new : i \in DOMAIN s /\ s[i] = new[i] /\ i \in Nat /\ i <= Len(new)
              /\ \A i \in DOMAIN todo : i # 1 =>
                    Len(new) + i - 1 \in DOMAIN s /\ s[Len(new) + i - 1] = todo[i]
              /\ \A i \in DOMAIN s :
                    \/ i \in DOMAIN new /\ i <= Len(new) /\ s[i] = new[i]
                    \/ i > Len(new) /\ i - Len(new) + 1 \in DOMAIN todo /\ i - Len(new) + 1 > 1
                          /\ s[i] = todo[i - Len(new) + 1]
<1> DEFINE t == Tail(todo)
           s == new \o t
           n == Len(new)
<1>1. /\ Head(todo) \in Frames /\ t \in Seq(Frames) /\ Len(t) = Len(todo) - 1
      /\ \A i \in 1..Len(t) : t[i] = todo[i + 1]
  BY HeadTailProperties
<1>2. Len(todo) \in Nat /\ Len(todo) > 0 /\ DOMAIN todo = 1..Len(todo) /\ Head(todo) = todo[1]
  OBVIOUS
<1> HIDE DEF t
<1>3. /\ s \in Seq(Frames) /\ Len(s) = n + Len(t)
      /\ \A i \in 1..n + Len(t) : s[i] = IF i <= n THEN new[i] ELSE t[i - n]
  BY <1>1, ConcatProperties
<1>4. n \in Nat /\ DOMAIN new = 1..n
  OBVIOUS
<1> HIDE DEF s, n
<1>5. DOMAIN s = 1..(n + Len(t)) /\ Len(t) \in Nat
  BY <1>1, <1>3, SeqFacts
<1>6. \A i \in DOMAIN new : i \in DOMAIN s /\ s[i] = new[i] /\ i \in Nat /\ i <= n
  BY <1>3, <1>4, <1>5
<1>7. ASSUME NEW i \in DOMAIN todo, i # 1 PROVE n + i - 1 \in DOMAIN s /\ s[n + i - 1] = todo[i]
  <2>1. /\ i \in Nat /\ n + i - 1 \in 1..(n + Len(t)) /\ ~(n + i - 1 <= n)
        /\ (n + i - 1) - n = i - 1 /\ i - 1 \in 1..Len(t) /\ (i - 1) + 1 = i
    BY <1>1, <1>2, <1>4, <1>7
  <2>2. s[n + i - 1] = t[i - 1]
    BY <2>1, <1>3
  <2>3. t[i - 1] = todo[i]
    BY <2>1, <1>1
  <2> QED BY <2>1, <2>2, <2>3, <1>5
<1>8. ASSUME NEW i \in DOMAIN s
      PROVE  \/ i \in DOMAIN new /\ i <= n /\ s[i] = new[i]
             \/ i > n /\ i - n + 1 \in DOMAIN todo /\ i - n + 1 > 1 /\ s[i] = todo[i - n + 1]
  <2>1. i \in 1..(n + Len(t))
    BY <1>5
  <2>2. CASE i <= n
    BY <2>1, <2>2, <1>3, <1>4
  <2>3. CASE ~(i <= n)
    <3>1. i - n \in 1..Len(t) /\ i > n /\ i - n + 1 \in 1..Len(todo) /\ i - n + 1 > 1
      BY <2>1, <2>3, <1>1, <1>2, <1>4, <1>5
    <3>2. s[i] = t[i - n] /\ t[i - n] = todo[i - n + 1]
      BY <3>1, <2>1, <2>3, <1>1, <1>3
    <3> QED BY <3>1, <3>2, <1>2
  <2> QED BY <2>2, <2>3
<1>9. DOMAIN s \subseteq Nat /\ DOMAIN todo \subseteq Nat /\ 1 \in DOMAIN todo
  BY <1>2, <1>4, <1>5
<1> QED BY <1>1, <1>2, <1>3, <1>4, <1>6, <1>7, <1>8, <1>9 DEF s, n, t

\* What is still to be left: all of it, but for the top frame, and what is new.
LEMMA LeavingReplaced ==
    ASSUME NEW todo \in Seq(Frames), todo # <<>>, NEW new \in Seq(Frames)
    PROVE  /\ Leaving(new) \subseteq Leaving(new \o Tail(todo))
           /\ \A x \in Leaving(todo) : \/ x \in Leaving(new \o Tail(todo))
                                       \/ Head(todo).op = "leave" /\ x = Head(todo).sku
<1> DEFINE s == new \o Tail(todo)
<1>1. \A i \in DOMAIN new : i \in DOMAIN s /\ s[i] = new[i]
  BY Replaced
<1>2. \A i \in DOMAIN todo : i # 1 => Len(new) + i - 1 \in DOMAIN s /\ s[Len(new) + i - 1] = todo[i]
  BY Replaced
<1>3. Head(todo) = todo[1]
  BY Replaced
<1> HIDE DEF s
<1>4. Leaving(new) \subseteq Leaving(s)
  BY <1>1 DEF Leaving
<1>5. ASSUME NEW x \in Leaving(todo) PROVE x \in Leaving(s) \/ (Head(todo).op = "leave" /\ x = Head(todo).sku)
  <2>1. PICK i \in DOMAIN todo : todo[i].op = "leave" /\ todo[i].sku = x
    BY DEF Leaving
  <2>2. CASE i = 1
    BY <2>1, <2>2, <1>3
  <2>3. CASE i # 1
    BY <2>1, <2>3, <1>2 DEF Leaving
  <2> QED BY <2>2, <2>3
<1> QED BY <1>4, <1>5 DEF s

\* New frames that descend, from no higher than the top frame, keep the stack descending.
LEMMA DownReplaced ==
    ASSUME NEW todo \in Seq(Frames), todo # <<>>, NEW new \in Seq(Frames),
           NEW rank \in Ranks, Down(rank, todo), Down(rank, new),
           \A k \in DOMAIN new : rank[new[k].sku] <= rank[Head(todo).sku]
    PROVE  Down(rank, new \o Tail(todo))
<1> DEFINE s == new \o Tail(todo)
           n == Len(new)
           PartOf(i) == i - n + 1
<1>1. /\ s \in Seq(Frames) /\ Head(todo) \in Frames /\ Head(todo) = todo[1]
      /\ 1 \in DOMAIN todo /\ DOMAIN s \subseteq Nat /\ DOMAIN todo \subseteq Nat /\ n \in Nat
  BY Replaced
<1>2. \A i \in DOMAIN s :
        \/ i \in DOMAIN new /\ i <= n /\ s[i] = new[i]
        \/ i > n /\ PartOf(i) \in DOMAIN todo /\ PartOf(i) > 1 /\ s[i] = todo[PartOf(i)]
  BY Replaced
<1>3. \A f \in Frames : f.sku \in Items /\ rank[f.sku] \in Int
  BY RanksAreNumbers DEF Frames
<1>4. \A i \in DOMAIN todo : todo[i] \in Frames
  OBVIOUS
<1>5. \A i \in DOMAIN new : new[i] \in Frames
  OBVIOUS
<1> HIDE DEF s, n
<1> SUFFICES ASSUME NEW i \in DOMAIN s, NEW j \in DOMAIN s, i < j, s[j].op = "leave"
             PROVE  rank[s[i].sku] < rank[s[j].sku]
  BY DEF Down, s
<1>6. i \in Nat /\ j \in Nat
  BY <1>1
<1>7. CASE j \in DOMAIN new /\ j <= n /\ s[j] = new[j]
  <2>1. i \in DOMAIN new /\ s[i] = new[i]
    BY <1>1, <1>2, <1>6, <1>7
  <2> QED BY <2>1, <1>7 DEF Down
<1>8. CASE j > n /\ PartOf(j) \in DOMAIN todo /\ PartOf(j) > 1 /\ s[j] = todo[PartOf(j)]
  <2>1. CASE i \in DOMAIN new /\ i <= n /\ s[i] = new[i]
    <3>1. rank[todo[1].sku] < rank[todo[PartOf(j)].sku]
      BY <1>1, <1>8 DEF Down
    <3>2. rank[new[i].sku] <= rank[todo[1].sku]
      BY <1>1, <2>1
    <3>3. rank[new[i].sku] \in Int /\ rank[todo[1].sku] \in Int /\ rank[todo[PartOf(j)].sku] \in Int
      BY <1>1, <1>3, <1>4, <1>5, <1>8, <2>1
    <3> HIDE DEF PartOf
    <3> QED BY <3>1, <3>2, <3>3, <2>1, <1>8
  <2>2. CASE i > n /\ PartOf(i) \in DOMAIN todo /\ PartOf(i) > 1 /\ s[i] = todo[PartOf(i)]
    <3>1. PartOf(i) < PartOf(j)
      BY <1>1, <1>6
    <3> HIDE DEF PartOf
    <3> QED BY <3>1, <2>2, <1>8 DEF Down
  <2> QED BY <2>1, <2>2, <1>2
<1> QED BY <1>2, <1>7, <1>8

\* If what is new covers the top frame, what is on the stack covers what was.
LEMMA FineReplaced ==
    ASSUME NEW todo \in Seq(Frames), todo # <<>>, NEW new \in Seq(Frames), NEW recipe, NEW spare,
           AllFine(recipe, spare, new) => Fine(recipe, spare, Head(todo)),
           AllFine(recipe, spare, new \o Tail(todo))
    PROVE  AllFine(recipe, spare, todo)
<1> DEFINE s == new \o Tail(todo)
<1>1. \A i \in DOMAIN new : i \in DOMAIN s /\ s[i] = new[i]
  BY Replaced
<1>2. \A i \in DOMAIN todo : i # 1 => Len(new) + i - 1 \in DOMAIN s /\ s[Len(new) + i - 1] = todo[i]
  BY Replaced
<1>3. Head(todo) = todo[1]
  BY Replaced
<1> HIDE DEF s
<1>4. AllFine(recipe, spare, s)
  BY DEF s
<1>5. AllFine(recipe, spare, new)
  BY <1>1, <1>4 DEF AllFine
<1>6. ASSUME NEW i \in DOMAIN todo PROVE Fine(recipe, spare, todo[i])
  <2>1. CASE i = 1
    BY <2>1, <1>3, <1>5
  <2>2. CASE i # 1
    BY <2>2, <1>2, <1>4 DEF AllFine
  <2> QED BY <2>1, <2>2
<1> QED BY <1>6 DEF AllFine

PlanCalls == [pc : {"idle", "mrp", "ctp", "done"}, want : Seq(Asked), todo : Seq(Frames),
          path : SUBSET Items, rows : Seq(Rows), short : BOOLEAN, capacity : BOOLEAN,
          status : {"none", "COMPLETED", "ATP_AVAILABLE", "CTP_INSUFFICIENT_INPUTS",
                    "CTP_INFEASIBLE", "CTP_CAPACITY_CONSTRAINED", "CTP_FEASIBLE"}]
PlanTypes ==
    /\ bills \in Seq(Bill)
    /\ stock \in [Items -> [supply : Nat, reserved : Nat]]
    /\ run \in [Runs -> PlanCalls]

\* A call that has not begun or has ended has an empty stack, an answer only one that
\* has ended; and what is on the path is left further down the stack.
Shaped(c) ==
    /\ c.pc \in {"idle", "done"} => c.todo = <<>>
    /\ c.status # "none" => c.pc = "done"
    /\ c.path \subseteq Leaving(c.todo)

\* What a call from undisturbed bills and stock has done so far.
Descends(c, recipe) ==
    c.pc = "mrp" => \A rank \in Ranks : Ranked(recipe, rank) => Down(rank, c.todo)
Balanced(c, recipe) ==
    (c.pc = "mrp" \/ c.status = "COMPLETED") /\ (\E rank \in Ranks : Ranked(recipe, rank)) =>
        /\ \A k \in DOMAIN c.rows : ~c.rows[k].cycle
        /\ \A s \in Items : Gross(c.rows, s) + Weight(recipe, c.todo, s)
                              = Direct(c.want, s) + OfParents(recipe, c.rows, s)
Covering(c, recipe, spare) ==
    LET covered == CoveredBelow(recipe, spare, <<c.want[1].sku, c.want[1].qty>>)
    IN /\ c.pc = "ctp" /\ ~c.short /\ AllFine(recipe, spare, c.todo) => covered
       /\ c.status = "CTP_FEASIBLE" => covered
SoFar(c, recipe, spare) == Descends(c, recipe) /\ Balanced(c, recipe) /\ Covering(c, recipe, spare)

PlanInv ==
    /\ PlanTypes
    /\ \A r \in Runs : /\ Shaped(run[r])
                       /\ r \notin moved /\ OneLatest => SoFar(run[r], Recipe, Spare)

-----------------------------------------------------------------------------
\* What is left of a stock, and what is asked and not covered, is not negative.
LEMMA AtLeastZero == ASSUME NEW x \in Int PROVE Max({0, x}) \in Nat /\ Max({0, x}) >= x
<1>1. \E y \in {0, x} : \A z \in {0, x} : y >= z
  OBVIOUS
<1>2. Max({0, x}) \in {0, x} /\ \A z \in {0, x} : Max({0, x}) >= z
  BY <1>1 DEF Max
<1> QED BY <1>2

\* What a supply leaves open of a quantity.
LEMMA AtMostBoth == ASSUME NEW x \in Nat, NEW y \in Nat PROVE y - Min({x, y}) \in Nat
<1>1. \E v \in {x, y} : \A z \in {x, y} : v <= z
  OBVIOUS
<1>2. Min({x, y}) \in {x, y} /\ \A z \in {x, y} : Min({x, y}) <= z
  BY <1>1 DEF Min
<1> QED BY <1>2

\* What a bill is.
LEMMA BillFacts ==
    ASSUME PlanTypes, NEW i \in DOMAIN bills
    PROVE  bills[i] \in Bill /\ bills[i].lines \in BillLines /\ bills[i].parent \in Items
<1>1. bills[i] \in Bill
  BY DEF PlanTypes
<1> QED BY <1>1 DEF Bill, BillLines

\* The recipes, and what is spare, are read off the bills and the stock.
LEMMA RecipeTypes ==
    ASSUME PlanTypes
    PROVE  /\ Recipe \in Recipes
           /\ \A s \in Items : Latest(s) = {} => Recipe[s] = <<>>
           /\ \A s \in Items : Latest(s) \subseteq DOMAIN bills
           /\ \A s \in Items : OneLatest => \A i \in Latest(s) : Recipe[s] = bills[i].lines
           /\ \A s \in Items : Spare[s] = Available(s) /\ Available(s) \in Nat
<1>1. \A s \in Items : Latest(s) \subseteq DOMAIN bills
  BY DEF Latest
<1>2. \A s \in Items : (IF Latest(s) = {} THEN <<>> ELSE bills[CHOOSE i \in Latest(s) : TRUE].lines) \in BillLines
  <2> TAKE s \in Items
  <2>1. CASE Latest(s) = {}
    BY <2>1 DEF BillLines
  <2>2. CASE Latest(s) # {}
    <3>1. (CHOOSE i \in Latest(s) : TRUE) \in DOMAIN bills
      BY <2>2, <1>1
    <3> QED BY <3>1, <2>2, BillFacts
  <2> QED BY <2>1, <2>2
<1>3. Recipe \in Recipes
  BY <1>2 DEF Recipe, Recipes
<1>4. \A s \in Items : OneLatest => \A i \in Latest(s) : Recipe[s] = bills[i].lines
  BY DEF Recipe, OneLatest
<1>5. ASSUME NEW s \in Items PROVE Spare[s] = Available(s) /\ Available(s) \in Nat
  <2>1. stock[s].supply - stock[s].reserved \in Int
    BY DEF PlanTypes
  <2> QED BY <2>1, AtLeastZero DEF Spare, Available
<1> QED BY <1>1, <1>3, <1>4, <1>5 DEF Recipe

\* What a step of one call does, if it commits nothing another call reads.
LEMMA StepOfOne ==
    ASSUME PlanInv, NEW r \in Runs, NEW c \in PlanCalls,
           run' = [run EXCEPT ![r] = c], UNCHANGED <<bills, stock, moved>>,
           Shaped(c), r \notin moved /\ OneLatest => SoFar(c, Recipe, Spare)
    PROVE  PlanInv'
<1>1. PlanTypes'
  BY DEF PlanInv, PlanTypes
<1>2. Recipe' = Recipe /\ Spare' = Spare /\ (OneLatest' <=> OneLatest)
  BY DEF Recipe, Spare, OneLatest, Latest, Available
<1>3. ASSUME NEW q \in Runs
      PROVE  Shaped(run'[q]) /\ (q \notin moved' /\ OneLatest' => SoFar(run'[q], Recipe', Spare'))
  <2>1. CASE q = r
    <3>1. run'[q] = c
      BY <2>1 DEF PlanInv, PlanTypes
    <3> QED BY <3>1, <2>1, <1>2
  <2>2. CASE q # r
    <3>1. run'[q] = run[q]
      BY <2>2 DEF PlanInv, PlanTypes
    <3> QED BY <3>1, <1>2 DEF PlanInv
  <2> QED BY <2>1, <2>2
<1>4. (\A q \in Runs : /\ Shaped(run[q])
                       /\ q \notin moved /\ OneLatest => SoFar(run[q], Recipe, Spare))'
  BY <1>3
<1> QED BY <1>1, <1>4 DEF PlanInv

\* The call after its top frame has been replaced.
After(c, new, path, rws, short) ==
    [pc |-> c.pc, want |-> c.want, todo |-> new \o Tail(c.todo), path |-> path, rows |-> rws,
     short |-> short, capacity |-> c.capacity, status |-> c.status]

\* What a call is.
LEMMA CallIs ==
    ASSUME NEW c \in PlanCalls
    PROVE  /\ c = [pc |-> c.pc, want |-> c.want, todo |-> c.todo, path |-> c.path, rows |-> c.rows,
                   short |-> c.short, capacity |-> c.capacity, status |-> c.status]
           /\ c.want \in Seq(Asked) /\ c.todo \in Seq(Frames) /\ c.path \in SUBSET Items
           /\ c.rows \in Seq(Rows) /\ c.short \in BOOLEAN
BY DEF PlanCalls

\* A step that replaces the top frame of a call writes that call and nothing else.
LEMMA ReplaceIs ==
    ASSUME PlanInv, NEW r \in Runs, NEW new, NEW path, NEW rws, NEW short,
           Replace(r, new, path, rws, short), run[r].todo # <<>>,
           new \in Seq(Frames), path \in SUBSET Items, rws \in Seq(Rows), short \in BOOLEAN
    PROVE  /\ After(run[r], new, path, rws, short) \in PlanCalls
           /\ run' = [run EXCEPT ![r] = After(run[r], new, path, rws, short)]
           /\ UNCHANGED <<bills, stock, moved>>
<1> DEFINE c == run[r]
<1>1. c \in PlanCalls /\ run \in [Runs -> PlanCalls]
  BY DEF PlanInv, PlanTypes
<1>2. new \o Tail(c.todo) \in Seq(Frames)
  BY <1>1, CallIs, Replaced
<1>3. After(c, new, path, rws, short) \in PlanCalls
  BY <1>1, <1>2 DEF After, PlanCalls
<1>4. run' = [run EXCEPT ![r].todo = new \o Tail(@), ![r].path = path, ![r].rows = rws, ![r].short = short]
      /\ UNCHANGED <<bills, stock, moved>>
  BY DEF Replace
<1>5. run'[r] = After(c, new, path, rws, short)
  <2>1. run'[r] = [c EXCEPT !.todo = new \o Tail(@), !.path = path, !.rows = rws, !.short = short]
    BY <1>1, <1>4
  <2>2. c = [pc |-> c.pc, want |-> c.want, todo |-> c.todo, path |-> c.path, rows |-> c.rows,
             short |-> c.short, capacity |-> c.capacity, status |-> c.status]
    BY <1>1, CallIs
  <2> HIDE DEF c
  <2> QED BY <2>1, <2>2 DEF After
<1>6. run' \in [Runs -> PlanCalls] /\ \A q \in Runs : q # r => run'[q] = run[q]
  <2>1. \A q \in Runs : q # r => run'[q] = run[q]
    BY <1>1, <1>4
  <2>2. run' = [q \in Runs |-> run'[q]]
    BY <1>1, <1>4
  <2> HIDE DEF c
  <2> QED BY <2>1, <2>2, <1>1, <1>3, <1>5
<1> QED BY <1>1, <1>3, <1>4, <1>5, <1>6

\* The steps of an explosion keep the shape of a call that has not ended.
LEMMA AfterShaped ==
    ASSUME NEW c \in PlanCalls, Shaped(c), c.todo # <<>>, NEW new \in Seq(Frames), NEW path,
           NEW rws, NEW short,
           \A x \in path : \/ x \in c.path /\ (Head(c.todo).op = "leave" => x # Head(c.todo).sku)
                           \/ x \in Leaving(new)
    PROVE  Shaped(After(c, new, path, rws, short))
<1>1. c.pc \notin {"idle", "done"} /\ c.status = "none"
  BY DEF Shaped
<1>2. c.todo \in Seq(Frames)
  BY CallIs
<1>3. path \subseteq Leaving(new \o Tail(c.todo))
  BY <1>2, LeavingReplaced DEF Shaped
<1> QED BY <1>1, <1>3 DEF Shaped, After

\* Sums over rows and frames are integers.
LEMMA RowSums ==
    ASSUME NEW recipe \in Recipes, NEW rws \in Seq(Rows), NEW s \in Items
    PROVE  Gross(rws, s) \in Int /\ OfParents(recipe, rws, s) \in Int
<1>1. <<>> \in Seq(Rows) /\ GrossOf(s) \in [Rows -> Int] /\ ParentOf(recipe, s) \in [Rows -> Int]
  BY WeightTypes
<1>2. Each(GrossOf(s), rws) \in Seq(Int)
  BY <1>1, EachOfTwo
<1>3. Each(ParentOf(recipe, s), rws) \in Seq(Int)
  BY <1>1, EachOfTwo
<1> QED BY <1>2, <1>3, TotalInt, RowsAre

\* What a stack stands for is a number.
LEMMA WeightInt ==
    ASSUME NEW recipe \in Recipes, NEW s \in Items, NEW todo \in Seq(Frames)
    PROVE  Weight(recipe, todo, s) \in Int
<1>1. <<>> \in Seq(Frames) /\ WeightOf(recipe, s) \in [Frames -> Int]
  BY WeightTypes
<1>2. Each(WeightOf(recipe, s), todo) \in Seq(Int)
  BY <1>1, EachOfTwo
<1> QED BY <1>2, TotalInt DEF Weight


\* The call whose top frame a step takes off.
LEMMA TopFacts ==
    ASSUME PlanInv, NEW r \in Runs, NEW p, NEW op, Top(r, p, op)
    PROVE  /\ run[r] \in PlanCalls /\ Shaped(run[r]) /\ run[r].pc = p /\ run[r].status = "none"
           /\ run[r].todo # <<>> /\ run[r].todo \in Seq(Frames) /\ run[r].path \in SUBSET Items
           /\ run[r].rows \in Seq(Rows) /\ run[r].short \in BOOLEAN
           /\ Head(run[r].todo) \in Frames /\ Head(run[r].todo) = run[r].todo[1]
           /\ Head(run[r].todo).op = op
           /\ Head(run[r].todo).sku \in Items /\ Head(run[r].todo).qty \in Nat
           /\ Recipe \in Recipes
           /\ (r \notin moved /\ OneLatest => SoFar(run[r], Recipe, Spare))
<1>1. run[r] \in PlanCalls /\ Shaped(run[r]) /\ Recipe \in Recipes
  BY RecipeTypes DEF PlanInv, PlanTypes
<1>2. run[r].todo # <<>> /\ run[r].pc = p /\ Head(run[r].todo).op = op
  BY DEF Top
<1>3. run[r].status = "none"
  BY <1>1, <1>2 DEF Shaped
<1>4. /\ run[r].todo \in Seq(Frames) /\ run[r].path \in SUBSET Items
      /\ run[r].rows \in Seq(Rows) /\ run[r].short \in BOOLEAN
  BY <1>1, CallIs
<1>5. Head(run[r].todo) \in Frames /\ Head(run[r].todo) = run[r].todo[1]
  BY <1>2, <1>4, Replaced
<1>6. Head(run[r].todo).sku \in Items /\ Head(run[r].todo).qty \in Nat
  BY <1>5 DEF Frames
<1> QED BY <1>1, <1>2, <1>3, <1>4, <1>5, <1>6 DEF PlanInv

\* In an explosion that descends no SKU is met again below itself.
LEMMA NoCycle ==
    ASSUME NEW c \in PlanCalls, Shaped(c), c.todo # <<>>, Head(c.todo).op # "leave",
           NEW rank \in Ranks, Down(rank, c.todo)
    PROVE  Head(c.todo).sku \notin c.path
<1>1. c.todo \in Seq(Frames)
  BY CallIs
<1>2. Head(c.todo) = c.todo[1] /\ 1 \in DOMAIN c.todo /\ Head(c.todo) \in Frames /\ DOMAIN c.todo = 1..Len(c.todo)
  BY <1>1, Replaced, SeqFacts
<1>3. SUFFICES ASSUME Head(c.todo).sku \in c.path PROVE FALSE
  OBVIOUS
<1>4. PICK j \in DOMAIN c.todo : c.todo[j].op = "leave" /\ c.todo[j].sku = Head(c.todo).sku
  BY <1>3 DEF Shaped, Leaving
<1>5. j # 1 /\ 1 < j
  BY <1>1, <1>2, <1>4
<1>6. rank[c.todo[1].sku] < rank[c.todo[1].sku]
  BY <1>2, <1>4, <1>5 DEF Down
<1>7. rank[c.todo[1].sku] \in Int
  BY <1>2, RanksAreNumbers DEF Frames
<1> QED BY <1>6, <1>7

\* A step of an MRP run that puts new frames in the place of the top one keeps what has
\* been done so far in balance, if what is new requires what the top frame did.
LEMMA MrpStep ==
    ASSUME NEW c \in PlanCalls, c.pc = "mrp", c.status = "none", c.todo # <<>>, NEW recipe \in Recipes,
           NEW spare, SoFar(c, recipe, spare), NEW new \in Seq(Frames), NEW path,
           NEW rws \in Seq(Rows),
           \A rank \in Ranks : Ranked(recipe, rank) =>
              /\ Down(rank, new)
              /\ \A k \in DOMAIN new : rank[new[k].sku] <= rank[Head(c.todo).sku],
           (\E rank \in Ranks : Ranked(recipe, rank)) =>
              /\ \A k \in DOMAIN rws : ~rws[k].cycle
              /\ \A s \in Items :
                    Gross(rws, s) + Weight(recipe, new, s) - WeightOf(recipe, s)[Head(c.todo)]
                       - OfParents(recipe, rws, s) = Gross(c.rows, s) - OfParents(recipe, c.rows, s)
    PROVE  SoFar(After(c, new, path, rws, c.short), recipe, spare)
<1> DEFINE d == After(c, new, path, rws, c.short)
<1>1. c.todo \in Seq(Frames) /\ c.rows \in Seq(Rows) /\ c.want \in Seq(Asked)
  BY CallIs
<1>2. /\ d.pc = "mrp" /\ d.status = "none" /\ d.todo = new \o Tail(c.todo) /\ d.rows = rws
      /\ d.want = c.want
  BY DEF After
<1> HIDE DEF d
<1>3. Descends(d, recipe)
  <2> SUFFICES ASSUME NEW rank \in Ranks, Ranked(recipe, rank) PROVE Down(rank, new \o Tail(c.todo))
    BY <1>2 DEF Descends
  <2>1. Down(rank, c.todo)
    BY DEF SoFar, Descends
  <2> QED BY <2>1, <1>1, DownReplaced
<1>4. Balanced(d, recipe)
  <2> SUFFICES ASSUME \E rank \in Ranks : Ranked(recipe, rank), NEW s \in Items
               PROVE  /\ \A k \in DOMAIN rws : ~rws[k].cycle
                      /\ Gross(rws, s) + Weight(recipe, new \o Tail(c.todo), s)
                            = Direct(c.want, s) + OfParents(recipe, rws, s)
    BY <1>2 DEF Balanced
  <2>1. Gross(c.rows, s) + Weight(recipe, c.todo, s) = Direct(c.want, s) + OfParents(recipe, c.rows, s)
    BY DEF SoFar, Balanced
  <2>2. /\ Weight(recipe, new \o Tail(c.todo), s)
             = Weight(recipe, new, s) + Weight(recipe, c.todo, s) - WeightOf(recipe, s)[Head(c.todo)]
        /\ Weight(recipe, new, s) \in Int /\ Weight(recipe, c.todo, s) \in Int
        /\ WeightOf(recipe, s)[Head(c.todo)] \in Int
    BY <1>1, WeightReplaced
  <2>3. /\ Gross(c.rows, s) \in Int /\ OfParents(recipe, c.rows, s) \in Int
        /\ Gross(rws, s) \in Int /\ OfParents(recipe, rws, s) \in Int /\ Direct(c.want, s) \in Int
    BY <1>1, RowSums, WeightAsked, WeightInt
  <2>4. Gross(rws, s) + Weight(recipe, new, s) - WeightOf(recipe, s)[Head(c.todo)]
                       - OfParents(recipe, rws, s) = Gross(c.rows, s) - OfParents(recipe, c.rows, s)
    OBVIOUS
  <2>5. \A k \in DOMAIN rws : ~rws[k].cycle
    OBVIOUS
  <2>6. Gross(rws, s) + Weight(recipe, new \o Tail(c.todo), s)
          = Direct(c.want, s) + OfParents(recipe, rws, s)
    <3> DEFINE g0 == Gross(c.rows, s)  p0 == OfParents(recipe, c.rows, s)
               g1 == Gross(rws, s)  p1 == OfParents(recipe, rws, s)
               n == Weight(recipe, new, s)  w == Weight(recipe, c.todo, s)
               h == WeightOf(recipe, s)[Head(c.todo)]
               v == Weight(recipe, new \o Tail(c.todo), s)  a == Direct(c.want, s)
    <3>1. g0 + w = a + p0 /\ v = n + w - h /\ g1 + n - h - p1 = g0 - p0
      BY <2>1, <2>2, <2>4
    <3>2. /\ g0 \in Int /\ p0 \in Int /\ g1 \in Int /\ p1 \in Int /\ n \in Int /\ w \in Int
          /\ h \in Int /\ a \in Int
      BY <2>2, <2>3
    <3> HIDE DEF g0, p0, g1, p1, n, w, h, v, a
    <3>3. g1 + v = a + p1
      BY <3>1, <3>2
    <3> QED BY <3>3 DEF g1, v, a, p1
  <2> QED BY <2>5, <2>6
<1>5. Covering(d, recipe, spare)
  BY <1>2 DEF Covering
<1> QED BY <1>3, <1>4, <1>5 DEF SoFar, d

\* A visit writes the row of its SKU and leaves its net requirement to be exploded.
LEMMA MrpVisitPreserves ==
    ASSUME PlanInv, NEW r \in Runs, MrpVisit(r)
    PROVE  PlanInv'
<1> DEFINE c == run[r]
           f == Head(c.todo)
           cycle == f.sku \in c.path
           net == IF cycle THEN f.qty ELSE Max({0, f.qty - stock[f.sku].supply})
           row == [sku |-> f.sku, gross |-> f.qty, net |-> net, cycle |-> cycle]
           none == cycle \/ net = 0
           new == IF none THEN <<>> ELSE <<Frame("explode", f.sku, net)>>
           rws == Append(c.rows, row)
           d == After(c, new, c.path, rws, c.short)
<1>0. Top(r, "mrp", "visit") /\ Replace(r, new, c.path, rws, c.short)
  BY DEF MrpVisit
<1>1. /\ c \in PlanCalls /\ Shaped(c) /\ c.pc = "mrp" /\ c.status = "none"
      /\ c.todo # <<>> /\ c.todo \in Seq(Frames) /\ c.path \in SUBSET Items
      /\ c.rows \in Seq(Rows) /\ c.short \in BOOLEAN
      /\ f \in Frames /\ f = c.todo[1] /\ f.op = "visit" /\ f.sku \in Items /\ f.qty \in Nat
      /\ Recipe \in Recipes /\ (r \notin moved /\ OneLatest => SoFar(c, Recipe, Spare))
  BY <1>0, TopFacts
<1>2. net \in Nat
  <2>1. f.qty - stock[f.sku].supply \in Int
    BY <1>1 DEF PlanInv, PlanTypes
  <2> QED BY <2>1, <1>1, AtLeastZero
<1>3. row \in Rows /\ rws \in Seq(Rows)
  BY <1>1, <1>2 DEF Rows
<1>4. new \in Seq(Frames) /\ \A k \in DOMAIN new : k = 1 /\ new[k] = Frame("explode", f.sku, net)
  <2> DEFINE e == Frame("explode", f.sku, net)
  <2>1. e \in Frames
    <3> HIDE DEF net
    <3> QED BY <1>1, <1>2 DEF Frame, Frames
  <2> HIDE DEF e
  <2>2. new = IF none THEN <<>> ELSE <<e>>
    BY DEF e
  <2> HIDE DEF new
  <2>3. new \in Seq(Frames) /\ \A k \in DOMAIN new : k = 1 /\ new[k] = e
    BY <2>1, <2>2
  <2> QED BY <2>3 DEF e
<1>5. d \in PlanCalls /\ run' = [run EXCEPT ![r] = d] /\ UNCHANGED <<bills, stock, moved>>
  <2> HIDE DEF c, new, rws
  <2> QED BY <1>0, <1>1, <1>3, <1>4, ReplaceIs DEF c
<1>6. Shaped(d)
  <2> HIDE DEF new, rws
  <2> QED BY <1>1, <1>3, <1>4, AfterShaped
<1>7. ASSUME r \notin moved, OneLatest PROVE SoFar(d, Recipe, Spare)
  <2>1. \A rank \in Ranks : Ranked(Recipe, rank) =>
          /\ Down(rank, new) /\ \A k \in DOMAIN new : rank[new[k].sku] <= rank[f.sku]
    <3> TAKE rank \in Ranks
    <3> HIDE DEF new
    <3>1. Down(rank, new)
      BY <1>4 DEF Down
    <3>2. \A k \in DOMAIN new : new[k].sku = f.sku
      BY <1>4 DEF Frame
    <3>3. rank[f.sku] \in Int
      BY <1>1, RanksAreNumbers
    <3> HIDE DEF f
    <3> QED BY <3>1, <3>2, <3>3
  <2>2. ASSUME NEW rank \in Ranks, Ranked(Recipe, rank)
        PROVE  /\ \A k \in DOMAIN rws : ~rws[k].cycle
               /\ \A s \in Items :
                    Gross(rws, s) + Weight(Recipe, new, s) - WeightOf(Recipe, s)[f]
                       - OfParents(Recipe, rws, s) = Gross(c.rows, s) - OfParents(Recipe, c.rows, s)
    <3>1. ~cycle
      <4>1. Down(rank, c.todo)
        BY <1>1, <1>7, <2>2 DEF SoFar, Descends
      <4> QED BY <4>1, <1>1, NoCycle
    <3>2. \A k \in DOMAIN rws : ~rws[k].cycle
      <4>1. \A k \in DOMAIN c.rows : ~c.rows[k].cycle
        BY <1>1, <1>7, <2>2 DEF SoFar, Balanced
      <4>2. \A k \in DOMAIN rws : rws[k] = row \/ (k \in DOMAIN c.rows /\ rws[k] = c.rows[k])
        <5> HIDE DEF row
        <5> QED BY <1>1, <1>3
      <4>3. ~row.cycle
        BY <3>1
      <4> HIDE DEF row, rws
      <4> QED BY <4>1, <4>2, <4>3
    <3>3. ASSUME NEW s \in Items
          PROVE  Gross(rws, s) + Weight(Recipe, new, s) - WeightOf(Recipe, s)[f]
                   - OfParents(Recipe, rws, s) = Gross(c.rows, s) - OfParents(Recipe, c.rows, s)
      <4> DEFINE g == IF f.sku = s THEN f.qty ELSE 0
                 u == net * Uses(Recipe[f.sku], s)
      <4>1. /\ Gross(rws, s) = Gross(c.rows, s) + IF row.sku = s THEN row.gross ELSE 0
            /\ OfParents(Recipe, rws, s) = OfParents(Recipe, c.rows, s) + row.net * Uses(Recipe[row.sku], s)
            /\ Gross(c.rows, s) \in Int /\ OfParents(Recipe, c.rows, s) \in Int
        <5> HIDE DEF row
        <5> QED BY <1>1, <1>3, RowAdded
      <4>2. row.sku = f.sku /\ row.gross = f.qty /\ row.net = net
        OBVIOUS
      <4>3. WeightOf(Recipe, s)[f] = g
        BY <1>1 DEF WeightOf
      <4>4. u \in Int /\ g \in Int
        <5>1. Uses(Recipe[f.sku], s) \in Int
          BY <1>1, UsesType DEF Recipes
        <5> HIDE DEF net
        <5> QED BY <5>1, <1>1, <1>2
      <4>5. Weight(Recipe, new, s) = u
        <5>1. CASE net = 0
          <6>1. new = <<>> /\ u = 0
            <7>1. Uses(Recipe[f.sku], s) \in Int
              BY <1>1, UsesType DEF Recipes
            <7>2. 0 * Uses(Recipe[f.sku], s) = 0
              BY <7>1
            <7> QED BY <5>1, <7>2
          <6> HIDE DEF new, u
          <6> QED BY <6>1, WeightOfNone
        <5>2. CASE net # 0
          <6> DEFINE e == Frame("explode", f.sku, net)
          <6>1. new = <<e>>
            BY <5>2, <3>1
          <6>2. e \in Frames /\ e.op = "explode" /\ e.sku = f.sku /\ e.qty = net
            <7> HIDE DEF net
            <7> QED BY <1>1, <1>2 DEF Frame, Frames
          <6> HIDE DEF e, new, net
          <6>3. Weight(Recipe, <<e>>, s) = WeightOf(Recipe, s)[e]
            BY <1>1, <6>2, WeightOfOne
          <6>4. WeightOf(Recipe, s)[e] = u
            BY <6>2 DEF WeightOf
          <6> QED BY <6>1, <6>3, <6>4
        <5> QED BY <5>1, <5>2
      <4>6. Gross(rws, s) = Gross(c.rows, s) + g /\ OfParents(Recipe, rws, s) = OfParents(Recipe, c.rows, s) + u
        <5> HIDE DEF row, rws, net
        <5> QED BY <4>1, <4>2
      <4> HIDE DEF g, u, rws, new, net
      <4> QED BY <4>1, <4>3, <4>4, <4>5, <4>6
    <3> QED BY <3>2, <3>3
  <2>3. SoFar(c, Recipe, Spare)
    BY <1>1, <1>7
  <2> HIDE DEF new, rws, net, row
  <2> QED BY <2>1, <2>2, <2>3, <1>1, <1>3, <1>4, MrpStep
<1> HIDE DEF d, c
<1> QED BY <1>5, <1>6, <1>7, StepOfOne

\* The frames of the components of a bill, with the one that takes its SKU off the path.
Opened(i, op, f) == Append(Components(i, op, f.qty), Frame("leave", f.sku, 0))

\* One frame for every line, then the one that leaves f.
Opens(lines, op, f, new) ==
    /\ lines \in BillLines /\ new \in Seq(Frames) /\ f.sku \in Leaving(new)
    /\ \A k \in DOMAIN lines :
          /\ k \in DOMAIN new /\ new[k].op = op /\ new[k].sku = lines[k].sku
          /\ new[k].qty = f.qty * lines[k].per /\ new[k].sku \in Items
    /\ \A j \in DOMAIN new :
          /\ j \in Nat
          /\ \/ new[j].op = "leave" /\ new[j].sku = f.sku /\ \A k \in DOMAIN new : k <= j
             \/ j \in DOMAIN lines /\ new[j].op = op /\ new[j].sku = lines[j].sku

\* They come one for each line, and the one that leaves comes last.
LEMMA OpenedFacts ==
    ASSUME PlanInv, NEW s \in Items, NEW i \in Latest(s), NEW f \in Frames,
           NEW op \in {"visit", "component"}
    PROVE  Opens(bills[i].lines, op, f, Opened(i, op, f))
<1> DEFINE lines == bills[i].lines
           front == Components(i, op, f.qty)
           leave == Frame("leave", f.sku, 0)
           new == Append(front, leave)
<1>1. lines \in BillLines
  BY RecipeTypes, BillFacts DEF PlanInv
<1>2. Len(lines) \in Nat /\ DOMAIN lines = 1..Len(lines)
      /\ \A k \in DOMAIN lines : lines[k].sku \in Items /\ lines[k].per \in Nat
  <2>1. Len(lines) \in Nat /\ DOMAIN lines = 1..Len(lines)
        /\ \A k \in 1..Len(lines) : lines[k] \in [sku : Items, per : Nat]
    BY <1>1, SeqFacts DEF BillLines
  <2> QED BY <2>1
<1>3. f.sku \in Items /\ f.qty \in Nat
  BY DEF Frames
<1>4. front = [k \in DOMAIN lines |-> Frame(op, lines[k].sku, f.qty * lines[k].per)]
  BY DEF Components
<1> HIDE DEF lines, front
<1>5. \A k \in DOMAIN lines : /\ front[k] \in Frames /\ front[k].op = op /\ front[k].sku = lines[k].sku
                              /\ front[k].qty = f.qty * lines[k].per
  <2>1. \A n \in Nat : f.qty * n \in Nat
    BY <1>3
  <2> QED BY <1>2, <1>4, <2>1 DEF Frame, Frames
<1>6. front \in Seq(Frames) /\ Len(front) = Len(lines) /\ DOMAIN front = 1..Len(lines)
  <2>1. front = [k \in 1..Len(lines) |-> front[k]]
    BY <1>2, <1>4
  <2>2. \A k \in 1..Len(lines) : front[k] \in Frames
    BY <1>2, <1>5
  <2> QED BY <1>2, <2>1, <2>2
<1>7. leave \in Frames /\ leave.op = "leave" /\ leave.sku = f.sku
  BY <1>3 DEF Frame, Frames
<1> HIDE DEF leave
<1>8. /\ new \in Seq(Frames) /\ Len(new) = Len(lines) + 1 /\ DOMAIN new = 1..(Len(lines) + 1)
      /\ new[Len(lines) + 1] = leave /\ \A k \in 1..Len(lines) : new[k] = front[k]
  BY <1>2, <1>6, <1>7
<1>9. new = Opened(i, op, f)
  BY DEF Opened, leave, front
<1> HIDE DEF new
<1>10. f.sku \in Leaving(new)
  <2>1. Len(lines) + 1 \in DOMAIN new
    BY <1>2, <1>8
  <2> QED BY <2>1, <1>7, <1>8 DEF Leaving
<1>11. \A k \in DOMAIN lines : /\ k \in DOMAIN new /\ new[k].op = op /\ new[k].sku = lines[k].sku
                               /\ new[k].qty = f.qty * lines[k].per /\ new[k].sku \in Items
  BY <1>2, <1>5, <1>8
<1>12. ASSUME NEW j \in DOMAIN new
       PROVE  /\ j \in Nat
              /\ \/ new[j].op = "leave" /\ new[j].sku = f.sku /\ \A k \in DOMAIN new : k <= j
                 \/ j \in DOMAIN lines /\ new[j].op = op /\ new[j].sku = lines[j].sku
  <2>1. j \in Nat /\ (j = Len(lines) + 1 \/ j \in DOMAIN lines)
    BY <1>2, <1>8
  <2>2. CASE j = Len(lines) + 1
    BY <2>2, <1>2, <1>7, <1>8
  <2>3. CASE j \in DOMAIN lines
    BY <2>3, <2>1, <1>11
  <2> QED BY <2>1, <2>2, <2>3
<1>13. Opens(lines, op, f, new)
  BY <1>1, <1>8, <1>10, <1>11, <1>12 DEF Opens
<1> QED BY <1>9, <1>13 DEF lines

\* An explosion passes a net requirement on to the components, or drops it with no bill.
LEMMA MrpExplodePreserves ==
    ASSUME PlanInv, NEW r \in Runs, MrpExplode(r)
    PROVE  PlanInv'
<1> DEFINE c == run[r]
           f == Head(c.todo)
<1>0. Top(r, "mrp", "explode")
  BY DEF MrpExplode
<1>1. /\ c \in PlanCalls /\ Shaped(c) /\ c.pc = "mrp" /\ c.status = "none"
      /\ c.todo # <<>> /\ c.todo \in Seq(Frames) /\ c.path \in SUBSET Items
      /\ c.rows \in Seq(Rows) /\ c.short \in BOOLEAN
      /\ f \in Frames /\ f = c.todo[1] /\ f.op = "explode" /\ f.sku \in Items /\ f.qty \in Nat
      /\ Recipe \in Recipes /\ (r \notin moved /\ OneLatest => SoFar(c, Recipe, Spare))
  BY <1>0, TopFacts
<1>2. \A s \in Items : /\ WeightOf(Recipe, s)[f] = f.qty * Uses(Recipe[f.sku], s)
                       /\ Gross(c.rows, s) \in Int /\ OfParents(Recipe, c.rows, s) \in Int
  <2>1. \A s \in Items : WeightOf(Recipe, s)[f] = f.qty * Uses(Recipe[f.sku], s)
    BY <1>1 DEF WeightOf
  <2>2. \A s \in Items : Gross(c.rows, s) \in Int /\ OfParents(Recipe, c.rows, s) \in Int
    BY <1>1, RowSums
  <2> QED BY <2>1, <2>2
<1>3. \A s \in Items : f.qty * Uses(Recipe[f.sku], s) \in Int
  <2>1. \A s \in Items : Uses(Recipe[f.sku], s) \in Int
    BY <1>1, UsesType DEF Recipes
  <2> QED BY <2>1, <1>1
\* It is enough that what is pushed weighs what the frame did, and descends from it.
<1>4. ASSUME NEW new \in Seq(Frames), NEW path \in SUBSET Items,
             Replace(r, new, path, c.rows, c.short),
             \A x \in path : x \in c.path \/ x \in Leaving(new),
             OneLatest => /\ \A s \in Items : Weight(Recipe, new, s) = f.qty * Uses(Recipe[f.sku], s)
                          /\ \A rank \in Ranks : Ranked(Recipe, rank) =>
                                /\ Down(rank, new)
                                /\ \A k \in DOMAIN new : rank[new[k].sku] <= rank[f.sku]
      PROVE  PlanInv'
  <2> DEFINE d == After(c, new, path, c.rows, c.short)
  <2>1. d \in PlanCalls /\ run' = [run EXCEPT ![r] = d] /\ UNCHANGED <<bills, stock, moved>>
    <3> HIDE DEF c
    <3> QED BY <1>1, <1>4, ReplaceIs DEF c
  <2>2. Shaped(d)
    <3> HIDE DEF c
    <3> QED BY <1>1, <1>4, AfterShaped
  <2>3. ASSUME r \notin moved, OneLatest PROVE SoFar(d, Recipe, Spare)
    <3>1. SoFar(c, Recipe, Spare)
      BY <1>1, <2>3
    <3>2. \A rank \in Ranks : Ranked(Recipe, rank) =>
            /\ Down(rank, new) /\ \A k \in DOMAIN new : rank[new[k].sku] <= rank[f.sku]
      BY <1>4, <2>3
    <3>3. ASSUME \E rank \in Ranks : Ranked(Recipe, rank)
          PROVE  \A k \in DOMAIN c.rows : ~c.rows[k].cycle
      BY <3>1, <3>3, <1>1 DEF SoFar, Balanced
    <3>4. \A s \in Items :
            Gross(c.rows, s) + Weight(Recipe, new, s) - WeightOf(Recipe, s)[f]
              - OfParents(Recipe, c.rows, s) = Gross(c.rows, s) - OfParents(Recipe, c.rows, s)
      <4> TAKE s \in Items
      <4> DEFINE u == f.qty * Uses(Recipe[f.sku], s)
      <4>1. Weight(Recipe, new, s) = u /\ WeightOf(Recipe, s)[f] = u /\ u \in Int
        BY <1>2, <1>3, <1>4, <2>3
      <4>2. Gross(c.rows, s) \in Int /\ OfParents(Recipe, c.rows, s) \in Int
        BY <1>2
      <4> HIDE DEF u, c
      <4> QED BY <4>1, <4>2
    <3> HIDE DEF c
    <3> QED BY <3>1, <3>2, <3>3, <3>4, <1>1, MrpStep
  <2> HIDE DEF d, c
  <2> QED BY <2>1, <2>2, <2>3, StepOfOne
<1>5. CASE Latest(f.sku) = {} /\ Replace(r, <<>>, c.path, c.rows, c.short)
  <2>1. <<>> \in Seq(Frames) /\ DOMAIN <<>> = {}
    OBVIOUS
  <2>2. \A s \in Items : Weight(Recipe, <<>>, s) = f.qty * Uses(Recipe[f.sku], s)
    <3> TAKE s \in Items
    <3>1. Recipe[f.sku] = <<>>
      BY <1>1, <1>5, RecipeTypes DEF PlanInv
    <3>2. Uses(<<>>, s) = 0
      <4>1. [k \in DOMAIN <<>> |-> IF <<>>[k].sku = s THEN <<>>[k].per ELSE 0] = <<>>
        OBVIOUS
      <4> QED BY <4>1, TotalOfNone DEF Uses
    <3>3. f.qty * 0 = 0
      BY <1>1
    <3> QED BY <3>1, <3>2, <3>3, WeightOfNone
  <2>3. \A rank \in Ranks : Down(rank, <<>>) /\ \A k \in DOMAIN <<>> : rank[<<>>[k].sku] <= rank[f.sku]
    BY <2>1 DEF Down
  <2> HIDE DEF c
  <2> QED BY <2>1, <2>2, <2>3, <1>1, <1>4, <1>5
<1>6. ASSUME NEW i \in Latest(f.sku), Replace(r, Opened(i, "visit", f), c.path \cup {f.sku}, c.rows, c.short)
      PROVE  PlanInv'
  <2> DEFINE new == Opened(i, "visit", f)
             lines == bills[i].lines
  <2>1. /\ lines \in BillLines /\ new \in Seq(Frames) /\ f.sku \in Leaving(new)
        /\ \A k \in DOMAIN lines :
              /\ k \in DOMAIN new /\ new[k].op = "visit" /\ new[k].sku = lines[k].sku
              /\ new[k].qty = f.qty * lines[k].per /\ new[k].sku \in Items
        /\ \A j \in DOMAIN new : /\ j \in Nat
                                 /\ \/ new[j].op = "leave" /\ new[j].sku = f.sku
                                       /\ \A k \in DOMAIN new : k <= j
                                    \/ j \in DOMAIN lines /\ new[j].op = "visit"
                                       /\ new[j].sku = lines[j].sku
    <3>1. Opens(lines, "visit", f, new)
      <4> HIDE DEF c, f
      <4> QED BY <1>1, OpenedFacts
    <3> HIDE DEF new, lines, f
    <3> QED BY <3>1 DEF Opens
  <2>2. ASSUME OneLatest
        PROVE  /\ \A s \in Items : Weight(Recipe, new, s) = f.qty * Uses(Recipe[f.sku], s)
               /\ \A rank \in Ranks : Ranked(Recipe, rank) =>
                     /\ Down(rank, new)
                     /\ \A k \in DOMAIN new : rank[new[k].sku] <= rank[f.sku]
    <3>1. Recipe[f.sku] = lines
      BY <1>1, <2>2, RecipeTypes DEF PlanInv
    <3>2. \A s \in Items : Weight(Recipe, new, s) = f.qty * Uses(lines, s)
      <4>1. new = Append([k \in DOMAIN lines |-> Frame("visit", lines[k].sku, f.qty * lines[k].per)],
                         Frame("leave", f.sku, 0))
        BY DEF Opened, Components
      <4>2. f.sku \in Items /\ f.qty \in Nat /\ lines \in BillLines /\ Recipe \in Recipes
        BY <1>1, <2>1
      <4> DEFINE x == f.sku  q == f.qty
      <4>3. new = Append([k \in DOMAIN lines |-> Frame("visit", lines[k].sku, q * lines[k].per)],
                         Frame("leave", x, 0))
        BY <4>1
      <4> HIDE DEF x, q, new, lines
      <4>4. x \in Items /\ q \in Nat
        BY <4>2 DEF x, q
      <4>5. \A s \in Items : Weight(Recipe, new, s) = q * Uses(lines, s)
        BY <4>2, <4>3, <4>4, WeightExploded
      <4> QED BY <4>5 DEF q
    <3>3. ASSUME NEW rank \in Ranks, Ranked(Recipe, rank)
          PROVE  Down(rank, new) /\ \A k \in DOMAIN new : rank[new[k].sku] <= rank[f.sku]
      <4>1. \A k \in DOMAIN lines : rank[lines[k].sku] < rank[f.sku]
        BY <3>1, <3>3, <1>1 DEF Ranked
      <4>2. \A k \in DOMAIN lines : rank[lines[k].sku] \in Int /\ rank[f.sku] \in Int
        <5> HIDE DEF f, new, lines
        <5> QED BY <1>1, <2>1, RanksAreNumbers
      <4>3. rank[f.sku] \in Int
        BY <1>1, RanksAreNumbers
      <4> HIDE DEF f, new, lines
      <4>4. \A k \in DOMAIN new : rank[new[k].sku] <= rank[f.sku]
        BY <2>1, <4>1, <4>2, <4>3
      <4>5. ASSUME NEW j \in DOMAIN new, NEW k \in DOMAIN new, j < k, new[k].op = "leave"
            PROVE  rank[new[j].sku] < rank[new[k].sku]
        <5>1. j \in Nat /\ k \in Nat
          BY <2>1
        <5>2. new[k].sku = f.sku /\ \A m \in DOMAIN new : m <= k
          BY <2>1, <4>5
        <5>3. j \in DOMAIN lines /\ new[j].sku = lines[j].sku
          BY <2>1, <4>5, <5>1
        <5> QED BY <5>2, <5>3, <4>1
      <4> QED BY <4>4, <4>5 DEF Down
    <3> QED BY <3>1, <3>2, <3>3
  <2>3. c.path \cup {f.sku} \in SUBSET Items /\ \A x \in c.path \cup {f.sku} : x \in c.path \/ x \in Leaving(new)
    <3> HIDE DEF c, f, new
    <3> QED BY <1>1, <2>1
  <2> HIDE DEF c, f
  <2> QED BY <2>1, <2>2, <2>3, <1>4, <1>6
<1>7. \/ Latest(f.sku) = {} /\ Replace(r, <<>>, c.path, c.rows, c.short)
      \/ \E i \in Latest(f.sku) : Replace(r, Opened(i, "visit", f), c.path \cup {f.sku}, c.rows, c.short)
  BY DEF MrpExplode, Opened
<1> QED BY <1>5, <1>6, <1>7

-----------------------------------------------------------------------------
\* A step of a promise's explosion that replaces the top frame by frames that cover it
\* if they are fine.
LEMMA CtpStep ==
    ASSUME NEW c \in PlanCalls, c.pc = "ctp", c.status = "none", c.todo # <<>>, NEW recipe, NEW spare,
           SoFar(c, recipe, spare), NEW new \in Seq(Frames), NEW path, NEW short,
           short \/ ~c.short,
           ~short => ~c.short /\ (AllFine(recipe, spare, new) => Fine(recipe, spare, Head(c.todo)))
    PROVE  SoFar(After(c, new, path, c.rows, short), recipe, spare)
<1> DEFINE d == After(c, new, path, c.rows, short)
<1>1. c.todo \in Seq(Frames)
  BY CallIs
<1>2. /\ d.pc = "ctp" /\ d.status = "none" /\ d.todo = new \o Tail(c.todo)
      /\ d.want = c.want /\ d.short = short
  BY DEF After
<1> HIDE DEF d
<1>3. ASSUME ~short, AllFine(recipe, spare, d.todo)
      PROVE  CoveredBelow(recipe, spare, <<c.want[1].sku, c.want[1].qty>>)
  <2>1. AllFine(recipe, spare, c.todo)
    BY <1>1, <1>2, <1>3, FineReplaced
  <2> QED BY <2>1, <1>3 DEF SoFar, Covering
<1>4. Covering(d, recipe, spare)
  BY <1>2, <1>3 DEF Covering
<1>5. Descends(d, recipe) /\ Balanced(d, recipe)
  BY <1>2 DEF Descends, Balanced
<1> QED BY <1>4, <1>5 DEF SoFar, d

\* A step that replaces the top frame of a promise by frames that cover it.
Covers(r, op, new, path, short) ==
    /\ Top(r, "ctp", op) /\ Replace(r, new, path, run[r].rows, short)
    /\ new \in Seq(Frames) /\ path \in SUBSET Items /\ short \in BOOLEAN
    /\ \A x \in path : \/ x \in run[r].path /\ (op = "leave" => x # Head(run[r].todo).sku)
                       \/ x \in Leaving(new)
    /\ run[r].short => short
    /\ ~short /\ OneLatest /\ AllFine(Recipe, Spare, new) => Fine(Recipe, Spare, Head(run[r].todo))

\* Such a step keeps the invariant.
LEMMA CtpPreserves ==
    ASSUME PlanInv, NEW r \in Runs, NEW op, NEW new, NEW path, NEW short,
           Covers(r, op, new, path, short)
    PROVE  PlanInv'
<1> DEFINE c == run[r]
           d == After(c, new, path, c.rows, short)
<1>0. /\ Top(r, "ctp", op) /\ Replace(r, new, path, c.rows, short)
      /\ new \in Seq(Frames) /\ path \in SUBSET Items /\ short \in BOOLEAN
      /\ \A x \in path : \/ x \in c.path /\ (op = "leave" => x # Head(c.todo).sku)
                         \/ x \in Leaving(new)
      /\ c.short => short
      /\ ~short /\ OneLatest /\ AllFine(Recipe, Spare, new) => Fine(Recipe, Spare, Head(c.todo))
  BY DEF Covers
<1>1. /\ c \in PlanCalls /\ Shaped(c) /\ c.pc = "ctp" /\ c.status = "none"
      /\ c.todo # <<>> /\ c.rows \in Seq(Rows) /\ c.short \in BOOLEAN
      /\ Head(c.todo).op = op /\ (r \notin moved /\ OneLatest => SoFar(c, Recipe, Spare))
  BY <1>0, TopFacts
<1>2. d \in PlanCalls /\ run' = [run EXCEPT ![r] = d] /\ UNCHANGED <<bills, stock, moved>>
  BY <1>0, <1>1, ReplaceIs
<1>3. Shaped(d)
  <2> HIDE DEF c
  <2> QED BY <1>0, <1>1, AfterShaped
<1>4. ASSUME r \notin moved, OneLatest PROVE SoFar(d, Recipe, Spare)
  <2>1. SoFar(c, Recipe, Spare)
    BY <1>1, <1>4
  <2>2. short \/ ~c.short
    BY <1>0, <1>1
  <2>3. ~short => ~c.short /\ (AllFine(Recipe, Spare, new) => Fine(Recipe, Spare, Head(c.todo)))
    BY <1>0, <1>1, <1>4
  <2> HIDE DEF c
  <2> QED BY <2>1, <2>2, <2>3, <1>0, <1>1, CtpStep
<1> HIDE DEF d, c
<1> QED BY <1>2, <1>3, <1>4, StepOfOne

\* Nothing new descends.
LEMMA NothingFacts == <<>> \in Seq(Frames) /\ \A rank : Down(rank, <<>>)
BY DEF Down

\* Leaving a SKU takes off its frame, which requires nothing.
LEMMA LeavePreserves ==
    ASSUME PlanInv, NEW r \in Runs, Leave(r)
    PROVE  PlanInv'
<1> DEFINE c == run[r]
           f == Head(c.todo)
<1>0. Top(r, c.pc, "leave") /\ Replace(r, <<>>, c.path \ {f.sku}, c.rows, c.short)
  BY DEF Leave, Left
<1>1. /\ c \in PlanCalls /\ Shaped(c) /\ c.status = "none"
      /\ c.todo # <<>> /\ c.todo \in Seq(Frames) /\ c.path \in SUBSET Items
      /\ c.rows \in Seq(Rows) /\ c.short \in BOOLEAN
      /\ f \in Frames /\ f.op = "leave" /\ Recipe \in Recipes
      /\ (r \notin moved /\ OneLatest => SoFar(c, Recipe, Spare))
  <2> HIDE DEF c
  <2> QED BY <1>0, TopFacts DEF c
<1>2. c.pc \in {"mrp", "ctp"}
  BY <1>1 DEF Shaped, PlanCalls
<1>3. CASE c.pc = "ctp"
  <2>1. Fine(Recipe, Spare, f)
    BY <1>1 DEF Fine
  <2>2. \A x \in c.path \ {f.sku} : x \in c.path /\ x # f.sku
    OBVIOUS
  <2>3. Covers(r, "leave", <<>>, c.path \ {f.sku}, c.short)
    BY <2>1, <2>2, <1>0, <1>1, <1>3, NothingFacts DEF Covers
  <2> QED BY <2>3, CtpPreserves
<1>4. CASE c.pc = "mrp"
  <2> DEFINE path == c.path \ {f.sku}
             d == After(c, <<>>, path, c.rows, c.short)
  <2>1. d \in PlanCalls /\ run' = [run EXCEPT ![r] = d] /\ UNCHANGED <<bills, stock, moved>>
    <3> DEFINE new == <<>>
    <3>1. path \in SUBSET Items /\ new \in Seq(Frames) /\ Replace(r, new, path, c.rows, c.short)
      BY <1>0, <1>1, NothingFacts
    <3>2. c.todo # <<>> /\ c.rows \in Seq(Rows) /\ c.short \in BOOLEAN
      BY <1>1
    <3> HIDE DEF path, new
    <3>3. /\ After(c, new, path, c.rows, c.short) \in PlanCalls
          /\ run' = [run EXCEPT ![r] = After(c, new, path, c.rows, c.short)]
          /\ UNCHANGED <<bills, stock, moved>>
      BY <3>1, <3>2, ReplaceIs
    <3> QED BY <3>3 DEF new
  <2>2. Shaped(d)
    <3>1. \A x \in path : x \in c.path /\ x # f.sku
      OBVIOUS
    <3> HIDE DEF c, path
    <3> QED BY <3>1, <1>1, NothingFacts, AfterShaped
  <2>3. ASSUME r \notin moved, OneLatest PROVE SoFar(d, Recipe, Spare)
    <3>1. SoFar(c, Recipe, Spare)
      BY <1>1, <2>3
    <3>2. \A rank \in Ranks : Ranked(Recipe, rank) =>
            /\ Down(rank, <<>>) /\ \A k \in DOMAIN <<>> : rank[<<>>[k].sku] <= rank[f.sku]
      BY NothingFacts
    <3>3. ASSUME \E rank \in Ranks : Ranked(Recipe, rank)
          PROVE  \A k \in DOMAIN c.rows : ~c.rows[k].cycle
      BY <3>1, <3>3, <1>4 DEF SoFar, Balanced
    <3>4. \A s \in Items :
            Gross(c.rows, s) + Weight(Recipe, <<>>, s) - WeightOf(Recipe, s)[f]
              - OfParents(Recipe, c.rows, s) = Gross(c.rows, s) - OfParents(Recipe, c.rows, s)
      <4> TAKE s \in Items
      <4>1. Weight(Recipe, <<>>, s) = 0 /\ WeightOf(Recipe, s)[f] = 0
        BY <1>1, WeightOfNone DEF WeightOf
      <4>2. Gross(c.rows, s) \in Int /\ OfParents(Recipe, c.rows, s) \in Int
        BY <1>1, RowSums
      <4> HIDE DEF c, f
      <4> QED BY <4>1, <4>2
    <3> HIDE DEF c, path
    <3> QED BY <3>1, <3>2, <3>3, <3>4, <1>1, <1>4, NothingFacts, MrpStep
  <2> HIDE DEF d, c
  <2> QED BY <2>1, <2>2, <2>3, StepOfOne
<1> QED BY <1>2, <1>3, <1>4

\* A promise needs the components of a SKU, or none if it has no bill.
LEMMA CtpVisitPreserves ==
    ASSUME PlanInv, NEW r \in Runs, CtpVisit(r)
    PROVE  PlanInv'
<1> DEFINE c == run[r]
           f == Head(c.todo)
           leave == Frame("leave", f.sku, 0)
           leaf == Frame("leaf", f.sku, f.qty)
<1>0. Top(r, "ctp", "visit")
  BY DEF CtpVisit
<1>1. /\ c \in PlanCalls /\ c.todo # <<>> /\ c.path \in SUBSET Items /\ c.short \in BOOLEAN
      /\ f \in Frames /\ f.op = "visit" /\ f.sku \in Items /\ f.qty \in Nat
  BY <1>0, TopFacts
<1>2. \/ f.sku \in c.path /\ Replace(r, <<>>, c.path, c.rows, TRUE)
      \/ Latest(f.sku) = {} /\ Replace(r, <<leaf, leave>>, c.path \cup {f.sku}, c.rows, c.short)
      \/ \E i \in Latest(f.sku) :
            Replace(r, Opened(i, "component", f), c.path \cup {f.sku}, c.rows, c.short)
  BY DEF CtpVisit, Opened
<1>3. CASE Replace(r, <<>>, c.path, c.rows, TRUE)
  <2>1. TRUE \in BOOLEAN /\ \A x \in c.path : x \in c.path
    OBVIOUS
  <2>2. Covers(r, "visit", <<>>, c.path, TRUE)
    BY <2>1, <1>0, <1>1, <1>3, NothingFacts DEF Covers
  <2> QED BY <2>2, CtpPreserves
<1>4. CASE Latest(f.sku) = {} /\ Replace(r, <<leaf, leave>>, c.path \cup {f.sku}, c.rows, c.short)
  <2> DEFINE new == <<leaf, leave>>
  <2>1. leaf \in Frames /\ leave \in Frames /\ leave.op = "leave" /\ leave.sku = f.sku
    BY <1>1 DEF Frame, Frames
  <2>2. new \in Seq(Frames) /\ f.sku \in Leaving(new)
    <3> HIDE DEF leaf, leave
    <3>1. new \in Seq(Frames) /\ 2 \in DOMAIN new /\ new[2] = leave
      BY <2>1
    <3> QED BY <3>1, <2>1 DEF Leaving
  <2>3. Fine(Recipe, Spare, f)
    <3>1. Recipe[f.sku] = <<>>
      BY <1>1, <1>4, RecipeTypes DEF PlanInv
    <3>2. CoveredBelow(Recipe, Spare, <<f.sku, f.qty>>)
      BY <3>1, CoveredByNothing
    <3> QED BY <3>2, <1>1 DEF Fine
  <2>4. c.path \cup {f.sku} \in SUBSET Items /\ \A x \in c.path \cup {f.sku} : x \in c.path \/ x \in Leaving(new)
    <3> HIDE DEF new
    <3> QED BY <1>1, <2>2
  <2>5. Covers(r, "visit", new, c.path \cup {f.sku}, c.short)
    <3>1. Replace(r, new, c.path \cup {f.sku}, c.rows, c.short)
      BY <1>4
    <3> HIDE DEF new
    <3> QED BY <3>1, <2>2, <2>3, <2>4, <1>0, <1>1 DEF Covers
  <2> HIDE DEF c, new
  <2> QED BY <2>5, CtpPreserves
<1>5. ASSUME NEW i \in Latest(f.sku),
             Replace(r, Opened(i, "component", f), c.path \cup {f.sku}, c.rows, c.short)
      PROVE  PlanInv'
  <2> DEFINE new == Opened(i, "component", f)
             lines == bills[i].lines
             x == <<f.sku, f.qty>>
  <2>1. Opens(lines, "component", f, new)
    <3> HIDE DEF c, f
    <3> QED BY <1>1, OpenedFacts
  <2>2. c.path \cup {f.sku} \in SUBSET Items /\ \A y \in c.path \cup {f.sku} : y \in c.path \/ y \in Leaving(new)
    <3> HIDE DEF new, lines
    <3> QED BY <1>1, <2>1 DEF Opens
  <2>3. ASSUME OneLatest, AllFine(Recipe, Spare, new) PROVE Fine(Recipe, Spare, f)
    <3>1. Recipe[f.sku] = lines
      BY <1>1, <2>3, RecipeTypes DEF PlanInv
    <3> HIDE DEF new, lines
    <3>2. ASSUME NEW k \in DOMAIN lines
          PROVE  /\ Component(Recipe, x, k)[2] <= Spare[Component(Recipe, x, k)[1]]
                 /\ CoveredBelow(Recipe, Spare, Component(Recipe, x, k))
      <4>1. /\ k \in DOMAIN new /\ new[k].op = "component" /\ new[k].sku = lines[k].sku
            /\ new[k].qty = f.qty * lines[k].per
        BY <2>1 DEF Opens
      <4>2. Component(Recipe, x, k) = <<new[k].sku, new[k].qty>>
        BY <3>1, <4>1 DEF Component
      <4>3. /\ new[k].qty <= Spare[new[k].sku]
            /\ CoveredBelow(Recipe, Spare, <<new[k].sku, new[k].qty>>)
        BY <4>1, <2>3 DEF AllFine, Fine
      <4> QED BY <4>2, <4>3
    <3>3. x[1] = f.sku
      OBVIOUS
    <3>4. CoveredBelow(Recipe, Spare, x)
      <4> HIDE DEF x
      <4> QED BY <3>1, <3>2, <3>3, CoveredByComponents
    <3> QED BY <3>4, <1>1 DEF Fine
  <2>4. new \in Seq(Frames)
    <3> HIDE DEF new, lines
    <3> QED BY <2>1 DEF Opens
  <2>5. Covers(r, "visit", new, c.path \cup {f.sku}, c.short)
    <3>1. Replace(r, new, c.path \cup {f.sku}, c.rows, c.short)
      BY <1>5
    <3> HIDE DEF new
    <3> QED BY <3>1, <2>2, <2>3, <2>4, <1>0, <1>1 DEF Covers
  <2> HIDE DEF c, new
  <2> QED BY <2>5, CtpPreserves
<1> QED BY <1>2, <1>3, <1>4, <1>5

\* A SKU without a bill that is short makes the promise short.
LEMMA CtpLeafPreserves ==
    ASSUME PlanInv, NEW r \in Runs, CtpLeaf(r)
    PROVE  PlanInv'
<1> DEFINE c == run[r]
           f == Head(c.todo)
           short == c.short \/ f.qty > Available(f.sku)
<1>0. Top(r, "ctp", "leaf") /\ Replace(r, <<>>, c.path, c.rows, short)
  BY DEF CtpLeaf
<1>1. c.path \in SUBSET Items /\ c.short \in BOOLEAN /\ f.op = "leaf"
  BY <1>0, TopFacts
<1>2. Fine(Recipe, Spare, f)
  BY <1>1 DEF Fine
<1>3. short \in BOOLEAN /\ (c.short => short) /\ \A x \in c.path : x \in c.path
  BY <1>1
<1>4. Covers(r, "leaf", <<>>, c.path, short)
  <2> HIDE DEF short
  <2> QED BY <1>0, <1>1, <1>2, <1>3, NothingFacts DEF Covers
<1> HIDE DEF c, short
<1> QED BY <1>4, CtpPreserves

\* A component that is short makes the promise short; another is exploded.
LEMMA CtpComponentPreserves ==
    ASSUME PlanInv, NEW r \in Runs, CtpComponent(r)
    PROVE  PlanInv'
<1> DEFINE c == run[r]
           f == Head(c.todo)
           gap == f.qty > Available(f.sku)
           short == c.short \/ gap
           visit == Frame("visit", f.sku, f.qty)
           new == IF gap THEN <<>> ELSE <<visit>>
<1>0. Top(r, "ctp", "component") /\ Replace(r, new, c.path, c.rows, short)
  BY DEF CtpComponent
<1>1. /\ c.path \in SUBSET Items /\ c.short \in BOOLEAN /\ f.op = "component"
      /\ f.sku \in Items /\ f.qty \in Nat
  BY <1>0, TopFacts
<1>2. visit \in Frames /\ visit.op = "visit" /\ visit.sku = f.sku /\ visit.qty = f.qty
  BY <1>1 DEF Frame, Frames
<1>3. new \in Seq(Frames)
  <2> HIDE DEF visit
  <2> QED BY <1>2
<1>4. ASSUME ~short, AllFine(Recipe, Spare, new) PROVE Fine(Recipe, Spare, f)
  <2>1. 1 \in DOMAIN new /\ new[1] = visit
    BY <1>4
  <2>2. Fine(Recipe, Spare, visit)
    <3> HIDE DEF new, visit
    <3> QED BY <2>1, <1>4 DEF AllFine
  <2>3. CoveredBelow(Recipe, Spare, <<f.sku, f.qty>>)
    <3> HIDE DEF visit
    <3> QED BY <2>2, <1>2 DEF Fine
  <2>4. f.qty <= Spare[f.sku]
    <3>1. Spare[f.sku] = Available(f.sku) /\ Available(f.sku) \in Nat
      BY <1>1, RecipeTypes DEF PlanInv
    <3> QED BY <3>1, <1>1, <1>4
  <2> QED BY <2>3, <2>4, <1>1 DEF Fine
<1>5. short \in BOOLEAN /\ (c.short => short) /\ \A x \in c.path : x \in c.path
  BY <1>1
<1>6. Covers(r, "component", new, c.path, short)
  <2> HIDE DEF short, new
  <2> QED BY <1>0, <1>1, <1>3, <1>4, <1>5 DEF Covers
<1> HIDE DEF c, short, new
<1> QED BY <1>6, CtpPreserves

-----------------------------------------------------------------------------
\* A plan ends with its stack empty: all that was asked has been passed on.
LEMMA EndMrpPreserves ==
    ASSUME PlanInv, NEW r \in Runs, EndMrp(r)
    PROVE  PlanInv'
<1> DEFINE c == run[r]
           d == [c EXCEPT !.pc = "done", !.status = "COMPLETED"]
<1>1. c \in PlanCalls /\ Shaped(c) /\ c.pc = "mrp" /\ c.todo = <<>>
      /\ (r \notin moved /\ OneLatest => SoFar(c, Recipe, Spare))
  BY DEF PlanInv, PlanTypes, EndMrp
<1>2. /\ d \in PlanCalls /\ d.pc = "done" /\ d.status = "COMPLETED" /\ d.want = c.want
      /\ d.todo = c.todo /\ d.path = c.path /\ d.rows = c.rows
  BY <1>1 DEF PlanCalls
<1>3. run' = [run EXCEPT ![r] = d] /\ UNCHANGED <<bills, stock, moved>>
  BY <1>1 DEF EndMrp, Finish, PlanInv, PlanTypes
<1> HIDE DEF c, d
<1>4. Shaped(d)
  BY <1>1, <1>2 DEF Shaped
<1>5. ASSUME r \notin moved, OneLatest PROVE SoFar(d, Recipe, Spare)
  BY <1>1, <1>2, <1>5 DEF SoFar, Descends, Balanced, Covering
<1> QED BY <1>2, <1>3, <1>4, <1>5, StepOfOne

\* A promise ends with its stack empty: what it still needed is covered.
LEMMA EndCtpPreserves ==
    ASSUME PlanInv, NEW r \in Runs, EndCtp(r)
    PROVE  PlanInv'
<1> DEFINE c == run[r]
           status == IF c.short THEN "CTP_INFEASIBLE"
                     ELSE IF ~c.capacity THEN "CTP_CAPACITY_CONSTRAINED" ELSE "CTP_FEASIBLE"
           d == [c EXCEPT !.pc = "done", !.status = status]
<1>1. c \in PlanCalls /\ Shaped(c) /\ c.pc = "ctp" /\ c.todo = <<>>
      /\ (r \notin moved /\ OneLatest => SoFar(c, Recipe, Spare))
  BY DEF PlanInv, PlanTypes, EndCtp
<1>2. /\ d \in PlanCalls /\ d.pc = "done" /\ d.status = status /\ d.want = c.want
      /\ d.todo = c.todo /\ d.path = c.path
  BY <1>1 DEF PlanCalls
<1>3. run' = [run EXCEPT ![r] = d] /\ UNCHANGED <<bills, stock, moved>>
  BY <1>1 DEF EndCtp, Finish, PlanInv, PlanTypes
<1>4. (status = "CTP_FEASIBLE" => ~c.short) /\ status # "COMPLETED"
  OBVIOUS
<1> HIDE DEF c, d, status
<1>5. Shaped(d)
  BY <1>1, <1>2 DEF Shaped
<1>6. ASSUME r \notin moved, OneLatest PROVE SoFar(d, Recipe, Spare)
  <2>1. AllFine(Recipe, Spare, c.todo)
    BY <1>1 DEF AllFine
  <2> QED BY <2>1, <1>1, <1>2, <1>4, <1>6 DEF SoFar, Descends, Balanced, Covering
<1> QED BY <1>2, <1>3, <1>5, <1>6, StepOfOne

\* A call that has not begun.
LEMMA NoCallIs ==
    /\ NoCall \in PlanCalls /\ Shaped(NoCall)
    /\ \A recipe, spare : SoFar(NoCall, recipe, spare)
<1>1. NoCall \in PlanCalls
  BY DEF NoCall, Call, PlanCalls
<1>2. Shaped(NoCall)
  BY DEF NoCall, Call, Shaped
<1>3. \A recipe, spare : SoFar(NoCall, recipe, spare)
  BY DEF NoCall, Call, SoFar, Descends, Balanced, Covering
<1> QED BY <1>1, <1>2, <1>3

\* A plan starts with what was asked on its stack.
LEMMA StartMrpPreserves ==
    ASSUME PlanInv, NEW r \in Runs, StartMrp(r)
    PROVE  PlanInv'
<1>1. PICK w \in Wants :
        run' = [run EXCEPT ![r] =
                  Call("mrp", w, [k \in DOMAIN w |-> Frame("visit", w[k].sku, w[k].qty)], TRUE, "none")]
  BY DEF StartMrp
<1>2. w \in Seq(Asked)
  BY InputsAssumption
<1> DEFINE todo == [k \in DOMAIN w |-> Frame("visit", w[k].sku, w[k].qty)]
           d == Call("mrp", w, todo, TRUE, "none")
<1>3. todo \in Seq(Frames) /\ \A k \in DOMAIN todo : todo[k].op = "visit"
  <2>1. Len(w) \in Nat /\ DOMAIN w = 1..Len(w) /\ \A k \in 1..Len(w) : w[k] \in Asked
    BY <1>2, SeqFacts
  <2>2. \A k \in DOMAIN w : todo[k] \in Frames /\ todo[k].op = "visit"
    BY <2>1 DEF Asked, Frame, Frames
  <2> QED BY <2>1, <2>2
<1>4. Recipe \in Recipes => \A s \in Items : Weight(Recipe, todo, s) = Direct(w, s)
  BY <1>2, WeightAsked
<1> HIDE DEF todo
<1>5. /\ d \in PlanCalls /\ d.pc = "mrp" /\ d.status = "none" /\ d.want = w /\ d.todo = todo
      /\ d.path = {} /\ d.rows = <<>>
  BY <1>2, <1>3 DEF Call, PlanCalls
<1>6. run' = [run EXCEPT ![r] = d] /\ UNCHANGED <<bills, stock, moved>>
  BY <1>1 DEF StartMrp, todo
<1> HIDE DEF d
<1>7. Shaped(d)
  BY <1>5 DEF Shaped
<1>8. SoFar(d, Recipe, Spare)
  <2>1. Descends(d, Recipe)
    BY <1>3, <1>5 DEF Descends, Down
  <2>2. Balanced(d, Recipe)
    <3>1. <<>> \in Seq(Rows) /\ Recipe \in Recipes /\ DOMAIN <<>> = {}
      BY RecipeTypes DEF PlanInv
    <3>2. ASSUME NEW s \in Items
          PROVE  Gross(<<>>, s) + Weight(Recipe, todo, s) = Direct(w, s) + OfParents(Recipe, <<>>, s)
      <4>1. Gross(<<>>, s) = 0 /\ OfParents(Recipe, <<>>, s) = 0
        BY <3>1, RowsAre, EachOfNone
      <4>2. Weight(Recipe, todo, s) = Direct(w, s) /\ Weight(Recipe, todo, s) \in Int
        BY <3>1, <1>3, <1>4, WeightInt
      <4> QED BY <4>1, <4>2
    <3> QED BY <3>1, <3>2, <1>5 DEF Balanced
  <2>3. Covering(d, Recipe, Spare)
    BY <1>5 DEF Covering
  <2> QED BY <2>1, <2>2, <2>3 DEF SoFar
<1> QED BY <1>5, <1>6, <1>7, <1>8, StepOfOne

\* A promise starts with what the stock does not cover.
LEMMA StartCtpPreserves ==
    ASSUME PlanInv, NEW r \in Runs, StartCtp(r)
    PROVE  PlanInv'
<1>1. PICK p \in Promises :
        LET rest == p.qty - Min({Available(p.sku), p.qty})
            Going(at, todo, status) ==
                run' = [run EXCEPT ![r] =
                          Call(at, <<[sku |-> p.sku, qty |-> rest]>>, todo, p.capacity, status)]
        IN \/ Going("done", <<>>, "ATP_AVAILABLE") \/ Going("done", <<>>, "CTP_INSUFFICIENT_INPUTS")
           \/ Going("ctp", <<Frame("visit", p.sku, rest)>>, "none")
  BY DEF StartCtp
<1>2. p.sku \in Items /\ p.qty \in Nat /\ p.capacity \in BOOLEAN
  BY InputsAssumption
<1> DEFINE rest == p.qty - Min({Available(p.sku), p.qty})
           want == <<[sku |-> p.sku, qty |-> rest]>>
           f == Frame("visit", p.sku, rest)
           Is(d, at, todo, status) == d = Call(at, want, todo, p.capacity, status)
<1>3. rest \in Nat
  <2>1. Available(p.sku) \in Nat
    BY <1>2, RecipeTypes DEF PlanInv
  <2> QED BY <2>1, <1>2, AtMostBoth
<1>4. f \in Frames /\ f.op = "visit" /\ f.sku = p.sku /\ f.qty = rest
  <2> HIDE DEF rest
  <2> QED BY <1>2, <1>3 DEF Frame, Frames
<1>5. want \in Seq(Asked) /\ want[1].sku = p.sku /\ want[1].qty = rest
  <2> HIDE DEF rest
  <2> QED BY <1>2, <1>3 DEF Asked
<1>6. PICK d : /\ run' = [run EXCEPT ![r] = d]
               /\ \/ Is(d, "done", <<>>, "ATP_AVAILABLE") \/ Is(d, "done", <<>>, "CTP_INSUFFICIENT_INPUTS")
                  \/ Is(d, "ctp", <<f>>, "none")
  BY <1>1
<1> HIDE DEF rest, want, f
<1>7. /\ d \in PlanCalls /\ d.want = want /\ d.path = {} /\ ~d.short
      /\ \/ d.pc = "done" /\ d.status \in {"ATP_AVAILABLE", "CTP_INSUFFICIENT_INPUTS"} /\ d.todo = <<>>
         \/ d.pc = "ctp" /\ d.status = "none" /\ d.todo = <<f>>
  <2>1. <<f>> \in Seq(Frames) /\ <<>> \in Seq(Frames) /\ <<>> \in Seq(Rows)
    BY <1>4
  <2>2. want \in Seq(Asked)
    BY <1>5
  <2>3. CASE Is(d, "done", <<>>, "ATP_AVAILABLE")
    BY <2>1, <2>2, <2>3, <1>2 DEF Call, PlanCalls
  <2>4. CASE Is(d, "done", <<>>, "CTP_INSUFFICIENT_INPUTS")
    BY <2>1, <2>2, <2>4, <1>2 DEF Call, PlanCalls
  <2>5. CASE Is(d, "ctp", <<f>>, "none")
    BY <2>1, <2>2, <2>5, <1>2 DEF Call, PlanCalls
  <2> QED BY <2>3, <2>4, <2>5, <1>6
<1>8. run' = [run EXCEPT ![r] = d] /\ UNCHANGED <<bills, stock, moved>>
  BY <1>6 DEF StartCtp
<1>9. Shaped(d)
  BY <1>7 DEF Shaped
<1>10. SoFar(d, Recipe, Spare)
  <2>1. Descends(d, Recipe) /\ Balanced(d, Recipe)
    BY <1>7 DEF Descends, Balanced
  <2>2. ASSUME d.pc = "ctp", AllFine(Recipe, Spare, d.todo)
        PROVE  CoveredBelow(Recipe, Spare, <<want[1].sku, want[1].qty>>)
    <3>1. 1 \in DOMAIN d.todo /\ d.todo[1] = f
      BY <2>2, <1>7
    <3>2. Fine(Recipe, Spare, f)
      BY <2>2, <3>1 DEF AllFine
    <3> QED BY <3>2, <1>4, <1>5 DEF Fine
  <2>3. Covering(d, Recipe, Spare)
    BY <2>2, <1>7 DEF Covering
  <2> QED BY <2>1, <2>3 DEF SoFar
<1> QED BY <1>7, <1>8, <1>9, <1>10, StepOfOne

-----------------------------------------------------------------------------
\* Whoever commits a bill or stock moves every call that has begun; the others have
\* done nothing yet.
LEMMA CommitPreserves ==
    ASSUME PlanInv, PlanTypes', run' = run, moved' = moved \cup Begun
    PROVE  PlanInv'
<1>1. ASSUME NEW r \in Runs
      PROVE  Shaped(run'[r]) /\ (r \notin moved' /\ OneLatest' => SoFar(run'[r], Recipe', Spare'))
  <2>1. Shaped(run[r])
    BY DEF PlanInv
  <2>2. r \notin moved' => run[r].pc = "idle" /\ run[r].status = "none"
    BY <2>1 DEF Begun, Shaped
  <2> QED BY <2>1, <2>2 DEF SoFar, Descends, Balanced, Covering
<1>2. (\A r \in Runs : /\ Shaped(run[r])
                       /\ r \notin moved /\ OneLatest => SoFar(run[r], Recipe, Spare))'
  BY <1>1
<1> QED BY <1>2 DEF PlanInv

\* A new bill, and a change of stock.
LEMMA CreateBomPreserves == ASSUME PlanInv, CreateBom PROVE PlanInv'
<1>1. PICK h \in Headers : bills' = Append(bills, h)
  BY DEF CreateBom
<1>2. bills' \in Seq(Bill)
  BY <1>1, InputsAssumption DEF PlanInv, PlanTypes
<1>3. PlanTypes'
  BY <1>2 DEF CreateBom, PlanInv, PlanTypes
<1> QED BY <1>3, CommitPreserves DEF CreateBom

\* Stock that changes disturbs the calls that have begun.
LEMMA StockChangesPreserves == ASSUME PlanInv, StockChanges PROVE PlanInv'
<1>1. PICK s \in Items, g \in FirstStock : stock' = [stock EXCEPT ![s] = g[s]]
  BY DEF StockChanges
<1>2. g \in [Items -> [supply : Nat, reserved : Nat]]
  BY InputsAssumption
<1>3. PlanTypes'
  BY <1>1, <1>2 DEF StockChanges, PlanInv, PlanTypes
<1> QED BY <1>3, CommitPreserves DEF StockChanges

\* At first no call has begun.
LEMMA PlanInitEstablishes == PlanInit => PlanInv
<1> SUFFICES ASSUME PlanInit PROVE PlanInv
  OBVIOUS
<1>1. PlanTypes
  BY NoCallIs, InputsAssumption DEF PlanInit, PlanTypes
<1>2. \A r \in Runs : run[r] = NoCall
  BY DEF PlanInit
<1> QED BY <1>1, <1>2, NoCallIs DEF PlanInv

\* Every step keeps the invariant.
LEMMA PlanNextPreserves == PlanInv /\ [PlanNext]_planVars => PlanInv'
<1> SUFFICES ASSUME PlanInv, [PlanNext]_planVars PROVE PlanInv'
  OBVIOUS
<1>1. CASE CreateBom
  BY <1>1, CreateBomPreserves
<1>2. CASE StockChanges
  BY <1>2, StockChangesPreserves
<1>3. ASSUME NEW r \in Runs, StartMrp(r) PROVE PlanInv'
  BY <1>3, StartMrpPreserves
<1>4. ASSUME NEW r \in Runs, StartCtp(r) PROVE PlanInv'
  BY <1>4, StartCtpPreserves
<1>5. ASSUME NEW r \in Runs, Proceed(r) PROVE PlanInv'
  <2>1. CASE MrpVisit(r)
    BY <2>1, MrpVisitPreserves
  <2>2. CASE MrpExplode(r)
    BY <2>2, MrpExplodePreserves
  <2>3. CASE Leave(r)
    BY <2>3, LeavePreserves
  <2>4. CASE EndMrp(r)
    BY <2>4, EndMrpPreserves
  <2>5. CASE CtpVisit(r)
    BY <2>5, CtpVisitPreserves
  <2>6. CASE CtpLeaf(r)
    BY <2>6, CtpLeafPreserves
  <2>7. CASE CtpComponent(r)
    BY <2>7, CtpComponentPreserves
  <2>8. CASE EndCtp(r)
    BY <2>8, EndCtpPreserves
  <2> QED BY <1>5, <2>1, <2>2, <2>3, <2>4, <2>5, <2>6, <2>7, <2>8 DEF Proceed
<1>6. CASE UNCHANGED planVars
  <2>1. /\ Recipe' = Recipe /\ Spare' = Spare /\ (OneLatest' <=> OneLatest)
        /\ run' = run /\ moved' = moved /\ bills' = bills /\ stock' = stock
    BY <1>6 DEF planVars, Recipe, Spare, OneLatest, Latest, Available
  <2> QED BY <2>1 DEF PlanInv, PlanTypes
<1> QED BY <1>1, <1>2, <1>3, <1>4, <1>5, <1>6 DEF PlanNext

\* The invariant of the planning calls: what a call from undisturbed bills and stock has
\* on its stack and in its rows, at every step (services.py:651-760, 883-1019).
THEOREM PlanInvariant == PlanSpec => []PlanInv
BY PlanInitEstablishes, PlanNextPreserves, PTL DEF PlanSpec

\* The gross requirements of an undisturbed plan are what was asked for and what the
\* parents use, for every SKU and all acyclic bills (services.py:700-741).
THEOREM MaterialsBalanced == PlanSpec => []MaterialsBalance
<1>1. PlanInv => MaterialsBalance
  <2> SUFFICES ASSUME PlanInv, NEW r \in Runs, run[r].status = "COMPLETED", Undisturbed(r)
               PROVE  /\ \A k \in DOMAIN run[r].rows : ~run[r].rows[k].cycle
                      /\ \A s \in Items :
                            Gross(run[r].rows, s) = Direct(run[r].want, s) + OfParents(Recipe, run[r].rows, s)
    BY DEF MaterialsBalance
  <2>1. SoFar(run[r], Recipe, Spare) /\ Shaped(run[r]) /\ run[r] \in PlanCalls /\ Recipe \in Recipes
    BY RecipeTypes DEF PlanInv, PlanTypes, Undisturbed
  <2>2. \E rank \in Ranks : Ranked(Recipe, rank)
    BY DEF Undisturbed, Acyclic, Ranks
  <2>3. run[r].todo = <<>>
    BY <2>1 DEF Shaped, Undisturbed
  <2>4. /\ \A k \in DOMAIN run[r].rows : ~run[r].rows[k].cycle
        /\ \A s \in Items : Gross(run[r].rows, s) + Weight(Recipe, <<>>, s)
                              = Direct(run[r].want, s) + OfParents(Recipe, run[r].rows, s)
    BY <2>1, <2>2, <2>3 DEF SoFar, Balanced
  <2>5. \A s \in Items : Weight(Recipe, <<>>, s) = 0 /\ Gross(run[r].rows, s) \in Int
    BY <2>1, WeightOfNone, RowSums, CallIs
  <2> QED BY <2>4, <2>5
<1> QED BY <1>1, PlanInvariant, PTL

\* What an undisturbed promise called feasible needs is there at every level below the
\* product, for all bills (services.py:917-975).
THEOREM PromisesCovered == PlanSpec => []PromiseCovered
<1>1. PlanInv => PromiseCovered
  BY DEF PlanInv, PromiseCovered, Undisturbed, SoFar, Covering
<1> QED BY <1>1, PlanInvariant, PTL
=============================================================================
