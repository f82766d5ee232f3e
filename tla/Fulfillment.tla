---------------------------- MODULE Fulfillment ----------------------------
(***************************************************************************)
(* Promising stock of one SKU of one tenant: FulfillmentService.reserve    *)
(* of aurix_core/phase16/services.py, while the data feed overwrites the   *)
(* positions (map_inventory of data_foundation/db_mapper.py).              *)
(*                                                                         *)
(* Each request is a READ COMMITTED transaction of its own and every       *)
(* statement of it is a step: it locks its order line, then the inventory  *)
(* rows of the line's location (all of them if it has none) one after the  *)
(* other in the order the database meets them, then reads the allocations  *)
(* that are committed.  A refusal returns without a commit, and closing    *)
(* the session rolls back.  Waiting for rows of the allocations, which     *)
(* nobody ever updates, only delays what is committed and is left out.     *)
(*                                                                         *)
(* on_hand and on_order of a position are only ever added up: `supply`.    *)
(***************************************************************************)
EXTENDS Integers, FiniteSets, Functions

CONSTANTS
    Reserves,     \* calls of reserve
    Lines,        \* sales order lines for the SKU
    Locations,    \* locations with an inventory row of the SKU
    NoLocation,   \* location_id is NULL
    place,        \* location of each line
    ordered,      \* quantity of each line
    Amounts,      \* quantities that are asked for
    MaxSupply,    \* bound on what the feed reports for a location
    MaxFeeds      \* bound on the rows of the feed

ASSUME ReservesAssumption == IsFiniteSet(Reserves)
ASSUME LocationsAssumption == IsFiniteSet(Locations) /\ NoLocation \notin Locations
ASSUME LinesAssumption ==
    Lines # {} /\ place \in [Lines -> Locations \cup {NoLocation}] /\ ordered \in [Lines -> Nat]
ASSUME AmountsAssumption == Amounts # {} /\ Amounts \subseteq Nat \ {0}
ASSUME SupplyAssumption == MaxSupply \in Nat /\ MaxFeeds \in Nat

VARIABLES
    supply,       \* [Locations -> Nat], on_hand + on_order
    allocated,    \* [Lines -> Nat], allocated_quantity
    allocation,   \* [Reserves -> Nat], the committed allocation of each request, 0 if none
    req,          \* [Reserves -> [pc, line, quantity, base, seen]]
    held,         \* inventory rows locked by each request
    feeds,        \* rows fed so far
    shrunk        \* history: the feed has lowered a position

fvars == <<supply, allocated, allocation, req, held, feeds, shrunk>>

FInit ==
    /\ supply \in [Locations -> 0..MaxSupply]
    /\ allocated = [l \in Lines |-> 0]
    /\ allocation = [r \in Reserves |-> 0]
    /\ \E ln \in [Reserves -> Lines], n \in [Reserves -> Amounts] :
          req = [r \in Reserves |-> [pc |-> "line", line |-> ln[r], quantity |-> n[r],
                                     base |-> 0, seen |-> 0]]
    /\ held = [r \in Reserves |-> {}]
    /\ feeds = 0 /\ shrunk = FALSE

\* The inventory rows a request selects, and what they and the allocations add up to.
Selected(r) == LET p == place[req[r].line] IN IF p = NoLocation THEN Locations ELSE {p}
Supply(S) == SumFunctionOnSet(supply, S)
Allocated(S) == SumFunctionOnSet(allocation, S)

\* A request has its line locked until its transaction ends.
HoldsLine(r) == req[r].pc \in {"rows", "decide"}
Ends(r) == /\ req' = [req EXCEPT ![r].pc = "done", ![r].base = 0, ![r].seen = 0]
           /\ held' = [held EXCEPT ![r] = {}]

\* Mutant of LockLine: the line is read without FOR UPDATE.
LockLine_NoWait(r) ==
    /\ req[r].pc = "line"
    /\ req[r].quantity <= ordered[req[r].line] - allocated[req[r].line]
    /\ req' = [req EXCEPT ![r].pc = "rows", ![r].base = allocated[req[r].line]]
    /\ UNCHANGED <<supply, allocated, allocation, held, feeds, shrunk>>

\* The line is locked and read, and more than what remains of it is refused.
LockLine(r) ==
    /\ req[r].pc = "line"
    /\ \A q \in Reserves \ {r} : HoldsLine(q) => req[q].line # req[r].line
    /\ req[r].quantity <= ordered[req[r].line] - allocated[req[r].line]
    /\ req' = [req EXCEPT ![r].pc = "rows", ![r].base = allocated[req[r].line]]
    /\ UNCHANGED <<supply, allocated, allocation, held, feeds, shrunk>>

RefuseOverAllocation(r) ==
    /\ req[r].pc = "line"
    /\ \A q \in Reserves \ {r} : HoldsLine(q) => req[q].line # req[r].line
    /\ req[r].quantity > ordered[req[r].line] - allocated[req[r].line]
    /\ Ends(r)
    /\ UNCHANGED <<supply, allocated, allocation, feeds, shrunk>>

LockRow(r) ==
    /\ req[r].pc = "rows"
    /\ \E p \in Selected(r) \ held[r] :
          /\ \A q \in Reserves : p \notin held[q]
          /\ held' = [held EXCEPT ![r] = @ \cup {p}]
    /\ UNCHANGED <<supply, allocated, allocation, req, feeds, shrunk>>

\* Mutants of ReadAllocations: allocations of lines at other locations, or at
\* none, are left out; they are read before the rows are locked.
ReadAllocations_OwnLocation(r) ==
    /\ req[r].pc = "rows" /\ held[r] = Selected(r)
    /\ LET S == {q \in Reserves : place[req[q].line] = place[req[r].line]} IN
          req' = [req EXCEPT ![r].pc = "decide", ![r].seen = Allocated(S)]
    /\ UNCHANGED <<supply, allocated, allocation, held, feeds, shrunk>>
ReadAllocations_Unlocked(r) ==
    /\ req[r].pc = "rows"
    /\ req' = [req EXCEPT ![r].pc = "decide", ![r].seen = Allocated(Reserves)]
    /\ UNCHANGED <<supply, allocated, allocation, held, feeds, shrunk>>

\* The allocations of the SKU, wherever they are, that are committed by now.
ReadAllocations(r) ==
    /\ req[r].pc = "rows" /\ held[r] = Selected(r)
    /\ req' = [req EXCEPT ![r].pc = "decide", ![r].seen = Allocated(Reserves)]
    /\ UNCHANGED <<supply, allocated, allocation, held, feeds, shrunk>>

Promisable(r) == Supply(Selected(r)) - req[r].seen

CommitReserve(r) ==
    /\ req[r].pc = "decide"
    /\ req[r].quantity <= Promisable(r)
    /\ allocation' = [allocation EXCEPT ![r] = req[r].quantity]
    /\ allocated' = [allocated EXCEPT ![req[r].line] = req[r].base + req[r].quantity]
    /\ Ends(r)
    /\ UNCHANGED <<supply, feeds, shrunk>>

RefuseInsufficient(r) ==
    /\ req[r].pc = "decide"
    /\ req[r].quantity > Promisable(r)
    /\ Ends(r)
    /\ UNCHANGED <<supply, allocated, allocation, feeds, shrunk>>

\* Mutant of AbortReserve: the transaction is left open.
AbortReserve_KeepsRows(r) ==
    /\ req[r].pc # "done"
    /\ req' = [req EXCEPT ![r].pc = "done", ![r].base = 0, ![r].seen = 0]
    /\ UNCHANGED <<supply, allocated, allocation, held, feeds, shrunk>>

\* An exception, a lost connection, or the victim of a deadlock.
AbortReserve(r) ==
    /\ req[r].pc # "done"
    /\ Ends(r)
    /\ UNCHANGED <<supply, allocated, allocation, feeds, shrunk>>

\* map_inventory overwrites a position, whatever is allocated; its update waits
\* for the lock of the row.
Feed(p) ==
    /\ feeds < MaxFeeds
    /\ \A q \in Reserves : p \notin held[q]
    /\ \E n \in 0..MaxSupply :
          /\ supply' = [supply EXCEPT ![p] = n]
          /\ shrunk' = (shrunk \/ n < supply[p])
    /\ feeds' = feeds + 1
    /\ UNCHANGED <<allocated, allocation, req, held>>

FStep(r) ==
    \/ LockLine(r) \/ RefuseOverAllocation(r) \/ LockRow(r) \/ ReadAllocations(r)
    \/ CommitReserve(r) \/ RefuseInsufficient(r)

FNext ==
    \/ \E r \in Reserves : FStep(r) \/ AbortReserve(r)
    \/ \E p \in Locations : Feed(p)

FSpec == FInit /\ [][FNext]_fvars

\* Reserves that wait for each other's rows in a circle.
Deadlocked(r) ==
    \E S \in SUBSET Reserves :
        /\ r \in S
        /\ \A q \in S : /\ req[q].pc = "rows" /\ held[q] # Selected(q)
                        /\ \A p \in Selected(q) \ held[q] : \E o \in S \ {q} : p \in held[o]

\* A running request keeps running, and PostgreSQL aborts a transaction of
\* every deadlock.
FFairSpec ==
    /\ FSpec
    /\ \A r \in Reserves : WF_fvars(FStep(r)) /\ WF_fvars(Deadlocked(r) /\ AbortReserve(r))

-----------------------------------------------------------------------------
\* Unless the feed takes stock away, no more is promised than there is, although
\* requests for lines at different locations do not wait for each other and do
\* not see each other's allocations (services.py:850-880, 1054-1058).
NoOverPromise == ~shrunk => Allocated(Reserves) <= Supply(Locations)

\* Nor is more promised to the lines of a location than that location has.
LocationCovered ==
    ~shrunk => \A p \in Locations :
        Allocated({r \in Reserves : place[req[r].line] = p}) <= supply[p]

\* The allocated quantity of a line is the sum of its allocations and within
\* what was ordered: no update of it is lost (services.py:1041-1052, 1065).
LineConsistent ==
    \A l \in Lines :
        /\ allocated[l] = Allocated({r \in Reserves : req[r].line = l})
        /\ allocated[l] <= ordered[l]

\* Every call of reserve ends, deadlocks over the inventory rows included.
EveryReserveEnds == \A r \in Reserves : <>(req[r].pc = "done")
=============================================================================
