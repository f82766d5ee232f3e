------------------------------ MODULE AIQuota ------------------------------
(***************************************************************************)
(* The persistent AI quota of ONE tenant, aurix_core/intelligence/quota.py *)
(* (AIQuotaManager) over the three tables of database/models/quota.py:     *)
(*                                                                         *)
(*   policy, reserved   the tenant's AIUsagePolicy row: its limits, and    *)
(*                      its counters of reserved exposure                  *)
(*   resv               AIQuotaReservation, one row per reservation id     *)
(*   ledger             AIUsageLedger, in the order of the inserts         *)
(*                                                                         *)
(* Callers follow the manager's documented contract: every call is a       *)
(* transaction of its own, committed before the caller goes on.  Each call *)
(* that writes takes the policy row FOR UPDATE, so it is one step from the *)
(* moment it holds that lock; what reserve_quota computes BEFORE the lock  *)
(* (the calendar window it will be judged in) is a step of its own.        *)
(* Every row is keyed by tenant, so one tenant loses nothing.  Token       *)
(* counts obey the same arithmetic as spend and are not kept separately.   *)
(***************************************************************************)
EXTENDS Integers, Sequences, FiniteSets, Functions

CONSTANTS
    Callers,      \* concurrent users of the manager for the tenant
    ResIds,       \* reservation ids (uuid4 in the code)
    Costs,        \* estimated and actual costs of a request
    Policies,     \* what an administrator may set the policy row to
    NoRes,        \* no reservation: what an inactive policy hands out
    MaxDay,       \* bound on the calendar
    MaxDirect     \* bound on rows written without a reservation

ASSUME CallersAssumption == NoRes \notin ResIds
ASSUME ResIdsAssumption == IsFiniteSet(ResIds)
ASSUME CostsAssumption == Costs \subseteq Nat
ASSUME PoliciesAssumption ==
    \A p \in Policies : /\ p.active \in BOOLEAN
                        /\ p.dayRequests \in Nat /\ p.monthRequests \in Nat
                        /\ p.daySpend \in Nat /\ p.monthSpend \in Nat
ASSUME BoundsAssumption == MaxDay \in Nat /\ MaxDirect \in Nat

VARIABLES
    today,        \* the UTC date: [day, month], as in date_str and month_str
    policy,       \* limits and is_active of the policy row
    reserved,     \* reserved_request_count and reserved_spend_usd of that row
    resv,         \* [ResIds -> [status, est]]; "NONE" is a row not inserted
    ledger,       \* sequence of [res, day, month, cost]
    caller,       \* [Callers -> [pc, now, rid]]
    bypassed      \* history: the ways in which unbudgeted usage came in

vars == <<today, policy, reserved, resv, ledger, caller, bypassed>>

Statuses == {"NONE", "RESERVED", "SETTLED", "RELEASED", "EXPIRED"}
Dates == [day : Nat, month : Nat]
Rows == [res : ResIds \cup {NoRes}, day : Nat, month : Nat, cost : Nat]

(***************************************************************************)
(* _db_usage_totals, _db_active_reservations, _reservation_totals.         *)
(***************************************************************************)
DayRows(d) == {i \in DOMAIN ledger : ledger[i].day = d}
MonthRows(m) == {i \in DOMAIN ledger : ledger[i].month = m}
Spend(rows) == SumFunctionOnSet([i \in DOMAIN ledger |-> ledger[i].cost], rows)

Held == {r \in ResIds : resv[r].status = "RESERVED"}
HeldSpend(S) == SumFunctionOnSet([r \in ResIds |-> resv[r].est], S)

\* Mutant of Exceeds: exposure is not counted.
Exceeds_IgnoresHeld(now, est) ==
    \/ Spend(DayRows(now.day)) + est > policy.daySpend
    \/ Spend(MonthRows(now.month)) + est > policy.monthSpend
    \/ Cardinality(DayRows(now.day)) + 1 > policy.dayRequests
    \/ Cardinality(MonthRows(now.month)) + 1 > policy.monthRequests

\* reserve_quota's six comparisons (tokens are folded into spend).
Exceeds(now, est) ==
    \/ Spend(DayRows(now.day)) + HeldSpend(Held) + est > policy.daySpend
    \/ Spend(MonthRows(now.month)) + HeldSpend(Held) + est > policy.monthSpend
    \/ Cardinality(DayRows(now.day)) + Cardinality(Held) + 1 > policy.dayRequests
    \/ Cardinality(MonthRows(now.month)) + Cardinality(Held) + 1 > policy.monthRequests

\* The counters are clamped at zero when exposure is given back.
AtLeastZero(n) == IF n < 0 THEN 0 ELSE n
GiveBack(S) ==
    reserved' = [requests |-> AtLeastZero(reserved.requests - Cardinality(S)),
                 spend    |-> AtLeastZero(reserved.spend - HeldSpend(S))]

Epoch == [day |-> 0, month |-> 0]
IdleCaller == [pc |-> "idle", now |-> Epoch, rid |-> NoRes]

Init ==
    /\ today = Epoch
    /\ policy \in Policies
    /\ reserved = [requests |-> 0, spend |-> 0]
    /\ resv = [r \in ResIds |-> [status |-> "NONE", est |-> 0]]
    /\ ledger = << >>
    /\ caller = [c \in Callers |-> IdleCaller]
    /\ bypassed = {}

(***************************************************************************)
(* reserve_quota up to the policy lock: `now` is read, and with it the     *)
(* date and month whose ledger rows will be counted.                       *)
(***************************************************************************)
EnterReserve(c) ==
    /\ caller[c].pc = "idle"
    /\ caller' = [caller EXCEPT ![c] = [pc |-> "locking", now |-> today, rid |-> NoRes]]
    /\ UNCHANGED <<today, policy, reserved, resv, ledger, bypassed>>

\* An inactive policy admits the request and records nothing.
ReserveInactive(c) ==
    /\ caller[c].pc = "locking"
    /\ ~policy.active
    /\ caller' = [caller EXCEPT ![c] = [pc |-> "calling", now |-> Epoch, rid |-> NoRes]]
    /\ UNCHANGED <<today, policy, reserved, resv, ledger, bypassed>>

ReserveRejected(c) ==
    /\ caller[c].pc = "locking"
    /\ policy.active
    /\ \E est \in Costs : Exceeds(caller[c].now, est)
    /\ caller' = [caller EXCEPT ![c] = IdleCaller]
    /\ UNCHANGED <<today, policy, reserved, resv, ledger, bypassed>>

\* A fresh row is inserted and the counters of the policy row are raised.
ReserveGranted(c) ==
    /\ caller[c].pc = "locking"
    /\ policy.active
    /\ \E est \in Costs, r \in ResIds :
          /\ resv[r].status = "NONE"
          /\ ~Exceeds(caller[c].now, est)
          /\ resv' = [resv EXCEPT ![r] = [status |-> "RESERVED", est |-> est]]
          /\ reserved' = [requests |-> reserved.requests + 1,
                          spend    |-> reserved.spend + est]
          /\ caller' = [caller EXCEPT ![c] = [pc |-> "calling", now |-> Epoch, rid |-> r]]
    /\ bypassed' = IF caller[c].now = today THEN bypassed ELSE bypassed \cup {"staleWindow"}
    /\ UNCHANGED <<today, policy, ledger>>

(***************************************************************************)
(* settle_reservation.  The row decides: RESERVED is settled and its usage *)
(* written with the date of the settlement; SETTLED returns the usage      *)
(* already written; any other status raises.  The caller may repeat a      *)
(* call whose answer it lost, so it may stay at "calling".                 *)
(***************************************************************************)
Leaves(c) == caller' \in {caller, [caller EXCEPT ![c] = IdleCaller]}

\* Mutants of Settle: the actual cost is given back instead of the estimate; a
\* row already settled is charged again.
Settle_GivesBackActual(c) ==
    /\ caller[c].pc = "calling"
    /\ caller[c].rid # NoRes
    /\ resv[caller[c].rid].status = "RESERVED"
    /\ \E cost \in Costs :
          /\ ledger' = Append(ledger, [res |-> caller[c].rid, day |-> today.day,
                                       month |-> today.month, cost |-> cost])
          /\ reserved' = [requests |-> AtLeastZero(reserved.requests - 1),
                          spend    |-> AtLeastZero(reserved.spend - cost)]
    /\ resv' = [resv EXCEPT ![caller[c].rid].status = "SETTLED"]
    /\ Leaves(c)
    /\ UNCHANGED <<today, policy, bypassed>>
Settle_Again(c) ==
    /\ caller[c].pc = "calling"
    /\ caller[c].rid # NoRes
    /\ resv[caller[c].rid].status \in {"RESERVED", "SETTLED"}
    /\ Len(ledger) < 4
    /\ \E cost \in Costs :
          ledger' = Append(ledger, [res |-> caller[c].rid, day |-> today.day,
                                    month |-> today.month, cost |-> cost])
    /\ GiveBack({caller[c].rid})
    /\ resv' = [resv EXCEPT ![caller[c].rid].status = "SETTLED"]
    /\ Leaves(c)
    /\ UNCHANGED <<today, policy, bypassed>>

Settle(c) ==
    /\ caller[c].pc = "calling"
    /\ caller[c].rid # NoRes
    /\ resv[caller[c].rid].status = "RESERVED"
    /\ \E cost \in Costs :
          ledger' = Append(ledger, [res |-> caller[c].rid, day |-> today.day,
                                    month |-> today.month, cost |-> cost])
    /\ GiveBack({caller[c].rid})
    /\ resv' = [resv EXCEPT ![caller[c].rid].status = "SETTLED"]
    /\ Leaves(c)
    /\ UNCHANGED <<today, policy, bypassed>>

\* The early returns of settle and release, and the ValueErrors of settle.
SettleOrReleaseNoop(c) ==
    /\ caller[c].pc = "calling"
    /\ caller[c].rid # NoRes => resv[caller[c].rid].status # "RESERVED"
    /\ caller' = [caller EXCEPT ![c] = IdleCaller]
    /\ UNCHANGED <<today, policy, reserved, resv, ledger, bypassed>>

\* Mutant of Release: a reservation that has ended is given back again.
Release_AnyStatus(c) ==
    /\ caller[c].pc = "calling"
    /\ caller[c].rid # NoRes
    /\ GiveBack({caller[c].rid})
    /\ resv' = [resv EXCEPT ![caller[c].rid].status = "RELEASED"]
    /\ Leaves(c)
    /\ UNCHANGED <<today, policy, ledger, bypassed>>

Release(c) ==
    /\ caller[c].pc = "calling"
    /\ caller[c].rid # NoRes
    /\ resv[caller[c].rid].status = "RESERVED"
    /\ GiveBack({caller[c].rid})
    /\ resv' = [resv EXCEPT ![caller[c].rid].status = "RELEASED"]
    /\ Leaves(c)
    /\ UNCHANGED <<today, policy, ledger, bypassed>>

\* The process dies between two calls: what it committed stays.
Crash(c) ==
    /\ caller[c].pc # "idle"
    /\ caller' = [caller EXCEPT ![c] = IdleCaller]
    /\ UNCHANGED <<today, policy, reserved, resv, ledger, bypassed>>

(***************************************************************************)
(* expire_reservations: every row still RESERVED whose expires_at has      *)
(* passed is released and marked EXPIRED.  A TTL may run out at any point, *)
(* so any set of RESERVED rows may be the overdue ones.                    *)
(***************************************************************************)
\* Mutant of ExpireReservations: overdue rows are not filtered by status.
ExpireReservations_AnyStatus ==
    \E S \in SUBSET {r \in ResIds : resv[r].status # "NONE"} :
        /\ S # {}
        /\ GiveBack(S)
        /\ resv' = [r \in ResIds |->
                        IF r \in S THEN [resv[r] EXCEPT !.status = "EXPIRED"] ELSE resv[r]]
        /\ UNCHANGED <<today, policy, ledger, caller, bypassed>>

ExpireReservations ==
    \E S \in SUBSET Held :
        /\ S # {}
        /\ GiveBack(S)
        /\ resv' = [r \in ResIds |->
                        IF r \in S THEN [resv[r] EXCEPT !.status = "EXPIRED"] ELSE resv[r]]
        /\ UNCHANGED <<today, policy, ledger, caller, bypassed>>

\* set_policy: new limits over whatever has been used so far.
SetPolicy ==
    /\ policy' \in Policies \ {policy}
    /\ bypassed' = bypassed \cup {"setPolicy"}
    /\ UNCHANGED <<today, reserved, resv, ledger, caller>>

\* record_usage without a reservation: a ledger row that nobody budgeted.
RecordUsage ==
    /\ Cardinality({i \in DOMAIN ledger : ledger[i].res = NoRes}) < MaxDirect
    /\ \E cost \in Costs :
          ledger' = Append(ledger, [res |-> NoRes, day |-> today.day,
                                    month |-> today.month, cost |-> cost])
    /\ bypassed' = bypassed \cup {"recordUsage"}
    /\ UNCHANGED <<today, policy, reserved, resv, caller>>

NextDay ==
    /\ today.day < MaxDay
    /\ \E m \in {today.month, today.month + 1} :
          today' = [day |-> today.day + 1, month |-> m]
    /\ UNCHANGED <<policy, reserved, resv, ledger, caller, bypassed>>

CallerNext(c) ==
    \/ EnterReserve(c) \/ ReserveInactive(c) \/ ReserveRejected(c) \/ ReserveGranted(c)
    \/ Settle(c) \/ SettleOrReleaseNoop(c) \/ Release(c) \/ Crash(c)

Next ==
    \/ \E c \in Callers : CallerNext(c)
    \/ ExpireReservations
    \/ SetPolicy
    \/ RecordUsage
    \/ NextDay

Spec == Init /\ [][Next]_vars

-----------------------------------------------------------------------------
(***************************************************************************)
(* Properties.                                                             *)
(***************************************************************************)

\* Every variable has its type; that reserved.spend is a natural number follows
\* from SpendCounterExact.
TypeOK ==
    /\ today \in Dates
    /\ policy \in Policies
    /\ reserved.requests \in Nat
    /\ resv \in [ResIds -> [status : Statuses, est : Nat]]
    /\ ledger \in Seq(Rows)
    /\ caller \in [Callers -> [pc : {"idle", "locking", "calling"}, now : Dates,
                               rid : ResIds \cup {NoRes}]]

\* The counter kept on the policy row equals the number of reservations still
\* RESERVED, whatever mixture of settlements, releases, expiries, repeated
\* calls and crashes happened: the clamps at zero never hide a double return
\* (quota.py:1334-1348, 1541-1565, 1695-1719).
RequestCounterExact == reserved.requests = Cardinality(Held)

\* The same for the spend counter (quota.py:1326-1332, 1528-1539, 1682-1693).
SpendCounterExact == reserved.spend = HeldSpend(Held)

\* A reservation has a usage row exactly when it is SETTLED, and then exactly
\* one: no retry, late answer or expiry charges a request twice or drops the
\* charge of a settled one (quota.py:1407-1465).
ChargedExactlyOnce ==
    /\ \A r \in ResIds : resv[r].status = "SETTLED" <=> \E i \in DOMAIN ledger : ledger[i].res = r
    /\ \A i, j \in DOMAIN ledger : ledger[i].res = ledger[j].res /\ ledger[i].res # NoRes => i = j

\* Unless usage came in by an unbudgeted way, what is used in the current
\* window plus what is in flight stays within the policy's request limits: the
\* policy lock makes check and insert one step (models/quota.py: concurrent
\* requests cannot oversubscribe the configured budget).
RequestBudget ==
    policy.active /\ bypassed = {} =>
        /\ Cardinality(DayRows(today.day)) + Cardinality(Held) <= policy.dayRequests
        /\ Cardinality(MonthRows(today.month)) + Cardinality(Held) <= policy.monthRequests

\* The ledger is immutable: rows are only appended, and a reservation that has
\* left RESERVED never changes status again (models/quota.py: "immutable
\* ledger", and the lifecycle drawn there).
LedgerAndStatusFinal ==
    [][/\ \E k \in 0..1 : /\ Len(ledger') = Len(ledger) + k
                          /\ SubSeq(ledger', 1, Len(ledger)) = ledger
       /\ \A r \in ResIds : resv[r].status \in {"SETTLED", "RELEASED", "EXPIRED"}
                                => resv'[r] = resv[r]]_vars
=============================================================================
