----------------------------- MODULE QuotaProofs -----------------------------
(***************************************************************************)
(* AIQuota for any number of callers, reservations, policies and days, and *)
(* AIGateway, which drives it, for any cascade of providers.               *)
(***************************************************************************)
EXTENDS AIGateway, Sums

(***************************************************************************)
(* Part 1: the quota manager.  Both counters of the policy row are exact,  *)
(* so the clamps at zero never act; a reservation is charged when and only *)
(* when it is settled; and requests stay within the budget.                *)
(***************************************************************************)
\* No row is dated later than today: a new window starts empty.
LedgerNotAhead ==
    \A i \in DOMAIN ledger : ledger[i].day <= today.day /\ ledger[i].month <= today.month

IInv == /\ TypeOK /\ RequestCounterExact /\ SpendCounterExact
        /\ ChargedExactlyOnce /\ LedgerNotAhead /\ RequestBudget

-----------------------------------------------------------------------------
(***************************************************************************)
(* Lemmas about the tables.                                                *)
(***************************************************************************)
\* The held reservations are finitely many.
LEMMA HeldFinite == IsFiniteSet(Held) /\ Cardinality(Held) \in Nat
<1>1. Held \in SUBSET ResIds
  BY DEF Held
<1> QED BY <1>1, ResIdsAssumption, FS_Subset, FS_CardinalityType

\* What reservations hold is an amount, and fewer hold no more.
LEMMA HeldSpendType ==
    ASSUME resv \in [ResIds -> [status : Statuses, est : Nat]], NEW S \in SUBSET ResIds
    PROVE  /\ HeldSpend(S) \in Nat
           /\ \A T \in SUBSET S : /\ HeldSpend(T) \in Nat /\ HeldSpend(T) <= HeldSpend(S)
                                 /\ HeldSpend(S \ T) = HeldSpend(S) - HeldSpend(T)
<1> DEFINE f == [r \in ResIds |-> resv[r].est]
<1>1. \A T \in SUBSET ResIds : IsFiniteSet(T) /\ \A r \in T : f[r] \in Nat /\ f[r] \in Int
  BY ResIdsAssumption, FS_Subset
<1>2. \A T \in SUBSET ResIds : HeldSpend(T) = SumFunctionOnSet(f, T)
  BY DEF HeldSpend
<1> HIDE DEF f
<1>3. \A T \in SUBSET ResIds : HeldSpend(T) \in Nat
  BY <1>1, <1>2, NatSum
<1>4. ASSUME NEW T \in SUBSET S
      PROVE  HeldSpend(T) <= HeldSpend(S) /\ HeldSpend(S \ T) = HeldSpend(S) - HeldSpend(T)
  <2>1. T \in SUBSET ResIds /\ S \ T \in SUBSET ResIds /\ T \cap (S \ T) = {} /\ T \cup (S \ T) = S
    BY <1>4
  <2>2. SumFunctionOnSet(f, T \cup (S \ T)) = SumFunctionOnSet(f, T) + SumFunctionOnSet(f, S \ T)
    BY <1>1, <2>1, SumOfTwo
  <2>3. HeldSpend(S) = HeldSpend(T) + HeldSpend(S \ T)
    BY <1>2, <2>1, <2>2
  <2> QED BY <1>3, <2>1, <2>3
<1> QED BY <1>3, <1>4

\* It depends on the estimates of these reservations only.
LEMMA HeldSpendSame ==
    ASSUME resv \in [ResIds -> [status : Statuses, est : Nat]], NEW S \in SUBSET ResIds,
           \A r \in S : resv'[r].est = resv[r].est
    PROVE  HeldSpend(S)' = HeldSpend(S)
<1> DEFINE f == [r \in ResIds |-> resv[r].est]
           g == [r \in ResIds |-> resv'[r].est]
<1>1. IsFiniteSet(S) /\ \A r \in S : f[r] \in Int /\ g[r] = f[r]
  BY ResIdsAssumption, FS_Subset
<1>2. HeldSpend(S) = SumFunctionOnSet(f, S) /\ HeldSpend(S)' = SumFunctionOnSet(g, S)
  BY DEF HeldSpend
<1> HIDE DEF f, g
<1> QED BY <1>1, <1>2, SumSame

\* So are the ledger rows of a window.
LEMMA RowsFinite ==
    ASSUME ledger \in Seq(Rows), NEW d
    PROVE  /\ IsFiniteSet(DayRows(d)) /\ Cardinality(DayRows(d)) \in Nat
           /\ IsFiniteSet(MonthRows(d)) /\ Cardinality(MonthRows(d)) \in Nat
<1>1. IsFiniteSet(1..Len(ledger))
  BY FS_Interval
<1>2. DayRows(d) \in SUBSET (1..Len(ledger)) /\ MonthRows(d) \in SUBSET (1..Len(ledger))
  BY DEF DayRows, MonthRows
<1> QED BY <1>1, <1>2, FS_Subset, FS_CardinalityType

\* A set that gains at most one element.
LEMMA AtMostOneMore ==
    ASSUME NEW S, IsFiniteSet(S), NEW x, NEW T \in SUBSET (S \cup {x})
    PROVE  Cardinality(T) \in Nat /\ Cardinality(T) <= Cardinality(S) + 1
<1>1. IsFiniteSet(S \cup {x})
      /\ Cardinality(S \cup {x}) = IF x \in S THEN Cardinality(S) ELSE Cardinality(S) + 1
  BY FS_AddElement
<1>2. Cardinality(S) \in Nat
  BY FS_CardinalityType
<1>3. IsFiniteSet(T) /\ Cardinality(T) <= Cardinality(S \cup {x})
  BY <1>1, FS_Subset
<1>4. Cardinality(T) \in Nat
  BY <1>3, FS_CardinalityType
<1> QED BY <1>1, <1>2, <1>3, <1>4

\* An appended row belongs to at most one more of today's windows.
LEMMA RowsAppended ==
    ASSUME ledger \in Seq(Rows), NEW row \in Rows, ledger' = Append(ledger, row),
           UNCHANGED today
    PROVE  /\ ledger' \in Seq(Rows)
           /\ Cardinality(DayRows(today.day))' \in Nat
           /\ Cardinality(DayRows(today.day))' <= Cardinality(DayRows(today.day)) + 1
           /\ Cardinality(MonthRows(today.month))' \in Nat
           /\ Cardinality(MonthRows(today.month))' <= Cardinality(MonthRows(today.month)) + 1
<1> DEFINE n == Len(ledger) + 1
<1>1. ledger' \in Seq(Rows) /\ Len(ledger') = n /\ \A i \in 1..Len(ledger) : ledger'[i] = ledger[i]
  OBVIOUS
<1>2. /\ DayRows(today.day)' \in SUBSET (DayRows(today.day) \cup {n})
      /\ MonthRows(today.month)' \in SUBSET (MonthRows(today.month) \cup {n})
  BY <1>1 DEF DayRows, MonthRows
<1>3. IsFiniteSet(DayRows(today.day)) /\ IsFiniteSet(MonthRows(today.month))
  BY RowsFinite
<1> HIDE DEF n
<1>4. Cardinality(DayRows(today.day)') \in Nat
      /\ Cardinality(DayRows(today.day)') <= Cardinality(DayRows(today.day)) + 1
  BY <1>2, <1>3, AtMostOneMore
<1>5. Cardinality(MonthRows(today.month)') \in Nat
      /\ Cardinality(MonthRows(today.month)') <= Cardinality(MonthRows(today.month)) + 1
  BY <1>2, <1>3, AtMostOneMore
<1> QED BY <1>1, <1>4, <1>5

\* Giving back a set of held reservations never meets a clamp.
LEMMA GiveBackExact ==
    ASSUME TypeOK, RequestCounterExact, SpendCounterExact, NEW S \in SUBSET Held, GiveBack(S),
           Held' = Held \ S, \A r \in Held \ S : resv'[r] = resv[r]
    PROVE  /\ RequestCounterExact' /\ SpendCounterExact' /\ reserved'.requests \in Nat
           /\ Cardinality(Held)' = Cardinality(Held) - Cardinality(S)
           /\ Cardinality(S) \in Nat
<1>1. IsFiniteSet(S) /\ Cardinality(S) \in Nat /\ Cardinality(S) <= Cardinality(Held)
  BY HeldFinite, FS_Subset, FS_CardinalityType
<1>2. IsFiniteSet(Held \ S) /\ Cardinality(Held \ S) \in Nat
  <2>1. Held \ S \in SUBSET Held
    OBVIOUS
  <2> QED BY <2>1, HeldFinite, FS_Subset, FS_CardinalityType
<1>3. Cardinality(Held) = Cardinality(S) + Cardinality(Held \ S)
  <2>1. (Held \ S) \cup S = Held /\ (Held \ S) \cap S = {}
    OBVIOUS
  <2>2. Cardinality((Held \ S) \cup S)
            = Cardinality(Held \ S) + Cardinality(S) - Cardinality((Held \ S) \cap S)
    BY <1>1, <1>2, FS_Union
  <2> QED BY <1>1, <1>2, <2>1, <2>2, FS_EmptySet
<1>4. reserved'.requests = AtLeastZero(reserved.requests - Cardinality(S))
  BY DEF GiveBack
<1>5. SpendCounterExact'
  <2>1. PICK rest \in SUBSET ResIds : rest = Held \ S
    BY DEF Held
  <2>2. /\ HeldSpend(Held) \in Nat /\ HeldSpend(S) \in Nat /\ HeldSpend(S) <= HeldSpend(Held)
        /\ HeldSpend(rest) = HeldSpend(Held) - HeldSpend(S)
    BY <2>1, HeldSpendType DEF TypeOK, Held
  <2>3. HeldSpend(rest)' = HeldSpend(rest) /\ Held' = rest
    BY <2>1, HeldSpendSame DEF TypeOK
  <2>4. reserved'.spend = AtLeastZero(reserved.spend - HeldSpend(S))
    BY DEF GiveBack
  <2> QED BY <2>2, <2>3, <2>4 DEF SpendCounterExact, AtLeastZero
<1> QED BY <1>5,  <1>1, <1>2, <1>3, <1>4, HeldFinite DEF RequestCounterExact, AtLeastZero

\* A reservation that leaves RESERVED is held no longer; others are untouched.
LEMMA HeldAfterLeaving ==
    ASSUME TypeOK, NEW r \in Held, NEW s \in Statuses \ {"RESERVED"},
           resv' = [resv EXCEPT ![r].status = s]
    PROVE  /\ Held' = Held \ {r} /\ {r} \in SUBSET Held
           /\ resv' \in [ResIds -> [status : Statuses, est : Nat]]
BY DEF TypeOK, Held

\* A fresh reservation is one more, and holds its estimate.
LEMMA HeldAfterInsert ==
    ASSUME TypeOK, NEW r \in ResIds, resv[r].status = "NONE", NEW est \in Costs,
           resv' = [resv EXCEPT ![r] = [status |-> "RESERVED", est |-> est]]
    PROVE  /\ Cardinality(Held)' = Cardinality(Held) + 1
           /\ HeldSpend(Held)' = HeldSpend(Held) + est
           /\ resv' \in [ResIds -> [status : Statuses, est : Nat]]
<1>1. Held' = Held \cup {r} /\ r \notin Held
  BY DEF TypeOK, Held
<1>2. resv' \in [ResIds -> [status : Statuses, est : Nat]]
  BY CostsAssumption DEF TypeOK, Statuses
<1>3. HeldSpend(Held)' = HeldSpend(Held) + est
  <2> DEFINE g == [q \in ResIds |-> resv'[q].est]
             sum(S) == SumFunctionOnSet(g, S)
  <2>1. IsFiniteSet(Held) /\ Held \in SUBSET ResIds
    BY HeldFinite DEF Held
  <2>2. g[r] = est /\ \A y \in Held \cup {r} : g[y] \in Int
    BY <1>2, <2>1 DEF TypeOK
  <2>3. sum(Held \cup {r}) = g[r] + sum(Held)
    <3> HIDE DEF g
    <3> QED BY <1>1, <2>1, <2>2, SumAdds
  <2>4. HeldSpend(Held)' = sum(Held \cup {r})
    BY <1>1 DEF HeldSpend
  <2>5. sum(Held) = HeldSpend(Held)
    <3> DEFINE f == [q \in ResIds |-> resv[q].est]
    <3>1. \A y \in Held : f[y] \in Int /\ g[y] = f[y]
      BY <1>1, <2>1 DEF TypeOK
    <3>2. HeldSpend(Held) = SumFunctionOnSet(f, Held)
      BY DEF HeldSpend
    <3> HIDE DEF f, g
    <3> QED BY <2>1, <3>1, <3>2, SumSame
  <2>6. HeldSpend(Held) \in Nat /\ est \in Nat
    BY <2>1, HeldSpendType, CostsAssumption DEF TypeOK
  <2> HIDE DEF g, sum
  <2> QED BY <2>2, <2>3, <2>4, <2>5, <2>6
<1> QED BY <1>1, <1>2, <1>3, HeldFinite, FS_AddElement

\* The budget survives whenever use and exposure together do not grow.
LEMMA BudgetKept ==
    ASSUME TypeOK, RequestBudget, UNCHANGED <<today, policy, bypassed>>,
           NEW dn \in Nat, NEW mn \in Nat, NEW k \in Nat,
           dn = Cardinality(DayRows(today.day))', mn = Cardinality(MonthRows(today.month))',
           k = Cardinality(Held)',
           dn + k <= Cardinality(DayRows(today.day)) + Cardinality(Held),
           mn + k <= Cardinality(MonthRows(today.month)) + Cardinality(Held)
    PROVE  RequestBudget'
<1>1. policy.dayRequests \in Nat /\ policy.monthRequests \in Nat
  BY PoliciesAssumption DEF TypeOK
<1>2. /\ Cardinality(DayRows(today.day)) \in Nat
      /\ Cardinality(MonthRows(today.month)) \in Nat
  BY RowsFinite DEF TypeOK
<1> QED BY <1>1, <1>2, HeldFinite DEF RequestBudget

-----------------------------------------------------------------------------
(***************************************************************************)
(* The invariant is inductive.                                             *)
(***************************************************************************)
CallerTypes == [Callers -> [pc : {"idle", "locking", "calling"}, now : Dates,
                            rid : ResIds \cup {NoRes}]]

\* The record of an idle caller is well typed.
LEMMA IdleCallerTyped ==
    /\ Epoch \in Dates
    /\ IdleCaller \in [pc : {"idle", "locking", "calling"}, now : Dates, rid : ResIds \cup {NoRes}]
BY DEF IdleCaller, Epoch, Dates

\* Nothing is held and nothing used to begin with.
LEMMA InitEstablishes == Init => IInv
<1> SUFFICES ASSUME Init PROVE IInv
  OBVIOUS
<1> USE DEF Init
<1>1. TypeOK
  BY IdleCallerTyped DEF TypeOK, Statuses, Dates, Epoch
<1>2. Held = {} /\ Cardinality(Held) = 0
  BY FS_EmptySet DEF Held
<1>3. /\ Cardinality(DayRows(today.day)) = 0
      /\ Cardinality(MonthRows(today.month)) = 0
  <2>1. DayRows(today.day) = {} /\ MonthRows(today.month) = {}
    BY DEF DayRows, MonthRows
  <2> QED BY <2>1, FS_EmptySet
<1>4. policy.dayRequests \in Nat /\ policy.monthRequests \in Nat
  BY PoliciesAssumption
<1>5. RequestBudget
  BY <1>2, <1>3, <1>4 DEF RequestBudget
<1>6. RequestCounterExact /\ SpendCounterExact /\ ChargedExactlyOnce /\ LedgerNotAhead
  BY <1>2, SumOfNothing DEF RequestCounterExact, SpendCounterExact, HeldSpend, ChargedExactlyOnce,
     LedgerNotAhead
<1> QED BY <1>1, <1>5, <1>6 DEF IInv

\* Steps that move only a caller.
LEMMA CallerMoves ==
    ASSUME IInv, UNCHANGED <<today, policy, reserved, resv, ledger, bypassed>>,
           caller' \in CallerTypes
    PROVE  IInv'
BY DEF IInv, TypeOK, CallerTypes, RequestCounterExact, SpendCounterExact, HeldSpend,
       ChargedExactlyOnce, LedgerNotAhead, RequestBudget, Held, DayRows, MonthRows

\* A caller that leaves, or stays to repeat its call, keeps its type.
LEMMA LeavesTyped ==
    ASSUME TypeOK, NEW c \in Callers, Leaves(c)
    PROVE  caller' \in CallerTypes
BY IdleCallerTyped DEF TypeOK, CallerTypes, Leaves

\* Reading the clock touches no table (reserve_quota, before the lock).
LEMMA EnterReservePreserves ==
    ASSUME IInv, NEW c \in Callers, EnterReserve(c) PROVE IInv'
<1>1. caller' \in CallerTypes
  BY DEF IInv, TypeOK, CallerTypes, EnterReserve
<1> QED BY <1>1, CallerMoves DEF EnterReserve

\* An inactive policy records nothing (reserve_quota).
LEMMA ReserveInactivePreserves ==
    ASSUME IInv, NEW c \in Callers, ReserveInactive(c) PROVE IInv'
<1>1. caller' \in CallerTypes
  BY IdleCallerTyped DEF IInv, TypeOK, CallerTypes, ReserveInactive
<1> QED BY <1>1, CallerMoves DEF ReserveInactive

\* Rejections, calls that find nothing to do, crashes: the caller goes idle.
LEMMA GoesIdlePreserves ==
    ASSUME IInv, NEW c \in Callers,
           ReserveRejected(c) \/ SettleOrReleaseNoop(c) \/ Crash(c)
    PROVE  IInv'
<1>1. caller' \in CallerTypes
  BY IdleCallerTyped DEF IInv, TypeOK, CallerTypes, ReserveRejected, SettleOrReleaseNoop, Crash
<1> QED BY <1>1, CallerMoves DEF ReserveRejected, SettleOrReleaseNoop, Crash

\* A reservation granted in today's window takes one of its free requests; one
\* granted in an older window is recorded in bypassed (reserve_quota).
LEMMA ReserveGrantedPreserves ==
    ASSUME IInv, NEW c \in Callers, ReserveGranted(c) PROVE IInv'
<1>1. PICK est \in Costs, r \in ResIds :
          /\ resv[r].status = "NONE"
          /\ ~Exceeds(caller[c].now, est)
          /\ resv' = [resv EXCEPT ![r] = [status |-> "RESERVED", est |-> est]]
          /\ reserved' = [requests |-> reserved.requests + 1, spend |-> reserved.spend + est]
          /\ caller' = [caller EXCEPT ![c] = [pc |-> "calling", now |-> Epoch, rid |-> r]]
  BY DEF ReserveGranted
<1>2. /\ Cardinality(Held)' = Cardinality(Held) + 1
      /\ HeldSpend(Held)' = HeldSpend(Held) + est
      /\ resv' \in [ResIds -> [status : Statuses, est : Nat]]
  BY <1>1, HeldAfterInsert DEF IInv
<1>3. TypeOK'
  BY <1>1, <1>2, IdleCallerTyped DEF IInv, TypeOK, ReserveGranted
<1>4. RequestCounterExact' /\ SpendCounterExact'
  BY <1>1, <1>2, HeldFinite DEF IInv, RequestCounterExact, SpendCounterExact
<1>5. ChargedExactlyOnce'
  BY <1>1 DEF IInv, TypeOK, ChargedExactlyOnce, ReserveGranted
<1>6. LedgerNotAhead'
  BY DEF IInv, LedgerNotAhead, ReserveGranted
<1>7. RequestBudget'
  <2> SUFFICES ASSUME bypassed' = {} PROVE RequestBudget'
    BY DEF RequestBudget
  <2>1. caller[c].now = today /\ UNCHANGED <<today, policy, ledger>>
    BY DEF ReserveGranted
  <2>2. /\ Cardinality(DayRows(today.day)) \in Nat /\ Cardinality(MonthRows(today.month)) \in Nat
        /\ policy.dayRequests \in Nat /\ policy.monthRequests \in Nat
    BY RowsFinite, PoliciesAssumption DEF IInv, TypeOK
  <2>3. /\ Cardinality(DayRows(today.day)) + Cardinality(Held) + 1 <= policy.dayRequests
        /\ Cardinality(MonthRows(today.month)) + Cardinality(Held) + 1 <= policy.monthRequests
    BY <1>1, <2>1, <2>2, HeldFinite DEF Exceeds
  <2>4. DayRows(today.day)' = DayRows(today.day) /\ MonthRows(today.month)' = MonthRows(today.month)
    BY <2>1 DEF DayRows, MonthRows
  <2> QED BY <1>2, <2>1, <2>2, <2>3, <2>4, HeldFinite DEF RequestBudget
<1> QED BY <1>3, <1>4, <1>5, <1>6, <1>7 DEF IInv

\* A settlement turns one held request into one used one (settle_reservation).
LEMMA SettlePreserves ==
    ASSUME IInv, NEW c \in Callers, Settle(c) PROVE IInv'
<1>0. PICK r \in Held : r = caller[c].rid
  BY DEF IInv, TypeOK, Settle, Held
<1>1. UNCHANGED <<today, policy, bypassed>>
      /\ resv' = [resv EXCEPT ![r].status = "SETTLED"] /\ GiveBack({r}) /\ Leaves(c)
  BY <1>0 DEF Settle
<1>2. PICK cost \in Costs :
          ledger' = Append(ledger, [res |-> r, day |-> today.day, month |-> today.month,
                                    cost |-> cost])
  BY <1>0 DEF Settle
<1> DEFINE row == [res |-> r, day |-> today.day, month |-> today.month, cost |-> cost]
<1>3. row \in Rows /\ ledger \in Seq(Rows)
  BY <1>1, CostsAssumption DEF IInv, TypeOK, Rows, Dates, Held
<1>4. /\ Held' = Held \ {r} /\ {r} \in SUBSET Held
      /\ resv' \in [ResIds -> [status : Statuses, est : Nat]]
  <2>1. "SETTLED" \in Statuses \ {"RESERVED"}
    BY DEF Statuses
  <2> QED BY <1>1, <2>1, HeldAfterLeaving DEF IInv
<1>5. /\ RequestCounterExact' /\ SpendCounterExact' /\ reserved'.requests \in Nat
      /\ Cardinality(Held)' = Cardinality(Held) - Cardinality({r})
  <2>1. \A q \in Held \ {r} : resv'[q] = resv[q]
    BY <1>1 DEF IInv, TypeOK, Held
  <2> QED BY <1>1, <1>4, <2>1, GiveBackExact DEF IInv
<1>6. Cardinality({r}) = 1 /\ Cardinality(Held)' \in Nat
  <2>1. Cardinality(Held \ {r}) \in Nat
    BY HeldFinite, FS_RemoveElement, FS_CardinalityType
  <2> QED BY <1>4, <2>1, FS_Singleton
<1>7. TypeOK'
  BY <1>1, <1>2, <1>3, <1>4, <1>5, LeavesTyped, RowsAppended DEF IInv, TypeOK, CallerTypes
<1>8. LedgerNotAhead'
  BY <1>1, <1>2, <1>3 DEF IInv, TypeOK, LedgerNotAhead, Dates
<1>9. ChargedExactlyOnce'
  <2>1. /\ Len(ledger') = Len(ledger) + 1 /\ ledger' \in Seq(Rows)
        /\ \A i \in 1..Len(ledger) : ledger'[i] = ledger[i]
        /\ ledger'[Len(ledger) + 1] = row
    BY <1>2, <1>3
  <2>2. \A i \in DOMAIN ledger : ledger[i].res # r
    BY <1>1 DEF IInv, TypeOK, ChargedExactlyOnce, Held
  <2>3. r # NoRes /\ r \in ResIds
    BY <1>1, CallersAssumption DEF Held
  <2>4. \A q \in ResIds : resv'[q].status = (IF q = r THEN "SETTLED" ELSE resv[q].status)
    BY <1>1, <2>3 DEF IInv, TypeOK
  <2>5. \A i \in DOMAIN ledger' : i \in DOMAIN ledger \/ i = Len(ledger) + 1
    BY <1>3, <2>1
  <2>6. \A q \in ResIds : resv'[q].status = "SETTLED"
                               <=> \E i \in DOMAIN ledger' : ledger'[i].res = q
    <3> SUFFICES ASSUME NEW q \in ResIds
                 PROVE resv'[q].status = "SETTLED" <=> \E i \in DOMAIN ledger' : ledger'[i].res = q
      OBVIOUS
    <3>1. CASE q = r
      <4>1. Len(ledger) + 1 \in DOMAIN ledger' /\ ledger'[Len(ledger) + 1].res = r
        BY <1>3, <2>1
      <4> QED BY <3>1, <4>1, <2>4
    <3>2. CASE q # r
      <4>1. resv'[q].status = "SETTLED" <=> \E i \in DOMAIN ledger : ledger[i].res = q
        BY <2>4, <3>2 DEF IInv, ChargedExactlyOnce
      <4>2. \A i \in DOMAIN ledger' : ledger'[i].res = q => i \in DOMAIN ledger /\ ledger[i].res = q
        BY <1>3, <2>1, <2>5, <3>2
      <4>3. \A i \in DOMAIN ledger : i \in DOMAIN ledger' /\ ledger'[i] = ledger[i]
        BY <1>3, <2>1
      <4> QED BY <4>1, <4>2, <4>3
    <3> QED BY <3>1, <3>2
  <2>7. \A i, j \in DOMAIN ledger' : ledger'[i].res = ledger'[j].res /\ ledger'[i].res # NoRes => i = j
    BY <1>3, <2>1, <2>2, <2>5 DEF IInv, ChargedExactlyOnce
  <2> QED BY <2>6, <2>7 DEF ChargedExactlyOnce
<1>10. RequestBudget'
  <2>1. /\ Cardinality(DayRows(today.day))' \in Nat
        /\ Cardinality(DayRows(today.day))' <= Cardinality(DayRows(today.day)) + 1
        /\ Cardinality(MonthRows(today.month))' \in Nat
        /\ Cardinality(MonthRows(today.month))' <= Cardinality(MonthRows(today.month)) + 1
    BY <1>1, <1>2, <1>3, RowsAppended
  <2>2. Cardinality(DayRows(today.day)) \in Nat /\ Cardinality(MonthRows(today.month)) \in Nat
    BY <1>3, RowsFinite
  <2>3. /\ Cardinality(DayRows(today.day))' + Cardinality(Held)'
              <= Cardinality(DayRows(today.day)) + Cardinality(Held)
        /\ Cardinality(MonthRows(today.month))' + Cardinality(Held)'
              <= Cardinality(MonthRows(today.month)) + Cardinality(Held)
    BY <1>5, <1>6, <2>1, <2>2, HeldFinite
  <2> QED BY <1>1, <1>6, <2>1, <2>3, BudgetKept DEF IInv
<1> QED BY <1>5, <1>7, <1>8, <1>9, <1>10 DEF IInv

\* Steps that give reservations back without touching the ledger.
LEMMA GivenBackPreserves ==
    ASSUME IInv, NEW S \in SUBSET Held, GiveBack(S),
           UNCHANGED <<today, policy, ledger, bypassed>>, caller' \in CallerTypes,
           resv' \in [ResIds -> [status : Statuses, est : Nat]],
           \A q \in ResIds : IF q \in S THEN resv'[q].status \notin {"RESERVED", "SETTLED"}
                                         ELSE resv'[q] = resv[q]
    PROVE  IInv'
<1>1. Held' = Held \ S
  BY DEF Held
<1>2. /\ RequestCounterExact' /\ SpendCounterExact' /\ reserved'.requests \in Nat
      /\ Cardinality(Held)' = Cardinality(Held) - Cardinality(S) /\ Cardinality(S) \in Nat
  <2>1. \A q \in Held \ S : resv'[q] = resv[q]
    BY DEF Held
  <2> QED BY <1>1, <2>1, GiveBackExact DEF IInv
<1>3. TypeOK'
  BY <1>2 DEF IInv, TypeOK, CallerTypes
<1>4. LedgerNotAhead'
  BY DEF IInv, LedgerNotAhead
<1>5. ChargedExactlyOnce'
  <2>1. \A q \in ResIds : resv'[q].status = "SETTLED" <=> resv[q].status = "SETTLED"
    BY DEF Held
  <2> QED BY <2>1 DEF IInv, ChargedExactlyOnce
<1>6. RequestBudget'
  <2>1. Cardinality(Held)' \in Nat
    <3>1. Held \ S \in SUBSET Held
      OBVIOUS
    <3> QED BY <1>1, <3>1, HeldFinite, FS_Subset, FS_CardinalityType
  <2>2. DayRows(today.day)' = DayRows(today.day) /\ MonthRows(today.month)' = MonthRows(today.month)
    BY DEF DayRows, MonthRows
  <2>3. Cardinality(DayRows(today.day)) \in Nat /\ Cardinality(MonthRows(today.month)) \in Nat
    BY RowsFinite DEF IInv, TypeOK
  <2>4. /\ Cardinality(DayRows(today.day)) + Cardinality(Held)'
              <= Cardinality(DayRows(today.day)) + Cardinality(Held)
        /\ Cardinality(MonthRows(today.month)) + Cardinality(Held)'
              <= Cardinality(MonthRows(today.month)) + Cardinality(Held)
    BY <1>2, <2>1, <2>3, HeldFinite
  <2> QED BY <2>1, <2>2, <2>3, <2>4, BudgetKept DEF IInv
<1> QED BY <1>2, <1>3, <1>4, <1>5, <1>6 DEF IInv

\* A release gives one reservation back (release_reservation).
LEMMA ReleasePreserves ==
    ASSUME IInv, NEW c \in Callers, Release(c) PROVE IInv'
<1>1. PICK r \in Held : r = caller[c].rid
  BY DEF IInv, TypeOK, Release, Held
<1>2. /\ UNCHANGED <<today, policy, ledger, bypassed>> /\ GiveBack({r})
      /\ resv' = [resv EXCEPT ![r].status = "RELEASED"]
  BY <1>1 DEF Release
<1>3. caller' \in CallerTypes
  BY LeavesTyped DEF IInv, Release
<1>4. "RELEASED" \in Statuses \ {"RESERVED"} /\ {r} \in SUBSET Held
  BY DEF Statuses
<1>5. resv' \in [ResIds -> [status : Statuses, est : Nat]]
  BY <1>2, <1>4, HeldAfterLeaving DEF IInv
<1>6. \A q \in ResIds : IF q \in {r} THEN resv'[q].status \notin {"RESERVED", "SETTLED"}
                                      ELSE resv'[q] = resv[q]
  BY <1>2 DEF IInv, TypeOK
<1> QED BY <1>2, <1>3, <1>4, <1>5, <1>6, GivenBackPreserves

\* Expiry gives every overdue reservation back (expire_reservations).
LEMMA ExpirePreserves ==
    ASSUME IInv, ExpireReservations PROVE IInv'
<1>1. PICK S \in SUBSET Held :
          /\ GiveBack(S) /\ UNCHANGED <<today, policy, ledger, caller, bypassed>>
          /\ resv' = [r \in ResIds |->
                         IF r \in S THEN [resv[r] EXCEPT !.status = "EXPIRED"] ELSE resv[r]]
  BY DEF ExpireReservations
<1>2. resv' \in [ResIds -> [status : Statuses, est : Nat]] /\ caller' \in CallerTypes
  BY <1>1 DEF IInv, TypeOK, Statuses, CallerTypes
<1>3. \A q \in ResIds : IF q \in S THEN resv'[q].status \notin {"RESERVED", "SETTLED"}
                                    ELSE resv'[q] = resv[q]
  BY <1>1 DEF IInv, TypeOK
<1> QED BY <1>1, <1>2, <1>3, GivenBackPreserves

\* A budget that was changed or bypassed claims nothing.
LEMMA SetPolicyPreserves ==
    ASSUME IInv, SetPolicy PROVE IInv'
BY DEF IInv, TypeOK, SetPolicy, RequestCounterExact, SpendCounterExact, HeldSpend, ChargedExactlyOnce, LedgerNotAhead,
       RequestBudget, Held

\* A row without reservation charges no reservation (record_usage).
LEMMA RecordUsagePreserves ==
    ASSUME IInv, RecordUsage PROVE IInv'
<1>1. PICK cost \in Costs :
          ledger' = Append(ledger, [res |-> NoRes, day |-> today.day, month |-> today.month,
                                    cost |-> cost])
  BY DEF RecordUsage
<1> DEFINE row == [res |-> NoRes, day |-> today.day, month |-> today.month, cost |-> cost]
<1>2. row \in Rows /\ ledger \in Seq(Rows)
  BY CostsAssumption DEF IInv, TypeOK, Rows, Dates
<1>3. /\ Len(ledger') = Len(ledger) + 1 /\ ledger' \in Seq(Rows)
      /\ \A i \in 1..Len(ledger) : ledger'[i] = ledger[i]
      /\ ledger'[Len(ledger) + 1] = row
  BY <1>1, <1>2
<1>4. TypeOK' /\ RequestCounterExact' /\ SpendCounterExact' /\ RequestBudget'
  BY <1>3 DEF IInv, TypeOK, RequestCounterExact, SpendCounterExact, HeldSpend, RequestBudget, Held, RecordUsage
<1>5. LedgerNotAhead'
  BY <1>2, <1>3 DEF IInv, TypeOK, LedgerNotAhead, RecordUsage, Dates
<1>6. ChargedExactlyOnce'
  <2>1. \A i \in DOMAIN ledger' : ledger'[i].res # NoRes => i \in DOMAIN ledger /\ ledger'[i] = ledger[i]
    BY <1>2, <1>3
  <2>2. \A i \in DOMAIN ledger : i \in DOMAIN ledger' /\ ledger'[i] = ledger[i]
    BY <1>2, <1>3
  <2>3. resv' = resv
    BY DEF RecordUsage
  <2>4. \A q \in ResIds : (\E i \in DOMAIN ledger' : ledger'[i].res = q)
                              <=> (\E i \in DOMAIN ledger : ledger[i].res = q)
    BY <2>1, <2>2, CallersAssumption
  <2>5. \A i, j \in DOMAIN ledger' : ledger'[i].res = ledger'[j].res /\ ledger'[i].res # NoRes => i = j
    BY <2>1 DEF IInv, ChargedExactlyOnce
  <2> QED BY <2>3, <2>4, <2>5 DEF IInv, ChargedExactlyOnce
<1> QED BY <1>4, <1>5, <1>6 DEF IInv

\* The new day has no rows; the month goes on or has none either.
LEMMA NextDayPreserves ==
    ASSUME IInv, NextDay PROVE IInv'
<1>1. PICK m \in {today.month, today.month + 1} : today' = [day |-> today.day + 1, month |-> m]
  BY DEF NextDay
<1>2. /\ today.day \in Nat /\ today.month \in Nat /\ ledger \in Seq(Rows)
      /\ today' \in Dates /\ today'.day = today.day + 1 /\ today'.month = m
      /\ UNCHANGED <<policy, reserved, resv, ledger, caller, bypassed>>
  BY <1>1 DEF IInv, TypeOK, Dates, NextDay
<1>3. \A i \in DOMAIN ledger : ledger[i].day \in Nat /\ ledger[i].month \in Nat
  <2>1. \A i \in DOMAIN ledger : ledger[i] \in Rows
    BY <1>2
  <2> QED BY <2>1 DEF Rows
<1>4. LedgerNotAhead'
  BY <1>1, <1>2, <1>3 DEF IInv, LedgerNotAhead
<1>5. DayRows(today.day)' = {}
  BY <1>2, <1>3 DEF IInv, LedgerNotAhead, DayRows
<1>6. MonthRows(today.month)' \in {MonthRows(today.month), {}}
  BY <1>1, <1>2, <1>3 DEF IInv, LedgerNotAhead, MonthRows
<1>7. RequestBudget'
  <2>1. /\ Cardinality(DayRows(today.day)) \in Nat /\ Cardinality(MonthRows(today.month)) \in Nat
        /\ policy.dayRequests \in Nat /\ policy.monthRequests \in Nat
    BY RowsFinite, PoliciesAssumption DEF IInv, TypeOK
  <2>2. /\ Cardinality(DayRows(today.day)') = 0
        /\ Cardinality(MonthRows(today.month)') \in {Cardinality(MonthRows(today.month)), 0}
    BY <1>5, <1>6, FS_EmptySet
  <2>3. Held' = Held
    BY <1>2 DEF Held
  <2> QED BY <1>2, <2>1, <2>2, <2>3, HeldFinite DEF IInv, RequestBudget
<1>8. TypeOK' /\ RequestCounterExact' /\ SpendCounterExact' /\ ChargedExactlyOnce'
  BY <1>2 DEF IInv, TypeOK, RequestCounterExact, SpendCounterExact, HeldSpend, ChargedExactlyOnce, Held
<1> QED BY <1>4, <1>7, <1>8 DEF IInv

\* Every step of the specification keeps the invariant.
LEMMA NextPreserves == IInv /\ [Next]_vars => IInv'
<1> SUFFICES ASSUME IInv, [Next]_vars PROVE IInv'
  OBVIOUS
<1>1. CASE UNCHANGED vars
  BY <1>1, CallerMoves DEF vars, IInv, TypeOK, CallerTypes
<1>2. ASSUME NEW c \in Callers, CallerNext(c) PROVE IInv'
  BY <1>2, EnterReservePreserves, ReserveInactivePreserves, GoesIdlePreserves,
     ReserveGrantedPreserves, SettlePreserves, ReleasePreserves DEF CallerNext
<1> QED BY <1>1, <1>2, ExpirePreserves, SetPolicyPreserves, RecordUsagePreserves,
           NextDayPreserves DEF Next

-----------------------------------------------------------------------------
(***************************************************************************)
(* Theorems.                                                               *)
(***************************************************************************)
\* The inductive invariant holds in every reachable state.
THEOREM Invariant == Spec => []IInv
<1>1. Init => IInv
  BY InitEstablishes
<1>2. IInv /\ [Next]_vars => IInv'
  BY NextPreserves
<1> QED BY <1>1, <1>2, PTL DEF Spec

\* Every row and every caller has its type (database/models/quota.py).
THEOREM Types == Spec => []TypeOK
<1>1. IInv => TypeOK
  BY DEF IInv
<1> QED BY <1>1, Invariant, PTL

\* The request counter on the policy row never drifts from the reservations in
\* flight: the clamps at zero are never needed (quota.py, settle, release,
\* expire).
THEOREM RequestCounter == Spec => []RequestCounterExact
<1>1. IInv => RequestCounterExact
  BY DEF IInv
<1> QED BY <1>1, Invariant, PTL

\* Nor does the spend counter: what a settlement, release or expiry gives back is
\* what the reservation took (quota.py, reserve, settle, release, expire).
THEOREM SpendCounter == Spec => []SpendCounterExact
<1>1. IInv => SpendCounterExact
  BY DEF IInv
<1> QED BY <1>1, Invariant, PTL

\* A reservation is charged exactly when it is settled, and once (quota.py,
\* settle_reservation).
THEOREM ChargedOnce == Spec => []ChargedExactlyOnce
<1>1. IInv => ChargedExactlyOnce
  BY DEF IInv
<1> QED BY <1>1, Invariant, PTL

\* Requests used and in flight stay within the day's and the month's limit as
\* long as nobody changes the limits, records usage directly or is admitted
\* into a day that has ended (quota.py, reserve_quota).
THEOREM WithinBudget == Spec => []RequestBudget
<1>1. IInv => RequestBudget
  BY DEF IInv
<1> QED BY <1>1, Invariant, PTL

\* What one step may do to the ledger and to reservations that have ended.
LEMMA StepFinal ==
    ASSUME IInv, [Next]_vars
    PROVE  [/\ \E k \in 0..1 : /\ Len(ledger') = Len(ledger) + k
                                /\ SubSeq(ledger', 1, Len(ledger)) = ledger
            /\ \A r \in ResIds : resv[r].status \in {"SETTLED", "RELEASED", "EXPIRED"}
                                     => resv'[r] = resv[r]]_vars
<1> DEFINE Grown == \E k \in 0..1 : /\ Len(ledger') = Len(ledger) + k
                                    /\ SubSeq(ledger', 1, Len(ledger)) = ledger
           Final == \A r \in ResIds : resv[r].status \in {"SETTLED", "RELEASED", "EXPIRED"}
                                         => resv'[r] = resv[r]
<1>1. ASSUME ledger' = ledger PROVE Grown
  <2>1. ledger \in Seq(Rows)
    BY DEF IInv, TypeOK
  <2>2. Len(ledger') = Len(ledger) + 0 /\ SubSeq(ledger', 1, Len(ledger)) = ledger
    BY <1>1, <2>1
  <2> QED BY <2>2
<1>2. ASSUME NEW row \in Rows, ledger' = Append(ledger, row) PROVE Grown
  <2>1. ledger \in Seq(Rows)
    BY DEF IInv, TypeOK
  <2>2. Len(ledger') = Len(ledger) + 1 /\ SubSeq(ledger', 1, Len(ledger)) = ledger
    BY <1>2, <2>1
  <2>3. 1 \in 0..1
    OBVIOUS
  <2> QED BY <2>2, <2>3
<1>3. ASSUME NEW c \in Callers, Settle(c) PROVE Grown /\ Final
  <2>1. PICK cost \in Costs :
            ledger' = Append(ledger, [res |-> caller[c].rid, day |-> today.day,
                                      month |-> today.month, cost |-> cost])
    BY <1>3 DEF Settle
  <2>2. [res |-> caller[c].rid, day |-> today.day, month |-> today.month, cost |-> cost] \in Rows
    BY <1>3, CostsAssumption DEF IInv, TypeOK, Rows, Dates
  <2>3. Final
    BY <1>3 DEF Settle, IInv, TypeOK
  <2> QED BY <1>2, <2>1, <2>2, <2>3
<1>4. ASSUME RecordUsage PROVE Grown /\ Final
  <2>1. PICK cost \in Costs :
            ledger' = Append(ledger, [res |-> NoRes, day |-> today.day,
                                      month |-> today.month, cost |-> cost])
    BY <1>4 DEF RecordUsage
  <2>2. [res |-> NoRes, day |-> today.day, month |-> today.month, cost |-> cost] \in Rows
    BY CostsAssumption DEF IInv, TypeOK, Rows, Dates
  <2> QED BY <1>2, <1>4, <2>1, <2>2 DEF RecordUsage
<1>5. ASSUME NEW c \in Callers, CallerNext(c), ~Settle(c) PROVE Grown /\ Final
  <2>1. ledger' = ledger
    BY <1>5 DEF CallerNext, EnterReserve, ReserveInactive, ReserveRejected, ReserveGranted,
                SettleOrReleaseNoop, Release, Crash
  <2>2. Final
    BY <1>5 DEF CallerNext, EnterReserve, ReserveInactive, ReserveRejected, ReserveGranted,
                SettleOrReleaseNoop, Release, Crash, IInv, TypeOK
  <2> QED BY <1>1, <2>1, <2>2
<1>6. ASSUME ExpireReservations \/ SetPolicy \/ NextDay \/ UNCHANGED vars PROVE Grown /\ Final
  <2>1. ledger' = ledger
    BY <1>6 DEF ExpireReservations, SetPolicy, NextDay, vars
  <2>2. Final
    BY <1>6 DEF ExpireReservations, SetPolicy, NextDay, vars, Held
  <2> QED BY <1>1, <2>1, <2>2
<1> QED BY <1>3, <1>4, <1>5, <1>6 DEF Next

\* The ledger only grows and a reservation that has ended stays as it is
\* (quota.py; database/models/quota.py).
THEOREM Final == Spec => LedgerAndStatusFinal
<1>1. IInv /\ [Next]_vars =>
          [/\ \E k \in 0..1 : /\ Len(ledger') = Len(ledger) + k
                              /\ SubSeq(ledger', 1, Len(ledger)) = ledger
           /\ \A r \in ResIds : resv[r].status \in {"SETTLED", "RELEASED", "EXPIRED"}
                                    => resv'[r] = resv[r]]_vars
  BY StepFinal
<1> QED BY <1>1, Invariant, PTL DEF Spec, LedgerAndStatusFinal

-----------------------------------------------------------------------------
(***************************************************************************)
(* Part 2: the gateway.  It leaves no exposure behind, and hands out no    *)
(* answer that was not charged.                                            *)
(*                                                                         *)
(* Since reservation and settlement are one transaction under the policy   *)
(* row lock, at most one reservation is open, and it is that of the query  *)
(* that holds the lock and is calling a provider.  So every sum over the   *)
(* open reservations is a sum over at most one of them.                    *)
(***************************************************************************)
Stages == {"none", "reserve", "call", "failed", "ungrounded", "good", "cascade", "answer", "fallback"}
Calling == {"call", "failed", "ungrounded", "good"}
Zero == [requests |-> 0, spend |-> 0]

GTypes ==
    /\ lock \in Callers \cup {NoCaller}
    /\ stage \in [Callers -> Stages]
    /\ resv \in [ResIds -> [status : Statuses, est : Nat]]
    /\ DOMAIN caller = Callers /\ \A c \in Callers : caller[c].rid \in ResIds \cup {NoRes}

\* A query calls providers only under the lock, and has a reservation only then.
LockFollowsStage ==
    \A c \in Callers :
        /\ stage[c] \in Calling => lock = c
        /\ caller[c].rid # NoRes => stage[c] \in Calling
        /\ stage[c] = "none" => lock # c

\* The one open reservation is that of the holder, and the counters count it.
OneExposure ==
    /\ \A r \in Held : lock # NoCaller /\ caller[lock].rid = r
    /\ Held = {} => reserved = Zero
    /\ \A r \in Held : reserved = [requests |-> 1, spend |-> resv[r].est]

\* What an answer stands on: usage rows belong to settled reservations, one each, and
\* the answers on their way out name different ones of them.
Answering == {c \in Callers : stage[c] = "answer"}
Charged ==
    /\ \A i \in DOMAIN ledger : ledger[i].res # NoRes => resv[ledger[i].res].status = "SETTLED"
    /\ \A i, j \in DOMAIN ledger : ledger[i].res = ledger[j].res /\ ledger[i].res # NoRes => i = j
    /\ \A c \in Answering : paid[c] \in ResIds /\ \E i \in DOMAIN ledger : ledger[i].res = paid[c]
    /\ \A c, d \in Answering : paid[c] = paid[d] => c = d

LedgerTypes ==
    /\ today \in Dates /\ ledger \in Seq(Rows)
    /\ paid \in [Callers -> ResIds \cup {NoRes}]

GIInv == GTypes /\ LockFollowsStage /\ OneExposure

-----------------------------------------------------------------------------
(***************************************************************************)
(* Sums over one reservation.                                              *)
(***************************************************************************)
LEMMA HeldSpendOfOne ==
    ASSUME NEW r \in ResIds, resv[r].est \in Nat
    PROVE  HeldSpend({r}) = resv[r].est
BY SumOfOne DEF HeldSpend

\* Giving back the one open reservation empties both counters.
LEMMA GiveBackOfOne ==
    ASSUME NEW r \in ResIds, resv[r].est \in Nat, GiveBack({r}),
           reserved = [requests |-> 1, spend |-> resv[r].est]
    PROVE  reserved' = Zero
<1>1. HeldSpend({r}) = resv[r].est /\ Cardinality({r}) = 1
  BY HeldSpendOfOne, FS_Singleton
<1> QED
  BY <1>1 DEF GiveBack, AtLeastZero, Zero

-----------------------------------------------------------------------------
(***************************************************************************)
(* Exposure.                                                               *)
(***************************************************************************)

\* Whoever has or could get the lock, and calls nobody, finds nothing held.
LEMMA NothingHeld ==
    ASSUME GIInv, NEW c \in Callers, lock \in {c, NoCaller}, stage[c] \notin Calling
    PROVE  Held = {} /\ reserved = Zero /\ caller[c].rid = NoRes
<1>1. caller[c].rid = NoRes
  BY DEF GIInv, LockFollowsStage
<1>2. Held \subseteq ResIds
  BY DEF Held
<1>3. Held = {}
  BY <1>1, <1>2, CallersAssumption DEF GIInv, OneExposure
<1> QED
  BY <1>1, <1>3 DEF GIInv, OneExposure

\* With nothing held the exposure is as it should be.
LEMMA NoExposure ==
    ASSUME Held' = {}, reserved' = Zero PROVE OneExposure'
BY DEF OneExposure

\* A query that holds no reservation moves: exposure is that of another or none.
LEMMA ExposureOfAnother ==
    ASSUME GIInv, NEW c \in Callers, UNCHANGED <<resv, reserved, lock>>,
           caller[c].rid = NoRes, NEW s, caller' = [caller EXCEPT ![c] = s]
    PROVE  OneExposure'
<1>1. Held' = Held /\ Held \subseteq ResIds
  BY DEF Held
<1>2. \A r \in Held : lock # c
  BY <1>1, CallersAssumption DEF GIInv, OneExposure
<1>3. \A r \in Held : lock \in Callers /\ caller'[lock] = caller[lock]
  BY <1>2 DEF GIInv, GTypes, OneExposure
<1> QED
  BY <1>1, <1>3 DEF GIInv, OneExposure

\* A step of one query that leaves the tables alone, and takes it to a stage in which
\* it holds nothing.
LEMMA QueryMoves ==
    ASSUME GIInv, NEW c \in Callers, UNCHANGED <<resv, reserved, lock>>,
           caller[c].rid = NoRes, NEW new, new.rid = NoRes,
           caller' \in {caller, [caller EXCEPT ![c] = new]},
           NEW s \in Stages, GoTo(c, s), s \in Calling => stage[c] \in Calling, s = "none" => lock # c
    PROVE  GIInv'
<1>1. GTypes'
  BY DEF GIInv, GTypes, GoTo
<1>2. LockFollowsStage'
  BY DEF GIInv, GTypes, LockFollowsStage, GoTo
<1>3. OneExposure'
  <2>1. CASE caller' = caller
    BY <2>1 DEF GIInv, OneExposure, Held
  <2>2. CASE caller' = [caller EXCEPT ![c] = new]
    BY <2>2, ExposureOfAnother
  <2> QED
    BY <2>1, <2>2
<1> QED
  BY <1>1, <1>2, <1>3 DEF GIInv

\* A query that holds no reservation gets the lock, or gives it back.
LEMMA QueryLocks ==
    ASSUME GIInv, NEW c \in Callers, UNCHANGED <<resv, reserved>>, stage[c] \notin Calling,
           lock \in {c, NoCaller}, lock' \in {c, NoCaller},
           NEW new, new.rid = NoRes, caller' \in {caller, [caller EXCEPT ![c] = new]},
           NEW s \in Stages, GoTo(c, s), s \in Calling => lock' = c, s = "none" => lock' # c
    PROVE  GIInv'
<1>1. Held = {} /\ reserved = Zero /\ caller[c].rid = NoRes
  BY NothingHeld
<1>2. \A d \in Callers \ {c} : lock # d /\ lock' # d /\ stage[d] \notin Calling
  BY NoCallerAssumption DEF GIInv, LockFollowsStage
<1>3. GTypes'
  BY DEF GIInv, GTypes, GoTo
<1>4. LockFollowsStage'
  BY <1>1, <1>2 DEF GIInv, GTypes, LockFollowsStage, GoTo
<1>5. Held' = {} /\ reserved' = Zero
  BY <1>1 DEF Held
<1> QED
  BY <1>3, <1>4, <1>5, NoExposure DEF GIInv

\* The end of a transaction, or of the part of it that reserved: the query becomes
\* idle, and what it held is held no longer.
LEMMA QueryLetsGo ==
    ASSUME GIInv, NEW c \in Callers, lock = c, caller' = [caller EXCEPT ![c] = IdleCaller],
           Held' = {}, reserved' = Zero, resv' \in [ResIds -> [status : Statuses, est : Nat]],
           NEW s \in Stages \ Calling, GoTo(c, s), lock' = NoCaller
    PROVE  GIInv'
<1>1. IdleCaller.rid = NoRes
  BY DEF IdleCaller
<1>2. GTypes'
  BY <1>1 DEF GIInv, GTypes, GoTo
<1>3. LockFollowsStage'
  BY <1>1, NoCallerAssumption DEF GIInv, GTypes, LockFollowsStage, GoTo
<1> QED
  BY <1>2, <1>3, NoExposure DEF GIInv

\* Settling or releasing ends the one open reservation.
LEMMA ReservationEnds ==
    ASSUME GIInv, NEW c \in Callers, Settle(c) \/ Release(c)
    PROVE  /\ Held' = {} /\ reserved' = Zero
           /\ resv' \in [ResIds -> [status : Statuses, est : Nat]]
<1>1. PICK r \in Held : r = caller[c].rid
  BY DEF GIInv, GTypes, Settle, Release, Held
<1>2. PICK s \in {"SETTLED", "RELEASED"} : resv' = [resv EXCEPT ![r].status = s]
  BY <1>1 DEF Settle, Release
<1>3. GiveBack({r})
  BY <1>1 DEF Settle, Release
<1>4. /\ resv \in [ResIds -> [status : Statuses, est : Nat]] /\ r \in ResIds
      /\ resv[r].est \in Nat /\ Held \subseteq {r}
      /\ reserved = [requests |-> 1, spend |-> resv[r].est]
  BY <1>1 DEF GIInv, GTypes, OneExposure, Held
<1>5. resv' \in [ResIds -> [status : Statuses, est : Nat]]
  BY <1>2, <1>4 DEF Statuses
<1>6. Held' = {}
  BY <1>2, <1>4 DEF Held
<1> QED
  BY <1>3, <1>4, <1>5, <1>6, GiveBackOfOne

\* A rollback by the holder of the lock takes out what it inserted.
LEMMA RollbackOfHolder ==
    ASSUME GIInv, NEW c \in Callers, lock = c, Rollback(c)
    PROVE  /\ Held' = {} /\ reserved' = Zero /\ lock' = NoCaller
           /\ resv' \in [ResIds -> [status : Statuses, est : Nat]]
           /\ caller' = [caller EXCEPT ![c] = IdleCaller]
<1> DEFINE r == caller[c].rid
           inserted == r # NoRes /\ resv[r].status = "RESERVED"
<1>1. /\ lock' = NoCaller /\ caller' = [caller EXCEPT ![c] = IdleCaller]
      /\ resv' = IF inserted THEN [resv EXCEPT ![r] = [status |-> "NONE", est |-> 0]] ELSE resv
      /\ reserved' = IF inserted THEN [requests |-> reserved.requests - 1,
                                       spend |-> reserved.spend - resv[r].est]
                     ELSE reserved
  BY DEF Rollback
<1>2. resv \in [ResIds -> [status : Statuses, est : Nat]] /\ r \in ResIds \cup {NoRes}
  BY DEF GIInv, GTypes
<1>3. Held \subseteq ResIds \cap {r}
  BY DEF GIInv, OneExposure, Held
<1>4. CASE inserted
  <2>1. r \in Held /\ r \in ResIds /\ resv[r].est \in Nat
    BY <1>2, <1>4 DEF Held
  <2>2. reserved = [requests |-> 1, spend |-> resv[r].est]
    BY <2>1 DEF GIInv, OneExposure
  <2>3. reserved' = Zero
    BY <1>1, <1>4, <2>1, <2>2 DEF Zero
  <2>4. resv' \in [ResIds -> [status : Statuses, est : Nat]]
    BY <1>1, <1>2, <1>4 DEF Statuses
  <2>5. Held' = {}
    BY <1>1, <1>2, <1>3, <1>4, <2>1 DEF Held
  <2> QED
    BY <1>1, <2>3, <2>4, <2>5
<1>5. CASE ~inserted
  <2>1. Held = {}
    BY <1>3, <1>5, CallersAssumption DEF Held
  <2>2. Held' = Held /\ reserved' = reserved /\ resv' = resv
    BY <1>1, <1>5 DEF Held
  <2> QED
    BY <1>1, <1>2, <2>1, <2>2 DEF GIInv, OneExposure
<1> QED
  BY <1>4, <1>5

-----------------------------------------------------------------------------
(***************************************************************************)
(* The actions of a query.                                                 *)
(***************************************************************************)
LEMMA AskPreserves ==
    ASSUME GIInv, NEW c \in Callers, Ask(c) PROVE GIInv'
<1>1. UNCHANGED <<resv, reserved, lock, caller>> /\ GoTo(c, "cascade") /\ stage[c] = "none"
  BY DEF Ask, vars
<1>2. caller[c].rid = NoRes /\ IdleCaller.rid = NoRes
  BY <1>1 DEF GIInv, LockFollowsStage, Calling, IdleCaller
<1>3. "cascade" \in Stages \ Calling
  BY DEF Stages, Calling
<1> QED
  BY <1>1, <1>2, <1>3, QueryMoves

\* A query that gets the lock reserves at most once (reserve_quota).
LEMMA ReservePreserves ==
    ASSUME GIInv, NEW c \in Callers, Reserve(c) PROVE GIInv'
<1>1. stage[c] \notin Calling /\ lock \in {c, NoCaller}
  BY DEF Reserve, Calling
<1>2. Held = {} /\ reserved = Zero /\ caller[c].rid = NoRes
  BY <1>1, NothingHeld
<1>3. \A d \in Callers \ {c} : lock # d /\ stage[d] \notin Calling
  BY <1>1, NoCallerAssumption DEF GIInv, LockFollowsStage
<1>4. CASE ReserveInactive(c) /\ lock' = c /\ GoTo(c, "call")
  <2> DEFINE new == [pc |-> "calling", now |-> Epoch, rid |-> NoRes]
  <2>1. UNCHANGED <<resv, reserved>> /\ caller' = [caller EXCEPT ![c] = new] /\ new.rid = NoRes
    BY <1>4 DEF ReserveInactive
  <2>2. "call" \in Stages /\ "call" # "none"
    BY DEF Stages
  <2> HIDE DEF new
  <2> QED
    BY <1>1, <1>4, <2>1, <2>2, QueryLocks
<1>5. CASE ReserveRejected(c) /\ lock' = NoCaller /\ GoTo(c, "fallback")
  <2>1. UNCHANGED <<resv, reserved>> /\ caller' = [caller EXCEPT ![c] = IdleCaller]
    BY <1>5 DEF ReserveRejected
  <2>2. IdleCaller.rid = NoRes /\ "fallback" \in Stages \ Calling /\ "fallback" # "none"
    BY DEF IdleCaller, Stages, Calling
  <2> QED
    BY <1>1, <1>5, <2>1, <2>2, QueryLocks
<1>6. CASE ReserveGranted(c) /\ lock' = c /\ GoTo(c, "call")
  <2>1. PICK est \in Costs, r \in ResIds :
           /\ resv' = [resv EXCEPT ![r] = [status |-> "RESERVED", est |-> est]]
           /\ reserved' = [requests |-> reserved.requests + 1, spend |-> reserved.spend + est]
           /\ caller' = [caller EXCEPT ![c] = [pc |-> "calling", now |-> Epoch, rid |-> r]]
    BY <1>6 DEF ReserveGranted
  <2>2. est \in Nat /\ resv \in [ResIds -> [status : Statuses, est : Nat]]
    BY CostsAssumption DEF GIInv, GTypes
  <2>3. resv' \in [ResIds -> [status : Statuses, est : Nat]]
    BY <2>1, <2>2 DEF Statuses
  <2>4. reserved' = [requests |-> 1, spend |-> est]
    BY <1>2, <2>1, <2>2 DEF Zero
  <2>5. Held' = {r} /\ resv'[r].est = est
    BY <1>2, <2>1, <2>2 DEF Held
  <2>6. caller'[c].rid = r
    BY <2>1 DEF GIInv, GTypes
  <2>7. OneExposure'
    BY <1>6, <2>4, <2>5, <2>6, NoCallerAssumption DEF OneExposure
  <2>8. DOMAIN caller' = Callers /\ \A d \in Callers \ {c} : caller'[d] = caller[d]
    BY <2>1 DEF GIInv, GTypes
  <2>9. GTypes'
    BY <1>6, <2>3, <2>6, <2>8 DEF GIInv, GTypes, GoTo, Stages
  <2>10. LockFollowsStage'
    BY <1>3, <1>6, <2>8, NoCallerAssumption DEF GIInv, GTypes, LockFollowsStage, GoTo, Calling
  <2> QED
    BY <2>7, <2>9, <2>10 DEF GIInv
<1> QED
  BY <1>4, <1>5, <1>6 DEF Reserve

\* A reservation that raises leaves the rows as they are.
LEMMA ReserveRaisesPreserves ==
    ASSUME GIInv, NEW c \in Callers, ReserveRaises(c) PROVE GIInv'
<1>1. /\ UNCHANGED <<resv, reserved>> /\ caller' = [caller EXCEPT ![c] = IdleCaller]
      /\ GoTo(c, "fallback") /\ stage[c] \notin Calling
  BY DEF ReserveRaises, Calling
<1>2. caller[c].rid = NoRes /\ IdleCaller.rid = NoRes
  BY <1>1 DEF GIInv, LockFollowsStage, IdleCaller
<1>3. "fallback" \in Stages \ Calling /\ "fallback" # "none"
  BY DEF Stages, Calling
<1>4. CASE lock \in {c, NoCaller}
  <2>1. lock' \in {c, NoCaller}
    BY <1>4 DEF ReserveRaises
  <2> QED
    BY <1>1, <1>2, <1>3, <1>4, <2>1, QueryLocks
<1>5. CASE lock \notin {c, NoCaller}
  <2>1. lock' = lock
    BY <1>5 DEF ReserveRaises
  <2> QED
    BY <1>1, <1>2, <1>3, <2>1, QueryMoves
<1> QED
  BY <1>4, <1>5

\* The answer of a provider changes the stage only, and stays under the lock.
LEMMA ReplyPreserves ==
    ASSUME GIInv, NEW c \in Callers, Reply(c) PROVE GIInv'
<1>1. PICK s \in {"failed", "ungrounded", "good"} : GoTo(c, s)
  BY DEF Reply
<1>2. stage[c] = "call" /\ UNCHANGED <<resv, reserved, lock, caller>>
  BY DEF Reply, vars
<1>3. GTypes' /\ LockFollowsStage'
  BY <1>1, <1>2 DEF GIInv, GTypes, LockFollowsStage, GoTo, Calling, Stages
<1>4. OneExposure'
  BY <1>2 DEF GIInv, OneExposure, Held
<1> QED
  BY <1>3, <1>4 DEF GIInv

\* A failed provider gives its reservation back (release_reservation).
LEMMA GiveUpPreserves ==
    ASSUME GIInv, NEW c \in Callers, GiveUpProvider(c) PROVE GIInv'
<1>1. stage[c] \in Calling /\ lock = c /\ GoTo(c, "cascade") /\ "cascade" \in Stages \ Calling
  BY DEF GIInv, LockFollowsStage, GiveUpProvider, Calling, Stages
<1>2. CASE Release(c) /\ caller'[c] = IdleCaller /\ lock' = NoCaller
  <2>1. caller' = [caller EXCEPT ![c] = IdleCaller]
    BY <1>2 DEF Release, Leaves, IdleCaller
  <2> QED
    BY <1>1, <1>2, <2>1, ReservationEnds, QueryLetsGo
<1>3. CASE Rollback(c)
  BY <1>1, <1>3, RollbackOfHolder, QueryLetsGo
<1>4. CASE caller[c].rid = NoRes /\ SettleOrReleaseNoop(c) /\ UNCHANGED lock
  <2>1. UNCHANGED <<resv, reserved, lock>> /\ caller' = [caller EXCEPT ![c] = IdleCaller]
    BY <1>4 DEF SettleOrReleaseNoop
  <2>2. IdleCaller.rid = NoRes /\ "cascade" # "none"
    BY DEF IdleCaller
  <2> QED
    BY <1>1, <1>4, <2>1, <2>2, QueryMoves
<1> QED
  BY <1>2, <1>3, <1>4 DEF GiveUpProvider

\* An answer is settled, or its settlement rolled back (settle_reservation).
LEMMA SettleAnswerPreserves ==
    ASSUME GIInv, NEW c \in Callers, SettleAnswer(c) PROVE GIInv'
<1>1. lock = c /\ {"answer", "fallback"} \subseteq Stages \ Calling
  BY DEF GIInv, LockFollowsStage, SettleAnswer, Calling, Stages
<1>2. CASE Settle(c) /\ caller'[c] = IdleCaller /\ lock' = NoCaller /\ GoTo(c, "answer")
  <2>1. caller' = [caller EXCEPT ![c] = IdleCaller]
    BY <1>2 DEF Settle, Leaves, IdleCaller
  <2> QED
    BY <1>1, <1>2, <2>1, ReservationEnds, QueryLetsGo
<1>3. CASE Rollback(c) /\ GoTo(c, "fallback")
  BY <1>1, <1>3, RollbackOfHolder, QueryLetsGo
<1> QED
  BY <1>2, <1>3 DEF SettleAnswer

\* The next provider, or none is left: the query reserves again or falls back.
LEMMA CascadePreserves ==
    ASSUME GIInv, NEW c \in Callers, NextProvider(c) \/ CascadeExhausted(c) PROVE GIInv'
<1> DEFINE new == [pc |-> "locking", now |-> today, rid |-> NoRes]
<1>1. PICK s \in {"reserve", "fallback"} : GoTo(c, s)
  BY DEF NextProvider, CascadeExhausted
<1>2. /\ UNCHANGED <<resv, reserved, lock>> /\ stage[c] = "cascade"
      /\ caller' \in {caller, [caller EXCEPT ![c] = new]}
  BY DEF NextProvider, CascadeExhausted, EnterReserve, vars
<1>3. caller[c].rid = NoRes /\ new.rid = NoRes
  BY <1>2 DEF GIInv, LockFollowsStage, Calling
<1>4. s \in Stages \ Calling /\ s # "none"
  BY <1>1 DEF Stages, Calling
<1> HIDE DEF new
<1> QED
  BY <1>1, <1>2, <1>3, <1>4, QueryMoves

\* The commit of ask_ai: nothing is held any more, and the lock goes.
LEMMA FinishPreserves ==
    ASSUME GIInv, NEW c \in Callers, Finish(c) PROVE GIInv'
<1>1. /\ stage[c] \in {"answer", "fallback"} /\ GoTo(c, "none")
      /\ UNCHANGED <<resv, reserved, caller>>
      /\ lock' = IF lock = c THEN NoCaller ELSE lock
  BY DEF Finish, vars
<1>2. caller[c].rid = NoRes
  BY <1>1 DEF GIInv, LockFollowsStage, Calling
<1>3. GTypes' /\ LockFollowsStage'
  BY <1>1, <1>2, NoCallerAssumption DEF GIInv, GTypes, LockFollowsStage, GoTo, Calling, Stages
<1>4. OneExposure'
  <2>1. CASE lock = c
    <3>1. Held = {} /\ reserved = Zero
      BY <1>1, <2>1, NothingHeld DEF Calling
    <3> QED
      BY <1>1, <3>1, NoExposure DEF Held
  <2>2. CASE lock # c
    BY <1>1, <2>2 DEF GIInv, OneExposure, Held
  <2> QED
    BY <2>1, <2>2
<1> QED
  BY <1>3, <1>4 DEF GIInv

\* The death of a process rolls back its transaction.
LEMMA DiePreserves ==
    ASSUME GIInv, NEW c \in Callers, Die(c) PROVE GIInv'
<1>1. Rollback(c) /\ GoTo(c, "none") /\ "none" \in Stages \ Calling
  BY DEF Die, Stages, Calling
<1>2. CASE lock = c
  BY <1>1, <1>2, RollbackOfHolder, QueryLetsGo
<1>3. CASE lock # c
  <2>1. UNCHANGED <<resv, reserved, lock>> /\ caller' = [caller EXCEPT ![c] = IdleCaller]
    BY <1>1, <1>3 DEF Rollback
  <2>2. caller[c].rid = NoRes /\ IdleCaller.rid = NoRes
    BY <1>3 DEF GIInv, LockFollowsStage, IdleCaller
  <2> QED
    BY <1>1, <1>3, <2>1, <2>2, QueryMoves
<1> QED
  BY <1>2, <1>3

\* Every step keeps lock, stages and exposure.
LEMMA ExposurePreserved == GIInv /\ [GNext]_gvars => GIInv'
<1> SUFFICES ASSUME GIInv, [GNext]_gvars PROVE GIInv'
  OBVIOUS
<1>1. ASSUME NEW c \in Callers, Ask(c) \/ Step(c) \/ ReserveRaises(c) \/ Die(c) PROVE GIInv'
  BY <1>1, AskPreserves, ReservePreserves, ReserveRaisesPreserves, ReplyPreserves, GiveUpPreserves,
     SettleAnswerPreserves, CascadePreserves, FinishPreserves, DiePreserves DEF Step
<1>2. CASE GNextDay \/ UNCHANGED gvars
  <2>1. UNCHANGED <<resv, reserved, caller, lock, stage>>
    BY <1>2 DEF GNextDay, NextDay, gvars, vars
  <2> QED
    BY <2>1 DEF GIInv, GTypes, LockFollowsStage, OneExposure, Held
<1> QED
  BY <1>1, <1>2 DEF GNext

-----------------------------------------------------------------------------
(***************************************************************************)
(* Answers.                                                                *)
(***************************************************************************)

\* A usage row names a reservation, or none.
LEMMA RowNames ==
    ASSUME LedgerTypes, NEW i \in DOMAIN ledger PROVE ledger[i].res \in ResIds \cup {NoRes}
<1>1. ledger \in Seq(Rows)
  BY DEF LedgerTypes
<1>2. ledger[i] \in Rows
  BY <1>1
<1> QED
  BY <1>2 DEF Rows

\* A step by which no query comes to answer, no row is written and no settled
\* reservation changes, leaves the answers charged.
LEMMA ChargedStays ==
    ASSUME Charged, LedgerTypes, Answering' \subseteq Answering, ledger' = ledger,
           \A c \in Answering' : paid'[c] = paid[c],
           \A r \in ResIds : resv[r].status = "SETTLED" => resv'[r].status = "SETTLED"
    PROVE  Charged'
<1>1. \A i \in DOMAIN ledger : ledger[i].res \in ResIds \cup {NoRes}
  BY RowNames
<1> QED
  BY <1>1 DEF Charged

\* A settlement appends the row of the answer it is followed by.
LEMMA ChargedBySettlement ==
    ASSUME GIInv, Charged, LedgerTypes, NEW c \in Callers, Settle(c), GoTo(c, "answer"),
           paid' = [paid EXCEPT ![c] = caller[c].rid], stage[c] = "good"
    PROVE  LedgerTypes' /\ Charged'
<1> DEFINE r == caller[c].rid
           n == Len(ledger)
<1>1. r \in ResIds /\ resv[r].status = "RESERVED"
  BY DEF Settle, GIInv, GTypes
<1>2. PICK cost \in Costs :
         ledger' = Append(ledger, [res |-> r, day |-> today.day, month |-> today.month, cost |-> cost])
  BY DEF Settle
<1> DEFINE row == [res |-> r, day |-> today.day, month |-> today.month, cost |-> cost]
<1>3. row \in Rows
  BY <1>1, CostsAssumption DEF LedgerTypes, Rows, Dates
<1>4. LedgerTypes'
  BY <1>1, <1>2, <1>3 DEF Settle, LedgerTypes
<1>5. /\ n \in Nat /\ DOMAIN ledger = 1..n /\ DOMAIN ledger' = 1..(n + 1)
      /\ \A i \in 1..n : ledger'[i] = ledger[i]
      /\ ledger'[n + 1].res = r
  BY <1>2, <1>3 DEF LedgerTypes
<1>6. \A i \in 1..n : ledger[i].res \in ResIds \cup {NoRes} /\ ledger[i].res # r
  <2> SUFFICES ASSUME NEW i \in 1..n PROVE ledger[i].res \in ResIds \cup {NoRes} /\ ledger[i].res # r
    OBVIOUS
  <2>1. i \in DOMAIN ledger /\ ledger[i].res \in ResIds \cup {NoRes}
    BY <1>5, RowNames
  <2>2. ledger[i].res # NoRes => resv[ledger[i].res].status = "SETTLED"
    BY <2>1 DEF Charged
  <2> QED
    BY <1>1, <2>1, <2>2, CallersAssumption
<1>7. /\ resv'[r].status = "SETTLED"
      /\ \A q \in ResIds \ {r} : resv'[q] = resv[q]
  BY <1>1 DEF Settle, GIInv, GTypes
<1>8. /\ c \notin Answering /\ Answering' = Answering \cup {c}
      /\ paid'[c] = r /\ \A d \in Answering : d # c /\ paid'[d] = paid[d]
  BY DEF Answering, GoTo, GIInv, GTypes, LedgerTypes
<1> HIDE DEF n, r
<1>9. ASSUME NEW d \in Answering
      PROVE  paid[d] \in ResIds /\ paid[d] # r /\ \E i \in 1..n : ledger[i].res = paid[d]
  BY <1>5, <1>6 DEF Charged
<1>10. \A i \in DOMAIN ledger' : ledger'[i].res # NoRes => resv'[ledger'[i].res].status = "SETTLED"
  BY <1>5, <1>6, <1>7 DEF Charged
<1>11. \A i, j \in DOMAIN ledger' :
         ledger'[i].res = ledger'[j].res /\ ledger'[i].res # NoRes => i = j
  <2> SUFFICES ASSUME NEW i \in DOMAIN ledger', NEW j \in DOMAIN ledger',
                      ledger'[i].res = ledger'[j].res, ledger'[i].res # NoRes
               PROVE  i = j
    OBVIOUS
  <2>1. CASE i \in 1..n /\ j \in 1..n
    BY <1>5, <2>1 DEF Charged
  <2>2. CASE i = n + 1 \/ j = n + 1
    BY <1>5, <1>6, <2>2
  <2> QED
    BY <1>5, <2>1, <2>2
<1>12. \A d \in Answering' :
         paid'[d] \in ResIds /\ \E i \in DOMAIN ledger' : ledger'[i].res = paid'[d]
  <2>1. \E i \in DOMAIN ledger' : ledger'[i].res = paid'[c]
    BY <1>5, <1>8
  <2>2. ASSUME NEW d \in Answering PROVE \E i \in DOMAIN ledger' : ledger'[i].res = paid'[d]
    BY <1>5, <1>8, <1>9
  <2> QED
    BY <1>1, <1>8, <1>9, <2>1, <2>2
<1>13. \A d, e \in Answering' : paid'[d] = paid'[e] => d = e
  BY <1>8, <1>9 DEF Charged
<1> QED
  BY <1>4, <1>10, <1>11, <1>12, <1>13 DEF Charged

\* Every step keeps the answers charged.
LEMMA AnswersPreserved ==
    ASSUME GIInv, LedgerTypes, Charged, [GNext]_gvars
    PROVE  LedgerTypes' /\ Charged'
<1>1. ASSUME NEW c \in Callers, NEW s \in Stages \ {"answer"}, GoTo(c, s)
      PROVE  Answering' = Answering \ {c}
  BY <1>1 DEF Answering, GoTo, GIInv, GTypes
<1>2. ASSUME NEW c \in Callers,
             Ask(c) \/ Reserve(c) \/ ReserveRaises(c) \/ Reply(c) \/ GiveUpProvider(c)
                    \/ NextProvider(c) \/ CascadeExhausted(c) \/ Finish(c) \/ Die(c)
                    \/ (SettleAnswer(c) /\ Rollback(c) /\ GoTo(c, "fallback") /\ UNCHANGED paid)
      PROVE  LedgerTypes' /\ Charged'
  <2>1. UNCHANGED <<today, ledger>>
    BY <1>2 DEF Ask, Reserve, ReserveRaises, Reply, GiveUpProvider, NextProvider, CascadeExhausted,
           Finish, Die, EnterReserve, ReserveInactive, ReserveRejected, ReserveGranted, Release,
           Rollback, SettleOrReleaseNoop, vars
  <2>2. PICK s \in Stages \ {"answer"} : GoTo(c, s)
    BY <1>2 DEF Ask, Reserve, ReserveRaises, Reply, GiveUpProvider, NextProvider,
           CascadeExhausted, Finish, Die, Stages
  <2>3. paid' \in {paid, [paid EXCEPT ![c] = NoRes]}
    BY <1>2 DEF Ask, Reserve, ReserveRaises, Reply, GiveUpProvider, NextProvider,
           CascadeExhausted, Finish, Die
  <2>4. \A r \in ResIds : resv[r].status = "SETTLED" => resv'[r].status = "SETTLED"
    BY <1>2 DEF Ask, Reserve, ReserveRaises, Reply, GiveUpProvider, NextProvider, CascadeExhausted,
           Finish, Die, EnterReserve, ReserveInactive, ReserveRejected, ReserveGranted, Release,
           Rollback, SettleOrReleaseNoop, vars, GIInv, GTypes
  <2>5. Answering' = Answering \ {c}
    BY <1>1, <2>2
  <2>6. LedgerTypes' /\ \A d \in Answering' : paid'[d] = paid[d]
    BY <2>1, <2>3, <2>5 DEF LedgerTypes, Answering
  <2> QED
    BY <2>1, <2>4, <2>5, <2>6, ChargedStays
<1>3. ASSUME NEW c \in Callers, SettleAnswer(c) PROVE LedgerTypes' /\ Charged'
  <2>1. CASE /\ Settle(c) /\ paid' = [paid EXCEPT ![c] = caller[c].rid]
             /\ GoTo(c, "answer")
    BY <1>3, <2>1, ChargedBySettlement DEF SettleAnswer
  <2>2. CASE Rollback(c) /\ GoTo(c, "fallback") /\ UNCHANGED paid
    BY <1>2, <1>3, <2>2
  <2> QED
    BY <1>3, <2>1, <2>2 DEF SettleAnswer
<1>4. CASE GNextDay
  <2>1. today' \in Dates /\ UNCHANGED <<ledger, stage, paid, resv>>
    BY <1>4 DEF GNextDay, NextDay, LedgerTypes, Dates
  <2> QED
    BY <2>1, ChargedStays DEF LedgerTypes, Answering
<1>5. CASE UNCHANGED gvars
  <2>1. UNCHANGED <<today, ledger, stage, paid, resv>>
    BY <1>5 DEF gvars, vars
  <2> QED
    BY <2>1, ChargedStays DEF LedgerTypes, Answering
<1> QED
  BY <1>2, <1>3, <1>4, <1>5 DEF GNext, Step

-----------------------------------------------------------------------------
\* At first nobody asks and nothing is held.
LEMMA GInitEstablishes == GInit => GIInv /\ LedgerTypes /\ Charged
<1> SUFFICES ASSUME GInit PROVE GIInv /\ LedgerTypes /\ Charged
  OBVIOUS
<1>1. Held = {} /\ reserved = Zero
  BY DEF GInit, Init, Held, Zero
<1>2. GTypes
  BY DEF GInit, Init, GTypes, IdleCaller, Statuses, Stages
<1>3. LockFollowsStage
  BY NoCallerAssumption DEF GInit, Init, LockFollowsStage, IdleCaller, Calling
<1>4. OneExposure
  BY <1>1 DEF OneExposure
<1>5. LedgerTypes
  BY DEF GInit, Init, LedgerTypes, Epoch, Dates
<1>6. Answering = {} /\ DOMAIN ledger = {}
  BY DEF GInit, Init, Answering
<1>7. Charged
  BY <1>6 DEF Charged
<1> QED
  BY <1>2, <1>3, <1>4, <1>5, <1>7 DEF GIInv

\* Lock, stages, exposure and answers are as described above in every reachable state
\* of process_query (ai_gateway.py:960-1251).
THEOREM GInvariant == GSpec => [](GIInv /\ LedgerTypes /\ Charged)
<1>1. GIInv /\ LedgerTypes /\ Charged /\ [GNext]_gvars => (GIInv /\ LedgerTypes /\ Charged)'
  BY ExposurePreserved, AnswersPreserved
<1> QED
  BY <1>1, GInitEstablishes, PTL DEF GSpec

\* However the cascade ends, once nobody holds the policy row nothing is reserved and
\* both counters are zero (ai_gateway.py:1058-1084, 1150-1173, 1250-1251).
THEOREM NothingLeaks == GSpec => []NoLeakedExposure
<1>1. GIInv => NoLeakedExposure
  BY DEF GIInv, OneExposure, NoLeakedExposure, Zero
<1> QED
  BY <1>1, GInvariant, PTL

\* Every answer on its way out has its own usage row, and exactly one
\* (ai_gateway.py:1194-1226).
THEOREM AnswersCharged == GSpec => []AnswersAreCharged
<1>1. Charged => AnswersAreCharged
  <2> SUFFICES ASSUME Charged, NEW c \in Callers, stage[c] = "answer"
               PROVE  /\ paid[c] # NoRes
                      /\ \E i \in DOMAIN ledger :
                            \A j \in DOMAIN ledger : ledger[j].res = paid[c] <=> j = i
                      /\ \A d \in Callers \ {c} : stage[d] = "answer" => paid[d] # paid[c]
    BY DEF AnswersAreCharged
  <2>1. c \in Answering /\ paid[c] # NoRes
    BY CallersAssumption DEF Answering, Charged
  <2>2. PICK i \in DOMAIN ledger : ledger[i].res = paid[c]
    BY <2>1 DEF Charged
  <2>3. \A j \in DOMAIN ledger : ledger[j].res = paid[c] <=> j = i
    BY <2>1, <2>2 DEF Charged
  <2>4. \A d \in Callers \ {c} : stage[d] = "answer" => paid[d] # paid[c]
    BY <2>1 DEF Charged, Answering
  <2> QED
    BY <2>1, <2>2, <2>3, <2>4
<1> QED
  BY <1>1, GInvariant, PTL
==============================================================================
