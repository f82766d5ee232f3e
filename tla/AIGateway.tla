----------------------------- MODULE AIGateway -----------------------------
(***************************************************************************)
(* AIGateway.process_query (aurix_core/intelligence/ai_gateway.py) driving *)
(* AIQuota for the queries of one tenant.  A query walks a cascade of live *)
(* providers; for each it reserves, calls the provider, validates the      *)
(* answer and settles or releases.                                         *)
(*                                                                         *)
(* Unlike the callers of AIQuota's contract, the gateway does not commit   *)
(* between reserve_quota and provider.generate: reservation, call and      *)
(* settlement are ONE database transaction, and the policy row stays       *)
(* locked until its commit or rollback.  `lock` is that row lock; the      *)
(* reservation row its holder inserted is in resv, and a rollback takes it *)
(* out again.  Nobody else can see or change those rows while the lock is  *)
(* held.  The transaction is also that of IntelligenceService.ask_ai,      *)
(* which commits what is open when it has stored the answer; the question  *)
(* it flushed before, which every rollback here discards, is left out.     *)
(***************************************************************************)
EXTENDS AIQuota

CONSTANTS
    NoCaller,     \* nobody holds the policy row
    Providers     \* length of the cascade (primary, then Cloudflare)

ASSUME ProvidersAssumption == Providers \in Nat \ {0}
ASSUME NoCallerAssumption == NoCaller \notin Callers

VARIABLES
    lock,         \* holder of the tenant's policy row lock
    stage,        \* where each query is: "none", "cascade" (the head of the loop),
                  \* "reserve", "call", "failed", "ungrounded", "good", "answer" or
                  \* "fallback"
    provider,     \* how far it is in the cascade: the last provider it tried, or 0
    paid          \* quota_reservation_id in the provenance of the answer it has

gvars == <<vars, lock, stage, provider, paid>>

GInit ==
    /\ Init
    /\ lock = NoCaller
    /\ stage = [c \in Callers |-> "none"]
    /\ provider = [c \in Callers |-> 0]
    /\ paid = [c \in Callers |-> NoRes]

GoTo(c, s) == stage' = [stage EXCEPT ![c] = s]

\* A query is admitted to the model while ids are left for all its providers.
Ask(c) ==
    /\ stage[c] = "none"
    /\ Cardinality({r \in ResIds : resv[r].status = "NONE"})
           >= Providers * (1 + Cardinality({d \in Callers : stage[d] # "none"}))
    /\ GoTo(c, "cascade")
    /\ provider' = [provider EXCEPT ![c] = 0]
    /\ UNCHANGED <<vars, lock, paid>>

\* The head of the loop: on to the next provider that is not UNAVAILABLE; those
\* in between are skipped.  A provider is so for want of its key, whoever asks.
NextProvider(c) ==
    /\ stage[c] = "cascade"
    /\ \E p \in provider[c] + 1 .. Providers : provider' = [provider EXCEPT ![c] = p]
    /\ EnterReserve(c)
    /\ GoTo(c, "reserve")
    /\ UNCHANGED <<lock, paid>>

\* No provider is left, or those that are left are UNAVAILABLE.
CascadeExhausted(c) ==
    /\ stage[c] = "cascade"
    /\ GoTo(c, "fallback")
    /\ UNCHANGED <<vars, lock, provider, paid>>

(***************************************************************************)
(* 4A: reserve_quota gets the row lock and answers.  Admitted, the query   *)
(* keeps the lock; rejected, reserve_quota itself has rolled back the      *)
(* query's transaction, and the lock with it.                              *)
(***************************************************************************)
Reserve(c) ==
    /\ stage[c] = "reserve"
    /\ lock \in {c, NoCaller}
    /\ \/ /\ ReserveInactive(c) \/ ReserveGranted(c)
          /\ lock' = c
          /\ GoTo(c, "call")
       \/ /\ ReserveRejected(c)
          /\ lock' = NoCaller
          /\ GoTo(c, "fallback")
    /\ UNCHANGED <<provider, paid>>

\* An exception, before the row is locked or after: nothing is inserted, and the
\* row stays locked only if the transaction was not rolled back by the failure.
ReserveRaises(c) ==
    /\ stage[c] = "reserve"
    /\ lock' \in IF lock \in {c, NoCaller} THEN {c, NoCaller} ELSE {lock}
    /\ caller' = [caller EXCEPT ![c] = IdleCaller]
    /\ GoTo(c, "fallback")
    /\ UNCHANGED <<today, policy, reserved, resv, ledger, bypassed, provider, paid>>

\* 4B and 4E: the provider fails, or answers and is (not) found grounded.
Reply(c) ==
    /\ stage[c] = "call"
    /\ \E s \in {"failed", "ungrounded", "good"} : GoTo(c, s)
    /\ UNCHANGED <<vars, lock, provider, paid>>

\* A rollback: what the open transaction inserted and added is gone.
Rollback(c) ==
    LET r == caller[c].rid
        inserted == lock = c /\ r # NoRes /\ resv[r].status = "RESERVED" IN
    /\ lock' = IF lock = c THEN NoCaller ELSE lock
    /\ resv' = IF inserted THEN [resv EXCEPT ![r] = [status |-> "NONE", est |-> 0]] ELSE resv
    /\ reserved' = IF inserted THEN [requests |-> reserved.requests - 1,
                                     spend |-> reserved.spend - resv[r].est]
                               ELSE reserved
    /\ caller' = [caller EXCEPT ![c] = IdleCaller]
    /\ UNCHANGED <<today, policy, ledger, bypassed>>

\* Mutant of GiveUpProvider: the reservation of a failed call is not released.
GiveUpProvider_Forgets(c) ==
    /\ stage[c] \in {"failed", "ungrounded"}
    /\ caller' = [caller EXCEPT ![c] = IdleCaller]
    /\ lock' = NoCaller
    /\ GoTo(c, "cascade")
    /\ UNCHANGED <<today, policy, reserved, resv, ledger, bypassed, provider, paid>>

\* 4C and 4E, rejected: release and commit, or rollback if that fails; with no
\* reservation there is nothing to commit and the transaction stays open.
GiveUpProvider(c) ==
    /\ stage[c] \in {"failed", "ungrounded"}
    /\ \/ Release(c) /\ caller'[c] = IdleCaller /\ lock' = NoCaller
       \/ caller[c].rid # NoRes /\ Rollback(c)
       \/ caller[c].rid = NoRes /\ SettleOrReleaseNoop(c) /\ UNCHANGED lock
    /\ GoTo(c, "cascade")
    /\ UNCHANGED <<provider, paid>>

\* Mutant of SettleAnswer: the answer is handed out although its settlement failed.
SettleAnswer_Unsettled(c) ==
    /\ stage[c] = "good"
    /\ \/ Settle(c) /\ caller'[c] = IdleCaller /\ lock' = NoCaller
       \/ Rollback(c)
    /\ paid' = [paid EXCEPT ![c] = caller[c].rid]
    /\ GoTo(c, "answer")
    /\ UNCHANGED provider

\* 4F: settle, note the reservation in the provenance, and commit; a failure, and
\* an answer obtained with no reservation, roll back and discard the answer.
SettleAnswer(c) ==
    /\ stage[c] = "good"
    /\ \/ /\ Settle(c) /\ caller'[c] = IdleCaller
          /\ lock' = NoCaller
          /\ paid' = [paid EXCEPT ![c] = caller[c].rid]
          /\ GoTo(c, "answer")
       \/ Rollback(c) /\ GoTo(c, "fallback") /\ UNCHANGED paid
    /\ UNCHANGED provider

\* Mutant of Finish: an open transaction is left open.
Finish_NoCommit(c) ==
    /\ stage[c] \in {"answer", "fallback"}
    /\ paid' = [paid EXCEPT ![c] = NoRes]
    /\ GoTo(c, "none")
    /\ UNCHANGED <<vars, lock, provider>>

\* ask_ai stores the answer and commits whatever is still open.
Finish(c) ==
    /\ stage[c] \in {"answer", "fallback"}
    /\ lock' = IF lock = c THEN NoCaller ELSE lock
    /\ paid' = [paid EXCEPT ![c] = NoRes]
    /\ GoTo(c, "none")
    /\ UNCHANGED <<vars, provider>>

\* The request dies anywhere: the connection closes and the database rolls back.
Die(c) ==
    /\ stage[c] # "none"
    /\ Rollback(c)
    /\ paid' = [paid EXCEPT ![c] = NoRes]
    /\ GoTo(c, "none")
    /\ UNCHANGED provider

GNextDay == NextDay /\ UNCHANGED <<lock, stage, provider, paid>>

Step(c) ==
    \/ Reserve(c) \/ Reply(c) \/ GiveUpProvider(c) \/ NextProvider(c)
    \/ CascadeExhausted(c) \/ SettleAnswer(c) \/ Finish(c)

GNext == (\E c \in Callers : Ask(c) \/ Step(c) \/ ReserveRaises(c) \/ Die(c)) \/ GNextDay

GSpec == GInit /\ [][GNext]_gvars

\* A query that is running keeps running; PostgreSQL queues the waiters of a
\* row lock, so a query that waits again and again gets the lock.
GFairSpec ==
    /\ GSpec
    /\ \A c \in Callers : WF_gvars(Step(c)) /\ SF_gvars(Reserve(c))

-----------------------------------------------------------------------------

\* No path through the cascade (failed or ungrounded provider, failed release,
\* failed settlement, dead request) leaves exposure behind: once nobody holds
\* the policy row, no reservation is RESERVED and both counters are zero
\* (ai_gateway.py:1058-1084, 1150-1173, 1250-1251).
NoLeakedExposure ==
    lock = NoCaller => Held = {} /\ reserved = [requests |-> 0, spend |-> 0]

\* A query on its way out with a provider's answer has been charged for it: its
\* provenance names a reservation with exactly one usage row in the ledger, and no
\* two answers lean on the same row (ai_gateway.py:1194-1226).
AnswersAreCharged ==
    \A c \in Callers : stage[c] = "answer" =>
        /\ paid[c] # NoRes
        /\ \E i \in DOMAIN ledger :
              \A j \in DOMAIN ledger : ledger[j].res = paid[c] <=> j = i
        /\ \A d \in Callers \ {c} : stage[d] = "answer" => paid[d] # paid[c]

\* Every query gets a response: an answer or the deterministic fallback.
QueryEnds == \A c \in Callers : stage[c] # "none" ~> stage[c] = "none"
=============================================================================
