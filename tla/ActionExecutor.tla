--------------------------- MODULE ActionExecutor ---------------------------
(***************************************************************************)
(* Controlled actions: aurix_core/actions/executor.py (ActionExecutor),    *)
(* policy.py (ActionPolicyEngine) and adapters.py (ActionExecutionAdapter) *)
(* for one tenant.  The stores are dictionaries of the one API process,    *)
(* and every route that uses them is a coroutine that never awaits, so a   *)
(* handler runs to its end before the next one starts: one step each.      *)
(*                                                                         *)
(* An action is aimed at a target (entity_id and action_type; policy.py    *)
(* compares exactly those two).  Of the payload, only its size against the *)
(* policy's limits and simulate_timeout matter:                            *)
(*    "small"  up to half the value limit   "large"  up to the limit       *)
(*    "over"   quantity or value over the limit                            *)
(*    "junk"   a quantity or price that float() refuses                    *)
(* Calls that change nothing (a refused approve, reject, execute or        *)
(* reconcile) are stuttering steps.                                        *)
(***************************************************************************)
EXTENDS Naturals, FiniteSets

CONSTANTS
    Actions,      \* action ids
    Targets, Supported,       \* targets, and those with an execution adapter
    Users, Admins,            \* users, and those whose role is ADMIN
    Categories,   \* ActionCategory values in use
    Payloads,     \* [size, timeout]
    NoPayload, NoUser,
    MaxEdits      \* bound on in-process changes of a stored payload

ASSUME TargetsAssumption == Supported \subseteq Targets
ASSUME UsersAssumption == Admins \subseteq Users /\ NoUser \notin Users
ASSUME CategoriesAssumption ==
    Categories \subseteq {"READ", "ANALYZE", "SIMULATE", "RECOMMEND",
                          "APPROVAL_REQUIRED", "EXECUTABLE", "DESTRUCTIVE"}
ASSUME PayloadsAssumption ==
    /\ Payloads \subseteq [size : {"small", "large", "over", "junk"}, timeout : BOOLEAN]
    /\ NoPayload \notin Payloads
ASSUME NonEmptyAssumption ==
    Targets # {} /\ Users # {} /\ Categories # {} /\ Payloads # {}
ASSUME MaxEditsAssumption == MaxEdits \in Nat

VARIABLES
    act,          \* _ACTIONS_STORE: [Actions -> contract], "NONE" if not created
    stored,       \* actions with an entry in _IDEMPOTENCY_RESULTS
    writes,       \* requests transmitted to the external system, by action
    announced,    \* INVENTORY_UPDATED events, by action (saturates at 2)
    edits         \* number of payload changes so far

vars == <<act, stored, writes, announced, edits>>

States == {"NONE", "CREATED", "VALIDATING", "VALIDATED", "PENDING_APPROVAL", "APPROVED",
           "EXTERNAL_UNKNOWN", "VERIFIED", "REJECTED", "FAILED", "APPROVAL_INVALIDATED",
           "ACTION_CONFLICT", "COMPENSATION_REQUIRED", "MANUAL_INTERVENTION_REQUIRED"}

Contracts ==
    [state : States, approval : {"PENDING", "APPROVED", "REJECTED", "INVALIDATED"},
     required : BOOLEAN, hash : Payloads \cup {NoPayload}, approver : Users \cup {NoUser},
     target : Targets, category : Categories, requester : Users, payload : Payloads,
     fresh : BOOLEAN]

Put(a, contract) == act' = [act EXCEPT ![a] = contract]
GoTo(a, s) == act' = [act EXCEPT ![a].state = s]

\* The contract of an id that nobody has created: its attributes mean nothing.
Blank == [state |-> "NONE", approval |-> "PENDING", required |-> TRUE,
          hash |-> NoPayload, approver |-> NoUser, target |-> CHOOSE t \in Targets : TRUE,
          category |-> CHOOSE k \in Categories : TRUE, requester |-> CHOOSE u \in Users : TRUE,
          payload |-> CHOOSE p \in Payloads : TRUE, fresh |-> TRUE]

Init ==
    /\ act = [a \in Actions |-> Blank]
    /\ stored = {}
    /\ writes = [a \in Actions |-> 0]
    /\ announced = [a \in Actions |-> 0]
    /\ edits = 0

\* create_action: the attributes of a contract are those of the request.
Create(u, a) ==
    /\ act[a].state = "NONE"
    /\ \E t \in Targets, k \in Categories, p \in Payloads :
          Put(a, [state |-> "CREATED", approval |-> "PENDING",
                  required |-> k \in {"APPROVAL_REQUIRED", "EXECUTABLE"},
                  hash |-> NoPayload, approver |-> NoUser, target |-> t, category |-> k,
                  requester |-> u, payload |-> p, fresh |-> TRUE])
    /\ UNCHANGED <<stored, writes, announced, edits>>

-----------------------------------------------------------------------------
(***************************************************************************)
(* preflight_action and ActionPolicyEngine.evaluate_policy.  There is no   *)
(* guard on the state: an action in any state is evaluated anew.           *)
(***************************************************************************)
\* Mutant of Active: an action that is validated does not conflict.
Active_NotValidated == {"CREATED", "PENDING_APPROVAL", "APPROVED"}

\* policy.py's active_states; three more are never seen between two handlers.
Active == {"CREATED", "VALIDATED", "PENDING_APPROVAL", "APPROVED"}

Conflict(a) == \E b \in Actions \ {a} : /\ act[b].target = act[a].target
                                        /\ act[b].state \in Active

\* Mutant of NeedsApproval: the thresholds are not looked at.
NeedsApproval_NoThresholds(u, a) ==
    \/ act[a].requester = u /\ u \notin Admins
    \/ act[a].category = "APPROVAL_REQUIRED"

NeedsApproval(u, a) ==
    \/ act[a].payload.size = "over"
    \/ act[a].requester = u /\ u \notin Admins
    \/ act[a].category = "APPROVAL_REQUIRED"
    \/ act[a].payload.size = "large"

\* The rules in policy.py's order; float() raising leaves the action as it is
\* at that point, in VALIDATING.
Verdict(u, a) ==
    IF ~act[a].fresh THEN [state |-> "REJECTED", required |-> TRUE]
    ELSE IF Conflict(a) THEN [state |-> "ACTION_CONFLICT", required |-> FALSE]
    ELSE IF act[a].category = "DESTRUCTIVE" THEN [state |-> "REJECTED", required |-> TRUE]
    ELSE IF act[a].payload.size = "junk" THEN [state |-> "VALIDATING", required |-> act[a].required]
    ELSE [state |-> IF NeedsApproval(u, a) THEN "PENDING_APPROVAL" ELSE "VALIDATED",
          required |-> NeedsApproval(u, a)]

Preflight(u, a) ==
    /\ act[a].state # "NONE"
    /\ Put(a, [act[a] EXCEPT !.state = Verdict(u, a).state,
                             !.required = Verdict(u, a).required])
    /\ UNCHANGED <<stored, writes, announced, edits>>

\* approve_action: segregation of duties, and the hash of what was approved.
Approve(u, a) ==
    /\ act[a].state = "PENDING_APPROVAL"
    /\ act[a].requester # u \/ u \in Admins
    /\ Put(a, [act[a] EXCEPT !.state = "APPROVED", !.approval = "APPROVED",
                             !.hash = act[a].payload, !.approver = u])
    /\ UNCHANGED <<stored, writes, announced, edits>>

Reject(a) ==
    /\ act[a].state = "PENDING_APPROVAL"
    /\ Put(a, [act[a] EXCEPT !.state = "REJECTED", !.approval = "REJECTED"])
    /\ UNCHANGED <<stored, writes, announced, edits>>

-----------------------------------------------------------------------------
(***************************************************************************)
(* execute_action and the adapter.  The approval is looked at first, in    *)
(* whatever state the action is.                                           *)
(***************************************************************************)
ExecuteInvalidates(a) ==
    /\ act[a].state # "NONE"
    /\ act[a].required /\ act[a].approval = "APPROVED"
    /\ act[a].hash # act[a].payload
    /\ Put(a, [act[a] EXCEPT !.state = "APPROVAL_INVALIDATED", !.approval = "INVALIDATED"])
    /\ UNCHANGED <<stored, writes, announced, edits>>

\* Mutant of Cleared: the approved hash is not compared with the payload.
Cleared_NoHash(a) ==
    /\ act[a].required => act[a].approval = "APPROVED"
    /\ act[a].state \in {"VALIDATED", "APPROVED"}

Cleared(a) ==
    /\ act[a].required => act[a].approval = "APPROVED" /\ act[a].hash = act[a].payload
    /\ act[a].state \in {"VALIDATED", "APPROVED"}

Announce(a) == announced' = [announced EXCEPT ![a] = IF @ < 2 THEN @ + 1 ELSE 2]
Transmit(a) == writes' = [writes EXCEPT ![a] = @ + 1] /\ stored' = stored \cup {a}

\* An outcome is on record for the idempotency key: it is returned again.
ExecuteReplayed(a, dry) ==
    /\ Cleared(a) /\ a \in stored
    /\ GoTo(a, "VERIFIED")
    /\ IF dry THEN UNCHANGED announced ELSE Announce(a)
    /\ UNCHANGED <<stored, writes, edits>>

\* Mutant of ExecuteTimesOut: what was transmitted is not put on record.
ExecuteTimesOut_NotStored(a, dry) ==
    /\ Cleared(a) /\ a \notin stored
    /\ act[a].payload.timeout
    /\ writes[a] < 2
    /\ writes' = [writes EXCEPT ![a] = @ + 1]
    /\ GoTo(a, IF dry THEN "FAILED" ELSE "EXTERNAL_UNKNOWN")
    /\ UNCHANGED <<stored, announced, edits>>

\* Timeout after transmission; the adapter looks at it before dry_run.
ExecuteTimesOut(a, dry) ==
    /\ Cleared(a) /\ a \notin stored
    /\ act[a].payload.timeout
    /\ Transmit(a)
    /\ GoTo(a, IF dry THEN "FAILED" ELSE "EXTERNAL_UNKNOWN")
    /\ UNCHANGED <<announced, edits>>

ExecuteDry(a) ==
    /\ Cleared(a) /\ a \notin stored
    /\ ~act[a].payload.timeout
    /\ GoTo(a, "VERIFIED")
    /\ UNCHANGED <<stored, writes, announced, edits>>

\* Mutant of ExecuteLive: the event is published before the outcome is known.
ExecuteLive_AnnouncesFirst(a) ==
    /\ Cleared(a) /\ a \notin stored
    /\ ~act[a].payload.timeout
    /\ act[a].target \in Supported
    /\ Announce(a)
    /\ \/ Transmit(a) /\ GoTo(a, "VERIFIED")
       \/ GoTo(a, "EXTERNAL_UNKNOWN") /\ UNCHANGED <<stored, writes>>
    /\ UNCHANGED edits

\* Live: written and verified, rejected for want of an adapter, or the
\* connector raises before anything is transmitted.
ExecuteLive(a) ==
    /\ Cleared(a) /\ a \notin stored
    /\ ~act[a].payload.timeout
    /\ \/ /\ act[a].target \in Supported
          /\ Transmit(a) /\ Announce(a) /\ GoTo(a, "VERIFIED")
       \/ /\ act[a].target \notin Supported
          /\ GoTo(a, "COMPENSATION_REQUIRED") /\ UNCHANGED <<stored, writes, announced>>
       \/ /\ act[a].target \in Supported
          /\ GoTo(a, "EXTERNAL_UNKNOWN") /\ UNCHANGED <<stored, writes, announced>>
    /\ UNCHANGED edits

Execute(a, dry) ==
    \/ ExecuteInvalidates(a)
    \/ ExecuteReplayed(a, dry)
    \/ ExecuteTimesOut(a, dry)
    \/ dry /\ ExecuteDry(a)
    \/ ~dry /\ ExecuteLive(a)

\* reconcile_action: looks the outcome up and never transmits again.
Reconcile(a) ==
    /\ act[a].state = "EXTERNAL_UNKNOWN"
    /\ \/ a \in stored /\ GoTo(a, "VERIFIED") /\ Announce(a)
       \/ a \notin stored /\ GoTo(a, "MANUAL_INTERVENTION_REQUIRED") /\ UNCHANGED announced
    /\ UNCHANGED <<stored, writes, edits>>

-----------------------------------------------------------------------------
\* More than MAX_FRESHNESS_AGE_SECONDS pass; no code refreshes the timestamp.
Age(a) ==
    /\ act[a].state # "NONE" /\ act[a].fresh
    /\ act' = [act EXCEPT ![a].fresh = FALSE]
    /\ UNCHANGED <<stored, writes, announced, edits>>

\* Something that holds the contract object changes its payload.
EditPayload(a) ==
    /\ act[a].state # "NONE"
    /\ edits < MaxEdits
    /\ \E p \in Payloads \ {act[a].payload} : act' = [act EXCEPT ![a].payload = p]
    /\ edits' = edits + 1
    /\ UNCHANGED <<stored, writes, announced>>

Next ==
    \E a \in Actions :
        \/ \E u \in Users : Create(u, a) \/ Preflight(u, a) \/ Approve(u, a)
        \/ Reject(a)
        \/ \E dry \in BOOLEAN : Execute(a, dry)
        \/ Reconcile(a)
        \/ Age(a)
        \/ EditPayload(a)

Spec == Init /\ [][Next]_vars

-----------------------------------------------------------------------------
(***************************************************************************)
(* Properties.                                                             *)
(***************************************************************************)

\* Every variable has its type.
TypeOK ==
    /\ act \in [Actions -> Contracts]
    /\ stored \subseteq Actions
    /\ writes \in [Actions -> Nat]
    /\ announced \in [Actions -> 0..2]
    /\ edits \in 0..MaxEdits

\* Conflict detection works across actions and repeated preflights: at most one
\* action per target is cleared for execution or on its way to be
\* (policy.py:76-98, "preventing concurrent overlapping writes").
OneCleared ==
    \A a, b \in Actions :
        /\ act[a].state \in {"VALIDATED", "PENDING_APPROVAL", "APPROVED"}
        /\ act[b].state \in {"VALIDATED", "PENDING_APPROVAL", "APPROVED"}
        /\ act[a].target = act[b].target
        => a = b

\* However often an action is revived by a new preflight, edited, re-approved,
\* timed out and executed again, it reaches the external system at most once
\* (adapters.py:121-138, the idempotency key of contracts.py:103).
WriteAtMostOnce == \A a \in Actions : writes[a] <= 1

\* No downstream event says that inventory changed unless the write it reports
\* was transmitted (executor.py:381-392, 478-490).
AnnouncedAfterWrite == \A a \in Actions : announced[a] > 0 => writes[a] = 1

Transmitted(a) == writes'[a] > writes[a]
IndependentlyApproved(a) ==
    /\ act[a].approval = "APPROVED" /\ act[a].hash = act[a].payload
    /\ act[a].approver # act[a].requester \/ act[a].approver \in Admins

\* What is transmitted for an action that requires approval is exactly what
\* somebody other than its requester (or an administrator) approved, through
\* edits, rejections and second approvals (executor.py:176-180, 233-262).
ApprovedPayloadWritten ==
    [][\A a \in Actions : Transmitted(a) /\ act[a].required => IndependentlyApproved(a)]_vars

\* Unless the stored payload is edited behind the executor's back, a request
\* over half the value limit is never transmitted without that approval,
\* whoever preflights it and how often (policy.py:109-153).
LargeNeedsApproval ==
    [][\A a \in Actions : Transmitted(a) /\ edits = 0 /\ act[a].payload.size # "small"
                               => IndependentlyApproved(a)]_vars
=============================================================================
