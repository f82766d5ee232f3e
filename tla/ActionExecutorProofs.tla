------------------------ MODULE ActionExecutorProofs ------------------------
(***************************************************************************)
(* For any number of actions, users and payload changes: one action per    *)
(* target is cleared, each action writes once and is announced only after  *)
(* it wrote, and what is written was approved.                             *)
(***************************************************************************)
EXTENDS ActionExecutor, TLAPS

OnTheWay == {"VALIDATED", "PENDING_APPROVAL", "APPROVED"}

\* An outcome is on record exactly for the actions that wrote, once.
WritesOnRecord == \A a \in Actions : writes[a] = IF a \in stored THEN 1 ELSE 0
AnnouncedOnRecord == \A a \in Actions : announced[a] > 0 => a \in stored

\* An approval that is in force was given by somebody who may give it.
ApprovalsIndependent ==
    \A a \in Actions : act[a].approval = "APPROVED" =>
        act[a].approver # act[a].requester \/ act[a].approver \in Admins

\* Until a payload is edited, an action is validated without approval only if
\* it is small, and an APPROVED one has an approval of its very payload.
ClearedFollowsPolicy ==
    edits = 0 =>
        \A a \in Actions :
            /\ act[a].state = "VALIDATED" => act[a].payload.size = "small"
            /\ act[a].state = "APPROVED" =>
                  act[a].approval = "APPROVED" /\ act[a].hash = act[a].payload

RecordInv == WritesOnRecord /\ AnnouncedOnRecord
ContractInv == OneCleared /\ ApprovalsIndependent /\ ClearedFollowsPolicy
IInv == TypeOK /\ RecordInv /\ ContractInv

\* At first there is no action.
LEMMA InitEstablishes == Init => IInv
<1> SUFFICES ASSUME Init PROVE IInv
  OBVIOUS
<1>1. Blank \in Contracts
  BY NonEmptyAssumption DEF Blank, Contracts, States
<1>2. TypeOK
  BY <1>1, MaxEditsAssumption DEF Init, TypeOK
<1>3. RecordInv
  BY DEF Init, RecordInv, WritesOnRecord, AnnouncedOnRecord
<1>4. ContractInv
  BY DEF Init, Blank, ContractInv, OneCleared, ApprovalsIndependent, ClearedFollowsPolicy
<1> QED
  BY <1>2, <1>3, <1>4 DEF IInv

-----------------------------------------------------------------------------
\* A new state for an action leaves everything else of every contract alone.
LEMMA GoToEffect ==
    ASSUME TypeOK, NEW a \in Actions, NEW s \in States, GoTo(a, s)
    PROVE  /\ act' \in [Actions -> Contracts]
           /\ act'[a] = [act[a] EXCEPT !.state = s]
           /\ \A b \in Actions \ {a} : act'[b] = act[b]
<1>1. act[a] \in Contracts
  BY DEF TypeOK
<1>2. [act[a] EXCEPT !.state = s] \in Contracts
  BY <1>1 DEF Contracts
<1> QED
  BY <1>2 DEF TypeOK, GoTo

\* An action that is taken out of the race cannot break what holds of the
\* contracts.
LEMMA LeavingIsSafe ==
    ASSUME TypeOK, ContractInv, NEW a \in Actions, NEW s \in States \ OnTheWay,
           GoTo(a, s), UNCHANGED edits
    PROVE  ContractInv'
<1>1. /\ act' \in [Actions -> Contracts]
      /\ act'[a] = [act[a] EXCEPT !.state = s]
      /\ \A b \in Actions \ {a} : act'[b] = act[b]
  BY GoToEffect
<1>2. act[a] \in Contracts
  BY DEF TypeOK
<1>3. /\ act'[a].state \notin OnTheWay
      /\ act'[a].approval = act[a].approval /\ act'[a].approver = act[a].approver
      /\ act'[a].requester = act[a].requester
      /\ \A b \in Actions \ {a} : act'[b] = act[b]
  BY <1>1, <1>2 DEF Contracts
<1>4. OneCleared'
  BY <1>3 DEF ContractInv, OneCleared, OnTheWay
<1>5. ApprovalsIndependent'
  BY <1>3 DEF ContractInv, ApprovalsIndependent
<1>6. ClearedFollowsPolicy'
  BY <1>3 DEF ContractInv, ClearedFollowsPolicy, OnTheWay
<1> QED
  BY <1>4, <1>5, <1>6 DEF ContractInv

\* A new action has no history (create_action).
LEMMA CreatePreserves ==
    ASSUME IInv, NEW u \in Users, NEW a \in Actions, Create(u, a)
    PROVE  IInv'
<1> USE DEF IInv
<1>1. PICK t \in Targets, k \in Categories, p \in Payloads :
         act' = [act EXCEPT ![a] =
             [state |-> "CREATED", approval |-> "PENDING",
              required |-> k \in {"APPROVAL_REQUIRED", "EXECUTABLE"},
              hash |-> NoPayload, approver |-> NoUser, target |-> t, category |-> k,
              requester |-> u, payload |-> p, fresh |-> TRUE]]
  BY DEF Create, Put
<1>2. TypeOK'
  BY <1>1 DEF Create, TypeOK, Contracts, States
<1>3. RecordInv'
  BY DEF Create, RecordInv, WritesOnRecord, AnnouncedOnRecord
<1>4. /\ act'[a].state = "CREATED" /\ act'[a].approval = "PENDING"
      /\ \A b \in Actions \ {a} : act'[b] = act[b]
  BY <1>1 DEF TypeOK
<1>5. ContractInv'
  BY <1>4 DEF Create, ContractInv, OneCleared, ApprovalsIndependent, ClearedFollowsPolicy
<1> QED
  BY <1>2, <1>3, <1>5

\* What a verdict may be, whoever asks: an action gets on its way only when no
\* other action of the target is, and past approval only when it is small.
LEMMA VerdictFacts ==
    ASSUME TypeOK, NEW u \in Users, NEW a \in Actions, act[a].state # "NONE"
    PROVE  /\ Verdict(u, a).state \in States \ {"APPROVED"}
           /\ Verdict(u, a).required \in BOOLEAN
           /\ Verdict(u, a).state \in OnTheWay => ~Conflict(a)
           /\ Verdict(u, a).state = "VALIDATED" => act[a].payload.size = "small"
<1>1. act[a] \in Contracts
  BY DEF TypeOK
<1>2. act[a].payload.size \in {"small", "large", "over", "junk"}
  BY <1>1, PayloadsAssumption DEF Contracts
<1>3. NeedsApproval(u, a) \in BOOLEAN
  BY DEF NeedsApproval
<1>4. act[a].required \in BOOLEAN
  BY <1>1 DEF Contracts
<1>5. CASE Verdict(u, a).state \notin OnTheWay
  BY <1>3, <1>4, <1>5 DEF Verdict, States, OnTheWay
<1>6. CASE Verdict(u, a).state \in OnTheWay
  BY <1>2, <1>3, <1>4, <1>6 DEF Verdict, States, OnTheWay, NeedsApproval
<1> QED
  BY <1>5, <1>6

\* Preflight clears an action only if nobody races it (preflight_action).
LEMMA PreflightPreserves ==
    ASSUME IInv, NEW u \in Users, NEW a \in Actions, Preflight(u, a)
    PROVE  IInv'
<1> USE DEF IInv
<1> DEFINE v == Verdict(u, a)
<1>1. act[a].state # "NONE" /\ act[a] \in Contracts
  BY DEF Preflight, TypeOK
<1>2. /\ v.state \in States \ {"APPROVED"} /\ v.required \in BOOLEAN
      /\ v.state \in OnTheWay => ~Conflict(a)
      /\ v.state = "VALIDATED" => act[a].payload.size = "small"
  BY <1>1, VerdictFacts
<1> HIDE DEF v
<1>3. act' = [act EXCEPT ![a] = [act[a] EXCEPT !.state = v.state, !.required = v.required]]
  BY DEF Preflight, Put, v
<1>4. [act[a] EXCEPT !.state = v.state, !.required = v.required] \in Contracts
  BY <1>1, <1>2 DEF Contracts
<1>5. TypeOK'
  BY <1>3, <1>4 DEF Preflight, TypeOK
<1>6. RecordInv'
  BY DEF Preflight, RecordInv, WritesOnRecord, AnnouncedOnRecord
<1>7. /\ act'[a].state = v.state /\ act'[a].target = act[a].target
      /\ act'[a].approval = act[a].approval /\ act'[a].approver = act[a].approver
      /\ act'[a].requester = act[a].requester /\ act'[a].payload = act[a].payload
      /\ \A b \in Actions \ {a} : act'[b] = act[b]
  BY <1>1, <1>3 DEF TypeOK, Contracts
<1>8. OneCleared'
  BY <1>2, <1>7 DEF ContractInv, OneCleared, Conflict, Active, OnTheWay
<1>9. ApprovalsIndependent'
  BY <1>7 DEF ContractInv, ApprovalsIndependent
<1>10. ClearedFollowsPolicy'
  BY <1>2, <1>7 DEF Preflight, ContractInv, ClearedFollowsPolicy
<1> QED
  BY <1>5, <1>6, <1>8, <1>9, <1>10 DEF ContractInv

\* An approval is by somebody who may give it (approve_action).
LEMMA ApprovePreserves ==
    ASSUME IInv, NEW u \in Users, NEW a \in Actions, Approve(u, a)
    PROVE  IInv'
<1> USE DEF IInv
<1>1. act[a] \in Contracts
  BY DEF TypeOK
<1>2. act' = [act EXCEPT ![a] = [act[a] EXCEPT !.state = "APPROVED", !.approval = "APPROVED",
                                               !.hash = act[a].payload, !.approver = u]]
  BY DEF Approve, Put
<1>3. [act[a] EXCEPT !.state = "APPROVED", !.approval = "APPROVED",
                     !.hash = act[a].payload, !.approver = u] \in Contracts
  BY <1>1 DEF Contracts, States
<1>4. TypeOK'
  BY <1>2, <1>3 DEF Approve, TypeOK
<1>5. RecordInv'
  BY DEF Approve, RecordInv, WritesOnRecord, AnnouncedOnRecord
<1>6. /\ act'[a].state = "APPROVED" /\ act'[a].target = act[a].target
      /\ act'[a].approval = "APPROVED" /\ act'[a].approver = u
      /\ act'[a].requester = act[a].requester
      /\ act'[a].payload = act[a].payload /\ act'[a].hash = act[a].payload
      /\ \A b \in Actions \ {a} : act'[b] = act[b]
  BY <1>1, <1>2 DEF TypeOK, Contracts
<1>7. OneCleared'
  BY <1>6 DEF Approve, ContractInv, OneCleared
<1>8. ApprovalsIndependent'
  BY <1>6 DEF Approve, ContractInv, ApprovalsIndependent
<1>9. ClearedFollowsPolicy'
  BY <1>6 DEF Approve, ContractInv, ClearedFollowsPolicy
<1> QED
  BY <1>4, <1>5, <1>7, <1>8, <1>9 DEF ContractInv

\* A rejected action is out of the race (reject_action).
LEMMA RejectPreserves ==
    ASSUME IInv, NEW a \in Actions, Reject(a)
    PROVE  IInv'
<1> USE DEF IInv
<1>1. act[a] \in Contracts
  BY DEF TypeOK
<1>2. act' = [act EXCEPT ![a] = [act[a] EXCEPT !.state = "REJECTED", !.approval = "REJECTED"]]
  BY DEF Reject, Put
<1>3. [act[a] EXCEPT !.state = "REJECTED", !.approval = "REJECTED"] \in Contracts
  BY <1>1 DEF Contracts, States
<1>4. TypeOK'
  BY <1>2, <1>3 DEF Reject, TypeOK
<1>5. RecordInv'
  BY DEF Reject, RecordInv, WritesOnRecord, AnnouncedOnRecord
<1>6. /\ act'[a].state = "REJECTED" /\ act'[a].approval = "REJECTED"
      /\ \A b \in Actions \ {a} : act'[b] = act[b]
  BY <1>1, <1>2 DEF TypeOK, Contracts
<1>7. ContractInv'
  BY <1>6 DEF Reject, ContractInv, OneCleared, ApprovalsIndependent, ClearedFollowsPolicy
<1> QED
  BY <1>4, <1>5, <1>7

\* So is one that an execution finds invalid.
LEMMA InvalidatesPreserves ==
    ASSUME IInv, NEW a \in Actions, ExecuteInvalidates(a)
    PROVE  IInv'
<1> USE DEF IInv
<1>1. act[a] \in Contracts
  BY DEF TypeOK
<1>2. act' = [act EXCEPT ![a] = [act[a] EXCEPT !.state = "APPROVAL_INVALIDATED",
                                               !.approval = "INVALIDATED"]]
  BY DEF ExecuteInvalidates, Put
<1>3. [act[a] EXCEPT !.state = "APPROVAL_INVALIDATED", !.approval = "INVALIDATED"] \in Contracts
  BY <1>1 DEF Contracts, States
<1>4. TypeOK'
  BY <1>2, <1>3 DEF ExecuteInvalidates, TypeOK
<1>5. RecordInv'
  BY DEF ExecuteInvalidates, RecordInv, WritesOnRecord, AnnouncedOnRecord
<1>6. /\ act'[a].state = "APPROVAL_INVALIDATED" /\ act'[a].approval = "INVALIDATED"
      /\ \A b \in Actions \ {a} : act'[b] = act[b]
  BY <1>1, <1>2 DEF TypeOK, Contracts
<1>7. ContractInv'
  BY <1>6 DEF ExecuteInvalidates, ContractInv, OneCleared, ApprovalsIndependent,
              ClearedFollowsPolicy
<1> QED
  BY <1>4, <1>5, <1>7

-----------------------------------------------------------------------------
\* Putting an outcome on record with its one write.
LEMMA TransmitPreserves ==
    ASSUME TypeOK, WritesOnRecord, NEW a \in Actions, a \notin stored, Transmit(a)
    PROVE  /\ stored' \subseteq Actions /\ writes' \in [Actions -> Nat]
           /\ WritesOnRecord'
BY DEF TypeOK, WritesOnRecord, Transmit

\* Announcing an action that is on record.
LEMMA AnnouncePreserves ==
    ASSUME TypeOK, AnnouncedOnRecord, NEW a \in Actions, Announce(a),
           a \in stored', stored \subseteq stored'
    PROVE  announced' \in [Actions -> 0..2] /\ AnnouncedOnRecord'
<1>1. announced \in [Actions -> 0..2]
  BY DEF TypeOK
<1>2. announced' \in [Actions -> 0..2]
  BY <1>1 DEF Announce
<1>3. \A b \in Actions \ {a} : announced'[b] = announced[b]
  BY <1>1 DEF Announce
<1>4. AnnouncedOnRecord'
  BY <1>3 DEF AnnouncedOnRecord
<1> QED
  BY <1>2, <1>4

\* An execution writes only what has no outcome on record (execute_action).
LEMMA ExecutePreserves ==
    ASSUME IInv, NEW a \in Actions, NEW dry \in BOOLEAN, Execute(a, dry)
    PROVE  IInv'
<1> USE DEF IInv
<1>1. CASE ExecuteInvalidates(a)
  BY <1>1, InvalidatesPreserves
<1>2. CASE ExecuteReplayed(a, dry)
  <2>1. "VERIFIED" \in States \ OnTheWay
    BY DEF States, OnTheWay
  <2>2. act' \in [Actions -> Contracts] /\ ContractInv'
    BY <1>2, <2>1, GoToEffect, LeavingIsSafe DEF ExecuteReplayed
  <2>3. announced' \in [Actions -> 0..2] /\ AnnouncedOnRecord'
    <3>1. CASE dry
      BY <1>2, <3>1 DEF ExecuteReplayed, TypeOK, RecordInv, AnnouncedOnRecord
    <3>2. CASE ~dry
      BY <1>2, <3>2, AnnouncePreserves DEF ExecuteReplayed, RecordInv
    <3> QED
      BY <3>1, <3>2
  <2>4. WritesOnRecord'
    BY <1>2 DEF ExecuteReplayed, RecordInv, WritesOnRecord
  <2> QED
    BY <1>2, <2>2, <2>3, <2>4 DEF ExecuteReplayed, TypeOK, RecordInv
<1>3. CASE ExecuteTimesOut(a, dry)
  <2>1. PICK s \in {"FAILED", "EXTERNAL_UNKNOWN"} : GoTo(a, s)
    BY <1>3 DEF ExecuteTimesOut
  <2>2. s \in States \ OnTheWay
    BY DEF States, OnTheWay
  <2>3. act' \in [Actions -> Contracts] /\ ContractInv'
    BY <1>3, <2>1, <2>2, GoToEffect, LeavingIsSafe DEF ExecuteTimesOut
  <2>4. stored' \subseteq Actions /\ writes' \in [Actions -> Nat] /\ WritesOnRecord'
    BY <1>3, TransmitPreserves DEF ExecuteTimesOut, RecordInv
  <2>5. AnnouncedOnRecord'
    BY <1>3 DEF ExecuteTimesOut, Transmit, RecordInv, AnnouncedOnRecord
  <2> QED
    BY <1>3, <2>3, <2>4, <2>5 DEF ExecuteTimesOut, TypeOK, RecordInv
<1>4. CASE ExecuteDry(a)
  <2>1. "VERIFIED" \in States \ OnTheWay
    BY DEF States, OnTheWay
  <2>2. act' \in [Actions -> Contracts] /\ ContractInv'
    BY <1>4, <2>1, GoToEffect, LeavingIsSafe DEF ExecuteDry
  <2>3. RecordInv'
    BY <1>4 DEF ExecuteDry, RecordInv, WritesOnRecord, AnnouncedOnRecord
  <2> QED
    BY <1>4, <2>2, <2>3 DEF ExecuteDry, TypeOK
<1>5. CASE ExecuteLive(a)
  <2>1. PICK s \in {"VERIFIED", "COMPENSATION_REQUIRED", "EXTERNAL_UNKNOWN"} : GoTo(a, s)
    BY <1>5 DEF ExecuteLive
  <2>2. s \in States \ OnTheWay
    BY DEF States, OnTheWay
  <2>3. act' \in [Actions -> Contracts] /\ ContractInv'
    BY <1>5, <2>1, <2>2, GoToEffect, LeavingIsSafe DEF ExecuteLive
  <2>4. CASE Transmit(a) /\ Announce(a)
    <3>1. stored' \subseteq Actions /\ writes' \in [Actions -> Nat] /\ WritesOnRecord'
      BY <1>5, <2>4, TransmitPreserves DEF ExecuteLive, RecordInv
    <3>2. announced' \in [Actions -> 0..2] /\ AnnouncedOnRecord'
      BY <2>4, AnnouncePreserves DEF Transmit, RecordInv
    <3> QED
      BY <1>5, <2>3, <3>1, <3>2 DEF ExecuteLive, TypeOK, RecordInv
  <2>5. CASE UNCHANGED <<stored, writes, announced>>
    <3>1. RecordInv'
      BY <2>5 DEF RecordInv, WritesOnRecord, AnnouncedOnRecord
    <3> QED
      BY <1>5, <2>3, <2>5, <3>1 DEF ExecuteLive, TypeOK
  <2> QED
    BY <1>5, <2>4, <2>5 DEF ExecuteLive
<1> QED
  BY <1>1, <1>2, <1>3, <1>4, <1>5 DEF Execute

\* Reconciling records the outcome of the one write (reconcile_action).
LEMMA ReconcilePreserves ==
    ASSUME IInv, NEW a \in Actions, Reconcile(a)
    PROVE  IInv'
<1> USE DEF IInv
<1>1. PICK s \in {"VERIFIED", "MANUAL_INTERVENTION_REQUIRED"} : GoTo(a, s)
  BY DEF Reconcile
<1>2. s \in States \ OnTheWay
  BY DEF States, OnTheWay
<1>3. act' \in [Actions -> Contracts] /\ ContractInv'
  BY <1>1, <1>2, GoToEffect, LeavingIsSafe DEF Reconcile
<1>4. announced' \in [Actions -> 0..2] /\ AnnouncedOnRecord'
  <2>1. CASE a \in stored
    BY <2>1, AnnouncePreserves DEF Reconcile, RecordInv
  <2>2. CASE a \notin stored
    BY <2>2 DEF Reconcile, TypeOK, RecordInv, AnnouncedOnRecord
  <2> QED
    BY <2>1, <2>2
<1>5. WritesOnRecord'
  BY DEF Reconcile, RecordInv, WritesOnRecord
<1> QED
  BY <1>3, <1>4, <1>5 DEF Reconcile, TypeOK, RecordInv

\* Time passes over a contract.
LEMMA AgePreserves ==
    ASSUME IInv, NEW a \in Actions, Age(a)
    PROVE  IInv'
<1> USE DEF IInv
<1>1. act[a] \in Contracts
  BY DEF TypeOK
<1>2. [act[a] EXCEPT !.fresh = FALSE] \in Contracts
  BY <1>1 DEF Contracts
<1>3. act' = [act EXCEPT ![a] = [act[a] EXCEPT !.fresh = FALSE]]
  BY DEF Age
<1>4. TypeOK'
  BY <1>2, <1>3 DEF Age, TypeOK
<1>5. \A b \in Actions :
         /\ act'[b].state = act[b].state /\ act'[b].target = act[b].target
         /\ act'[b].approval = act[b].approval /\ act'[b].approver = act[b].approver
         /\ act'[b].requester = act[b].requester
         /\ act'[b].payload = act[b].payload /\ act'[b].hash = act[b].hash
  BY <1>1, <1>3 DEF TypeOK, Contracts
<1>6. RecordInv'
  BY DEF Age, RecordInv, WritesOnRecord, AnnouncedOnRecord
<1>7. OneCleared' /\ ApprovalsIndependent' /\ ClearedFollowsPolicy'
  BY <1>5 DEF Age, ContractInv, OneCleared, ApprovalsIndependent, ClearedFollowsPolicy
<1> QED
  BY <1>4, <1>6, <1>7 DEF ContractInv

\* An edit changes the payload only, and is counted.
LEMMA EditPayloadPreserves ==
    ASSUME IInv, NEW a \in Actions, EditPayload(a)
    PROVE  IInv'
<1> USE DEF IInv
<1>1. PICK p \in Payloads : act' = [act EXCEPT ![a] = [act[a] EXCEPT !.payload = p]]
  BY DEF EditPayload
<1>2. act[a] \in Contracts
  BY DEF TypeOK
<1>3. [act[a] EXCEPT !.payload = p] \in Contracts
  BY <1>2 DEF Contracts
<1>4. edits' \in 1..MaxEdits
  BY MaxEditsAssumption DEF EditPayload, TypeOK
<1>5. TypeOK'
  BY <1>1, <1>3, <1>4 DEF EditPayload, TypeOK
<1>6. \A b \in Actions :
         /\ act'[b].state = act[b].state /\ act'[b].target = act[b].target
         /\ act'[b].approval = act[b].approval /\ act'[b].approver = act[b].approver
         /\ act'[b].requester = act[b].requester
  BY <1>1, <1>2 DEF TypeOK, Contracts
<1>7. RecordInv'
  BY DEF EditPayload, RecordInv, WritesOnRecord, AnnouncedOnRecord
<1>8. OneCleared' /\ ApprovalsIndependent'
  BY <1>6 DEF ContractInv, OneCleared, ApprovalsIndependent
<1>9. ClearedFollowsPolicy'
  BY <1>4 DEF ClearedFollowsPolicy
<1> QED
  BY <1>5, <1>7, <1>8, <1>9 DEF ContractInv

\* Every step keeps the invariant.
LEMMA NextPreserves == IInv /\ [Next]_vars => IInv'
<1> SUFFICES ASSUME IInv, [Next]_vars PROVE IInv'
  OBVIOUS
<1>1. CASE Next
  <2>1. PICK a \in Actions :
           \/ \E u \in Users : Create(u, a) \/ Preflight(u, a) \/ Approve(u, a)
           \/ Reject(a)
           \/ \E dry \in BOOLEAN : Execute(a, dry)
           \/ Reconcile(a)
           \/ Age(a)
           \/ EditPayload(a)
    BY <1>1 DEF Next
  <2>2. CASE \E u \in Users : Create(u, a) \/ Preflight(u, a) \/ Approve(u, a)
    BY <2>2, CreatePreserves, PreflightPreserves, ApprovePreserves
  <2>3. CASE Reject(a)
    BY <2>3, RejectPreserves
  <2>4. CASE \E dry \in BOOLEAN : Execute(a, dry)
    BY <2>4, ExecutePreserves
  <2>5. CASE Reconcile(a)
    BY <2>5, ReconcilePreserves
  <2>6. CASE Age(a)
    BY <2>6, AgePreserves
  <2>7. CASE EditPayload(a)
    BY <2>7, EditPayloadPreserves
  <2> QED
    BY <2>1, <2>2, <2>3, <2>4, <2>5, <2>6, <2>7
<1>2. CASE UNCHANGED vars
  BY <1>2 DEF vars, IInv, TypeOK, RecordInv, WritesOnRecord, AnnouncedOnRecord, ContractInv,
              OneCleared, ApprovalsIndependent, ClearedFollowsPolicy
<1> QED
  BY <1>1, <1>2

-----------------------------------------------------------------------------
\* Types, records and contracts fit together in every reachable state.
THEOREM Invariant == Spec => []IInv
BY InitEstablishes, NextPreserves, PTL DEF Spec

\* Every variable of the executor has its type (contracts.py:31-111).
THEOREM Types == Spec => []TypeOK
<1>1. IInv => TypeOK
  BY DEF IInv
<1> QED
  BY <1>1, Invariant, PTL

\* At most one action per target is cleared or on its way (policy.py:76-98),
\* for any number of actions, users and repeated preflights.
THEOREM OneClearedPerTarget == Spec => []OneCleared
<1>1. IInv => OneCleared
  BY DEF IInv, ContractInv
<1> QED
  BY <1>1, Invariant, PTL

\* An action reaches the external system at most once (adapters.py:121-138).
THEOREM WrittenOnce == Spec => []WriteAtMostOnce
<1>1. IInv => WriteAtMostOnce
  BY DEF IInv, TypeOK, RecordInv, WritesOnRecord, WriteAtMostOnce
<1> QED
  BY <1>1, Invariant, PTL

\* An action is announced only if it wrote (executor.py:381-392, 478-490).
THEOREM AnnouncedOnceWritten == Spec => []AnnouncedAfterWrite
<1>1. IInv => AnnouncedAfterWrite
  BY DEF IInv, RecordInv, WritesOnRecord, AnnouncedOnRecord, AnnouncedAfterWrite
<1> QED
  BY <1>1, Invariant, PTL

\* A request is transmitted only for an action that is cleared for execution.
LEMMA TransmittedIsCleared ==
    ASSUME IInv, [Next]_vars, NEW a \in Actions, Transmitted(a)
    PROVE  Cleared(a)
<1>1. writes \in [Actions -> Nat] /\ writes' # writes
  BY DEF IInv, TypeOK, Transmitted
<1>2. PICK b \in Actions, dry \in BOOLEAN : ExecuteTimesOut(b, dry) \/ ExecuteLive(b)
  BY <1>1 DEF Next, vars, Create, Preflight, Approve, Reject, Execute, ExecuteInvalidates,
              ExecuteReplayed, ExecuteDry, Reconcile, Age, EditPayload
<1>3. Cleared(b)
  BY <1>2 DEF ExecuteTimesOut, ExecuteLive
<1>4. writes' = [writes EXCEPT ![b] = @ + 1]
  BY <1>1, <1>2 DEF ExecuteTimesOut, ExecuteLive, Transmit
<1>5. a = b
  BY <1>1, <1>4 DEF Transmitted
<1> QED
  BY <1>3, <1>5

\* What is transmitted for an action that requires approval was approved as it
\* is, by somebody who may (executor.py:176-180, 233-262).
THEOREM OnlyApprovedPayloads == Spec => ApprovedPayloadWritten
<1>1. IInv /\ [Next]_vars =>
         [\A a \in Actions : Transmitted(a) /\ act[a].required => IndependentlyApproved(a)]_vars
  <2> SUFFICES ASSUME IInv, [Next]_vars, NEW a \in Actions, Transmitted(a), act[a].required
               PROVE  IndependentlyApproved(a)
    OBVIOUS
  <2>1. Cleared(a)
    BY TransmittedIsCleared
  <2> QED
    BY <2>1 DEF Cleared, IndependentlyApproved, IInv, ContractInv, ApprovalsIndependent
<1> QED
  BY <1>1, Invariant, PTL DEF Spec, ApprovedPayloadWritten

\* While no payload is edited, nothing over half the value limit is transmitted
\* without such an approval (policy.py:109-153).
THEOREM LargeIsApproved == Spec => LargeNeedsApproval
<1>1. IInv /\ [Next]_vars =>
         [\A a \in Actions : Transmitted(a) /\ edits = 0 /\ act[a].payload.size # "small"
                                => IndependentlyApproved(a)]_vars
  <2> SUFFICES ASSUME IInv, [Next]_vars, NEW a \in Actions, Transmitted(a),
                      edits = 0, act[a].payload.size # "small"
               PROVE  IndependentlyApproved(a)
    OBVIOUS
  <2>1. Cleared(a)
    BY TransmittedIsCleared
  <2>2. act[a].state = "APPROVED"
    BY <2>1 DEF Cleared, IInv, ContractInv, ClearedFollowsPolicy
  <2> QED
    BY <2>2 DEF IndependentlyApproved, IInv, ContractInv, ApprovalsIndependent,
                ClearedFollowsPolicy
<1> QED
  BY <1>1, Invariant, PTL DEF Spec, LargeNeedsApproval
=============================================================================
