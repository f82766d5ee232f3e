----------------------------- MODULE AtMostOnce -----------------------------
(***************************************************************************)
(* What idempotent writes promise their clients, with no database in       *)
(* sight: a request is applied, or it is answered with the result of an    *)
(* equivalent request that has been applied, or it fails and nothing       *)
(* happened.  Equivalent requests are never both applied.                  *)
(***************************************************************************)
CONSTANTS
    Requests,
    Same(_, _),   \* the two requests are equivalent
    Unanswered, Failed

VARIABLES applied, answer

AInit == applied = {} /\ answer = [r \in Requests |-> Unanswered]

Apply(r) ==
    /\ answer[r] = Unanswered
    /\ \A q \in applied : ~Same(q, r)
    /\ applied' = applied \cup {r}
    /\ answer' = [answer EXCEPT ![r] = r]

Replay(r) ==
    /\ answer[r] = Unanswered
    /\ \E q \in applied : Same(q, r) /\ answer' = [answer EXCEPT ![r] = q]
    /\ UNCHANGED applied

Fail(r) ==
    /\ answer[r] = Unanswered
    /\ answer' = [answer EXCEPT ![r] = Failed]
    /\ UNCHANGED applied

ANext == \E r \in Requests : Apply(r) \/ Replay(r) \/ Fail(r)

ASpec == AInit /\ [][ANext]_<<applied, answer>>
=============================================================================
