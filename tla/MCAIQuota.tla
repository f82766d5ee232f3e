----------------------------- MODULE MCAIQuota -----------------------------
(***************************************************************************)
(* Small instances of AIQuota for TLC.                                     *)
(***************************************************************************)
EXTENDS AIQuota, TLC

MCPolicy(a, dr, mr, ds, ms) ==
    [active |-> a, dayRequests |-> dr, monthRequests |-> mr,
     daySpend |-> ds, monthSpend |-> ms]

\* Two requests and three units a day (four a month); and switched off.
MCPolicies == {MCPolicy(TRUE, 2, 2, 3, 4),
               MCPolicy(FALSE, 1, 1, 1, 1)}

MCSymmetry == Permutations(Callers) \cup Permutations(ResIds)
=============================================================================
