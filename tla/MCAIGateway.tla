---------------------------- MODULE MCAIGateway ----------------------------
(***************************************************************************)
(* Small instances of AIGateway for TLC.                                   *)
(***************************************************************************)
EXTENDS AIGateway, TLC

MCPolicies == {[active |-> TRUE, dayRequests |-> 1, monthRequests |-> 2,
                daySpend |-> 3, monthSpend |-> 3],
               [active |-> FALSE, dayRequests |-> 1, monthRequests |-> 1,
                daySpend |-> 1, monthSpend |-> 1]}

MCSymmetry == Permutations(Callers) \cup Permutations(ResIds)
=============================================================================
