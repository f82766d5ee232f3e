-------------------------- MODULE MCEventProcessor --------------------------
(***************************************************************************)
(* A small instance of EventProcessor: two events that share an alert key  *)
(* and dirty capabilities, one of the first one's id with another payload, *)
(* whose type raises no alert, and one that is invalid.                    *)
(***************************************************************************)
EXTENDS EventProcessor, TLC

CONSTANTS e1, e2, e3, bad, i1, i2, i3, t1, caps1

MCTopic == (e1 :> t1) @@ (e2 :> t1) @@ (e3 :> NoTopic) @@ (bad :> t1)
MCIdOf == (e1 :> i1) @@ (e2 :> i2) @@ (e3 :> i1) @@ (bad :> i3)
MCDirty == (e1 :> caps1) @@ (e2 :> caps1) @@ (e3 :> NoCaps) @@ (bad :> caps1)
=============================================================================
