--------------------------- MODULE MCProcurement ---------------------------
(* Model values for the model checking of Procurement: which operations    *)
(* the calls are, three at a time.                                         *)
EXTENDS Procurement, TLC

CONSTANTS c1, c2, c3, n1, n2

MCSymmetry == Permutations({n1, n2})

Mix(a, b, c) == (c1 :> a) @@ (c2 :> b) @@ (c3 :> c)
MCMixes == {Mix("receive", "receive", "transition"), Mix("receive", "receive", "revise"),
            Mix("receive", "document", "document"), Mix("acknowledge", "transition", "receive"),
            Mix("revise", "revise", "feed"),
            Mix("receive", "transition", "feed"), Mix("revise", "receive", "feed")}
=============================================================================
