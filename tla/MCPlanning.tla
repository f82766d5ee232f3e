----------------------------- MODULE MCPlanning -----------------------------
(* Model values for the model checking of Planning: a product `a`, a part  *)
(* `b` and a material `m`, bills that share a component and bills that     *)
(* close a cycle.                                                          *)
EXTENDS Planning

Of(s, q) == [sku |-> s, qty |-> q]
Part(s, n) == [sku |-> s, per |-> n]
Header(p, d, lines) == [parent |-> p, effective |-> d, lines |-> lines]
Stock(x, y, z) ==
    LET Have(n) == [supply |-> n[1], reserved |-> n[2]]
    IN [s \in Items |-> Have(CASE s = "a" -> x [] s = "b" -> y [] OTHER -> z)]

MCWants == {<<Of("a", 2)>>, <<Of("b", 1), Of("a", 1)>>}
MCPromises ==
    {[sku |-> "a", qty |-> q, lead |-> l, capacity |-> c] : q \in {1, 2}, l \in BOOLEAN, c \in BOOLEAN}
MCHeaders ==
    {Header("b", 2, <<Part("a", 1)>>), Header("a", 3, <<Part("m", 2)>>), Header("m", 1, <<Part("b", 1)>>)}
MCFirstBills ==
    {<<>>,
     <<Header("a", 1, <<Part("b", 1), Part("m", 1), Part("b", 1)>>), Header("b", 1, <<Part("m", 2)>>)>>,
     <<Header("a", 1, <<Part("b", 1)>>), Header("b", 1, <<Part("a", 1), Part("m", 1)>>)>>}
MCFirstStock ==
    {Stock(<<0, 0>>, <<0, 0>>, <<0, 0>>), Stock(<<1, 0>>, <<2, 0>>, <<2, 0>>),
     Stock(<<1, 1>>, <<4, 1>>, <<4, 0>>)}
=============================================================================
