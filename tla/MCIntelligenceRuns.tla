------------------------- MODULE MCIntelligenceRuns -------------------------
(* Datasets and updates for the model checking of IntelligenceRuns: a full *)
(* set, and ones with short, old, blank, unreadable, absent and empty      *)
(* datasets; updates that add, correct, repeat, spoil and heal.            *)
EXTENDS IntelligenceRuns, TLC

CONSTANTS r1, r2

Record(k, d, v) == [key |-> k, date |-> d, value |-> v, version |-> 1]
History(n, v) == [i \in 1..n |-> Record(i, Recent + i, v)]
Plain(v) == <<Record(1, 0, v)>>

Full == [e \in Entity |-> CASE e = "demand_history" -> History(6, "v1")
                           [] e = "purchase_orders" -> History(3, "v1")
                           [] OTHER -> Plain("v1")]
MCDataOf ==
    [full |-> Full,
     short |-> [Full EXCEPT !["demand_history"] = History(5, "v1"),
                            !["shipments"] = <<>>,
                            !["network_nodes"] = Plain("blank"),
                            !["scenario_parameters"] = Plain("blank")],
     old |-> [Full EXCEPT !["demand_history"] = <<Record(0, 0, "v1")>> \o History(5, "v1"),
                          !["purchase_orders"] = <<Record(0, 1, "v1")>> \o History(2, "v1"),
                          !["inventory_levels"] = Plain("v1") \o Plain("v2")],
     spoilt |-> [Full EXCEPT !["inventory_levels"] = Plain("text"),
                             !["purchase_orders"] = History(3, "blank")],
     absent |-> [e \in Entity \ {"network_nodes", "supplier_catalog"} |-> Full[e]]]

Update(e, records) == [entity |-> e, records |-> records]
MCUpdates ==
    {None, Update("demand_history", <<Record(1, Recent + 1, "v1")>>),
     Update("demand_history", <<Record(1, Recent + 1, "v2"), Record(1, Recent + 1, "v3")>>),
     Update("demand_history", <<Record(7, 1, "v1"), Record(8, 9, "v1")>>),
     Update("demand_history", <<Record(2, Recent + 2, "text")>>),
     Update("demand_history", <<Record(2, Recent + 2, "blank")>>),
     Update("inventory_levels", Plain("v2")), Update("inventory_levels", Plain("text")),
     Update("purchase_orders", <<Record(1, Recent + 1, "v2")>>),
     Update("shipments", Plain("text")), Update("network_nodes", Plain("v2")),
     Update("lanes", Plain("v1"))}
    \cup {Update(e, Plain("v3")) : e \in {"supplier_catalog", "rebalancing_candidates",
                                          "item_costs", "scenario_parameters"}}
MCAsks ==
    UNION {[Requests -> [base : {b}, update : MCUpdates, background : {FALSE}]] : b \in DOMAIN MCDataOf}
    \cup [Requests -> [base : {"full", "short"}, update : {None, Update("inventory_levels", Plain("text"))},
                       background : BOOLEAN]]
=============================================================================
