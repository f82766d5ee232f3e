---------------------------- MODULE Capabilities ----------------------------
(***************************************************************************)
(* The analytical capabilities and the pipeline that runs them: the merge  *)
(* of an update into a dataset (intelligence/incremental.py), the          *)
(* assessment of a dataset (readiness.py), the discovery of what can run   *)
(* (discovery.py) and its execution with selective recomputation           *)
(* (automation.py).  Pure operators: the pipeline keeps no state.          *)
(*                                                                         *)
(* A record is its composite key, its date (0 where it has none), a value  *)
(* and a version.  Of the values the pipeline tells apart that a required  *)
(* field is "blank", and that a number is "text", which float() refuses.   *)
(* The output of a capability is what it was computed from.                *)
(***************************************************************************)
EXTENDS Integers, Sequences, FiniteSets, FiniteSetsExt, SequencesExt

CONSTANT Recent  \* dates before this one are more than seven days old

ASSUME RecentAssumption == Recent \in Nat

EXECUTION_ORDER ==
    <<"DEMAND_CLASSIFICATION", "DEMAND_FORECASTING", "SAFETY_STOCK_ROP",
      "INVENTORY_POSITION_RISK", "SUPPLIER_PERFORMANCE_RISK", "SUPPLIER_SELECTION",
      "SHIPMENT_TRACKING_ETA", "NETWORK_TOPOLOGY_BOTTLENECK", "INVENTORY_REBALANCING",
      "WORKING_CAPITAL_TCO", "SCENARIO_SIMULATION">>
Capability == ToSet(EXECUTION_ORDER)

Prerequisite(entity, history, percent, upstream) ==
    [entity |-> entity, history |-> history, percent |-> percent, upstream |-> upstream]

\* Primary entity, periods of history, percentage of filled cells and upstream
\* capabilities that each capability requires.
REGISTRY == [c \in Capability |->
    CASE c = "DEMAND_CLASSIFICATION" -> Prerequisite("demand_history", 3, 95, {})
      [] c = "DEMAND_FORECASTING" -> Prerequisite("demand_history", 6, 95, {"DEMAND_CLASSIFICATION"})
      [] c = "SAFETY_STOCK_ROP" -> Prerequisite("inventory_levels", 0, 90, {"DEMAND_FORECASTING"})
      [] c = "INVENTORY_POSITION_RISK" -> Prerequisite("inventory_levels", 0, 90, {"DEMAND_FORECASTING"})
      [] c = "SUPPLIER_PERFORMANCE_RISK" -> Prerequisite("purchase_orders", 3, 90, {})
      [] c = "SUPPLIER_SELECTION" -> Prerequisite("supplier_catalog", 0, 90, {"SUPPLIER_PERFORMANCE_RISK"})
      [] c = "SHIPMENT_TRACKING_ETA" -> Prerequisite("shipments", 0, 85, {})
      [] c = "NETWORK_TOPOLOGY_BOTTLENECK" -> Prerequisite("network_nodes", 0, 90, {})
      [] c = "INVENTORY_REBALANCING" ->
            Prerequisite("rebalancing_candidates", 0, 90, {"SAFETY_STOCK_ROP", "NETWORK_TOPOLOGY_BOTTLENECK"})
      [] c = "WORKING_CAPITAL_TCO" -> Prerequisite("item_costs", 0, 90, {"SAFETY_STOCK_ROP"})
      [] OTHER -> Prerequisite("scenario_parameters", 0, 90, {"WORKING_CAPITAL_TCO"})]
Entity == {REGISTRY[c].entity : c \in Capability}

\* The second copy of the upstream capabilities, in the execution engine.
DEPENDENCY_GRAPH == [c \in Capability |->
    CASE c = "DEMAND_FORECASTING" -> {"DEMAND_CLASSIFICATION"}
      [] c \in {"SAFETY_STOCK_ROP", "INVENTORY_POSITION_RISK"} -> {"DEMAND_FORECASTING"}
      [] c = "SUPPLIER_SELECTION" -> {"SUPPLIER_PERFORMANCE_RISK"}
      [] c = "INVENTORY_REBALANCING" -> {"SAFETY_STOCK_ROP", "NETWORK_TOPOLOGY_BOTTLENECK"}
      [] c = "WORKING_CAPITAL_TCO" -> {"SAFETY_STOCK_ROP"}
      [] c = "SCENARIO_SIMULATION" -> {"WORKING_CAPITAL_TCO"}
      [] OTHER -> {}]

\* Mutant of ENTITY_CAPABILITY_GRAPH: only the capabilities that read the entity.
ENTITY_CAPABILITY_GRAPH_Direct == [e \in Entity |-> {c \in Capability : REGISTRY[c].entity = e}]
\* What an update of an entity makes the engine compute again.
ENTITY_CAPABILITY_GRAPH == [e \in Entity |->
    CASE e = "demand_history" ->
            {"DEMAND_CLASSIFICATION", "DEMAND_FORECASTING", "SAFETY_STOCK_ROP", "INVENTORY_POSITION_RISK",
             "INVENTORY_REBALANCING", "WORKING_CAPITAL_TCO", "SCENARIO_SIMULATION"}
      [] e = "inventory_levels" ->
            {"SAFETY_STOCK_ROP", "INVENTORY_POSITION_RISK", "INVENTORY_REBALANCING",
             "WORKING_CAPITAL_TCO", "SCENARIO_SIMULATION"}
      [] e = "purchase_orders" -> {"SUPPLIER_PERFORMANCE_RISK", "SUPPLIER_SELECTION"}
      [] e = "supplier_catalog" -> {"SUPPLIER_SELECTION"}
      [] e = "shipments" -> {"SHIPMENT_TRACKING_ETA"}
      [] e = "network_nodes" -> {"NETWORK_TOPOLOGY_BOTTLENECK", "INVENTORY_REBALANCING"}
      [] e = "rebalancing_candidates" -> {"INVENTORY_REBALANCING"}
      [] e = "item_costs" -> {"WORKING_CAPITAL_TCO", "SCENARIO_SIMULATION"}
      [] OTHER -> {"SCENARIO_SIMULATION"}]

-----------------------------------------------------------------------------
(* The merge of an update.                                                 *)

Keys(records) == {r.key : r \in ToSet(records)}
\* The record a key stands for: the last of those that share it.
Latest(records, k) == records[CHOOSE i \in DOMAIN records :
    records[i].key = k /\ \A j \in DOMAIN records : records[j].key = k => j <= i]
Same(r, s) == [r EXCEPT !.version = 0] = [s EXCEPT !.version = 0]

\* Mutant of MergeOne: a correction appends instead of superseding.
MergeOne_Appends(m, r) == [m EXCEPT !.records = @ \cup {[r EXCEPT !.version = 1]}, !.new = @ + 1]
\* One incoming record is new (or out of order), a duplicate, or a correction.
MergeOne(m, r) ==
    LET old == {s \in m.records : s.key = r.key}
        current == CHOOSE s \in old : TRUE
    IN IF old = {} THEN
            [m EXCEPT !.records = @ \cup {[r EXCEPT !.version = 1]},
                      !.new = IF r.date # 0 /\ r.date < m.newest THEN @ ELSE @ + 1,
                      !.late = IF r.date # 0 /\ r.date < m.newest THEN @ + 1 ELSE @]
       ELSE IF Same(current, r) THEN [m EXCEPT !.duplicates = @ + 1]
       ELSE [m EXCEPT !.records = (@ \ old) \cup {[r EXCEPT !.version = current.version + 1]},
                      !.corrections = @ + 1]

MergeAll(m, incoming) ==
    LET merged[n \in 0..Len(incoming)] ==
            IF n = 0 THEN m ELSE MergeOne(merged[n - 1], incoming[n])
    IN merged[Len(incoming)]

ByDate(r, records) ==
    InsertAt(records, Cardinality({i \in DOMAIN records : records[i].date <= r.date}) + 1, r)
\* Records that are on file under one key collapse into the last; the result is
\* sorted by date.
DiffAndMerge(existing, incoming) ==
    LET m == MergeAll([records |-> {Latest(existing, k) : k \in Keys(existing)},
                       newest |-> Max({0} \cup {r.date : r \in ToSet(existing)}),
                       new |-> 0, late |-> 0, duplicates |-> 0, corrections |-> 0], incoming)
    IN [m EXCEPT !.records = FoldSet(ByDate, <<>>, @)]
Changes(m) == m.new + m.corrections + m.late > 0

-----------------------------------------------------------------------------
(* Readiness and discovery.                                                *)

\* Required fields the service asks for, by the entity's name.
RequiredFields == [e \in Entity |->
    CASE e \in {"demand_history", "network_nodes", "item_costs"} -> 3
      [] e \in {"inventory_levels", "purchase_orders"} -> 4
      [] e = "shipments" -> 5
      [] OTHER -> 1]

\* Availability of a dataset: the same required field is blank in `blanks` records.
\* Its age is that of its first record.
Readiness(e, records) ==
    LET n == Len(records)
        blanks == Cardinality({i \in DOMAIN records : records[i].value = "blank"})
        cells == n * RequiredFields[e]
    IN [missing |-> blanks = n,
        filled |-> IF n = 0 THEN 0 ELSE cells - blanks,
        cells |-> cells,
        stale |-> n > 0 /\ records[1].date # 0 /\ records[1].date < Recent]

Usable == {"AVAILABLE", "STALE_DATA"}

\* Status of a capability, given the capabilities found usable before it.
StatusOf(c, data, available) ==
    LET need == REGISTRY[c]
        ready == Readiness(need.entity, data[need.entity])
    IN IF ~(need.upstream \subseteq available) THEN "BLOCKED"
       ELSE IF need.entity \notin DOMAIN data THEN "UNAVAILABLE"
       ELSE IF Len(data[need.entity]) < need.history THEN "INSUFFICIENT_EVIDENCE"
       ELSE IF ready.missing /\ ready.filled = 0 THEN "WAITING_FOR_INPUT"
       ELSE IF ready.missing \/ 100 * ready.filled < need.percent * ready.cells THEN "PARTIAL"
       ELSE IF ready.stale THEN "STALE_DATA" ELSE "AVAILABLE"

\* What is found of the capabilities after the first n of the order, for each n.
Discover(data) ==
    LET found[n \in 0..Len(EXECUTION_ORDER)] ==
            IF n = 0 THEN [c \in Capability |-> "UNKNOWN"]
            ELSE LET c == EXECUTION_ORDER[n]  before == found[n - 1]
                 IN [before EXCEPT ![c] = StatusOf(c, data, {u \in Capability : before[u] \in Usable})]
    IN found[Len(EXECUTION_ORDER)]

-----------------------------------------------------------------------------
(* Execution.                                                              *)

\* The outputs of other capabilities that a capability reads, required or not.
ReadsOutput == [c \in Capability |->
    CASE c = "SAFETY_STOCK_ROP" -> {"DEMAND_FORECASTING"}
      [] c = "INVENTORY_POSITION_RISK" -> {"SAFETY_STOCK_ROP"}
      [] c = "SUPPLIER_SELECTION" -> {"SUPPLIER_PERFORMANCE_RISK"}
      [] c = "WORKING_CAPITAL_TCO" -> {"SAFETY_STOCK_ROP"}
      [] c = "SCENARIO_SIMULATION" -> {"WORKING_CAPITAL_TCO"}
      [] OTHER -> {}]
\* float() of the text raises: the performance of suppliers compares strings, and
\* the position reads another number than the policy does.
Raises(c, records) ==
    /\ c \notin {"SUPPLIER_PERFORMANCE_RISK", "INVENTORY_POSITION_RISK"}
    /\ \E r \in ToSet(records) : r.value = "text"

None == <<>>
Outcome(status, cached, output) == [status |-> status, cached |-> cached, output |-> output]

\* Mutant of ExecuteOne: an upstream capability that failed is good enough.
ExecuteOne_AnyUpstream(c, done, found, data, recompute, cache) ==
    IF found[c] \in {"UNAVAILABLE", "BLOCKED", "WAITING_FOR_INPUT", "INSUFFICIENT_EVIDENCE"}
    THEN Outcome("SKIPPED", FALSE, None)
    ELSE IF c \notin recompute /\ c \in DOMAIN cache THEN Outcome("COMPLETED", TRUE, cache[c])
    ELSE IF Raises(c, data[REGISTRY[c].entity]) THEN Outcome("FAILED", FALSE, None)
    ELSE Outcome("COMPLETED", FALSE, <<data[REGISTRY[c].entity], [u \in ReadsOutput[c] |-> done[u].output]>>)
\* One capability, after those before it in the order.
ExecuteOne(c, done, found, data, recompute, cache) ==
    LET records == data[REGISTRY[c].entity]
    IN IF found[c] \in {"UNAVAILABLE", "BLOCKED", "WAITING_FOR_INPUT", "INSUFFICIENT_EVIDENCE"}
       THEN Outcome(IF found[c] = "WAITING_FOR_INPUT" THEN "WAITING_FOR_INPUT" ELSE "SKIPPED", FALSE, None)
       ELSE IF \E u \in DEPENDENCY_GRAPH[c] : done[u].status # "COMPLETED" THEN Outcome("SKIPPED", FALSE, None)
       ELSE IF c \notin recompute /\ c \in DOMAIN cache THEN Outcome("COMPLETED", TRUE, cache[c])
       ELSE IF Raises(c, records) THEN Outcome("FAILED", FALSE, None)
       ELSE Outcome("COMPLETED", FALSE, <<records, [u \in ReadsOutput[c] |-> done[u].output]>>)

ExecutePipeline(found, data, recompute, cache) ==
    LET done[n \in 0..Len(EXECUTION_ORDER)] ==
            IF n = 0 THEN [c \in Capability |-> Outcome("UNKNOWN", FALSE, None)]
            ELSE LET c == EXECUTION_ORDER[n]  before == done[n - 1]
                 IN [before EXCEPT ![c] = ExecuteOne(c, before, found, data, recompute, cache)]
    IN done[Len(EXECUTION_ORDER)]

Completed(done) == {c \in Capability : done[c].status = "COMPLETED"}
OverallStatus(done) ==
    IF Completed(done) = Capability THEN "COMPLETED"
    ELSE IF Completed(done) # {} THEN "PARTIAL_SUCCESS" ELSE "WAITING_FOR_INPUT"

-----------------------------------------------------------------------------
(* A whole run over datasets `base`, with an update [entity, records] or   *)
(* None, and with the outputs `cache` of an earlier run.                   *)

Merged(base, update) ==
    IF update = None THEN base
    ELSE [e \in DOMAIN base \cup {update.entity} |->
            IF e # update.entity THEN base[e]
            ELSE DiffAndMerge(IF e \in DOMAIN base THEN base[e] ELSE <<>>, update.records).records]

\* An update that changes nothing recomputes everything, one of an unknown entity nothing.
Affected(base, update) ==
    LET e == update.entity
    IN IF /\ update # None
          /\ Changes(DiffAndMerge(IF e \in DOMAIN base THEN base[e] ELSE <<>>, update.records))
       THEN IF e \in Entity THEN ENTITY_CAPABILITY_GRAPH[e] ELSE {}
       ELSE Capability

Run(base, update, cache) ==
    LET data == Merged(base, update)
    IN ExecutePipeline(Discover(data), data, Affected(base, update), cache)
=============================================================================
