----------------------- MODULE IntelligenceRunsProofs -----------------------
(***************************************************************************)
(* For any datasets, updates, requests, failures and deaths: a request that*)
(* is answered with an ended run gets one that was committed whole; what a *)
(* run reports as completed stands on completed capabilities; and computing*)
(* again only what an update affects gives what computing all of it gives. *)
(*                                                                         *)
(* First the pipeline: discovery and execution are recursive functions, of *)
(* which an equation for every stage is derived and properties are carried *)
(* from stage to stage; merging and sorting leave lists of records.        *)
(*                                                                         *)
(* Then the runs, along the session of a request: what is pending in it is *)
(* fixed by where the request is, so that the one commit stores all parts  *)
(* of a run or none, and stores what the pipeline computes; and no later   *)
(* step takes a part out of a row.                                         *)
(***************************************************************************)
EXTENDS IntelligenceRuns, Sums, SequenceTheorems

\* A list of any elements.
Listed(q) == q \in Seq(ToSet(q))

\* A list is a list of its elements.
LEMMA ListOfIts ==
    ASSUME NEW S, NEW q \in Seq(S)
    PROVE  Listed(q)
<1>1. Len(q) \in Nat /\ DOMAIN q = 1..Len(q) /\ q = [i \in 1..Len(q) |-> q[i]]
  BY LenProperties
<1>2. \A i \in 1..Len(q) : q[i] \in ToSet(q)
  BY <1>1 DEF ToSet
<1> QED BY <1>1, <1>2, SeqDef DEF Listed

\* Datasets are lists.
LEMMA DatasetsListed ==
    ASSUME NEW q
    PROVE  Dataset(q) <=> Listed(q) /\ \A i \in 1..Len(q) : IsRecord(q[i])
<1> DEFINE S == {r \in ToSet(q) : IsRecord(r)}
<1>1. ASSUME q \in Seq(S) PROVE Listed(q) /\ \A i \in 1..Len(q) : IsRecord(q[i])
  <2>1. \A i \in 1..Len(q) : q[i] \in S
    BY <1>1, ElementOfSeq
  <2> QED BY <1>1, <2>1, ListOfIts
<1>2. ASSUME Listed(q), \A i \in 1..Len(q) : IsRecord(q[i]) PROVE q \in Seq(S)
  <2>1. Len(q) \in Nat /\ DOMAIN q = 1..Len(q) /\ q = [i \in 1..Len(q) |-> q[i]]
    BY <1>2, LenProperties DEF Listed
  <2>2. \A i \in 1..Len(q) : q[i] \in S
    BY <1>2, <2>1 DEF ToSet
  <2> HIDE DEF S
  <2> QED BY <2>1, <2>2, SeqDef
<1> QED BY <1>1, <1>2 DEF Dataset

\* The empty list is a dataset.
LEMMA NothingIsDataset == Dataset(<<>>)
BY EmptySeq DEF Dataset

-----------------------------------------------------------------------------
(* The order of the capabilities and the tables about them.                *)

\* The order names every capability once.
LEMMA OrderFacts ==
    /\ Len(EXECUTION_ORDER) \in Nat
    /\ \A i \in 1..Len(EXECUTION_ORDER) : EXECUTION_ORDER[i] \in Capability
    /\ \A c \in Capability : \E i \in 1..Len(EXECUTION_ORDER) : c = EXECUTION_ORDER[i]
    /\ \A i, j \in 1..Len(EXECUTION_ORDER) : EXECUTION_ORDER[i] = EXECUTION_ORDER[j] => i = j
<1>1. Len(EXECUTION_ORDER) = 11 /\ DOMAIN EXECUTION_ORDER = 1..11
  BY DEF EXECUTION_ORDER
<1>2. Capability = {EXECUTION_ORDER[i] : i \in 1..11}
  BY <1>1 DEF Capability, ToSet
<1>3. \A i, j \in 1..11 : EXECUTION_ORDER[i] = EXECUTION_ORDER[j] => i = j
  BY DEF EXECUTION_ORDER
<1> QED BY <1>1, <1>2, <1>3

\* The capabilities, one by one.
LEMMA CapabilitiesAre ==
    Capability = {"DEMAND_CLASSIFICATION", "DEMAND_FORECASTING", "SAFETY_STOCK_ROP",
                  "INVENTORY_POSITION_RISK", "SUPPLIER_PERFORMANCE_RISK", "SUPPLIER_SELECTION",
                  "SHIPMENT_TRACKING_ETA", "NETWORK_TOPOLOGY_BOTTLENECK", "INVENTORY_REBALANCING",
                  "WORKING_CAPITAL_TCO", "SCENARIO_SIMULATION"}
<1>1. DOMAIN EXECUTION_ORDER = 1..11
  BY DEF EXECUTION_ORDER
<1>2. \A x : x \in 1..11 <=> x \in {1, 2, 3, 4, 5, 6, 7, 8, 9, 10, 11}
  OBVIOUS
<1> QED BY <1>1, <1>2 DEF Capability, ToSet, EXECUTION_ORDER

\* The two tables of what a capability needs agree, and name capabilities only.
LEMMA TablesAgree ==
    ASSUME NEW c \in Capability
    PROVE  /\ REGISTRY[c].upstream = DEPENDENCY_GRAPH[c]
           /\ DEPENDENCY_GRAPH[c] \subseteq Capability
           /\ ReadsOutput[c] \subseteq Capability
           /\ REGISTRY[c].history \in Nat /\ REGISTRY[c].entity \in Entity
<1>1. REGISTRY[c].upstream = DEPENDENCY_GRAPH[c]
  BY CapabilitiesAre DEF REGISTRY, DEPENDENCY_GRAPH, Prerequisite
<1>2. DEPENDENCY_GRAPH[c] \subseteq Capability
  BY CapabilitiesAre DEF DEPENDENCY_GRAPH
<1>3. ReadsOutput[c] \subseteq Capability
  BY CapabilitiesAre DEF ReadsOutput
<1>4. REGISTRY[c].history \in Nat
  BY CapabilitiesAre DEF REGISTRY, Prerequisite
<1> QED BY <1>1, <1>2, <1>3, <1>4 DEF Entity

\* What an update does not affect reads neither the entity nor anything affected.
LEMMA GraphClosed ==
    ASSUME NEW e \in Entity, NEW c \in Capability \ ENTITY_CAPABILITY_GRAPH[e]
    PROVE  /\ REGISTRY[c].entity # e
           /\ DEPENDENCY_GRAPH[c] \cap ENTITY_CAPABILITY_GRAPH[e] = {}
           /\ ReadsOutput[c] \cap ENTITY_CAPABILITY_GRAPH[e] = {}
<1>1. DEPENDENCY_GRAPH[c] \cap ENTITY_CAPABILITY_GRAPH[e] = {}
  BY CapabilitiesAre DEF DEPENDENCY_GRAPH, ENTITY_CAPABILITY_GRAPH
<1>2. ReadsOutput[c] \cap ENTITY_CAPABILITY_GRAPH[e] = {}
  BY CapabilitiesAre DEF ReadsOutput, ENTITY_CAPABILITY_GRAPH
<1>3. REGISTRY[c].entity # e
  BY CapabilitiesAre DEF REGISTRY, Prerequisite, ENTITY_CAPABILITY_GRAPH
<1> QED BY <1>1, <1>2, <1>3

-----------------------------------------------------------------------------
(* The stages of discovery and execution.                                  *)

\* How many capabilities there are, the n-th of them, and the first n.
N == Len(EXECUTION_ORDER)
At(n) == EXECUTION_ORDER[n]
First(n) == {At(i) : i \in 1..n}

\* The equations of discovery and execution, for the first m of the order.
Finding(data, m, g) ==
    g = [n \in 0..m |->
            IF n = 0 THEN [c \in Capability |-> "UNKNOWN"]
            ELSE [g[n - 1] EXCEPT ![At(n)] =
                    StatusOf(At(n), data, {u \in Capability : g[n - 1][u] \in Usable})]]
Executing(found, data, recompute, cache, m, g) ==
    g = [n \in 0..m |->
            IF n = 0 THEN [c \in Capability |-> Outcome("UNKNOWN", FALSE, None)]
            ELSE [g[n - 1] EXCEPT ![At(n)] =
                    ExecuteOne(At(n), g[n - 1], found, data, recompute, cache)]]

\* There are such functions, for any number of stages.
LEMMA FindingExists ==
    ASSUME NEW data, NEW m \in Nat
    PROVE  \E g : Finding(data, m, g)
<1> DEFINE Has(k) == \E g : Finding(data, k, g)
           T == {k \in Nat : Has(k)}
<1>1. 0 \in T
  <2> DEFINE g == [n \in 0..0 |-> [c \in Capability |-> "UNKNOWN"]]
  <2>1. Finding(data, 0, g)
    BY DEF Finding
  <2> QED BY <2>1
<1>2. ASSUME NEW k \in T PROVE k + 1 \in T
  <2>1. PICK g : Finding(data, k, g)
    OBVIOUS
  <2> DEFINE Body(f, n) ==
                IF n = 0 THEN [c \in Capability |-> "UNKNOWN"]
                ELSE [f[n - 1] EXCEPT ![At(n)] =
                        StatusOf(At(n), data, {u \in Capability : f[n - 1][u] \in Usable})]
             h == [n \in 0..(k + 1) |-> Body(g, n)]
  <2>2. \A n \in 0..k : h[n] = g[n]
    <3>1. \A n \in 0..k : g[n] = Body(g, n)
      BY <2>1 DEF Finding
    <3> HIDE DEF Body
    <3> QED BY <3>1
  <2>3. \A n \in 0..(k + 1) : n = 0 \/ n - 1 \in 0..k
    OBVIOUS
  <2>4. \A n \in 0..(k + 1) : Body(h, n) = Body(g, n)
    <3> HIDE DEF h
    <3> QED BY <2>2, <2>3
  <2>5. h = [n \in 0..(k + 1) |-> Body(h, n)]
    <3> HIDE DEF Body
    <3> QED BY <2>4
  <2>6. Finding(data, k + 1, h)
    <3> HIDE DEF h
    <3> QED BY <2>5 DEF Finding
  <2> QED BY <2>6
<1>3. T = Nat
  <2> HIDE DEF Has
  <2> QED BY <1>1, <1>2, Induction
<1> QED BY <1>3

\* The same of execution.
LEMMA ExecutingExists ==
    ASSUME NEW found, NEW data, NEW recompute, NEW cache, NEW m \in Nat
    PROVE  \E g : Executing(found, data, recompute, cache, m, g)
<1> DEFINE Eq(k, g) == Executing(found, data, recompute, cache, k, g)
           Has(k) == \E g : Eq(k, g)
           T == {k \in Nat : Has(k)}
<1>1. 0 \in T
  <2> DEFINE g == [n \in 0..0 |-> [c \in Capability |-> Outcome("UNKNOWN", FALSE, None)]]
  <2>1. Eq(0, g)
    BY DEF Executing
  <2> QED BY <2>1
<1>2. ASSUME NEW k \in T PROVE k + 1 \in T
  <2>1. PICK g : Eq(k, g)
    OBVIOUS
  <2> DEFINE Body(f, n) ==
                IF n = 0 THEN [c \in Capability |-> Outcome("UNKNOWN", FALSE, None)]
                ELSE [f[n - 1] EXCEPT ![At(n)] =
                        ExecuteOne(At(n), f[n - 1], found, data, recompute, cache)]
             h == [n \in 0..(k + 1) |-> Body(g, n)]
  <2>2. \A n \in 0..k : h[n] = g[n]
    <3>1. \A n \in 0..k : g[n] = Body(g, n)
      BY <2>1 DEF Executing
    <3> HIDE DEF Body
    <3> QED BY <3>1
  <2>3. \A n \in 0..(k + 1) : n = 0 \/ n - 1 \in 0..k
    OBVIOUS
  <2>4. \A n \in 0..(k + 1) : Body(h, n) = Body(g, n)
    <3> HIDE DEF h
    <3> QED BY <2>2, <2>3
  <2>5. h = [n \in 0..(k + 1) |-> Body(h, n)]
    <3> HIDE DEF Body
    <3> QED BY <2>4
  <2>6. Eq(k + 1, h)
    <3> HIDE DEF h
    <3> QED BY <2>5 DEF Executing
  <2> QED BY <2>6
<1>3. T = Nat
  <2> HIDE DEF Has
  <2> QED BY <1>1, <1>2, Induction
<1> QED BY <1>3

\* What discovery and execution compute is the last stage of such a function.
LEMMA DiscoverIs ==
    ASSUME NEW data
    PROVE  \E g : Finding(data, N, g) /\ Discover(data) = g[N]
<1> DEFINE g == CHOOSE g : Finding(data, N, g)
<1>1. Finding(data, N, g)
  BY OrderFacts, FindingExists DEF N
<1>2. Discover(data) = g[N]
  BY DEF Discover, Finding, At, N
<1> QED BY <1>1, <1>2

\* The same of execution.
LEMMA ExecuteIs ==
    ASSUME NEW found, NEW data, NEW recompute, NEW cache
    PROVE  \E g : /\ Executing(found, data, recompute, cache, N, g)
                  /\ ExecutePipeline(found, data, recompute, cache) = g[N]
<1> DEFINE g == CHOOSE g : Executing(found, data, recompute, cache, N, g)
<1>1. Executing(found, data, recompute, cache, N, g)
  BY OrderFacts, ExecutingExists DEF N
<1>2. ExecutePipeline(found, data, recompute, cache) = g[N]
  BY DEF ExecutePipeline, Executing, At, N
<1> QED BY <1>1, <1>2

\* What execution skips, and the outcome of what has not been reached.
Refused == {"UNAVAILABLE", "BLOCKED", "WAITING_FOR_INPUT", "INSUFFICIENT_EVIDENCE"}
Fresh == Outcome("UNKNOWN", FALSE, None)

\* The stages take up the capabilities one at a time, and all of them.
LEMMA Stages ==
    /\ N \in Nat
    /\ First(0) = {}
    /\ \A n \in 1..N : /\ At(n) \in Capability /\ n - 1 \in Nat /\ n - 1 <= N
                       /\ First(n) = First(n - 1) \cup {At(n)} /\ At(n) \notin First(n - 1)
    /\ First(N) = Capability
<1>1. N \in Nat /\ \A n \in 1..N : At(n) \in Capability
  BY OrderFacts DEF N, At
<1>2. First(0) = {}
  BY DEF First
<1>3. ASSUME NEW n \in 1..N
      PROVE  /\ n - 1 \in Nat /\ n - 1 <= N
             /\ First(n) = First(n - 1) \cup {At(n)} /\ At(n) \notin First(n - 1)
  <2>1. n - 1 \in Nat /\ n - 1 <= N /\ \A i : i \in 1..n <=> i \in 1..(n - 1) \/ i = n
    BY <1>1
  <2>2. \A i \in 1..(n - 1) : At(i) # At(n)
    BY <1>1, OrderFacts DEF N, At
  <2> QED BY <2>1, <2>2 DEF First
<1>4. First(N) = Capability
  BY OrderFacts DEF First, N, At
<1> QED BY <1>1, <1>2, <1>3, <1>4

\* One stage of discovery and of execution.
LEMMA FindingStage ==
    ASSUME NEW data, NEW g, Finding(data, N, g)
    PROVE  /\ g[0] = [c \in Capability |-> "UNKNOWN"]
           /\ \A n \in 1..N : g[n] = [g[n - 1] EXCEPT ![At(n)] =
                  StatusOf(At(n), data, {u \in Capability : g[n - 1][u] \in Usable})]
<1>1. N \in Nat /\ 0 \in 0..N /\ \A n \in 1..N : n \in 0..N /\ n # 0
  BY Stages
<1>2. \A n \in 0..N : g[n] = IF n = 0 THEN [c \in Capability |-> "UNKNOWN"]
                              ELSE [g[n - 1] EXCEPT ![At(n)] =
                                 StatusOf(At(n), data, {u \in Capability : g[n - 1][u] \in Usable})]
  <2> HIDE DEF N
  <2> QED BY DEF Finding
<1> QED BY <1>1, <1>2

\* The same of execution.
LEMMA ExecutingStage ==
    ASSUME NEW found, NEW data, NEW recompute, NEW cache, NEW g,
           Executing(found, data, recompute, cache, N, g)
    PROVE  /\ g[0] = [c \in Capability |-> Fresh]
           /\ \A n \in 1..N : g[n] = [g[n - 1] EXCEPT ![At(n)] =
                  ExecuteOne(At(n), g[n - 1], found, data, recompute, cache)]
<1>1. N \in Nat /\ 0 \in 0..N /\ \A n \in 1..N : n \in 0..N /\ n # 0
  BY Stages
<1>2. \A n \in 0..N : g[n] = IF n = 0 THEN [c \in Capability |-> Fresh]
                              ELSE [g[n - 1] EXCEPT ![At(n)] =
                                 ExecuteOne(At(n), g[n - 1], found, data, recompute, cache)]
  <2> HIDE DEF N
  <2> QED BY DEF Executing, Fresh
<1> QED BY <1>1, <1>2

\* A property of the stages that holds before the first and goes on from one to the
\* next holds after every one: T is the set of stages that have it.
LEMMA ByStages ==
    ASSUME NEW T, 0 \in T, \A n \in 1..N : n - 1 \in T => n \in T
    PROVE  \A n \in 0..N : n \in T
<1> DEFINE U == {n \in Nat : n <= N => n \in T}
<1>1. 0 \in U
  OBVIOUS
<1>2. ASSUME NEW n \in U PROVE n + 1 \in U
  <2>1. n + 1 <= N => n + 1 \in 1..N /\ (n + 1) - 1 = n /\ n \in T
    BY Stages
  <2> QED BY <2>1
<1>3. U = Nat
  <2> HIDE DEF U
  <2>1. U \in SUBSET Nat
    BY DEF U
  <2> QED BY <2>1, <1>1, <1>2, Induction
<1> QED BY <1>3, Stages

\* The status found of a capability is its status, of whatever was available.
LEMMA DiscoverGives ==
    ASSUME NEW data, NEW c \in Capability
    PROVE  \E available : Discover(data)[c] = StatusOf(c, data, available)
<1>1. PICK g : Finding(data, N, g) /\ Discover(data) = g[N]
  BY DiscoverIs
<1> DEFINE Holds(n) == /\ DOMAIN g[n] = Capability
                       /\ \A d \in First(n) : \E available : g[n][d] = StatusOf(d, data, available)
           T == {n \in 0..N : Holds(n)}
<1>2. 0 \in T
  BY <1>1, Stages, FindingStage
<1>3. ASSUME NEW n \in 1..N, n - 1 \in T PROVE n \in T
  <2> DEFINE A == {u \in Capability : g[n - 1][u] \in Usable}
  <2>1. g[n] = [g[n - 1] EXCEPT ![At(n)] = StatusOf(At(n), data, A)]
    BY <1>1, FindingStage
  <2> HIDE DEF A
  <2>2. At(n) \in Capability /\ First(n) = First(n - 1) \cup {At(n)} /\ First(n) \subseteq Capability
    BY Stages, OrderFacts DEF First, At, N
  <2>3. Holds(n - 1)
    BY <1>3
  <2>4. DOMAIN g[n] = Capability /\ g[n][At(n)] = StatusOf(At(n), data, A)
    BY <2>1, <2>2, <2>3
  <2>5. \A d \in First(n) \ {At(n)} : g[n][d] = g[n - 1][d] /\ d \in First(n - 1)
    BY <2>1, <2>2, <2>3
  <2>6. Holds(n)
    BY <2>2, <2>3, <2>4, <2>5
  <2> QED BY <2>6
<1>4. N \in T
  <2> HIDE DEF T
  <2> QED BY <1>2, <1>3, ByStages, Stages
<1> QED BY <1>1, <1>4, Stages

\* What is not refused has its dataset, which is long enough and not empty.
LEMMA NotRefused ==
    ASSUME NEW data, NEW c \in Capability, NEW available,
           StatusOf(c, data, available) \notin Refused,
           REGISTRY[c].entity \in DOMAIN data => Listed(data[REGISTRY[c].entity])
    PROVE  LET records == data[REGISTRY[c].entity]
           IN /\ REGISTRY[c].entity \in DOMAIN data
              /\ Len(records) >= REGISTRY[c].history /\ Len(records) > 0
<1> DEFINE e == REGISTRY[c].entity  records == data[e]
<1>1. /\ e \in DOMAIN data /\ ~(Len(records) < REGISTRY[c].history)
      /\ ~(Readiness(e, records).missing /\ Readiness(e, records).filled = 0)
  BY DEF StatusOf, Refused
<1>2. Len(records) \in Nat /\ DOMAIN records = 1..Len(records)
  BY <1>1, LenProperties DEF Listed
<1>3. Len(records) # 0
  <2> SUFFICES ASSUME Len(records) = 0 PROVE FALSE
    OBVIOUS
  <2>1. {i \in DOMAIN records : records[i].value = "blank"} = {}
    BY <1>2
  <2>2. Cardinality({i \in DOMAIN records : records[i].value = "blank"}) = 0
    BY <2>1, FS_EmptySet
  <2> QED BY <1>1, <2>2 DEF Readiness
<1> QED BY <1>1, <1>2, <1>3, TablesAgree

\* A stage decides about its own capability; the others are as before.
LEMMA OneStage ==
    ASSUME NEW found, NEW data, NEW recompute, NEW cache, NEW g,
           Executing(found, data, recompute, cache, N, g)
    PROVE  /\ \A c \in Capability : g[0][c] = Fresh
           /\ \A n \in 0..N : DOMAIN g[n] = Capability
           /\ \A n \in 1..N :
                 /\ g[n][At(n)] = ExecuteOne(At(n), g[n - 1], found, data, recompute, cache)
                 /\ \A c \in Capability \ {At(n)} : g[n][c] = g[n - 1][c]
<1> DEFINE T == {n \in 0..N : DOMAIN g[n] = Capability}
<1>1. 0 \in T
  BY Stages, ExecutingStage
<1>2. ASSUME NEW n \in 1..N, n - 1 \in T PROVE n \in T
  <2>1. g[n] = [g[n - 1] EXCEPT ![At(n)] =
                  ExecuteOne(At(n), g[n - 1], found, data, recompute, cache)]
    BY ExecutingStage
  <2>2. n \in 0..N /\ DOMAIN g[n - 1] = Capability
    BY <1>2, Stages
  <2> QED BY <2>1, <2>2
<1>3. \A n \in 0..N : n \in T
  <2> HIDE DEF T
  <2> QED BY <1>1, <1>2, ByStages
<1>4. ASSUME NEW n \in 1..N
      PROVE  /\ g[n][At(n)] = ExecuteOne(At(n), g[n - 1], found, data, recompute, cache)
             /\ \A c \in Capability \ {At(n)} : g[n][c] = g[n - 1][c]
  <2>1. g[n] = [g[n - 1] EXCEPT ![At(n)] =
                  ExecuteOne(At(n), g[n - 1], found, data, recompute, cache)]
    BY ExecutingStage
  <2>2. At(n) \in Capability /\ DOMAIN g[n - 1] = Capability
    BY <1>3, Stages
  <2> QED BY <2>1, <2>2
<1>5. \A c \in Capability : g[0][c] = Fresh
  BY ExecutingStage
<1> QED BY <1>3, <1>4, <1>5

\* What is completed at the end was completed over its dataset and over capabilities
\* that are completed at the end.
LEMMA CompletedInOrder ==
    ASSUME NEW found, NEW data, NEW recompute, NEW c \in Capability,
           ExecutePipeline(found, data, recompute, <<>>)[c].status = "COMPLETED"
    PROVE  /\ found[c] \notin Refused
           /\ ExecutePipeline(found, data, recompute, <<>>)[c].output[1] = data[REGISTRY[c].entity]
           /\ DEPENDENCY_GRAPH[c] \subseteq Completed(ExecutePipeline(found, data, recompute, <<>>))
<1>1. PICK g : /\ Executing(found, data, recompute, <<>>, N, g)
               /\ ExecutePipeline(found, data, recompute, <<>>) = g[N]
  BY ExecuteIs
<1> DEFINE Good(n, d) == /\ d \in First(n) /\ found[d] \notin Refused
                         /\ g[n][d].output[1] = data[REGISTRY[d].entity]
                         /\ \A u \in DEPENDENCY_GRAPH[d] : g[n][u].status = "COMPLETED"
           T == {n \in 0..N : \A d \in Capability : g[n][d].status = "COMPLETED" => Good(n, d)}
<1>2. 0 \in T
  <2>1. \A d \in Capability : g[0][d].status # "COMPLETED"
    BY <1>1, OneStage DEF Fresh, Outcome
  <2> QED BY <2>1, Stages
<1>3. ASSUME NEW n \in 1..N, n - 1 \in T PROVE n \in T
  <2> DEFINE a == At(n)  b == g[n - 1]
  <2>1. /\ g[n][a] = ExecuteOne(a, b, found, data, recompute, <<>>)
        /\ \A d \in Capability \ {a} : g[n][d] = b[d]
    BY <1>1, OneStage
  <2>2. a \in Capability /\ a \notin First(n - 1) /\ First(n) = First(n - 1) \cup {a}
    BY Stages
  <2>3. \A d \in Capability : b[d].status = "COMPLETED" => Good(n - 1, d)
    BY <1>3
  <2>4. b[a].status # "COMPLETED"
    BY <2>2, <2>3
  <2>5. \A d \in Capability : \A u \in DEPENDENCY_GRAPH[d] : u \in Capability
    BY TablesAgree
  <2> HIDE DEF a
  <2>6. \A u \in Capability : b[u].status = "COMPLETED" => g[n][u].status = "COMPLETED"
    BY <2>1, <2>4
  <2>7. ASSUME NEW d \in Capability \ {a}, g[n][d].status = "COMPLETED" PROVE Good(n, d)
    BY <2>1, <2>2, <2>3, <2>5, <2>6, <2>7
  <2>8. ASSUME g[n][a].status = "COMPLETED" PROVE Good(n, a)
    <3>1. /\ found[a] \notin Refused
          /\ \A u \in DEPENDENCY_GRAPH[a] : b[u].status = "COMPLETED"
          /\ g[n][a].output[1] = data[REGISTRY[a].entity]
      BY <2>1, <2>8 DEF ExecuteOne, Outcome, Refused
    <3> QED BY <3>1, <2>2, <2>5, <2>6
  <2> QED BY <2>7, <2>8
<1>4. N \in T
  <2> HIDE DEF T
  <2>1. \A n \in 0..N : n \in T
    BY <1>2, <1>3, ByStages
  <2> QED BY <2>1, Stages
<1> QED BY <1>1, <1>4, TablesAgree DEF Completed

\* A stage that has decided about a capability has done so for good.
LEMMA DecidedForGood ==
    ASSUME NEW found, NEW data, NEW recompute, NEW cache, NEW g,
           Executing(found, data, recompute, cache, N, g), NEW i \in 1..N
    PROVE  g[N][At(i)] = g[i][At(i)]
<1> DEFINE T == {n \in 0..N : i <= n => g[n][At(i)] = g[i][At(i)]}
<1>1. 0 \in T
  BY Stages
<1>2. ASSUME NEW n \in 1..N, n - 1 \in T PROVE n \in T
  <2>1. CASE i < n
    <3>1. At(i) \in First(n - 1) /\ At(n) \notin First(n - 1) /\ At(i) \in Capability
      <4>1. i \in 1..(n - 1)
        BY <2>1, Stages
      <4> QED BY <4>1, Stages DEF First
    <3>2. g[n][At(i)] = g[n - 1][At(i)]
      BY <3>1, OneStage
    <3> QED BY <1>2, <2>1, <3>2, Stages
  <2>2. CASE i >= n
    <3>1. i <= n => i = n
      BY <2>2, Stages
    <3> QED BY <3>1, Stages
  <2> QED BY <2>1, <2>2, Stages
<1>3. N \in T
  <2> HIDE DEF T
  <2> QED BY <1>1, <1>2, ByStages, Stages
<1> QED BY <1>3, Stages

-----------------------------------------------------------------------------
(* Two executions over datasets that differ in what is computed again.     *)

\* Two datasets are alike for a set of capabilities; a set needs nothing outside it.
Alike(C, one, other) ==
    \A c \in C : LET e == REGISTRY[c].entity
                 IN (e \in DOMAIN one <=> e \in DOMAIN other) /\ (e \in DOMAIN one => one[e] = other[e])
Closed(C) ==
    C \subseteq Capability /\ \A c \in C : DEPENDENCY_GRAPH[c] \cup ReadsOutput[c] \subseteq C

\* The status of a capability depends on its own dataset and its upstream.
LEMMA SameStatus ==
    ASSUME NEW c, NEW one, NEW other, Alike({c}, one, other), NEW A, NEW B,
           REGISTRY[c].upstream \subseteq A <=> REGISTRY[c].upstream \subseteq B
    PROVE  StatusOf(c, one, A) = StatusOf(c, other, B)
BY DEF StatusOf, Alike

\* Discovery finds the same of a closed set over datasets that are alike for it.
LEMMA FoundAlike ==
    ASSUME NEW C, Closed(C), NEW one, NEW other, Alike(C, one, other)
    PROVE  \A c \in C : Discover(one)[c] = Discover(other)[c]
<1>1. PICK g : Finding(one, N, g) /\ Discover(one) = g[N]
  BY DiscoverIs
<1>2. PICK h : Finding(other, N, h) /\ Discover(other) = h[N]
  BY DiscoverIs
<1> DEFINE Holds(n) == /\ DOMAIN g[n] = Capability /\ DOMAIN h[n] = Capability
                       /\ \A c \in C : g[n][c] = h[n][c]
           T == {n \in 0..N : Holds(n)}
<1>3. 0 \in T
  BY <1>1, <1>2, Stages, FindingStage DEF Closed
<1>4. ASSUME NEW n \in 1..N, n - 1 \in T PROVE n \in T
  <2> DEFINE a == At(n)
             A == {u \in Capability : g[n - 1][u] \in Usable}
             B == {u \in Capability : h[n - 1][u] \in Usable}
  <2>1. g[n] = [g[n - 1] EXCEPT ![a] = StatusOf(a, one, A)]
    <3>1. Finding(one, N, g)
      BY <1>1
    <3> HIDE DEF T, Holds
    <3> QED BY <3>1, FindingStage
  <2>2. h[n] = [h[n - 1] EXCEPT ![a] = StatusOf(a, other, B)]
    BY <1>2, FindingStage
  <2>3. Holds(n - 1) /\ a \in Capability /\ n \in 0..N
    BY <1>4, Stages
  <2>4. a \in C => StatusOf(a, one, A) = StatusOf(a, other, B)
    <3> SUFFICES ASSUME a \in C PROVE StatusOf(a, one, A) = StatusOf(a, other, B)
      OBVIOUS
    <3>1. REGISTRY[a].upstream \subseteq C /\ C \subseteq Capability
      BY TablesAgree DEF Closed
    <3>2. REGISTRY[a].upstream \subseteq A <=> REGISTRY[a].upstream \subseteq B
      BY <2>3, <3>1
    <3>3. Alike({a}, one, other)
      BY DEF Alike
    <3> HIDE DEF A, B, a
    <3> QED BY <3>2, <3>3, SameStatus
  <2> HIDE DEF A, B, a
  <2>5. DOMAIN g[n] = Capability /\ DOMAIN h[n] = Capability
    BY <2>1, <2>2, <2>3
  <2>6. ASSUME NEW c \in C PROVE g[n][c] = h[n][c]
    <3>1. c \in Capability /\ g[n - 1][c] = h[n - 1][c]
      BY <2>3 DEF Closed
    <3> QED BY <2>1, <2>2, <2>3, <2>4, <3>1
  <2> QED BY <2>3, <2>5, <2>6
<1>5. N \in T
  <2> HIDE DEF T
  <2> QED BY <1>3, <1>4, ByStages, Stages
<1> QED BY <1>1, <1>2, <1>5

\* Outcomes that a reader cannot tell apart, whether they were cached or computed.
Equal(x, y) == x.status = y.status /\ x.output = y.output

\* Computing gives the same from what is the same.
LEMMA SameOutcome ==
    ASSUME NEW c \in Capability, NEW A, NEW B, NEW f, NEW h, NEW one, NEW other, NEW R, NEW S, NEW cache,
           f[c] = h[c], f[c] \in Refused \/ one[REGISTRY[c].entity] = other[REGISTRY[c].entity],
           \A u \in DEPENDENCY_GRAPH[c] \cup ReadsOutput[c] : Equal(A[u], B[u]),
           c \in R \/ c \notin DOMAIN cache
    PROVE  Equal(ExecuteOne(c, A, f, one, R, cache), ExecuteOne(c, B, h, other, S, <<>>))
<1>1. CASE f[c] \in Refused
  BY <1>1 DEF ExecuteOne, Outcome, Refused, Equal
<1>2. CASE f[c] \notin Refused
  <2>1. [u \in ReadsOutput[c] |-> A[u].output] = [u \in ReadsOutput[c] |-> B[u].output]
    BY DEF Equal
  <2>2. \A u \in DEPENDENCY_GRAPH[c] : A[u].status = B[u].status
    BY DEF Equal
  <2>3. one[REGISTRY[c].entity] = other[REGISTRY[c].entity] /\ h[c] \notin Refused
    BY <1>2
  <2> QED BY <1>2, <2>1, <2>2, <2>3 DEF ExecuteOne, Outcome, Refused, Equal
<1> QED BY <1>1, <1>2

\* From the cache of an earlier execution, over datasets in which what is not to be
\* recomputed is alike, execution gives what it gives without a cache.
LEMMA ReuseIsSound ==
    ASSUME NEW one, NEW other, NEW earlier, NEW recompute,
           Closed(Capability \ recompute), Alike(Capability \ recompute, one, other)
    PROVE  LET done == ExecutePipeline(Discover(one), one, earlier, <<>>)
               cache == [c \in Completed(done) |-> done[c].output]
               again == ExecutePipeline(Discover(other), other, recompute, cache)
               afresh == ExecutePipeline(Discover(other), other, recompute, <<>>)
           IN \A c \in Capability : Equal(again[c], afresh[c])
<1> DEFINE C == Capability \ recompute
           f == Discover(one)
           h == Discover(other)
           done == ExecutePipeline(f, one, earlier, <<>>)
           cache == [c \in Completed(done) |-> done[c].output]
<1>1. PICK d : Executing(f, one, earlier, <<>>, N, d) /\ done = d[N]
  BY ExecuteIs
<1>2. PICK a : Executing(h, other, recompute, cache, N, a)
               /\ ExecutePipeline(h, other, recompute, cache) = a[N]
  BY ExecuteIs
<1>3. PICK b : Executing(h, other, recompute, <<>>, N, b)
               /\ ExecutePipeline(h, other, recompute, <<>>) = b[N]
  BY ExecuteIs
<1>4. \A c \in C : f[c] = h[c]
  BY FoundAlike
<1>5. \A c \in C : f[c] \in Refused \/ one[REGISTRY[c].entity] = other[REGISTRY[c].entity]
  <2> SUFFICES ASSUME NEW c \in C, f[c] \notin Refused
               PROVE  one[REGISTRY[c].entity] = other[REGISTRY[c].entity]
    OBVIOUS
  <2>1. PICK available : f[c] = StatusOf(c, one, available)
    BY DiscoverGives
  <2>2. REGISTRY[c].entity \in DOMAIN one
    BY <2>1 DEF StatusOf, Refused
  <2> QED BY <2>2 DEF Alike
<1> HIDE DEF f, h
<1> DEFINE Holds(n) == \A c \in Capability : /\ Equal(a[n][c], b[n][c])
                                             /\ c \in C => Equal(b[n][c], d[n][c])
           T == {n \in 0..N : Holds(n)}
<1>6. 0 \in T
  BY <1>1, <1>2, <1>3, Stages, OneStage DEF Equal
<1>7. ASSUME NEW n \in 1..N, n - 1 \in T PROVE n \in T
  <2> DEFINE k == At(n)
  <2>1. /\ a[n][k] = ExecuteOne(k, a[n - 1], h, other, recompute, cache)
        /\ \A c \in Capability \ {k} : a[n][c] = a[n - 1][c]
    BY <1>2, OneStage
  <2>2. /\ b[n][k] = ExecuteOne(k, b[n - 1], h, other, recompute, <<>>)
        /\ \A c \in Capability \ {k} : b[n][c] = b[n - 1][c]
    BY <1>3, OneStage
  <2>3. /\ d[n][k] = ExecuteOne(k, d[n - 1], f, one, earlier, <<>>)
        /\ \A c \in Capability \ {k} : d[n][c] = d[n - 1][c]
    BY <1>1, OneStage
  <2>4. k \in Capability /\ n \in 0..N /\ Holds(n - 1)
    BY <1>7, Stages
  <2>5. d[N][k] = d[n][k]
    BY <1>1, DecidedForGood
  <2>6. DEPENDENCY_GRAPH[k] \cup ReadsOutput[k] \subseteq Capability
    BY <2>4, TablesAgree
  <2> HIDE DEF k
  <2>7. k \in C => Equal(b[n][k], d[n][k])
    <3> SUFFICES ASSUME k \in C PROVE Equal(b[n][k], d[n][k])
      OBVIOUS
    <3>1. \A u \in DEPENDENCY_GRAPH[k] \cup ReadsOutput[k] : Equal(d[n - 1][u], b[n - 1][u])
      BY <2>4, <2>6 DEF Closed, Equal
    <3>2. Equal(d[n][k], b[n][k])
      BY <1>4, <1>5, <2>2, <2>3, <2>4, <3>1, SameOutcome
    <3> QED BY <3>2 DEF Equal
  <2>8. Equal(a[n][k], b[n][k])
    <3>1. \A u \in DEPENDENCY_GRAPH[k] \cup ReadsOutput[k] : Equal(a[n - 1][u], b[n - 1][u])
      BY <2>4, <2>6
    <3>2. CASE k \in recompute \/ k \notin DOMAIN cache
      BY <2>1, <2>2, <2>4, <3>1, <3>2, SameOutcome
    <3>3. CASE k \in C /\ k \in DOMAIN cache
      <4>1. cache[k] = d[n][k].output /\ d[n][k].status = "COMPLETED"
        BY <1>1, <2>5, <3>3 DEF Completed
      <4>2. b[n][k].status = "COMPLETED" /\ b[n][k].output = cache[k]
        BY <2>7, <3>3, <4>1 DEF Equal
      <4>3. /\ h[k] \notin Refused
            /\ \A u \in DEPENDENCY_GRAPH[k] : b[n - 1][u].status = "COMPLETED"
        BY <2>2, <4>2 DEF ExecuteOne, Outcome, Refused
      <4>4. \A u \in DEPENDENCY_GRAPH[k] : a[n - 1][u].status = "COMPLETED"
        BY <3>1, <4>3 DEF Equal
      <4>5. a[n][k] = Outcome("COMPLETED", TRUE, cache[k])
        BY <2>1, <3>3, <4>3, <4>4 DEF ExecuteOne, Refused
      <4> QED BY <4>2, <4>5 DEF Outcome, Equal
    <3> QED BY <2>4, <3>2, <3>3
  <2>9. Holds(n)
    BY <2>1, <2>2, <2>3, <2>4, <2>7, <2>8
  <2> QED BY <2>4, <2>9
<1>8. N \in T
  <2> HIDE DEF T
  <2> QED BY <1>6, <1>7, ByStages, Stages
<1> QED BY <1>2, <1>3, <1>8 DEF f, h

-----------------------------------------------------------------------------
(* Merging and sorting leave lists.                                        *)

\* The equation of merging one record after another, for the first k.
Merging(m, incoming, k, g) ==
    g = [n \in 0..k |-> IF n = 0 THEN m ELSE MergeOne(g[n - 1], incoming[n])]

\* There is such a function.
LEMMA MergingExists ==
    ASSUME NEW m, NEW incoming, NEW l \in Nat
    PROVE  \E g : Merging(m, incoming, l, g)
<1> DEFINE Has(k) == \E g : Merging(m, incoming, k, g)
           T == {k \in Nat : Has(k)}
<1>1. 0 \in T
  <2> DEFINE g == [n \in 0..0 |-> m]
  <2>1. Merging(m, incoming, 0, g)
    BY DEF Merging
  <2> QED BY <2>1
<1>2. ASSUME NEW k \in T PROVE k + 1 \in T
  <2>1. PICK g : Merging(m, incoming, k, g)
    OBVIOUS
  <2> DEFINE Body(f, n) == IF n = 0 THEN m ELSE MergeOne(f[n - 1], incoming[n])
             h == [n \in 0..(k + 1) |-> Body(g, n)]
  <2>2. \A n \in 0..k : h[n] = g[n]
    <3>1. \A n \in 0..k : g[n] = Body(g, n)
      BY <2>1 DEF Merging
    <3> HIDE DEF Body
    <3> QED BY <3>1
  <2>3. \A n \in 0..(k + 1) : n = 0 \/ n - 1 \in 0..k
    OBVIOUS
  <2>4. \A n \in 0..(k + 1) : Body(h, n) = Body(g, n)
    <3> HIDE DEF h
    <3> QED BY <2>2, <2>3
  <2>5. h = [n \in 0..(k + 1) |-> Body(h, n)]
    <3> HIDE DEF Body
    <3> QED BY <2>4
  <2>6. Merging(m, incoming, k + 1, h)
    <3> HIDE DEF h
    <3> QED BY <2>5 DEF Merging
  <2> QED BY <2>6
<1>3. T = Nat
  <2> HIDE DEF Has
  <2> QED BY <1>1, <1>2, Induction
<1> QED BY <1>3

\* A record but for its version, and records but for their versions.
Plain(r) == [r EXCEPT !.version = 0]
Plains(S) == {Plain(r) : r \in S}
\* Finitely many records, one for each key.
Keyed(S) == /\ IsFiniteSet(S)
            /\ \A r \in S : IsRecord(r)
            /\ \A r, s \in S : r.key = s.key => r = s
\* The form of what a merge has reached.
Reached(m) ==
    /\ m = [records |-> m.records, newest |-> m.newest, new |-> m.new, late |-> m.late,
            duplicates |-> m.duplicates, corrections |-> m.corrections]
    /\ Keyed(m.records)

\* A record with another version is the same record but for that.
LEMMA Versions ==
    ASSUME NEW r, IsRecord(r), NEW v
    PROVE  /\ IsRecord([r EXCEPT !.version = v]) /\ [r EXCEPT !.version = v].key = r.key
           /\ Plain([r EXCEPT !.version = v]) = Plain(r)
           /\ Plain(r).key = r.key
<1> DEFINE x == [key |-> r.key, date |-> r.date, value |-> r.value, version |-> v]
<1>1. [r EXCEPT !.version = v] = x
  BY DEF IsRecord
<1>2. Plain(r) = [key |-> r.key, date |-> r.date, value |-> r.value, version |-> 0]
  BY DEF IsRecord, Plain
<1>3. Plain(x) = [key |-> r.key, date |-> r.date, value |-> r.value, version |-> 0]
  BY DEF Plain
<1>4. IsRecord(x) /\ x.key = r.key
  BY DEF IsRecord
<1> QED BY <1>1, <1>2, <1>3, <1>4

\* What merging one record does to the records.
LEMMA OneMerged ==
    ASSUME NEW m, Reached(m), NEW r, IsRecord(r)
    PROVE  LET n == MergeOne(m, r)
               old == {s \in m.records : s.key = r.key}
           IN /\ \/ \E x \in old : Same(x, r) /\ n = [m EXCEPT !.duplicates = m.duplicates + 1]
                 \/ /\ \A x \in old : ~Same(x, r)
                    /\ \E v : n.records = (m.records \ old) \cup {[r EXCEPT !.version = v]}
              /\ Reached(n)
<1> DEFINE n == MergeOne(m, r)
           old == {s \in m.records : s.key = r.key}
           current == CHOOSE s \in old : TRUE
<1>0. m.records \ {} = m.records
  OBVIOUS
<1>1. \A s, t \in old : s = t
  BY DEF Reached, Keyed
<1>2. old # {} => current \in old
  OBVIOUS
<1>3. ASSUME NEW v
      PROVE  Keyed((m.records \ old) \cup {[r EXCEPT !.version = v]})
  <2>1. IsRecord([r EXCEPT !.version = v]) /\ [r EXCEPT !.version = v].key = r.key
    BY Versions
  <2> DEFINE x == [r EXCEPT !.version = v]
  <2>2. IsFiniteSet((m.records \ old) \cup {x})
    <3> HIDE DEF x, old
    <3> QED BY FS_AddElement, FS_Difference DEF Reached, Keyed
  <2>3. IsRecord(x) /\ x.key = r.key
    BY <2>1
  <2> HIDE DEF x
  <2>4. Keyed((m.records \ old) \cup {x})
    BY <2>2, <2>3 DEF Reached, Keyed
  <2> QED BY <2>4 DEF x
<1>4. PICK a, b, c, d, e, f :
        m = [records |-> a, newest |-> b, new |-> c, late |-> d, duplicates |-> e, corrections |-> f]
  BY DEF Reached
<1>5. CASE old = {}
  <2>1. \E y, z : n = [m EXCEPT !.records = m.records \cup {[r EXCEPT !.version = 1]}, !.new = y, !.late = z]
    BY <1>5, Zenon DEF MergeOne
  <2>2. m.records \ old = m.records
    BY <1>5
  <2>3. Keyed(m.records \cup {[r EXCEPT !.version = 1]})
    BY <1>3, <2>2
  <2> DEFINE x == m.records \cup {[r EXCEPT !.version = 1]}
  <2>4. PICK y, z : n = [m EXCEPT !.records = x, !.new = y, !.late = z]
    BY <2>1
  <2>5. Keyed(x) /\ x = (m.records \ old) \cup {[r EXCEPT !.version = 1]}
    BY <2>2, <2>3
  <2> HIDE DEF x, n
  <2> HIDE DEF old, current
  <2>6. n.records = x /\ Reached(n)
    <3>1. n = [records |-> x, newest |-> b, new |-> y, late |-> z, duplicates |-> e, corrections |-> f]
      BY <1>4, <2>4
    <3> QED BY <2>5, <3>1 DEF Reached
  <2> USE DEF old
  <2> QED BY <1>5, <2>5, <2>6 DEF n
<1>6. CASE old # {} /\ Same(current, r)
  <2>1. n = [m EXCEPT !.duplicates = m.duplicates + 1]
    BY <1>6, Zenon DEF MergeOne
  <2>2. Keyed(m.records)
    BY DEF Reached
  <2> HIDE DEF n, current
  <2>3. Reached(n)
    <3>1. n = [records |-> a, newest |-> b, new |-> c, late |-> d,
               duplicates |-> m.duplicates + 1, corrections |-> f]
      BY <1>4, <2>1
    <3>2. m.records = a
      BY <1>4
    <3> QED BY <2>2, <3>1, <3>2 DEF Reached
  <2> QED BY <1>2, <1>6, <2>1, <2>3 DEF n
<1>7. CASE old # {} /\ ~Same(current, r)
  <2>1. \E y : n = [m EXCEPT !.records = (m.records \ old) \cup {[r EXCEPT !.version = current.version + 1]},
                             !.corrections = y]
    BY <1>7, Zenon DEF MergeOne
  <2> DEFINE x == (m.records \ old) \cup {[r EXCEPT !.version = current.version + 1]}
  <2>2. PICK y : n = [m EXCEPT !.records = x, !.corrections = y]
    BY <2>1
  <2>3. Keyed(x)
    BY <1>3
  <2>4. \A s \in old : ~Same(s, r)
    BY <1>1, <1>2, <1>7
  <2> HIDE DEF x, n
  <2>5. n.records = x /\ Reached(n)
    <3>1. n = [records |-> x, newest |-> b, new |-> c, late |-> d, duplicates |-> e, corrections |-> y]
      BY <1>4, <2>2
    <3> QED BY <2>3, <3>1 DEF Reached
  <2>6. \E v : x = (m.records \ old) \cup {[r EXCEPT !.version = v]}
    BY DEF x
  <2> HIDE DEF old, current
  <2> QED BY <2>4, <2>5, <2>6 DEF n, old
<1> QED BY <1>5, <1>6, <1>7

\* But for versions, the record stands in for those of its key.
LEMMA OnePlain ==
    ASSUME NEW m, Reached(m), NEW r, IsRecord(r)
    PROVE  Plains(MergeOne(m, r).records) = {p \in Plains(m.records) : p.key # r.key} \cup {Plain(r)}
<1> DEFINE n == MergeOne(m, r)
           old == {s \in m.records : s.key = r.key}
<1>1. \A s \in m.records : IsRecord(s) /\ Plain(s).key = s.key
  BY Versions DEF Reached, Keyed
<1>2. Plains(m.records \ old) = {p \in Plains(m.records) : p.key # r.key}
  BY <1>1 DEF Plains
<1>3. ASSUME NEW x \in old, Same(x, r), n = [m EXCEPT !.duplicates = m.duplicates + 1]
      PROVE  Plains(n.records) = Plains(m.records \ old) \cup {Plain(r)}
  <2>1. n.records = m.records
    BY <1>3 DEF Reached
  <2>2. m.records = (m.records \ old) \cup {x}
    BY DEF Reached, Keyed
  <2>3. Plain(x) = Plain(r)
    BY <1>3 DEF Same, Plain
  <2> HIDE DEF old, n
  <2> QED BY <2>1, <2>2, <2>3 DEF Plains
<1>4. ASSUME NEW v, n.records = (m.records \ old) \cup {[r EXCEPT !.version = v]}
      PROVE  Plains(n.records) = Plains(m.records \ old) \cup {Plain(r)}
  <2>1. Plain([r EXCEPT !.version = v]) = Plain(r)
    BY Versions
  <2> DEFINE x == [r EXCEPT !.version = v]
  <2> HIDE DEF old, n, x
  <2>2. n.records = (m.records \ old) \cup {x} /\ Plain(x) = Plain(r)
    BY <1>4, <2>1 DEF x
  <2> QED BY <2>2 DEF Plains
<1>5. \/ \E x \in old : Same(x, r) /\ n = [m EXCEPT !.duplicates = m.duplicates + 1]
      \/ \E v : n.records = (m.records \ old) \cup {[r EXCEPT !.version = v]}
  BY OneMerged
<1>6. Plains(n.records) = Plains(m.records \ old) \cup {Plain(r)}
  <2> HIDE DEF n, old
  <2> QED BY <1>3, <1>4, <1>5
<1> QED BY <1>2, <1>6

\* Merging a list: the last of its records of each key stand in for those on file.
KeysTo(q, n) == {q[i].key : i \in 1..n}
LastOf(q, n) == {i \in 1..n : \A j \in (i + 1)..n : q[j].key # q[i].key}
LEMMA AllPlain ==
    ASSUME NEW m, Reached(m), NEW q, Listed(q), \A i \in 1..Len(q) : IsRecord(q[i])
    PROVE  LET n == MergeAll(m, q)
           IN /\ Reached(n)
              /\ Plains(n.records) = {p \in Plains(m.records) : p.key \notin KeysTo(q, Len(q))}
                                       \cup {Plain(q[i]) : i \in LastOf(q, Len(q))}
<1> DEFINE l == Len(q)
           g == CHOOSE g : Merging(m, q, l, g)
<1>1. l \in Nat
  BY LenProperties DEF Listed
<1>2. Merging(m, q, l, g)
  BY <1>1, MergingExists
<1>3. MergeAll(m, q) = g[l]
  BY DEF MergeAll, Merging
<1> HIDE DEF g, l
<1>4. \A n \in 0..l : g[n] = IF n = 0 THEN m ELSE MergeOne(g[n - 1], q[n])
  BY <1>2 DEF Merging
<1> DEFINE Is(n) == {p \in Plains(m.records) : p.key \notin KeysTo(q, n)}
                      \cup {Plain(q[i]) : i \in LastOf(q, n)}
           Good(n) == Reached(g[n]) /\ Plains(g[n].records) = Is(n)
           T == {n \in Nat : n <= l => Good(n)}
<1>5. 0 \in T
  <2>1. KeysTo(q, 0) = {} /\ LastOf(q, 0) = {}
    BY DEF KeysTo, LastOf
  <2>2. g[0] = m
    BY <1>1, <1>4
  <2> QED BY <2>1, <2>2
<1>6. ASSUME NEW n \in T PROVE n + 1 \in T
  <2> SUFFICES ASSUME n + 1 <= l PROVE Good(n + 1)
    OBVIOUS
  <2> DEFINE r == q[n + 1]
  <2>1. n \in Nat /\ n <= l /\ n + 1 \in 0..l /\ n + 1 \in 1..l /\ n + 1 # 0 /\ (n + 1) - 1 = n
    BY <1>1
  <2>2. g[n + 1] = MergeOne(g[n], r)
    BY <1>4, <2>1
  <2>3. Good(n) /\ IsRecord(r) /\ \A i \in 1..(n + 1) : IsRecord(q[i])
    BY <2>1 DEF l
  <2>4. Reached(g[n + 1])
    BY <2>2, <2>3, OneMerged
  <2>5. Plains(g[n + 1].records) = {p \in Is(n) : p.key # r.key} \cup {Plain(r)}
    <3> HIDE DEF Is
    <3> QED BY <2>2, <2>3, OnePlain
  <2>6. KeysTo(q, n + 1) = KeysTo(q, n) \cup {r.key}
    <3>1. \A i : i \in 1..(n + 1) <=> i \in 1..n \/ i = n + 1
      BY <2>1
    <3> QED BY <3>1 DEF KeysTo
  <2>7. LastOf(q, n + 1) = {i \in LastOf(q, n) : q[i].key # r.key} \cup {n + 1}
    <3>1. \A i : i \in 1..(n + 1) <=> i \in 1..n \/ i = n + 1
      BY <2>1
    <3>2. \A i \in 1..n : \A j : j \in (i + 1)..(n + 1) <=> j \in (i + 1)..n \/ j = n + 1
      BY <2>1
    <3>3. ~\E j : j \in ((n + 1) + 1)..(n + 1)
      BY <2>1
    <3>4. \A i : i \in LastOf(q, n + 1) <=> i \in 1..(n + 1) /\ \A j \in (i + 1)..(n + 1) : q[j].key # q[i].key
      BY DEF LastOf
    <3>5. \A i : i \in LastOf(q, n) <=> i \in 1..n /\ \A j \in (i + 1)..n : q[j].key # q[i].key
      BY DEF LastOf
    <3>6. n + 1 \notin 1..n
      BY <2>1
    <3> QED BY <3>1, <3>2, <3>3, <3>4, <3>5, <3>6
  <2>8. \A i \in LastOf(q, n) : Plain(q[i]).key = q[i].key
    <3>1. \A i \in LastOf(q, n) : IsRecord(q[i])
      BY <2>1, <2>3 DEF LastOf
    <3> QED BY <3>1, Versions
  <2>9. {p \in Is(n) : p.key # r.key} \cup {Plain(r)} = Is(n + 1)
    <3> QED BY <2>6, <2>7, <2>8
  <2> QED BY <2>4, <2>5, <2>9
<1>7. T = Nat
  <2> HIDE DEF T
  <2>1. T \in SUBSET Nat
    BY DEF T
  <2> QED BY <2>1, <1>5, <1>6, Induction
<1> QED BY <1>1, <1>3, <1>7 DEF l

\* Merging a list of records that are all on file only counts them.
LEMMA AllDuplicates ==
    ASSUME NEW m, Reached(m), NEW q, Listed(q),
           \A i \in 1..Len(q) : IsRecord(q[i]) /\ \E x \in m.records : x.key = q[i].key /\ Same(x, q[i])
    PROVE  LET all == MergeAll(m, q)
           IN /\ all.records = m.records
              /\ all.new = m.new /\ all.late = m.late /\ all.corrections = m.corrections
<1> DEFINE l == Len(q)
           g == CHOOSE g : Merging(m, q, l, g)
<1>1. l \in Nat
  BY LenProperties DEF Listed
<1>2. Merging(m, q, l, g)
  BY <1>1, MergingExists
<1>3. MergeAll(m, q) = g[l]
  BY DEF MergeAll, Merging
<1> HIDE DEF g, l
<1>4. \A n \in 0..l : g[n] = IF n = 0 THEN m ELSE MergeOne(g[n - 1], q[n])
  BY <1>2 DEF Merging
<1> DEFINE Still(n) == /\ Reached(g[n]) /\ g[n].records = m.records
                       /\ g[n].new = m.new /\ g[n].late = m.late /\ g[n].corrections = m.corrections
           T == {n \in Nat : n <= l => Still(n)}
<1>5. 0 \in T
  <2>1. g[0] = m
    BY <1>1, <1>4
  <2> QED BY <2>1
<1>6. ASSUME NEW n \in T PROVE n + 1 \in T
  <2> SUFFICES ASSUME n + 1 <= l PROVE Still(n + 1)
    OBVIOUS
  <2> DEFINE r == q[n + 1]  b == g[n]
  <2>1. n \in Nat /\ n <= l /\ n + 1 \in 0..l /\ n + 1 \in 1..l /\ n + 1 # 0 /\ (n + 1) - 1 = n
    BY <1>1
  <2>2. g[n + 1] = MergeOne(b, r)
    BY <1>4, <2>1
  <2>3. Still(n) /\ IsRecord(r) /\ \E x \in b.records : x.key = r.key /\ Same(x, r)
    BY <2>1 DEF l
  <2> HIDE DEF b, r
  <2>4. Reached(b) /\ b.records = m.records
        /\ b.new = m.new /\ b.late = m.late /\ b.corrections = m.corrections
    BY <2>3 DEF b
  <2>5. Reached(g[n + 1]) /\ g[n + 1] = [b EXCEPT !.duplicates = b.duplicates + 1]
    BY <2>2, <2>3, <2>4, OneMerged
  <2>6. PICK a, c, d, e, f, h : b = [records |-> a, newest |-> c, new |-> d, late |-> e,
                                     duplicates |-> f, corrections |-> h]
    BY <2>4 DEF Reached
  <2>7. g[n + 1].records = b.records /\ g[n + 1].new = b.new
        /\ g[n + 1].late = b.late /\ g[n + 1].corrections = b.corrections
    BY <2>5, <2>6
  <2> QED BY <2>4, <2>5, <2>7
<1>7. T = Nat
  <2> HIDE DEF T
  <2>1. T \in SUBSET Nat
    BY DEF T
  <2> QED BY <2>1, <1>5, <1>6, Induction
<1> QED BY <1>1, <1>3, <1>7

\* A record is inserted into a list of records.
LEMMA ByDateKeeps ==
    ASSUME NEW S, NEW r \in S, NEW q \in Seq(S)
    PROVE  ByDate(r, q) \in Seq(S) /\ ToSet(ByDate(r, q)) = ToSet(q) \cup {r}
<1> DEFINE E == {i \in DOMAIN q : q[i].date <= r.date}
           n == Cardinality(E)
<1>1. Len(q) \in Nat /\ DOMAIN q = 1..Len(q) /\ \A i \in 1..Len(q) : q[i] \in S
  BY LenProperties, ElementOfSeq
<1>2. n \in Nat /\ n <= Len(q)
  <2>1. IsFiniteSet(1..Len(q)) /\ Cardinality(1..Len(q)) = Len(q)
    <3>1. ASSUME NEW l \in Nat PROVE IsFiniteSet(1..l) /\ Cardinality(1..l) = l
      BY FS_Interval
    <3> QED BY <1>1, <3>1
  <2>2. E \in SUBSET (1..Len(q))
    BY <1>1
  <2> HIDE DEF E
  <2> QED BY <2>1, <2>2, FS_Subset, FS_CardinalityType
<1>3. ByDate(r, q) = SubSeq(q, 1, n) \o <<r>> \o SubSeq(q, n + 1, Len(q))
  <2>1. ByDate(r, q) = SubSeq(q, 1, (n + 1) - 1) \o <<r>> \o SubSeq(q, n + 1, Len(q))
    BY Zenon DEF ByDate, InsertAt
  <2>2. (n + 1) - 1 = n
    <3> HIDE DEF n
    <3> QED BY <1>2
  <2> HIDE DEF n
  <2> QED BY <2>1, <2>2
<1> HIDE DEF n
<1> DEFINE before == SubSeq(q, 1, n)  after == SubSeq(q, n + 1, Len(q))  w == before \o <<r>> \o after
<1>4. /\ before \in Seq(S) /\ Len(before) = n /\ \A i \in 1..n : before[i] = q[i]
      /\ after \in Seq(S) /\ Len(after) = Len(q) - n /\ \A i \in 1..(Len(q) - n) : after[i] = q[n + i]
      /\ <<r>> \in Seq(S) /\ Len(<<r>>) = 1 /\ <<r>>[1] = r
  <2>1. \A i \in 1..n : q[i] \in S
    BY <1>1, <1>2
  <2>2. \A i \in (n + 1)..Len(q) : q[i] \in S
    BY <1>1, <1>2
  <2>3. before \in Seq(S) /\ Len(before) = n /\ \A i \in 1..n : before[i] = q[i]
    BY <1>1, <1>2, <2>1, SubSeqProperties
  <2>4. after \in Seq(S) /\ Len(after) = Len(q) - n /\ \A i \in 1..(Len(q) - n) : after[i] = q[n + i]
    BY <1>1, <1>2, <2>2, SubSeqProperties
  <2> QED BY <2>3, <2>4
<1> HIDE DEF before, after
<1>5. /\ before \o <<r>> \in Seq(S) /\ Len(before \o <<r>>) = n + 1
      /\ \A i \in 1..(n + 1) : (before \o <<r>>)[i] = IF i <= n THEN q[i] ELSE r
  BY <1>2, <1>4, ConcatProperties
<1>6. /\ w \in Seq(S) /\ DOMAIN w = 1..(Len(q) + 1)
      /\ \A i \in 1..(Len(q) + 1) : w[i] = IF i <= n THEN q[i] ELSE IF i = n + 1 THEN r ELSE q[i - 1]
  <2> DEFINE b == before \o <<r>>
  <2>1. b \in Seq(S) /\ Len(b) = n + 1 /\ \A i \in 1..(n + 1) : b[i] = IF i <= n THEN q[i] ELSE r
    BY <1>5
  <2> HIDE DEF b
  <2>2. /\ b \o after \in Seq(S) /\ Len(b \o after) = Len(q) + 1
        /\ \A i \in 1..(Len(q) + 1) : (b \o after)[i] = IF i <= n + 1 THEN b[i] ELSE after[i - (n + 1)]
    BY <1>1, <1>2, <1>4, <2>1, ConcatProperties
  <2>3. \A i \in 1..(Len(q) + 1) : i > n + 1 => after[i - (n + 1)] = q[i - 1]
    <3> SUFFICES ASSUME NEW i \in 1..(Len(q) + 1), i > n + 1 PROVE after[i - (n + 1)] = q[i - 1]
      OBVIOUS
    <3>1. i - (n + 1) \in 1..(Len(q) - n) /\ n + (i - (n + 1)) = i - 1
      BY <1>1, <1>2
    <3> QED BY <1>4, <3>1
  <2>4. DOMAIN (b \o after) = 1..(Len(q) + 1)
    BY <2>2, LenProperties
  <2>5. w = b \o after
    BY DEF b
  <2> HIDE DEF w
  <2> QED BY <1>1, <1>2, <2>1, <2>2, <2>3, <2>4, <2>5
<1>7. ToSet(w) = ToSet(q) \cup {r}
  <2> HIDE DEF w
  <2>1. \A i \in DOMAIN w : w[i] \in ToSet(q) \cup {r}
    <3>1. \A i \in 1..(Len(q) + 1) :
            \/ i <= n /\ i \in 1..Len(q)
            \/ i = n + 1
            \/ i > n + 1 /\ i - 1 \in 1..Len(q)
      BY <1>1, <1>2
    <3>2. \A i \in 1..Len(q) : q[i] \in ToSet(q)
      BY <1>1 DEF ToSet
    <3>3. \A i \in 1..(Len(q) + 1) :
            w[i] = IF i <= n THEN q[i] ELSE IF i = n + 1 THEN r ELSE q[i - 1]
      BY <1>6
    <3> SUFFICES ASSUME NEW i \in 1..(Len(q) + 1) PROVE w[i] \in ToSet(q) \cup {r}
      BY <1>6
    <3>4. CASE i <= n /\ i \in 1..Len(q)
      BY <3>2, <3>3, <3>4
    <3>5. CASE i = n + 1
      BY <1>2, <3>3, <3>5
    <3>6. CASE i > n + 1 /\ i - 1 \in 1..Len(q)
      BY <1>2, <3>2, <3>3, <3>6
    <3> QED BY <3>1, <3>4, <3>5, <3>6
  <2>2. \A i \in DOMAIN q : \E j \in DOMAIN w : w[j] = q[i]
    <3>1. \A i \in 1..Len(q) : i <= n => i \in 1..(Len(q) + 1) /\ w[i] = q[i]
      BY <1>1, <1>2, <1>6
    <3>2. \A i \in 1..Len(q) : i > n => i + 1 \in 1..(Len(q) + 1) /\ w[i + 1] = q[i]
      <4> SUFFICES ASSUME NEW i \in 1..Len(q), i > n
                   PROVE  i + 1 \in 1..(Len(q) + 1) /\ w[i + 1] = q[i]
        OBVIOUS
      <4>1. i + 1 \in 1..(Len(q) + 1) /\ (i + 1) - 1 = i /\ ~(i + 1 <= n) /\ i + 1 # n + 1
        BY <1>1, <1>2
      <4> QED BY <1>6, <4>1
    <3> QED BY <1>1, <1>2, <1>6, <3>1, <3>2
  <2>3. n + 1 \in DOMAIN w /\ w[n + 1] = r
    BY <1>1, <1>2, <1>6
  <2> QED BY <2>1, <2>2, <2>3 DEF ToSet
<1> QED BY <1>3, <1>6, <1>7 DEF before, after

\* The equation of the recursive function in the fold that sorts.
Sorting(S, g) ==
    g = [s \in SUBSET S |-> IF s = {} THEN <<>> ELSE ByDate(Pick(s), g[s \ {Pick(s)}])]

\* There is such a function.
LEMMA SortingExists ==
    ASSUME NEW S, IsFiniteSet(S)
    PROVE  \E g : Sorting(S, g)
<1> DEFINE D(n) == {s \in SUBSET S : Cardinality(s) <= n}
           Body(g, s) == IF s = {} THEN <<>> ELSE ByDate(Pick(s), g[s \ {Pick(s)}])
           Has(n) == \E g : g = [s \in D(n) |-> Body(g, s)]
           T == {n \in Nat : Has(n)}
<1>1. 0 \in T
  <2>1. \A s \in D(0) : s = {}
    BY FS_Subset, FS_EmptySet, FS_CardinalityType
  <2> DEFINE g == [s \in D(0) |-> <<>>]
  <2>2. g = [s \in D(0) |-> Body(g, s)]
    BY <2>1
  <2> QED BY <2>2
<1>2. ASSUME NEW n \in T PROVE n + 1 \in T
  <2>1. PICK g : g = [s \in D(n) |-> Body(g, s)]
    OBVIOUS
  <2> DEFINE h == [s \in D(n + 1) |-> Body(g, s)]
  <2>2. \A s \in D(n + 1) : s # {} => s \ {Pick(s)} \in D(n) /\ s \ {Pick(s)} \in D(n + 1)
    BY PickSmaller
  <2>3. \A s \in D(n) : s \in D(n + 1) /\ h[s] = g[s]
    <3>1. \A s \in D(n) : g[s] = Body(g, s)
      BY <2>1
    <3>2. \A s \in D(n) : s \in D(n + 1)
      BY FS_Subset, FS_CardinalityType
    <3> HIDE DEF Body, D
    <3> QED BY <3>1, <3>2
  <2>4. \A s \in D(n + 1) : Body(g, s) = Body(h, s)
    <3> HIDE DEF h, D
    <3> QED BY <2>2, <2>3
  <2>5. h = [s \in D(n + 1) |-> Body(h, s)]
    <3> HIDE DEF Body, D
    <3> QED BY <2>4
  <2>6. Has(n + 1)
    <3> HIDE DEF h
    <3> QED BY <2>5
  <2> HIDE DEF Has
  <2> QED BY <2>6
<1>3. Cardinality(S) \in T
  <2>1. T = Nat
    <3> HIDE DEF T
    <3>1. T \in SUBSET Nat
      BY DEF T
    <3> QED BY <3>1, <1>1, <1>2, Induction
  <2> QED BY <2>1, FS_CardinalityType
<1>4. D(Cardinality(S)) = SUBSET S
  BY FS_Subset, FS_CardinalityType
<1>5. PICK g : g = [s \in SUBSET S |-> Body(g, s)]
  BY <1>3, <1>4
<1> QED BY <1>5 DEF Sorting

\* Sorting a finite set of records gives a list of just them.
LEMMA SortKeeps ==
    ASSUME NEW S, IsFiniteSet(S)
    PROVE  FoldSet(ByDate, <<>>, S) \in Seq(S) /\ ToSet(FoldSet(ByDate, <<>>, S)) = S
<1> DEFINE h == CHOOSE h : h = [s \in SUBSET S |-> IF s = {} THEN <<>>
                                   ELSE LET x == CHOOSE x \in s : TRUE IN ByDate(x, h[s \ {x}])]
<1>1. FoldSet(ByDate, <<>>, S) = h[S]
  BY DEF FoldSet, MapThenFoldSet
<1>2. PICK g : g = [s \in SUBSET S |-> IF s = {} THEN <<>>
                                   ELSE LET x == CHOOSE x \in s : TRUE IN ByDate(x, g[s \ {x}])]
  BY SortingExists DEF Sorting, Pick
<1>3. Sorting(S, h)
  <2>1. h = [s \in SUBSET S |-> IF s = {} THEN <<>>
                                   ELSE LET x == CHOOSE x \in s : TRUE IN ByDate(x, h[s \ {x}])]
    BY <1>2
  <2> QED BY <2>1 DEF Sorting, Pick
<1> HIDE DEF h
<1>4. \A s \in SUBSET S : h[s] = IF s = {} THEN <<>> ELSE ByDate(Pick(s), h[s \ {Pick(s)}])
  BY <1>3 DEF Sorting
<1> DEFINE Sorted(s) == h[s] \in Seq(S) /\ ToSet(h[s]) = s
           T == {n \in Nat : \A s \in SUBSET S : Cardinality(s) = n => Sorted(s)}
<1>5. 0 \in T
  <2>1. \A s \in SUBSET S : Cardinality(s) = 0 => s = {}
    BY FS_Subset, FS_EmptySet
  <2>2. h[{}] = <<>> /\ <<>> \in Seq(S) /\ ToSet(<<>>) = {}
    <3>1. \A i : i \notin DOMAIN <<>>
      BY EmptySeq, LenProperties
    <3> QED BY <1>4, <3>1, EmptySeq DEF ToSet
  <2> QED BY <2>1, <2>2
<1>6. ASSUME NEW n \in T PROVE n + 1 \in T
  <2> SUFFICES ASSUME NEW s \in SUBSET S, Cardinality(s) = n + 1 PROVE Sorted(s)
    OBVIOUS
  <2>1. s # {}
    <3>1. Cardinality({}) = 0 /\ n \in Nat
      BY FS_EmptySet
    <3> HIDE DEF T
    <3> QED BY <3>1
  <2>2. Pick(s) \in S /\ s \ {Pick(s)} \in SUBSET S /\ Cardinality(s \ {Pick(s)}) = n
    BY <2>1, PickSmaller
  <2> DEFINE p == Pick(s)  rest == s \ {p}
  <2>3. Sorted(rest) /\ p \in S /\ s = rest \cup {p}
    <3>1. Pick(s) \in s
      BY <2>1 DEF Pick
    <3> QED BY <2>2, <3>1
  <2>4. h[s] = ByDate(p, h[rest])
    BY <1>4, <2>1
  <2> HIDE DEF p, rest
  <2>5. ByDate(p, h[rest]) \in Seq(S) /\ ToSet(ByDate(p, h[rest])) = ToSet(h[rest]) \cup {p}
    BY <2>3, ByDateKeeps
  <2> QED BY <2>3, <2>4, <2>5
<1>7. T = Nat
  <2> HIDE DEF T
  <2>1. T \in SUBSET Nat
    BY DEF T
  <2> QED BY <2>1, <1>5, <1>6, Induction
<1> QED BY <1>1, <1>7, FS_CardinalityType

\* The record a key stands for is on file under that key.
LEMMA LatestIs ==
    ASSUME NEW q, Listed(q), NEW k \in Keys(q)
    PROVE  Latest(q, k) \in ToSet(q) /\ Latest(q, k).key = k
<1>1. Len(q) \in Nat /\ DOMAIN q = 1..Len(q)
  BY LenProperties DEF Listed
<1> DEFINE LastIs(i, n) == i \in 1..n /\ q[i].key = k /\ \A j \in 1..n : q[j].key = k => j <= i
           T == {n \in Nat : (\E i \in 1..n : q[i].key = k) => \E i \in 1..n : LastIs(i, n)}
<1>2. 0 \in T
  OBVIOUS
<1>3. ASSUME NEW n \in T PROVE n + 1 \in T
  <2>1. \A j : j \in 1..(n + 1) <=> j \in 1..n \/ j = n + 1
    OBVIOUS
  <2>2. CASE q[n + 1].key = k
    <3>1. LastIs(n + 1, n + 1)
      BY <2>2
    <3> QED BY <2>1, <3>1
  <2>3. CASE q[n + 1].key # k
    <3>1. \A i : LastIs(i, n) => LastIs(i, n + 1)
      BY <2>1, <2>3
    <3> QED BY <2>1, <2>3, <3>1
  <2> QED BY <2>2, <2>3
<1>4. T = Nat
  <2> HIDE DEF T
  <2>1. T \in SUBSET Nat
    BY DEF T
  <2> QED BY <2>1, <1>2, <1>3, Induction
<1>5. \E i \in 1..Len(q) : q[i].key = k
  BY <1>1 DEF Keys, ToSet
<1>6. \E i \in DOMAIN q : q[i].key = k /\ \A j \in DOMAIN q : q[j].key = k => j <= i
  BY <1>1, <1>4, <1>5
<1> QED BY <1>6 DEF Latest, ToSet

\* A merge starts from one record for each key on file, and sorts what it reaches.
MergesFrom(existing, incoming, m) ==
    LET all == MergeAll(m, incoming)
        result == DiffAndMerge(existing, incoming)
    IN /\ Reached(m) /\ Reached(all)
       /\ m.records = {Latest(existing, k) : k \in Keys(existing)}
       /\ m.new = 0 /\ m.late = 0 /\ m.corrections = 0
       /\ result = [all EXCEPT !.records = FoldSet(ByDate, <<>>, all.records)]
       /\ result.records = FoldSet(ByDate, <<>>, all.records)
       /\ ToSet(result.records) = all.records
       /\ Dataset(result.records)

\* Every merge is of that form.
LEMMA DiffAndMergeIs ==
    ASSUME NEW existing, Dataset(existing), NEW incoming, Dataset(incoming)
    PROVE  \E m : MergesFrom(existing, incoming, m)
<1> DEFINE old == {Latest(existing, k) : k \in Keys(existing)}
           m == [records |-> old, newest |-> Max({0} \cup {r.date : r \in ToSet(existing)}),
                 new |-> 0, late |-> 0, duplicates |-> 0, corrections |-> 0]
           all == MergeAll(m, incoming)
           result == DiffAndMerge(existing, incoming)
<1>1. /\ Listed(existing) /\ \A i \in 1..Len(existing) : IsRecord(existing[i])
      /\ Listed(incoming) /\ \A i \in 1..Len(incoming) : IsRecord(incoming[i])
  BY DatasetsListed
<1>2. Len(existing) \in Nat /\ DOMAIN existing = 1..Len(existing)
  BY <1>1, LenProperties DEF Listed
<1>3. IsFiniteSet(old)
  <2> DEFINE f == [i \in DOMAIN existing |-> Latest(existing, existing[i].key)]
  <2>1. \A k \in Keys(existing) : \E i \in DOMAIN existing : existing[i].key = k
    BY DEF Keys, ToSet
  <2>2. \A i \in DOMAIN existing : existing[i].key \in Keys(existing)
    BY DEF Keys, ToSet
  <2>3. f \in Surjection(DOMAIN existing, old)
    <3>1. \A i \in DOMAIN existing : f[i] \in old
      BY <2>2
    <3>2. \A x \in old : \E i \in DOMAIN existing : f[i] = x
      BY <2>1
    <3> QED BY <3>1, <3>2 DEF Surjection
  <2>4. IsFiniteSet(DOMAIN existing)
    BY <1>2, FS_Interval
  <2> HIDE DEF f, old
  <2> QED BY <2>3, <2>4, FS_Surjection
<1>4. Keyed(old)
  <2>1. \A k \in Keys(existing) : IsRecord(Latest(existing, k)) /\ Latest(existing, k).key = k
    BY <1>1, <1>2, LatestIs DEF ToSet
  <2> QED BY <1>3, <2>1 DEF Keyed
<1>5. Reached(m) /\ m.records = old /\ m.new = 0 /\ m.late = 0 /\ m.corrections = 0
  <2> HIDE DEF old
  <2> QED BY <1>4 DEF Reached
<1>6. result = [all EXCEPT !.records = FoldSet(ByDate, <<>>, @)]
  BY DEF DiffAndMerge
<1> HIDE DEF m
<1>7. Reached(all)
  BY <1>1, <1>5, AllPlain
<1> HIDE DEF all, result
<1>8. result.records = FoldSet(ByDate, <<>>, all.records)
  BY <1>6, <1>7 DEF Reached
<1>9. result.records \in Seq(all.records) /\ ToSet(result.records) = all.records
  BY <1>7, <1>8, SortKeeps DEF Reached, Keyed
<1>10. Dataset(result.records)
  <2>1. \A i \in 1..Len(result.records) : result.records[i] \in all.records
    BY <1>9, ElementOfSeq
  <2> QED BY <1>7, <1>9, <2>1, ListOfIts, DatasetsListed DEF Reached, Keyed
<1> QED BY <1>5, <1>6, <1>7, <1>8, <1>9, <1>10 DEF all, result, MergesFrom

\* The datasets of a run are lists.
LEMMA MergedListed ==
    ASSUME NEW base, \A e \in DOMAIN base : Dataset(base[e]),
           NEW update, update = None \/ Dataset(update.records)
    PROVE  \A e \in DOMAIN Merged(base, update) : Listed(Merged(base, update)[e])
<1>1. CASE update = None
  BY <1>1, DatasetsListed DEF Merged
<1>2. CASE update # None
  <2> DEFINE existing(e) == IF e \in DOMAIN base THEN base[e] ELSE <<>>
  <2>1. Merged(base, update) =
            [e \in DOMAIN base \cup {update.entity} |->
                IF e # update.entity THEN base[e]
                ELSE DiffAndMerge(existing(e), update.records).records]
    BY <1>2 DEF Merged
  <2>2. \A e : Dataset(existing(e))
    BY NothingIsDataset
  <2>3. \A e : Dataset(DiffAndMerge(existing(e), update.records).records)
    BY <1>2, <2>2, DiffAndMergeIs DEF MergesFrom
  <2> HIDE DEF existing
  <2> QED BY <2>1, <2>3, DatasetsListed
<1> QED BY <1>1, <1>2

-----------------------------------------------------------------------------
(* The inductive invariant.                                                *)

\* What the session of a request holds back at each point.
PendingFollowsState ==
    /\ state \in [Requests -> {"new", "lookup", "discover", "execute", "answered", "dead"}]
    /\ pending = [r \in Requests |-> CASE state[r] = "discover" -> {"run"}
                                       [] state[r] = "execute" -> {"run", "states"}
                                       [] OTHER -> {}]

\* The form of a committed row, and what is committed of a run.
RowOK(row) ==
    /\ row = [id |-> row.id, base |-> row.base, update |-> row.update,
              status |-> row.status, parts |-> row.parts, done |-> row.done]
    /\ row.id \in Requests \X {"run", "stub"}
    /\ row.id[2] = "run" => row.parts = Parts /\ row.status = OverallStatus(row.done)
    /\ row.base \in DOMAIN DataOf /\ (row.update = None \/ Dataset(row.update.records))
    /\ row.done \in {None, Run(DataOf[row.base], row.update, <<>>)}
RowsOK == \A row \in rows : RowOK(row)

\* The run a request is answered with.
AnswerOK(r) ==
    (answer[r].status \in Terminal /\ answer[r].run # Stub(r)) =>
        \E row \in rows : /\ row.id = answer[r].run /\ row.base = asks[r].base
                          /\ row.parts = Parts \/ row.id[2] = "stub"
AnswersOK == DOMAIN answer = Requests /\ \A r \in Requests : AnswerOK(r)

IInv == asks \in Asks /\ PendingFollowsState /\ RowsOK /\ AnswersOK

-----------------------------------------------------------------------------
(***************************************************************************)
(* Sessions.                                                               *)
(***************************************************************************)
LEMMA InitInvariant == Init => IInv
<1> SUFFICES ASSUME Init PROVE IInv
  OBVIOUS
<1>1. PendingFollowsState /\ RowsOK
  BY DEF Init, PendingFollowsState, RowsOK
<1>2. AnswersOK
  BY DEF Init, AnswersOK, AnswerOK, NoAnswer, Terminal
<1> QED
  BY <1>1, <1>2 DEF IInv, Init

\* Every step leaves a session with what its point says.
LEMMA SessionsPreserved ==
    ASSUME PendingFollowsState, Next
    PROVE  PendingFollowsState'
<1> DEFINE States == {"new", "lookup", "discover", "execute", "answered", "dead"}
<1>1. PICK r \in Requests :
        \/ SubmitHit(r) \/ SubmitMiss(r) \/ ServiceHit(r) \/ ServiceMiss(r)
        \/ DiscoverCapabilities(r) \/ ExecuteAndCommit(r) \/ Fail(r) \/ Raise(r) \/ Die(r)
  BY DEF Next
<1>2. state \in [Requests -> States] /\ state[r] \in States
  BY DEF PendingFollowsState
<1>3. ASSUME NEW s \in States, state' = [state EXCEPT ![r] = s],
             \/ /\ s \notin {"discover", "execute"}
                /\ pending' = [pending EXCEPT ![r] = {}]
             \/ /\ {s, state[r]} \cap {"discover", "execute"} = {}
                /\ pending' = pending
             \/ s = "discover" /\ pending' = [pending EXCEPT ![r] = {"run"}]
             \/ s = "execute" /\ pending' = [pending EXCEPT ![r] = {"run", "states"}]
      PROVE  PendingFollowsState'
  BY <1>2, <1>3 DEF PendingFollowsState
<1>4. CASE SubmitHit(r) \/ SubmitMiss(r) \/ ServiceHit(r) \/ Raise(r)
  BY <1>2, <1>3, <1>4 DEF SubmitHit, SubmitMiss, ServiceHit, Raise, Goes
<1>5. CASE ServiceMiss(r)
  BY <1>2, <1>3, <1>5 DEF ServiceMiss, Goes
<1>6. CASE DiscoverCapabilities(r)
  <2>1. pending[r] = {"run"} /\ pending' = [pending EXCEPT ![r] = @ \cup {"states"}]
    BY <1>6 DEF DiscoverCapabilities, PendingFollowsState
  <2>2. pending' = [pending EXCEPT ![r] = {"run", "states"}]
    BY <2>1
  <2> QED
    BY <1>3, <1>6, <2>2 DEF DiscoverCapabilities, Goes
<1>7. CASE ExecuteAndCommit(r) \/ Fail(r) \/ Die(r)
  BY <1>3, <1>7 DEF ExecuteAndCommit, Fail, Die, Goes
<1> QED
  BY <1>1, <1>4, <1>5, <1>6, <1>7

-----------------------------------------------------------------------------
(***************************************************************************)
(* Rows and answers.                                                       *)
(***************************************************************************)

\* A stub is a row as it should be, whatever its status.
LEMMA StubIsRow ==
    ASSUME asks \in Asks, NEW r \in Requests, NEW status, NEW parts
    PROVE  RowOK(Row(r, Stub(r), status, parts, None))
BY AsksAssumption DEF RowOK, Row, Stub

\* Whoever has been answered stays answered while rows keep their ids and parts.
LEMMA AnswersStay ==
    ASSUME NEW r, AnswerOK(r), asks' = asks, answer'[r] = answer[r],
           \A row \in rows : \E new \in rows' :
               new.id = row.id /\ new.base = row.base /\ new.parts = row.parts
    PROVE  AnswerOK(r)'
<1>1. Stub(r)' = Stub(r)
  BY DEF Stub
<1> QED
  BY <1>1 DEF AnswerOK

\* A hit is a row as it should be, and answers the request.
LEMMA HitAnswers ==
    ASSUME RowsOK, UNCHANGED <<asks, rows>>, NEW r \in Requests, NEW row \in Hits(r),
           answer'[r].run = row.id
    PROVE  AnswerOK(r)'
<1>1. row \in rows /\ row.base = asks[r].base
  BY DEF Hits, OfHash
<1>2. row.id[2] \in {"run", "stub"} /\ (row.id[2] = "run" => row.parts = Parts)
  BY <1>1 DEF RowsOK, RowOK
<1> QED
  BY <1>1, <1>2 DEF AnswerOK

\* Every step keeps the rows as they should be, and the answers pointing at them.
LEMMA RowsPreserved ==
    ASSUME IInv, Next
    PROVE  RowsOK' /\ AnswersOK'
<1>1. PICK r \in Requests :
        \/ SubmitHit(r) \/ SubmitMiss(r) \/ ServiceHit(r) \/ ServiceMiss(r)
        \/ DiscoverCapabilities(r) \/ ExecuteAndCommit(r) \/ Fail(r) \/ Raise(r) \/ Die(r)
  BY DEF Next
<1>2. /\ RowsOK /\ DOMAIN answer = Requests /\ asks' = asks /\ asks \in Asks
      /\ \A s \in Requests : AnswerOK(s)
  BY <1>1 DEF IInv, AnswersOK, SubmitHit, SubmitMiss, ServiceHit, ServiceMiss,
              DiscoverCapabilities, ExecuteAndCommit, Fail, Raise, Die
<1>3. ASSUME rows \subseteq rows', \A row \in rows' \ rows : RowOK(row),
             \/ UNCHANGED answer
             \/ \E new : answer' = [answer EXCEPT ![r] = new] /\ AnswerOK(r)'
      PROVE  RowsOK' /\ AnswersOK'
  <2>1. RowsOK'
    BY <1>2, <1>3 DEF RowsOK
  <2>2. \A s \in Requests : answer'[s] = answer[s] => AnswerOK(s)'
    BY <1>2, <1>3, AnswersStay
  <2>3. \A s \in Requests : answer'[s] = answer[s] \/ (s = r /\ AnswerOK(r)')
    BY <1>2, <1>3
  <2>4. DOMAIN answer' = Requests
    BY <1>2, <1>3
  <2> QED
    BY <2>1, <2>2, <2>3, <2>4 DEF AnswersOK
<1>4. CASE SubmitHit(r)
  <2>1. PICK row \in Hits(r) : Answers(r, row.status, row.id, TRUE) /\ UNCHANGED <<asks, rows>>
    BY <1>4 DEF SubmitHit
  <2>2. answer'[r].run = row.id
    BY <1>2, <2>1 DEF Answers
  <2>3. AnswerOK(r)'
    BY <1>2, <2>1, <2>2, HitAnswers
  <2> QED
    BY <1>3, <2>1, <2>3 DEF Answers
<1>5. CASE ServiceHit(r)
  <2>1. PICK row \in Hits(r) :
           /\ IF asks[r].background THEN UNCHANGED answer ELSE Answers(r, row.status, row.id, FALSE)
           /\ UNCHANGED <<asks, rows>>
    BY <1>5 DEF ServiceHit
  <2>2. CASE UNCHANGED answer
    BY <1>3, <2>1, <2>2
  <2>3. CASE Answers(r, row.status, row.id, FALSE)
    <3>1. answer'[r].run = row.id
      BY <1>2, <2>3 DEF Answers
    <3>2. AnswerOK(r)'
      BY <1>2, <2>1, <3>1, HitAnswers
    <3> QED
      BY <1>3, <2>1, <2>3, <3>2 DEF Answers
  <2> QED
    BY <2>1, <2>2, <2>3
<1>6. CASE SubmitMiss(r)
  <2> DEFINE stub == Row(r, Stub(r), "QUEUED", {"run"}, None)
  <2>1. RowOK(stub)
    BY <1>2, StubIsRow
  <2>2. rows' = rows \/ rows' = rows \cup {stub}
    BY <1>6 DEF SubmitMiss
  <2>3. UNCHANGED answer \/ Answers(r, "QUEUED", Stub(r), FALSE)
    BY <1>6 DEF SubmitMiss
  <2>4. Answers(r, "QUEUED", Stub(r), FALSE) => AnswerOK(r)'
    BY <1>2 DEF Answers, AnswerOK, Terminal
  <2> HIDE DEF stub
  <2> QED
    BY <1>3, <2>1, <2>2, <2>3, <2>4 DEF Answers
<1>7. CASE ServiceMiss(r) \/ DiscoverCapabilities(r) \/ Die(r)
  <2>1. UNCHANGED <<rows, answer>>
    BY <1>7 DEF ServiceMiss, DiscoverCapabilities, Die
  <2> QED
    BY <1>3, <2>1
<1>8. CASE ExecuteAndCommit(r)
  <2> DEFINE done == Run(DataOf[asks[r].base], asks[r].update, <<>>)
             status == OverallStatus(done)
  <2>1. /\ rows' = rows \cup {Row(r, Real(r), status, pending[r] \cup {"snapshot", "summary"}, done)}
        /\ IF asks[r].background THEN UNCHANGED answer ELSE Answers(r, status, Real(r), FALSE)
    BY <1>8 DEF ExecuteAndCommit
  <2> DEFINE new == Row(r, Real(r), status, pending[r] \cup {"snapshot", "summary"}, done)
  <2>2. pending[r] \cup {"snapshot", "summary"} = Parts
    BY <1>8 DEF ExecuteAndCommit, IInv, PendingFollowsState, Parts
  <2>3. RowOK(new) /\ new.id = Real(r) /\ new.base = asks[r].base /\ new.parts = Parts
    BY <1>2, <2>2, AsksAssumption DEF RowOK, Row, Real
  <2>4. rows' = rows \cup {new}
    BY <2>1
  <2> HIDE DEF new, status, done
  <2>5. Answers(r, status, Real(r), FALSE) => AnswerOK(r)'
    BY <1>2, <2>3, <2>4 DEF Answers, AnswerOK
  <2> QED
    BY <1>3, <2>1, <2>3, <2>4, <2>5 DEF Answers
<1>9. CASE Fail(r)
  <2>1. Answers(r, "FAILED", Real(r), FALSE) => AnswerOK(r)'
    BY <1>2 DEF Answers, AnswerOK, Terminal
  <2>2. rows' = rows /\ (UNCHANGED answer \/ Answers(r, "FAILED", Real(r), FALSE))
    BY <1>9 DEF Fail
  <2> QED
    BY <1>3, <2>1, <2>2 DEF Answers
<1>10. CASE Raise(r)
  <2>1. CASE rows' = {IF row.id = Stub(r) THEN [row EXCEPT !.status = "FAILED"] ELSE row : row \in rows}
             /\ UNCHANGED answer
    <3>1. ASSUME NEW row, RowOK(row), row.id = Stub(r)
          PROVE  /\ RowOK([row EXCEPT !.status = "FAILED"])
                 /\ [row EXCEPT !.status = "FAILED"].id = row.id
                 /\ [row EXCEPT !.status = "FAILED"].base = row.base
                 /\ [row EXCEPT !.status = "FAILED"].parts = row.parts
      BY <3>1 DEF RowOK, Stub
    <3>2. RowsOK'
      BY <1>2, <2>1, <3>1 DEF RowsOK
    <3>3. \A row \in rows : \E new \in rows' :
             new.id = row.id /\ new.base = row.base /\ new.parts = row.parts
      BY <1>2, <2>1, <3>1 DEF RowsOK
    <3>4. \A s \in Requests : AnswerOK(s)'
      BY <1>2, <2>1, <3>3, AnswersStay
    <3> QED
      BY <1>2, <2>1, <3>2, <3>4 DEF AnswersOK
  <2>2. CASE rows' = rows /\ UNCHANGED answer
    BY <1>3, <2>2
  <2>3. CASE /\ \/ rows' = rows \cup {Row(r, Stub(r), "COMPLETED", {"run"}, None)}
                \/ rows' = rows
             /\ Answers(r, "COMPLETED", Stub(r), FALSE)
    <3> DEFINE shell == Row(r, Stub(r), "COMPLETED", {"run"}, None)
    <3>1. RowOK(shell)
      BY <1>2, StubIsRow
    <3>2. rows' = rows \/ rows' = rows \cup {shell}
      BY <2>3
    <3>3. Stub(r)' = Stub(r) /\ answer'[r].run = Stub(r)
      BY <1>2, <2>3 DEF Answers, Stub
    <3>4. AnswerOK(r)'
      BY <3>3 DEF AnswerOK
    <3> HIDE DEF shell
    <3> QED
      BY <1>3, <2>3, <3>1, <3>2, <3>4 DEF Answers
  <2> QED
    BY <1>10, <2>1, <2>2, <2>3 DEF Raise
<1> QED
  BY <1>1, <1>4, <1>5, <1>6, <1>7, <1>8, <1>9, <1>10

-----------------------------------------------------------------------------
\* Sessions, rows and answers are as described in every reachable state of
\* submit_run and run_autonomous_intelligence (service.py:86-262).
THEOREM Invariant == Spec => []IInv
<1>1. Init => IInv
  BY InitInvariant
<1>2. IInv /\ [Next]_vars => IInv'
  <2> SUFFICES ASSUME IInv, [Next]_vars PROVE IInv'
    OBVIOUS
  <2>1. CASE Next
    <3>1. asks' = asks
      BY <2>1 DEF Next, SubmitHit, SubmitMiss, ServiceHit, ServiceMiss,
                  DiscoverCapabilities, ExecuteAndCommit, Fail, Raise, Die
    <3> QED
      BY <2>1, <3>1, SessionsPreserved, RowsPreserved DEF IInv
  <2>2. CASE UNCHANGED vars
    <3>1. UNCHANGED <<asks, state, pending>> /\ UNCHANGED <<rows, answer>>
      BY <2>2 DEF vars
    <3>2. PendingFollowsState' /\ RowsOK'
      BY <3>1 DEF IInv, PendingFollowsState, RowsOK
    <3>3. \A r \in Requests : AnswerOK(r)'
      BY <3>1, AnswersStay DEF IInv, AnswersOK
    <3>4. AnswersOK'
      BY <3>1, <3>3 DEF IInv, AnswersOK
    <3> QED
      BY <3>1, <3>2, <3>4 DEF IInv
  <2> QED
    BY <2>1, <2>2
<1> QED
  BY <1>1, <1>2, PTL DEF Spec

\* A request answered with an ended run gets one that was committed whole, over the
\* same datasets, or a shell, whatever fails or dies (service.py:86-97, 255-262).
THEOREM WholeHits == Spec => []HitsAreWhole
<1>1. IInv => HitsAreWhole
  BY DEF IInv, RowsOK, RowOK, AnswersOK, AnswerOK, HitsAreWhole
<1> QED
  BY <1>1, Invariant, PTL

\* A run that is stored as computed is the pipeline over its datasets, which are lists.
LEMMA ComputedIs ==
    ASSUME RowsOK, NEW row \in Computed
    PROVE  LET data == Merged(DataOf[row.base], row.update)
           IN /\ \A e \in DOMAIN data : Listed(data[e])
              /\ row.done = ExecutePipeline(Discover(data), data, Affected(DataOf[row.base], row.update), <<>>)
<1>1. RowOK(row) /\ row.done # None
  BY DEF Computed, RowsOK
<1>2. row.done = Run(DataOf[row.base], row.update, <<>>)
  BY <1>1 DEF RowOK
<1>3. \A e \in DOMAIN DataOf[row.base] : Dataset(DataOf[row.base][e])
  BY <1>1, DataAssumption DEF RowOK
<1>4. row.update = None \/ Dataset(row.update.records)
  BY <1>1 DEF RowOK
<1> QED BY <1>2, <1>3, <1>4, MergedListed DEF Run

\* What a run reports as completed was computed over a dataset that is long enough,
\* and over completed capabilities all the way up (discovery.py:228-320,
\* automation.py:63-196).
THEOREM UpstreamIsCompleted == Spec => []UpstreamCompleted
<1>1. ASSUME RowsOK, NEW row \in Computed, NEW c \in Completed(row.done)
      PROVE  /\ REGISTRY[c].upstream \cup DEPENDENCY_GRAPH[c] \subseteq Completed(row.done)
             /\ Len(row.done[c].output[1]) >= REGISTRY[c].history
             /\ Len(row.done[c].output[1]) > 0
  <2> DEFINE data == Merged(DataOf[row.base], row.update)
             recompute == Affected(DataOf[row.base], row.update)
  <2>1. /\ \A e \in DOMAIN data : Listed(data[e])
        /\ row.done = ExecutePipeline(Discover(data), data, recompute, <<>>)
    BY <1>1, ComputedIs
  <2> HIDE DEF data, recompute
  <2>2. c \in Capability /\ row.done[c].status = "COMPLETED"
    BY DEF Completed
  <2>3. /\ Discover(data)[c] \notin Refused
        /\ row.done[c].output[1] = data[REGISTRY[c].entity]
        /\ DEPENDENCY_GRAPH[c] \subseteq Completed(row.done)
    BY <2>1, <2>2, CompletedInOrder
  <2>4. PICK available : Discover(data)[c] = StatusOf(c, data, available)
    BY <2>2, DiscoverGives
  <2>5. /\ Len(data[REGISTRY[c].entity]) >= REGISTRY[c].history
        /\ Len(data[REGISTRY[c].entity]) > 0
    BY <2>1, <2>2, <2>3, <2>4, NotRefused
  <2> QED BY <2>2, <2>3, <2>5, TablesAgree
<1>2. IInv => UpstreamCompleted
  BY <1>1 DEF IInv, UpstreamCompleted
<1> QED
  BY <1>2, Invariant, PTL

\* An update leaves alone what it does not affect, and what that reads.
LEMMA UnaffectedAlike ==
    ASSUME NEW base, NEW update
    PROVE  LET C == Capability \ Affected(base, update)
           IN Closed(C) /\ Alike(C, base, Merged(base, update))
<1> DEFINE R == Affected(base, update)  C == Capability \ R  e == update.entity
<1>1. CASE R = Capability
  BY <1>1 DEF Closed, Alike
<1>2. CASE R # Capability
  <2>1. update # None /\ R = IF e \in Entity THEN ENTITY_CAPABILITY_GRAPH[e] ELSE {}
    BY <1>2 DEF Affected
  <2>2. ASSUME NEW c \in C
        PROVE  /\ REGISTRY[c].entity # e
               /\ DEPENDENCY_GRAPH[c] \cup ReadsOutput[c] \subseteq C
    BY <2>1, TablesAgree, GraphClosed
  <2>3. /\ DOMAIN Merged(base, update) = DOMAIN base \cup {e}
        /\ \A x \in DOMAIN base \ {e} : Merged(base, update)[x] = base[x]
    BY <2>1 DEF Merged
  <2>4. C \subseteq Capability
    OBVIOUS
  <2> HIDE DEF R, C
  <2>5. Closed(C)
    BY <2>2, <2>4 DEF Closed
  <2>6. Alike(C, base, Merged(base, update))
    BY <2>2, <2>3, <2>4 DEF Alike
  <2> USE DEF R, C
  <2> QED BY <2>5, <2>6
<1> QED BY <1>1, <1>2

\* Selective recomputation from the outputs of a stored run gives what computing
\* everything again gives, for any update (automation.py:113-120, 150-163,
\* incremental.py:60-106).
THEOREM ReuseIsCurrent == Spec => []ReusedIsCurrent
<1>1. ASSUME RowsOK, NEW row \in Computed, NEW update
      PROVE  LET base == Merged(DataOf[row.base], row.update)
                 cache == [c \in Completed(row.done) |-> row.done[c].output]
                 again == Run(base, update, cache)
                 afresh == Run(base, update, <<>>)
             IN \A c \in Capability : /\ again[c].status = afresh[c].status
                                      /\ again[c].output = afresh[c].output
  <2> DEFINE base == Merged(DataOf[row.base], row.update)
             earlier == Affected(DataOf[row.base], row.update)
             done == ExecutePipeline(Discover(base), base, earlier, <<>>)
             cache == [c \in Completed(done) |-> done[c].output]
             other == Merged(base, update)
             recompute == Affected(base, update)
             again == ExecutePipeline(Discover(other), other, recompute, cache)
             afresh == ExecutePipeline(Discover(other), other, recompute, <<>>)
  <2>1. row.done = done
    BY <1>1, ComputedIs
  <2>2. Closed(Capability \ recompute) /\ Alike(Capability \ recompute, base, other)
    BY UnaffectedAlike
  <2>3. \A c \in Capability : Equal(again[c], afresh[c])
    <3> HIDE DEF base, earlier, other, recompute
    <3> QED BY <2>2, ReuseIsSound
  <2>4. Run(base, update, cache) = again /\ Run(base, update, <<>>) = afresh
    BY DEF Run
  <2> QED BY <2>1, <2>3, <2>4 DEF Equal
<1>2. IInv => ReusedIsCurrent
  BY <1>1 DEF IInv, ReusedIsCurrent
<1> QED
  BY <1>2, Invariant, PTL

\* Over what a list left, the list again finds each of its records the way it left it.
LEMMA MergedTwice ==
    ASSUME NEW existing, Dataset(existing), NEW q, Dataset(q)
    PROVE  LET first == DiffAndMerge(existing, q)
               second == DiffAndMerge(first.records, q)
           IN /\ Plains(ToSet(second.records)) = Plains(ToSet(first.records))
              /\ Cardinality(Keys(q)) = Len(q) =>
                    second.records = first.records /\ ~Changes(second)
<1> DEFINE first == DiffAndMerge(existing, q)
           second == DiffAndMerge(first.records, q)
           l == Len(q)
<1>1. PICK m1 : MergesFrom(existing, q, m1)
  BY DiffAndMergeIs
<1> DEFINE all1 == MergeAll(m1, q)
<1>2. /\ Reached(m1) /\ Reached(all1)
      /\ first.records = FoldSet(ByDate, <<>>, all1.records)
      /\ ToSet(first.records) = all1.records /\ Dataset(first.records)
  BY <1>1 DEF MergesFrom
<1> HIDE DEF first
<1>3. PICK m2 : MergesFrom(first.records, q, m2)
  BY <1>2, DiffAndMergeIs
<1> DEFINE all2 == MergeAll(m2, q)
<1>4. /\ Reached(m2) /\ Reached(all2)
      /\ m2.records = {Latest(first.records, k) : k \in Keys(first.records)}
      /\ m2.new = 0 /\ m2.late = 0 /\ m2.corrections = 0
      /\ second = [all2 EXCEPT !.records = FoldSet(ByDate, <<>>, all2.records)]
      /\ second.records = FoldSet(ByDate, <<>>, all2.records)
      /\ ToSet(second.records) = all2.records
  BY <1>3 DEF MergesFrom
<1> HIDE DEF second
<1>5. Listed(q) /\ l \in Nat /\ DOMAIN q = 1..l /\ \A i \in 1..l : IsRecord(q[i])
  BY DatasetsListed, LenProperties DEF Listed
<1>6. m2.records = all1.records
  <2>1. Listed(first.records) /\ ToSet(first.records) = all1.records
    BY <1>2, DatasetsListed
  <2>2. \A k \in Keys(first.records) :
          Latest(first.records, k) \in all1.records /\ Latest(first.records, k).key = k
    BY <2>1, LatestIs
  <2>3. \A r, s \in all1.records : r.key = s.key => r = s
    BY <1>2 DEF Reached, Keyed
  <2>4. \A r \in all1.records : r.key \in Keys(first.records)
    BY <2>1 DEF Keys
  <2> HIDE DEF all1
  <2>5. \A r \in all1.records : r = Latest(first.records, r.key)
    BY <2>2, <2>3, <2>4
  <2> QED BY <1>4, <2>2, <2>4, <2>5
<1>7. /\ Plains(all1.records) = {p \in Plains(m1.records) : p.key \notin KeysTo(q, l)}
                                  \cup {Plain(q[i]) : i \in LastOf(q, l)}
      /\ Plains(all2.records) = {p \in Plains(m2.records) : p.key \notin KeysTo(q, l)}
                                  \cup {Plain(q[i]) : i \in LastOf(q, l)}
  BY <1>2, <1>4, <1>5, AllPlain
<1>8. Plains(all2.records) = Plains(all1.records)
  <2>1. \A i \in LastOf(q, l) : Plain(q[i]).key \in KeysTo(q, l)
    <3>1. \A i \in LastOf(q, l) : i \in 1..l
      BY DEF LastOf
    <3> QED BY <1>5, <3>1, Versions DEF KeysTo
  <2> HIDE DEF all1, all2, l
  <2> QED BY <1>6, <1>7, <2>1
<1>9. ASSUME Cardinality(Keys(q)) = l
      PROVE  second.records = first.records /\ ~Changes(second)
  <2>1. \A i, j \in 1..l : q[i].key = q[j].key => i = j
    <3> DEFINE f == [i \in 1..l |-> q[i].key]
    <3>1. f \in Surjection(1..l, Keys(q))
      BY <1>5 DEF Surjection, Keys, ToSet
    <3>2. IsFiniteSet(1..l) /\ Cardinality(1..l) = l
      <4>1. ASSUME NEW n \in Nat PROVE IsFiniteSet(1..n) /\ Cardinality(1..n) = n
        BY FS_Interval
      <4> QED BY <1>5, <4>1
    <3> HIDE DEF f, l
    <3>3. f \in Injection(1..l, Keys(q))
      BY <1>9, <3>1, <3>2, FS_Surjection
    <3> USE DEF f
    <3> QED BY <3>3 DEF Injection, IsInjective
  <2>2. \A i \in 1..l : \E x \in m2.records : x.key = q[i].key /\ Same(x, q[i])
    <3> SUFFICES ASSUME NEW i \in 1..l PROVE \E x \in m2.records : x.key = q[i].key /\ Same(x, q[i])
      OBVIOUS
    <3>1. i \in LastOf(q, l)
      <4>1. \A j \in (i + 1)..l : j \in 1..l /\ j # i
        BY <1>5
      <4> QED BY <2>1, <4>1 DEF LastOf
    <3>2. Plain(q[i]) \in Plains(all1.records)
      <4> HIDE DEF all1, l
      <4> QED BY <1>7, <3>1
    <3>3. PICK x \in m2.records : Plain(q[i]) = Plain(x)
      BY <1>6, <3>2 DEF Plains
    <3>4. IsRecord(x) /\ IsRecord(q[i])
      BY <1>4, <1>5 DEF Reached, Keyed
    <3>5. x.key = q[i].key
      BY <3>3, <3>4, Versions
    <3> QED BY <3>3, <3>5 DEF Same, Plain
  <2>3. all2.records = m2.records /\ all2.new = 0 /\ all2.late = 0 /\ all2.corrections = 0
    BY <1>4, <1>5, <2>2, AllDuplicates
  <2>4. second.records = first.records
    BY <1>2, <1>4, <1>6, <2>3
  <2>5. second.new = 0 /\ second.late = 0 /\ second.corrections = 0
    <3>1. PICK a, b, c, d, e, f : all2 = [records |-> a, newest |-> b, new |-> c, late |-> d,
                                          duplicates |-> e, corrections |-> f]
      BY <1>4 DEF Reached
    <3> HIDE DEF all2
    <3>2. second = [all2 EXCEPT !.records = FoldSet(ByDate, <<>>, all2.records)]
      BY <1>4 DEF all2
    <3> QED BY <2>3, <3>1, <3>2
  <2> QED BY <2>4, <2>5 DEF Changes
<1> QED BY <1>2, <1>4, <1>8, <1>9 DEF first, second

\* An update that arrives twice changes nothing the second time, and if no key is in
\* it twice every record is reported as a duplicate and no version goes up, for any
\* dataset and update (incremental.py:126-272).
THEOREM MergesAreIdempotent == Spec => []MergeIdempotent
<1>1. ASSUME asks \in Asks PROVE MergeIdempotent
  <2> SUFFICES ASSUME NEW r \in Requests, asks[r].update # None
               PROVE  LET u == asks[r].update
                          base == DataOf[asks[r].base]
                          first == DiffAndMerge(IF u.entity \in DOMAIN base THEN base[u.entity] ELSE <<>>, u.records)
                          second == DiffAndMerge(first.records, u.records)
                      IN /\ Plains(ToSet(second.records)) = Plains(ToSet(first.records))
                         /\ Cardinality(Keys(u.records)) = Len(u.records) =>
                               second.records = first.records /\ ~Changes(second)
    BY DEF MergeIdempotent, Plains, Plain
  <2> DEFINE u == asks[r].update
             base == DataOf[asks[r].base]
             existing == IF u.entity \in DOMAIN base THEN base[u.entity] ELSE <<>>
  <2>1. Dataset(u.records) /\ Dataset(existing)
    BY <1>1, AsksAssumption, DataAssumption, NothingIsDataset
  <2> HIDE DEF u, existing
  <2>2. LET first == DiffAndMerge(existing, u.records)
            second == DiffAndMerge(first.records, u.records)
        IN /\ Plains(ToSet(second.records)) = Plains(ToSet(first.records))
           /\ Cardinality(Keys(u.records)) = Len(u.records) =>
                 second.records = first.records /\ ~Changes(second)
    BY <2>1, MergedTwice
  <2> QED BY <2>2 DEF u, existing
<1>2. IInv => MergeIdempotent
  BY <1>1 DEF IInv
<1> QED
  BY <1>2, Invariant, PTL
=============================================================================
