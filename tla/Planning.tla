------------------------------ MODULE Planning ------------------------------
(***************************************************************************)
(* Bills of material, material requirements and capable-to-promise:        *)
(* ManufacturingService, CapacityService and FulfillmentService's          *)
(* calculate_atp and calculate_ctp of aurix_core/phase16/services.py.      *)
(*                                                                         *)
(* A run explodes a product recursively; `todo` is its stack, one frame    *)
(* per pending call of explode, and a step is one query of it.  Bills and  *)
(* stock are committed by others in between.  Nothing a run writes is read *)
(* by another: a plan is its rows, an answer its status.  Quantities are   *)
(* small integers, and the scrap percentage is part of `per`.              *)
(***************************************************************************)
EXTENDS Integers, Sequences, FiniteSets, FiniteSetsExt, SequencesExt

CONSTANTS
    Items,
    Runs,        \* the calls of run_mrp and calculate_ctp
    Wants,       \* requirement lists of an MRP run: sequences of [sku, qty]
    Promises,    \* what a promise asks: [sku, qty, lead, capacity]
    Headers,     \* the bills create_bom may add: [parent, effective, lines]
    FirstBills,  \* the bills there may be at first: a set of sequences of headers
    FirstStock,  \* the stock there may be at first: functions from Items
    MaxBills,    \* bound on the bills
    MaxTodo      \* bound on the stack, which no run reaches

ASSUME PlanBounds == MaxBills \in Nat /\ MaxTodo \in Nat
ASSUME ItemsAssumption == IsFiniteSet(Items)
Asked == [sku : Items, qty : Nat]
Bill == [parent : Items, effective : Nat, lines : Seq([sku : Items, per : Nat])]
ASSUME InputsAssumption ==
    /\ Wants \subseteq Seq(Asked)
    /\ \A p \in Promises : p.sku \in Items /\ p.qty \in Nat /\ p.capacity \in BOOLEAN
    /\ Headers \subseteq Bill /\ FirstBills \subseteq Seq(Bill)
    /\ FirstStock \subseteq [Items -> [supply : Nat, reserved : Nat]]

VARIABLES
    bills,   \* sequence of bill headers with their lines, all ACTIVE
    stock,   \* [Items -> [supply, reserved]]: on hand and on order, and allocations
    run,     \* [Runs -> record]: a call, its stack, path and rows
    moved    \* history: the runs since whose start something was committed

planVars == <<bills, stock, run, moved>>

Call(pc, want, todo, capacity, status) ==
    [pc |-> pc, want |-> want, todo |-> todo, path |-> {}, rows |-> <<>>,
     short |-> FALSE, capacity |-> capacity, status |-> status]
NoCall == Call("idle", <<>>, <<>>, TRUE, "none")

PlanInit ==
    /\ bills \in FirstBills
    /\ stock \in FirstStock
    /\ run = [r \in Runs |-> NoCall]
    /\ moved = {}

Begun == {r \in Runs : run[r].pc # "idle"}
Available(s) == Max({0, stock[s].supply - stock[s].reserved})

\* The bills a query for the latest ACTIVE one of a SKU may return first.
Latest(s) ==
    {i \in DOMAIN bills :
        /\ bills[i].parent = s
        /\ \A j \in DOMAIN bills : bills[j].parent = s => bills[j].effective <= bills[i].effective}

Frame(op, s, q) == [op |-> op, sku |-> s, qty |-> q]
Components(i, op, q) ==
    [k \in DOMAIN bills[i].lines |-> Frame(op, bills[i].lines[k].sku, q * bills[i].lines[k].per)]

\* The top frame of r is replaced by new ones, and other fields of r by those of f.
Replace(r, new, path, rows, short) ==
    /\ Len(new) + Len(run[r].todo) <= MaxTodo
    /\ run' = [run EXCEPT ![r].todo = new \o Tail(@), ![r].path = path,
                          ![r].rows = rows, ![r].short = short]
    /\ UNCHANGED <<bills, stock, moved>>
Top(r, pc, op) == run[r].pc = pc /\ run[r].todo # <<>> /\ Head(run[r].todo).op = op
Finish(r, status) == run' = [run EXCEPT ![r].pc = "done", ![r].status = status]

-----------------------------------------------------------------------------
CreateBom ==
    /\ Len(bills) < MaxBills
    /\ \E h \in Headers : bills' = Append(bills, h)
    /\ moved' = moved \cup Begun
    /\ UNCHANGED <<stock, run>>

\* The inventory feed, and reservations, change what there is of a SKU.
StockChanges ==
    /\ \E s \in Items, f \in FirstStock : f[s] # stock[s] /\ stock' = [stock EXCEPT ![s] = f[s]]
    /\ moved' = moved \cup Begun
    /\ UNCHANGED <<bills, run>>

-----------------------------------------------------------------------------
StartMrp(r) ==
    /\ run[r].pc = "idle"
    /\ \E w \in Wants :
          LET visits == [k \in DOMAIN w |-> Frame("visit", w[k].sku, w[k].qty)]
          IN run' = [run EXCEPT ![r] = Call("mrp", w, visits, TRUE, "none")]
    /\ UNCHANGED <<bills, stock, moved>>

\* A SKU on the path is a cycle; another one is netted against all its supply.
MrpVisit(r) ==
    /\ Top(r, "mrp", "visit")
    /\ LET f == Head(run[r].todo)
           cycle == f.sku \in run[r].path
           net == IF cycle THEN f.qty ELSE Max({0, f.qty - stock[f.sku].supply})
           row == [sku |-> f.sku, gross |-> f.qty, net |-> net, cycle |-> cycle]
       IN Replace(r, IF cycle \/ net = 0 THEN <<>> ELSE <<Frame("explode", f.sku, net)>>,
                  run[r].path, Append(run[r].rows, row), run[r].short)

MrpExplode(r) ==
    /\ Top(r, "mrp", "explode")
    /\ LET f == Head(run[r].todo)
       IN \/ /\ Latest(f.sku) = {}
             /\ Replace(r, <<>>, run[r].path, run[r].rows, run[r].short)
          \/ \E i \in Latest(f.sku) :
                Replace(r, Append(Components(i, "visit", f.qty), Frame("leave", f.sku, 0)),
                        run[r].path \cup {f.sku}, run[r].rows, run[r].short)

\* Mutant of Left: the path is never taken back.
Left_Stays(r) == run[r].path
Left(r) == run[r].path \ {Head(run[r].todo).sku}
Leave(r) ==
    /\ Top(r, run[r].pc, "leave")
    /\ Replace(r, <<>>, Left(r), run[r].rows, run[r].short)

EndMrp(r) ==
    /\ run[r].pc = "mrp" /\ run[r].todo = <<>>
    /\ Finish(r, "COMPLETED")
    /\ UNCHANGED <<bills, stock, moved>>

-----------------------------------------------------------------------------
\* What ATP does not cover is exploded, if a production lead time is given.
StartCtp(r) ==
    /\ run[r].pc = "idle"
    /\ \E p \in Promises :
          LET rest == p.qty - Min({Available(p.sku), p.qty})
              Goes(pc, todo, status) ==
                  run' = [run EXCEPT ![r] =
                            Call(pc, <<[sku |-> p.sku, qty |-> rest]>>, todo, p.capacity, status)]
          IN \/ rest = 0 /\ Goes("done", <<>>, "ATP_AVAILABLE")
             \/ rest # 0 /\ ~p.lead /\ Goes("done", <<>>, "CTP_INSUFFICIENT_INPUTS")
             \/ rest # 0 /\ p.lead /\ Goes("ctp", <<Frame("visit", p.sku, rest)>>, "none")
    /\ UNCHANGED <<bills, stock, moved>>

\* Mutant of CtpVisit: the SKU is not put on the path.
CtpVisit_NoPath(r) ==
    /\ Top(r, "ctp", "visit")
    /\ LET f == Head(run[r].todo)  Go(new) == Replace(r, new, {}, run[r].rows, run[r].short)
       IN \/ Latest(f.sku) = {} /\ Go(<<Frame("leaf", f.sku, f.qty)>>)
          \/ \E i \in Latest(f.sku) : Go(Components(i, "component", f.qty))
CtpVisit(r) ==
    /\ Top(r, "ctp", "visit")
    /\ LET f == Head(run[r].todo)  leave == Frame("leave", f.sku, 0)
           Go(new, path, short) == Replace(r, new, path, run[r].rows, short)
       IN \/ f.sku \in run[r].path /\ Go(<<>>, run[r].path, TRUE)
          \/ /\ f.sku \notin run[r].path
             /\ \/ /\ Latest(f.sku) = {}
                   /\ Go(<<Frame("leaf", f.sku, f.qty), leave>>, run[r].path \cup {f.sku}, run[r].short)
                \/ \E i \in Latest(f.sku) :
                      Go(Append(Components(i, "component", f.qty), leave),
                         run[r].path \cup {f.sku}, run[r].short)

CtpLeaf(r) ==
    /\ Top(r, "ctp", "leaf")
    /\ LET f == Head(run[r].todo)
       IN Replace(r, <<>>, run[r].path, run[r].rows, run[r].short \/ f.qty > Available(f.sku))

\* Mutant of CtpComponent: a component that is covered is not exploded.
CtpComponent_OneLevel(r) ==
    /\ Top(r, "ctp", "component")
    /\ LET f == Head(run[r].todo)
       IN Replace(r, <<>>, run[r].path, run[r].rows, run[r].short \/ f.qty > Available(f.sku))
\* A component that is short is not exploded; one that is covered is.
CtpComponent(r) ==
    /\ Top(r, "ctp", "component")
    /\ LET f == Head(run[r].todo)  gap == f.qty > Available(f.sku)
       IN Replace(r, IF gap THEN <<>> ELSE <<Frame("visit", f.sku, f.qty)>>,
                  run[r].path, run[r].rows, run[r].short \/ gap)

\* Capacity is checked, and the check recorded, only if materials suffice.
EndCtp(r) ==
    /\ run[r].pc = "ctp" /\ run[r].todo = <<>>
    /\ Finish(r, IF run[r].short THEN "CTP_INFEASIBLE"
                 ELSE IF ~run[r].capacity THEN "CTP_CAPACITY_CONSTRAINED" ELSE "CTP_FEASIBLE")
    /\ UNCHANGED <<bills, stock, moved>>

Proceed(r) ==
    \/ MrpVisit(r) \/ MrpExplode(r) \/ Leave(r) \/ EndMrp(r)
    \/ CtpVisit(r) \/ CtpLeaf(r) \/ CtpComponent(r) \/ EndCtp(r)
PlanNext ==
    \/ CreateBom \/ StockChanges
    \/ \E r \in Runs : StartMrp(r) \/ StartCtp(r) \/ Proceed(r)

\* A call of the service runs until it returns.
PlanFairness == \A r \in Runs : WF_planVars(Proceed(r))
PlanSpec == PlanInit /\ [][PlanNext]_planVars /\ PlanFairness

-----------------------------------------------------------------------------
\* Every call ends, whatever bills it meets, cyclic ones and those added while it
\* runs among them (services.py:685, 917).
ExplosionEnds == \A r \in Runs : run[r].pc \in {"mrp", "ctp"} ~> run[r].pc = "done"

\* What the bills as they are make every SKU of, and what can be promised of it.
Recipe == [s \in Items |->
    IF Latest(s) = {} THEN <<>> ELSE bills[CHOOSE i \in Latest(s) : TRUE].lines]
Spare == [s \in Items |-> Available(s)]

\* The SKUs can be ranked, every one above its components; and of none two bills are
\* the latest.
Ranked(recipe, rank) ==
    \A s \in Items : \A k \in DOMAIN recipe[s] : rank[recipe[s][k].sku] < rank[s]
Acyclic == \E rank \in [Items -> 1..Cardinality(Items)] : Ranked(Recipe, rank)
OneLatest == \A s \in Items : \A i, j \in Latest(s) : i = j
Undisturbed(r) == run[r].pc = "done" /\ r \notin moved /\ Acyclic /\ OneLatest

\* The sum of a sequence of numbers.
Total(q) ==
    LET sum[n \in 0..Len(q)] == IF n = 0 THEN 0 ELSE sum[n - 1] + q[n]
    IN sum[Len(q)]
\* What a list of lines takes of s for one piece, what rows require of s, for
\* themselves and for what they are made into, and what was asked of it.
Uses(lines, s) == Total([k \in DOMAIN lines |-> IF lines[k].sku = s THEN lines[k].per ELSE 0])
Gross(rows, s) == Total([k \in DOMAIN rows |-> IF rows[k].sku = s THEN rows[k].gross ELSE 0])
OfParents(recipe, rows, s) ==
    Total([k \in DOMAIN rows |-> rows[k].net * Uses(recipe[rows[k].sku], s)])
Direct(want, s) == Total([k \in DOMAIN want |-> IF want[k].sku = s THEN want[k].qty ELSE 0])

\* In a plan made from acyclic bills that nobody has touched since no cycle is
\* reported, and the gross requirement of every SKU, shared components included, is
\* what was asked for directly plus what the net requirements of its parents use:
\* nothing is planned short of a component or for no parent (services.py:700-741).
MaterialsBalance ==
    \A r \in Runs : (run[r].status = "COMPLETED" /\ Undisturbed(r)) =>
        LET rows == run[r].rows
        IN /\ \A k \in DOMAIN rows : ~rows[k].cycle
           /\ \A s \in Items : Gross(rows, s) = Direct(run[r].want, s) + OfParents(Recipe, rows, s)

\* The requirements <<sku, qty>> n levels below one of them, for each n up to a depth.
Below(recipe, x, depth) ==
    LET level[n \in 0..depth] ==
            IF n = 0 THEN {x}
            ELSE UNION {{<<recipe[y[1]][k].sku, y[2] * recipe[y[1]][k].per>> : k \in DOMAIN recipe[y[1]]} :
                        y \in level[n - 1]}
    IN level
CoveredBelow(recipe, spare, x) ==
    \A n \in 1..Cardinality(Items) :
        \A y \in Below(recipe, x, Cardinality(Items))[n] : y[2] <= spare[y[1]]

\* A promise called feasible, from bills and stock that nobody has touched since,
\* is covered at every level below the product: each requirement by itself is no
\* more than what can be promised of its SKU (services.py:917-975).
PromiseCovered ==
    \A r \in Runs : (run[r].status = "CTP_FEASIBLE" /\ Undisturbed(r)) =>
        CoveredBelow(Recipe, Spare, <<run[r].want[1].sku, run[r].want[1].qty>>)
=============================================================================
