---------------------------- MODULE Procurement ----------------------------
(***************************************************************************)
(* One purchase order with its lines, revisions, goods receipts and        *)
(* supplier documents: ProcurementService of                               *)
(* aurix_core/phase16/services.py over the tables of phase16/models.py,    *)
(* and the onboarding feed that writes the same row                        *)
(* (map_purchase_orders of data_foundation/db_mapper.py).                  *)
(*                                                                         *)
(* Every call is a READ COMMITTED transaction of its own.  A revision and  *)
(* an acknowledgement lock the order's row first; whoever else writes the  *)
(* order or its lines updates that row in its commit and waits for them,   *)
(* so each of the two is one step.  A transition, a receipt, a document    *)
(* and the feed lock nothing: one step per statement that reads what       *)
(* others write, and one for the commit.  Only attributes that changed     *)
(* since they were read are written.  A refusal writes nothing and is no   *)
(* step.                                                                   *)
(*                                                                         *)
(* Prices, totals and the reference to a receipt are one flag of a         *)
(* document, `priced`: they agree or they do not.  Idempotency keys are    *)
(* in Phase16Idempotency; shipment notices are read by nothing.            *)
(***************************************************************************)
EXTENDS Integers, Sequences, FiniteSets, Functions

CONSTANTS
    Calls,       \* the calls of the service
    Mixes,       \* the operations the calls may be: a set of functions from Calls
    Skus,
    Numbers,     \* document numbers
    MaxLines,    \* bound on the line ids handed out
    MaxQuantity, \* bound on every quantity of a request
    MaxItems,    \* bound on the items of an order, a revision or a document
    MaxBilled,   \* bound on the pieces one document bills
    MaxRevision  \* bound on the revision a row of the feed names

ASSUME CallsAssumption == IsFiniteSet(Calls)
ASSUME MixesAssumption ==
    Mixes \subseteq [Calls -> {"transition", "revise", "acknowledge", "receive", "document", "feed"}]
ASSUME BoundsAssumption == {MaxLines, MaxQuantity, MaxItems, MaxBilled, MaxRevision} \subseteq Nat \ {0}

VARIABLES
    order,     \* [status, revision, lines, revisions]: the row, the ids of its lines
               \* and the numbers of the revisions on file
    line,      \* sequence of every line ever made, its id is its position
    receipt,   \* [Calls -> (line id -> [received, accepted])], what a call received
    document,  \* [Calls -> record], the document a call filed
    operation, \* [Calls -> operation], which one each call is
    call,      \* [Calls -> [pc, target, status, revision, seen, items, invoiced, doc]],
               \* what it has read
    vouched,   \* history: the status is what a receipt made of it, or a closure of that
    overlap    \* history: a call has committed over lines or invoices it had not seen

pvars == <<order, line, receipt, document, operation, call, vouched, overlap>>

Statuses == {"DRAFT", "PENDING_APPROVAL", "APPROVED", "SUBMITTED", "ACKNOWLEDGED",
             "PARTIALLY_RECEIVED", "FULLY_RECEIVED", "CLOSED", "REJECTED", "CANCELLED",
             "UNKNOWN"} \* any other, which only the feed can write

allowed == [s \in Statuses |->
    CASE s = "DRAFT" -> {"PENDING_APPROVAL", "CANCELLED"}
      [] s = "PENDING_APPROVAL" -> {"APPROVED", "REJECTED", "CANCELLED"}
      [] s = "APPROVED" -> {"SUBMITTED", "CANCELLED"}
      [] s = "SUBMITTED" -> {"ACKNOWLEDGED", "CANCELLED"}
      [] s = "ACKNOWLEDGED" -> {"PARTIALLY_RECEIVED", "FULLY_RECEIVED", "CANCELLED"}
      [] s = "PARTIALLY_RECEIVED" -> {"FULLY_RECEIVED", "CANCELLED"}
      [] s = "FULLY_RECEIVED" -> {"CLOSED"}
      [] OTHER -> {}]

Empty == <<>>
Idle == [pc |-> "idle", target |-> "DRAFT", status |-> "DRAFT", revision |-> 1, seen |-> Empty,
         items |-> Empty, invoiced |-> Empty, doc |-> Empty]
Quantities == 1..MaxQuantity
Fresh(sku, n) == [sku |-> sku, quantity |-> n, received |-> 0, accepted |-> 0, rejected |-> 0]

\* What the receipts and the invoices on file say of a line.
Received(l) ==
    SumFunctionOnSet([c \in Calls |-> receipt[c][l].received], {c \in Calls : l \in DOMAIN receipt[c]})
Accepted(l) ==
    SumFunctionOnSet([c \in Calls |-> receipt[c][l].accepted], {c \in Calls : l \in DOMAIN receipt[c]})
Pieces(items) == [i \in DOMAIN items |-> items[i].quantity]
Billed(items, l) == SumFunctionOnSet(Pieces(items), {i \in DOMAIN items : items[i].line = l})
Filed(kinds) == {c \in Calls : document[c] # Empty /\ document[c].status \in kinds}
Invoices == Filed({"UNMATCHED", "MATCHED", "PARTIALLY_MATCHED", "MISMATCHED"})
Invoiced(l, S) == SumFunctionOnSet([c \in Calls |-> Billed(document[c].items, l)], S)

\* An order as create_purchase_order leaves it, and moved on by transitions.
PInit ==
    /\ \E n \in 1..MaxItems, skus \in [1..MaxItems -> Skus], q \in [1..MaxItems -> Quantities] :
          line = [l \in 1..n |-> Fresh(skus[l], q[l])]
    /\ order = [status |-> "SUBMITTED", revision |-> 1, lines |-> DOMAIN line, revisions |-> {}]
    /\ receipt = [c \in Calls |-> Empty]
    /\ document = [c \in Calls |-> Empty]
    /\ operation \in Mixes
    /\ call = [c \in Calls |-> Idle]
    /\ vouched = FALSE /\ overlap = FALSE

-----------------------------------------------------------------------------
Goes(c, r) == call' = [call EXCEPT ![c] = r] /\ UNCHANGED operation
Begins(c, name) == call[c].pc = "idle" /\ operation[c] = name
Done(c) == Goes(c, [Idle EXCEPT !.pc = "done"])

BeginTransition(c) ==
    /\ Begins(c, "transition")
    /\ \E t \in allowed[order.status] :
          Goes(c, [Idle EXCEPT !.pc = "transition", !.target = t])
    /\ UNCHANGED <<order, line, receipt, document, vouched, overlap>>

EndTransition(c) ==
    /\ call[c].pc = "transition"
    /\ order' = [order EXCEPT !.status = call[c].target]
    /\ vouched' = (vouched /\ call[c].target = "CLOSED" /\ order.status \in {"FULLY_RECEIVED", "CLOSED"})
    /\ Done(c)
    /\ UNCHANGED <<line, receipt, document, overlap>>

\* No line may be cut below what it has received; of several items for a SKU the
\* first one counts.
Replaceable(items) ==
    \A l \in order.lines : line[l].received > 0 =>
        \E i \in DOMAIN items :
            /\ items[i].sku = line[l].sku /\ items[i].quantity >= line[l].received
            /\ \A j \in 1..(i - 1) : items[j].sku # line[l].sku

\* The lines are replaced by new ones on which nothing has been received.  A number
\* that is on file already is refused by the table, and the call raises.
Revise(c) ==
    /\ Begins(c, "revise")
    /\ order.status \notin {"CLOSED", "CANCELLED", "REJECTED", "FULLY_RECEIVED"}
    /\ order.revision + 1 \notin order.revisions
    /\ \E n \in 1..MaxItems : \E items \in [1..n -> [sku : Skus, quantity : Quantities]] :
          /\ Len(line) + n <= MaxLines
          /\ Replaceable(items)
          /\ line' = line \o [i \in 1..n |-> Fresh(items[i].sku, items[i].quantity)]
          /\ order' = [order EXCEPT !.revision = @ + 1, !.revisions = @ \cup {order.revision + 1},
                                    !.lines = (Len(line) + 1)..(Len(line) + n)]
    /\ Done(c)
    /\ UNCHANGED <<receipt, document, vouched, overlap>>

Acknowledge(c) ==
    /\ Begins(c, "acknowledge")
    /\ order.status \in {"SUBMITTED", "ACKNOWLEDGED"}
    /\ \E s \in {"ACKNOWLEDGED", "REJECTED"} : order' = [order EXCEPT !.status = s]
    /\ vouched' = FALSE
    /\ Done(c)
    /\ UNCHANGED <<line, receipt, document, overlap>>

\* A row of the feed replaces the status and the revision by what it names, DRAFT and
\* 1 when it names none: no receipt and no transition is looked at.
BeginFeed(c) ==
    /\ Begins(c, "feed")
    /\ Goes(c, [Idle EXCEPT !.pc = "feed", !.status = order.status, !.revision = order.revision])
    /\ UNCHANGED <<order, line, receipt, document, vouched, overlap>>

EndFeed(c) ==
    /\ call[c].pc = "feed"
    /\ \E s \in Statuses, n \in 1..MaxRevision :
          /\ order' = [order EXCEPT !.status = IF s = call[c].status THEN @ ELSE s,
                                    !.revision = IF n = call[c].revision THEN @ ELSE n]
          /\ vouched' = (vouched /\ s = call[c].status)
    /\ Done(c)
    /\ UNCHANGED <<line, receipt, document, overlap>>

-----------------------------------------------------------------------------
\* receive_goods looks at no status; it reads the order, then its lines.
BeginReceipt(c) ==
    /\ Begins(c, "receive")
    /\ Goes(c, [Idle EXCEPT !.pc = "receive", !.status = order.status])
    /\ UNCHANGED <<order, line, receipt, document, vouched, overlap>>

\* Mutant of Fits: the item is compared with the line, not added up.
Fits_Alone(l, item) ==
    item.accepted <= item.received /\ item.received <= line[l].quantity
Fits(l, item) ==
    item.accepted <= item.received /\ line[l].received + item.received <= line[l].quantity

ReadLines(c) ==
    /\ call[c].pc = "receive"
    /\ \E S \in (SUBSET order.lines) \ {{}} :
       \E items \in [S -> [received : 0..MaxQuantity, accepted : 0..MaxQuantity]] :
          /\ \A l \in S : Fits(l, items[l])
          /\ Goes(c, [call[c] EXCEPT !.pc = "received", !.items = items,
                                     !.seen = [l \in order.lines |-> line[l]]])
    /\ UNCHANGED <<order, line, receipt, document, vouched, overlap>>

\* A line of the receipt as the call writes it: what it read plus what it received,
\* in the columns that change.
Booked(c, l) ==
    LET s == call[c].seen[l]  i == call[c].items[l]
    IN [line[l] EXCEPT !.received = IF i.received = 0 THEN @ ELSE s.received + i.received,
                       !.accepted = IF i.accepted = 0 THEN @ ELSE s.accepted + i.accepted,
                       !.rejected = IF i.accepted = i.received THEN @
                                    ELSE s.rejected + i.received - i.accepted]

\* Mutant of ReceiptStatus: the lines of the receipt only.
ReceiptStatus_ItsLines(c) ==
    IF \A l \in DOMAIN call[c].items : call[c].seen[l].received + call[c].items[l].received >= line[l].quantity
    THEN "FULLY_RECEIVED" ELSE "PARTIALLY_RECEIVED"
ReceiptStatus(c) ==
    LET s == call[c].seen  i == call[c].items
        After(l) == s[l].received + (IF l \in DOMAIN i THEN i[l].received ELSE 0)
    IN IF \A l \in DOMAIN s : After(l) >= s[l].quantity THEN "FULLY_RECEIVED" ELSE "PARTIALLY_RECEIVED"

\* The update of a line that a revision has deleted raises: then nothing is stored.
\* A line of which nothing was received is not updated, and may be gone.
CommitReceipt(c) ==
    /\ call[c].pc = "received"
    /\ {l \in DOMAIN call[c].items : call[c].items[l].received > 0} \subseteq order.lines
    /\ line' = [l \in DOMAIN line |-> IF l \in DOMAIN call[c].items THEN Booked(c, l) ELSE line[l]]
    /\ receipt' = [receipt EXCEPT ![c] = call[c].items]
    /\ order' = [order EXCEPT !.status = IF ReceiptStatus(c) = call[c].status THEN @ ELSE ReceiptStatus(c)]
    /\ vouched' = (vouched \/ order'.status = ReceiptStatus(c))
    /\ overlap' = (overlap \/ call[c].seen # [l \in order.lines |-> line[l]])
    /\ Done(c)
    /\ UNCHANGED document

-----------------------------------------------------------------------------
\* add_financial_document looks for the number, then reads the lines and receipts.
BeginDocument(c) ==
    /\ Begins(c, "document")
    /\ \E n \in Numbers, k \in 0..MaxItems, priced \in BOOLEAN :
       \E items \in [1..k -> [line : DOMAIN line, quantity : Quantities]] :
          /\ SumFunction(Pieces(items)) <= MaxBilled
          /\ \A d \in Calls : document[d] # Empty => document[d].number # n
          /\ Goes(c, [Idle EXCEPT
                !.pc = IF k > 0 THEN "receipts" ELSE "document",
                !.doc = [number |-> n, items |-> items, priced |-> priced, status |-> "UNMATCHED"],
                !.items = [l \in order.lines |-> IF k > 0 THEN line[l].quantity ELSE 0],
                !.seen = [l \in DOMAIN line |-> IF k > 0 THEN Accepted(l) ELSE 0]])
    /\ UNCHANGED <<order, line, receipt, document, vouched, overlap>>

ReadInvoices(c) ==
    /\ call[c].pc = "receipts"
    /\ Goes(c, [call[c] EXCEPT !.pc = "document",
                               !.invoiced = [l \in DOMAIN line |-> Invoiced(l, Invoices)]])
    /\ UNCHANGED <<order, line, receipt, document, vouched, overlap>>

\* Mutant of MatchStatus: a two-way match, which leaves the receipts out.
MatchStatus_TwoWay(c) ==
    LET items == call[c].doc.items
        total(i) == call[c].invoiced[items[i].line] + items[i].quantity
        onOrder == \A i \in DOMAIN items : /\ items[i].line \in DOMAIN call[c].items
                                           /\ total(i) <= call[c].items[items[i].line]
    IN IF onOrder /\ call[c].doc.priced THEN "MATCHED" ELSE "MISMATCHED"

\* The three-way match: each item by itself, added to the invoices that were filed
\* before, against what was accepted and what was ordered.
MatchStatus(c) ==
    LET items == call[c].doc.items
        total(i) == call[c].invoiced[items[i].line] + items[i].quantity
        covered == \A i \in DOMAIN items : total(i) <= call[c].seen[items[i].line]
        onOrder == \A i \in DOMAIN items : /\ items[i].line \in DOMAIN call[c].items
                                           /\ total(i) <= call[c].items[items[i].line]
    IN IF covered /\ onOrder /\ call[c].doc.priced THEN "MATCHED"
       ELSE IF covered THEN "PARTIALLY_MATCHED" ELSE "MISMATCHED"

CommitDocument(c) ==
    /\ call[c].pc = "document"
    /\ \A d \in Calls : document[d] # Empty => document[d].number # call[c].doc.number
    /\ document' = [document EXCEPT ![c] =
          IF call[c].invoiced = Empty THEN call[c].doc
          ELSE [call[c].doc EXCEPT !.status = MatchStatus(c)]]
    /\ overlap' = (overlap \/ \E l \in DOMAIN call[c].invoiced : Invoiced(l, Invoices) # call[c].invoiced[l])
    /\ Done(c)
    /\ UNCHANGED <<order, line, receipt, vouched>>

\* An exception, a lost connection, or the victim of a deadlock.
AbortCall(c) ==
    /\ call[c].pc \notin {"idle", "done"}
    /\ Done(c)
    /\ UNCHANGED <<order, line, receipt, document, vouched, overlap>>

PNext ==
    \E c \in Calls :
        \/ BeginTransition(c) \/ EndTransition(c) \/ Revise(c) \/ Acknowledge(c)
        \/ BeginFeed(c) \/ EndFeed(c)
        \/ BeginReceipt(c) \/ ReadLines(c) \/ CommitReceipt(c)
        \/ BeginDocument(c) \/ ReadInvoices(c) \/ CommitDocument(c) \/ AbortCall(c)

PSpec == PInit /\ [][PNext]_pvars

-----------------------------------------------------------------------------
\* A line never counts more than was ordered, whatever overlaps; and unless calls
\* overlap, its three counters are what its receipts add up to (services.py:404-418).
LinesExact ==
    \A l \in DOMAIN line :
        /\ line[l].received <= line[l].quantity
        /\ ~overlap => /\ line[l].received = Received(l) /\ line[l].accepted = Accepted(l)
                       /\ line[l].accepted + line[l].rejected = line[l].received

\* Through revisions, feeds, transitions read before other calls commit, and receipts
\* in any status, an order that a receipt has made fully received, and that has only
\* been closed since, has a receipt for every piece of every line, unless receipts
\* overlapped each other or a revision.  A status that a transition or the feed wrote
\* claims nothing of the receipts (services.py:130-157, 184, 431; db_mapper.py:549).
ClosedIsComplete ==
    (order.status \in {"FULLY_RECEIVED", "CLOSED"} /\ vouched /\ ~overlap)
        => \A l \in order.lines : Received(l) = line[l].quantity

Matched == Filed({"MATCHED"})
NamesOnce(c) ==
    \A i, j \in DOMAIN document[c].items :
        document[c].items[i].line = document[c].items[j].line => i = j

\* Together the matched invoices bill no more of a line than was accepted, unless
\* invoices overlapped or one names a line twice (services.py:501-564).
MatchedCovered ==
    (~overlap /\ \A c \in Matched : NamesOnce(c))
        => \A l \in DOMAIN line : Invoiced(l, Matched) <= Accepted(l)
=============================================================================
