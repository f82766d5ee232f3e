# AURIX: formal models

TLA+ models of the core of AURIX (`aurix_core/`, `aurix_api/`): the parts in
which several requests, retries, failures and restarts meet, and the pipeline
and the planning recursion whose results they store. Every
definition is translated from the source it cites; `PROJECT.json` maps each one
to its lines.

## 1. The system

AURIX is a multi-tenant supply-chain platform: one FastAPI process (uvicorn,
one worker: `Dockerfile`), PostgreSQL through SQLAlchemy sessions (READ
COMMITTED, `autoflush=False`, `expire_on_commit=False`), in-memory stores of the
process, and external systems (AI providers, ERP/WMS connectors, data feeds).
Coroutine routes that never `await` run to their end one at a time; synchronous
routes run concurrently in a thread pool. Rows and stores are keyed by tenant, except
the agent registry and the drafts of the studio, which all tenants share in the
process, and `persistent_events`, whose key is the event's id alone. Each module
describes one tenant, and `GovernedAgents` the one process.

| Part | State | Operations | What is hard |
|---|---|---|---|
| AI quota (`intelligence/quota.py`) | policy row with counters of reserved exposure; reservations; usage ledger | reserve, settle, release, expire, set_policy, record_usage | check-then-insert under a row lock; repeated and late settlements; clamped counters; midnight |
| AI gateway (`intelligence/ai_gateway.py`, `ask_ai` of `service.py`) | the open transaction of a query | reserve, call, validate, settle or release along a provider cascade | commits and rollbacks in the middle of the caller's transaction, those of a rejection too; a long call under a lock |
| Controlled actions (`actions/`) | contracts, audit and idempotency results in memory | create, preflight, approve, reject, execute, reconcile | segregation of duties, edits after approval, timeouts after transmission, conflicts, revived actions |
| Operational events (`events/`, event routes, Phase 16 bridge) | cache, quarantine and alerts in memory; rows for each | process, retry, acknowledge | memory and database diverge on failure and restart; duplicates; an intelligence run that commits in the middle |
| Phase 16 idempotency (`phase16/idempotency.py`) | one row per key, two unique indexes | begin, complete | racing look-ups and inserts |
| Phase 16 fulfilment (`phase16/services.py`) | order lines, allocations, inventory positions | create_order, reserve, ATP, CTP | statement-level interleaving, row locks, feed overwrites |
| Phase 16 procurement (`phase16/services.py`) | purchase order, lines, revisions, receipts, supplier documents | transition, revise, acknowledge, receive, add document; `map_purchase_orders` | receipts and documents lock nothing; revisions replace lines under them; the onboarding feed writes status and revision of the same rows |
| Phase 16 planning (BOM, MRP, capacity, CTP) | bills, stock; requirement rows of a run | create_bom, run_mrp, calculate_ctp | recursion over data that others commit to |
| Intelligence runs (`run_manager.py`, `intelligence/service.py`) | run rows with states, snapshot, summary | submit, background task, execute | look-ups by hash, one commit at the end, failures in between |
| Capabilities (`discovery.py`, `readiness.py`, `automation.py`, `incremental.py`) | none: a pipeline over datasets | merge, assess, discover, execute, recompute | two dependency graphs and a table of what an update affects, kept apart |
| Agents and studio (`agents/`, `studio/`) | agents, drafts, keys and circuits in memory; rows; circuits in Redis | deploy, pause, execute a plan, compensate | two stores of everything, restarts, an unreliable store |
| Onboarding (`onboarding/service.py`, `data_foundation/db_mapper.py`) | canonical rows, staged files, quarantine, ingestion runs | onboard_file, resolve_manual_mapping | a failing row rolls back the whole transaction, and the run goes on |
| Returns, exception cases, integrations, model registry, run records | records with a status | life cycles | retries, promotion and rollback |
| Engines (forecasting, inventory, supply, risk, decisions, finance, ...) | none between calls | numerical functions of a data set | arithmetic, not ordering |
| Web client, legacy API, migrations, scripts | - | - | - |

How they interact: the gateway calls the quota inside the transaction that
`ask_ai` opened; the action executor publishes INVENTORY_UPDATED to the event
processor when a write is verified or reconciled; the event processor opens
Phase 16 exception cases in its own transaction, and, for callers that hand over
datasets, starts an intelligence run in the same session, which commits by itself;
every Phase 16 write is
wrapped in begin and complete of the idempotency module; `map_inventory` of the
data foundation, which onboarding calls for every row, overwrites the positions
on which fulfilment promises, and `map_purchase_orders` overwrites status and
revision of the orders of procurement, without a lock and without looking at
receipts or at the table of transitions; planning explodes over those same positions and
allocations; an intelligence run is the pipeline of capabilities over the
datasets of a request; the studio deploys its drafts into the agent runtime.

What makes them correct: *quota* - exposure counters equal the open
reservations, a request is charged exactly once, the budget is never exceeded;
*gateway* - no exposure is left behind, an answer handed out is charged, every
query ends; *actions* - one external write per action, only of what an
independent person approved, one cleared action per target; *events* - the work
of an event is done once and stands or falls with its mark, its intelligence run is
computed once, nothing answered QUARANTINED gets lost; *idempotency* - one applied request per name, replies are committed
results; *fulfilment* - nothing is promised twice, no update of a line is lost,
every reservation ends; *procurement* - counters of lines are what the receipts
say, an order that a receipt made fully received is complete, matched invoices are
covered; *planning* -
requirements balance, a promise is covered at every level, the recursion ends;
*intelligence* - a run that is found is whole, capabilities run after what they
need, selective recomputation equals full recomputation, merging is idempotent;
*agents* - a pause survives a restart, a tripped tool is blocked, no step is done
twice; *onboarding* - a completed run is whole, rejected rows are kept, every
canonical row of a table that records a run names one on record.

The hazards at their lines, with the properties that cover each, are in
`PROJECT.json`.

## 2. Modules

| Module | Models | Correspondence |
|---|---|---|
| `AIQuota` | AIQuotaManager for one tenant | `policy`, `reserved`: the AIUsagePolicy row; `resv`: AIQuotaReservation; `ledger`: AIUsageLedger; `today`: the UTC date. Each manager call is one step from the moment it holds the policy lock; what reserve_quota computes before the lock is `EnterReserve` |
| `AIGateway` | `process_query` inside `ask_ai` | EXTENDS AIQuota. `lock`: holder of the policy row, hence of an open transaction; `stage`, `provider`: place in the cascade, in which UNAVAILABLE providers are skipped; `paid`: the reservation in the provenance of an answer. A rejected reservation has rolled back and holds no lock. The message that ask_ai flushed before is left out |
| `ActionExecutor` | executor, policy engine and adapter | `act`: `_ACTIONS_STORE`; `stored`: the adapter's idempotency results; `writes`, `announced`: what left the system. A handler is one step |
| `EventProcessor` | processor, retry and acknowledge routes, bridge | `cache`, `quarantine`, `alerts`: memory; `marked` (per event_id, the event whose key the row holds), `effects` (cases), `alertRows`: rows committed together; `runs`: what the intelligence run has committed before them; one disjunct for each place at which processing can fail |
| `AtMostOnce` | what an idempotent write promises | abstract: `applied`, `answer` |
| `Phase16Idempotency` | begin and complete around a service | `rows`, `open`: committed and uncommitted records; look-ups, insert and commit are steps of their own |
| `Fulfillment` | FulfillmentService.reserve against the inventory feed | `held` and `HoldsLine`: row locks; `supply`, `allocated`, `allocation`: rows |
| `Procurement` | ProcurementService on one order, and `map_purchase_orders` | `order`, `line`, `receipt`, `document`: rows; `call`: what a running call has read. Receipts and documents take one step per statement that reads what others write, and one for the commit, and so does the feed; revisions and acknowledgements lock the order and are one step |
| `Capabilities` | merge, readiness, discovery, execution | pure operators; no state |
| `IntelligenceRuns` | `submit_run`, its background task, `run_autonomous_intelligence` | EXTENDS Capabilities. `rows`: committed runs with the parts that were committed with them; `pending`: what a session holds back; `answer`: the last answer |
| `Planning` | `create_bom`, `run_mrp`, ATP (`Available`), `calculate_ctp`, capacity | `run[r].todo`: the stack of the recursion, a frame per pending call, a step per query; bills and stock change between steps |
| `GovernedAgents` | runtime, governance gate, circuit breakers, studio | `registry`, `draft`, `used`, `local`: the process; `rows`, `drafts`, `journal`: tables; `shared`, `up`: Redis. A handler is one step |
| `Onboarding` | OnboardingService and CanonicalMapper | `rows`: for each id the run its row names, `Unnamed` for a purchase order; `session`: the open transaction, with `count`, the Python variable that survives its rollback; a step per statement |
| `QuotaProofs` (of `AIQuota` and `AIGateway`), `ActionExecutorProofs`, `EventProcessorProofs`, `Phase16Proofs` (of `Phase16Idempotency`, `Fulfillment`, `Procurement` and `Planning`), `OnboardingProofs`, `IntelligenceRunsProofs`, `GovernedAgentsProofs` | theorems | section 5 |
| `Sums` | facts about sums over finite sets | - |
| `MC*` | values of the constants for TLC | |

An operator whose name continues that of another one after an underscore, such
as `Settle_Again`, is a deliberate bug: put in the place of the original it must
break a property (`PROJECT.json`, "mutants"). It takes part in no run.

Abstractions. Spend is a natural number and stands for tokens too, which obey
the same arithmetic. Payloads are reduced to their size against the policy's
limits and to whether they time out. An event is its id with its payload hash; several events may share an id.
on_hand and on_order of a position are only ever added and are one number.
The output of a capability is what it was computed from, so two outputs are the
same exactly if nothing they depend on differs. A file to onboard says how its
columns map and what becomes of each row. The policy row of a tenant exists. SQLAlchemy refreshes a row it selects FOR
UPDATE only if it holds no object for it; the functions modelled keep none from
before, so what they read under the lock is current.

## 3. Runs

| Run | Question | Result |
|---|---|---|
| `ai_quota` | two callers, three reservation ids, expiry, crashes, policy changes, direct usage, change of day: are counters, charges and budget exact? | holds |
| `ai_gateway` | two queries over two providers that may be unavailable, fail, or be rejected: does exposure leak out of the gateway's own transactions, is an answer ever free, does every query end? | holds |
| `actions` | two actions, an ordinary user and an administrator, revived, edited, timed out, reconciled: one write each, only as approved, never two cleared for one target? | holds |
| `events` | four events of three ids, three deliveries with or without datasets, two retries and a restart, failures at every point, before and after the run that commits by itself: case once, run once, mark and case atomic, alerts deduplicated, quarantine complete? | holds |
| `events_duplicate` | does DUPLICATE mean that the event was processed? | no: the cache is filled before the commit that may fail |
| `idempotency` | six requests over two keys and one source identity: at most one applied per name, all end, AtMostOnce implemented? | holds |
| `fulfillment` | three reservations on four lines (two at one location, one at another, one at none), statement by statement, with a feed: nothing promised twice, no lost update, deadlocks resolved? | holds |
| `procurement` | three calls of the mixes that share rows (two receipts with a transition or a revision, a receipt with two documents, acknowledgement with transition and receipt, the feed with revisions, receipt and transition) on one order: are lines, status and matches exact? | holds, except where calls overlap without a lock (the properties say which); of a status that no receipt set nothing is claimed |
| `intelligence` | two requests over five kinds of datasets and fifteen updates, synchronous or in the background, with failures and deaths: are runs whole, ordered, soundly reused, merges idempotent? | holds |
| `planning` | a run over three SKUs while bills (also cyclic ones) and stock are committed: do requirements balance, are promises covered, does every explosion end? | holds |
| `agents` | a built-in and a deployed agent, plans that work, fail and compensate, restarts, failed commits, Redis unreachable at times: pauses, circuits, steps once? | holds for pauses of deployed agents, for circuits only as long as one of their two stores was in use (`lapsed`), and for steps unless a commit of the journal failed or a budget cut a plan short |
| `onboarding` | three runs over six files that share ids in opposite orders, one of them purchase orders, with rows the database refuses, exceptions in the mapper, failures anywhere and a mapping resolved by hand: whole, kept, audited? | holds; audited as far as a table records the run, which that of purchase orders does not |

Bounds and why they suffice. Two callers are enough for the quota because every
conflict is over one lock; three ids allow one reservation open, one ended and
one that competes. The calendar has two days, with or without a change of
month. The gateway has a cascade of two providers, as the code has, and ids for
two complete queries. `MaxDirect`, `MaxEdits`, `MaxArrivals`, `MaxRetries`,
`MaxRestarts`, `MaxFeeds` and `MaxSupply` bound counters that the code leaves
open (three arrivals and two retries reach the third attempt, after which an event is
quarantined, both before and after a restart; two events of one id overwrite
each other's key); each interesting interleaving (an edit between approval and execution, a
restart between two deliveries, a feed between two statements) needs one or two
of them. For procurement, two units per line and two lines separate partial from full
receipts and a cut line from a replaced one, `MaxRevision` two lets the feed leave a revision, move
it on and take it back; orders start SUBMITTED, the last status before
acknowledgement, as receipts look at none; the mixes are the combinations in
which operations read what others write. The data sets of intelligence reach
every status of discovery and every outcome of execution. In planning three
levels are enough for a component shared by two branches and for a cycle through
others; one run is enough because no run reads what another writes; `MaxTodo` is
never reached. Two failures open a circuit in `agents`, five in the code: the
number is a parameter. Its plans have two steps at most and its budgets never cut
one. Three onboarding runs over two shared ids, and one of a purchase order, reach every deadlock and every
rollback between two inserts. Ids are symmetric wherever a run has no liveness
property.
Deadlock is not checked where requests simply come to an end; in `ai_quota` it
is checked.

Fairness. `GFairSpec`: a running query keeps running, PostgreSQL queues the
waiters of a row lock (strong fairness of `Reserve`), and nothing obliges a
failure to happen. `FairSpec` of `Phase16Idempotency` and
`FFairSpec` of `Fulfillment`: a running request keeps running; PostgreSQL aborts a
transaction of every deadlock. `PlanFairness`: a running recursion takes its next
query.
None assumes that a client sends a request.

## 4. Divergences between code and text

One is a run: `events_duplicate`. The others were met while modelling; the models
follow the code, and the properties are stated for what it does.

Quota, gateway, actions, events, idempotency:

- `reserve_quota` computes the calendar window (`quota.py:1113-1128`) before it
  waits for the policy lock (1136-1144): a reservation that waits over midnight is
  judged by yesterday's usage (`models/quota.py:219-221`: "concurrent requests
  cannot oversubscribe the configured budget").
- `process_query` does not commit between `reserve_quota` and the provider call,
  against the contract at `quota.py:1071-1072`; the policy row of the tenant is
  locked during the call, and the reservation vanishes if the process dies.
- A rollback of the gateway (`ai_gateway.py:1078`, 1167, 1251), and the one with
  which `reserve_quota` rejects (`quota.py:1268-1269`), discard the user's
  message flushed at `service.py:282-299`.
- `preflight_action` has no guard on the state (`executor.py:131`, against its
  docstring at 129): finished actions come back to life. Freshness is looked at in
  preflight only (`policy.py:53`: "Never execute stale recommendations").
- A dry run leaves an action VERIFIED (`executor.py:330-345`, against 365-366),
  and with a simulated timeout records a transmission (`adapters.py:126` before 147).
- EXTERNAL_UNKNOWN is not among the states that conflict (`policy.py:78-86`).
- `mark_processed` swallows a database error after rolling back its caller's
  work (`processor.py:118`); the event is still answered COMPLETED.
- `process_event` promises "persistent transaction safety" (`processor.py:129`), but the
  intelligence run it starts commits by itself (`intelligence/service.py:237`) before
  alert, case and mark: what fails after it leaves the run behind, with no mark. A
  retry with the same datasets finds that run by its hash; with other datasets, or if
  the run had failed, it computes again. The run's answer is not looked at, so an
  event is COMPLETED over a run that answered FAILED. The routes and the bridge from
  controlled actions hand over no datasets, so in production nobody starts it yet.
- The upsert of the mark goes by `event_id` (`models/events.py:13`,
  `processor.py:105-112`): a second payload under an id replaces the key of the
  first, and the same id from another tenant would take the row over (one tenant is
  modelled).
- A retried event leaves the quarantine and, if it fails again, is answered RETRYING
  and kept nowhere (`routers/events.py:90-93`); QuarantinedIsListed speaks of events
  answered QUARANTINED.
- Duplicates are looked up in memory only, although `persistent_events` is
  documented as the idempotency history (`models/events.py:9`).
- A collision on the source identity is looked up by key only, and raised
  (`idempotency.py:110`, against 43).

Procurement: a revision replaces lines by new ones on which nothing is received, so
"cannot reduce quantity below already received quantity" (`services.py:221`)
holds for the revision and is forgotten by the next. Overlapping receipts lose
updates, column by column. An invoice that names a line twice is matched item by
item, and so beyond what was accepted, against "Cumulative three-way matching"
(`docs/AURIX_IMPLEMENTATION_LEDGER.md:44`). `receive_goods` looks at no status: a
receipt revives a CANCELLED or CLOSED order, and one of nothing (`ge=0`) is not
refused when a revision has replaced its lines meanwhile, since it updates none of
them: over lines that were full it sets FULLY_RECEIVED on an order that is not.
`transition_purchase_order` (126-164) checks a status it has read without a lock: an
ACKNOWLEDGED that was checked before the receipts came reopens a received order for
revision, and a CLOSED that was checked before that closes the revised order
incomplete (four calls are needed for that; the proof attempt of ClosedIsComplete
found it first). `map_purchase_orders` (`db_mapper.py:514-604`) writes any status, DRAFT if
the row of a file names none, and the revision of the file, 1 if it names none: it
closes an order that received nothing, reopens one that is closed, and after it
has taken the revision back the next revision raises on
`uq_phase16_po_revision` (`phase16/models.py:92-94`). ClosedIsComplete therefore speaks
of a status that a receipt set, or a closure of that one (`vouched`), and only while
nothing overlapped.

Intelligence: the stub of a background run stays QUEUED for good if it succeeds
(`run_manager.py:30`: "run status tracking"); the hash leaves the update out, so
that two different updates of one dataset are one run; FAILED is never stored; a
synchronous request whose run raises is answered COMPLETED with a shell; the
age of a dataset is that of its first, hence oldest, record; the default key fields
take two locations of one SKU for one record; an update that changes nothing
recomputes everything; a batch that repeats a key is not idempotent in versions
(`incremental.py:139`: "Idempotently merges"). The service never passes
`cached_results`: ReusedIsCurrent states that it could.

Planning: a leaf is feasible without a bill (`services.py:942-957`) although
`contracts.py:174-177` says the engine refuses to; MRP nets the same supply again
for each occurrence of a component and ignores allocations; the bill with the
latest `effective_from` counts, also if that is in the future; a short component that
could be made is infeasible.

Agents: `models.actions` has no ActionProposal, so a ticket is never stored (the
ImportError is swallowed), against "persistent DB commit"; approving one executes
nothing. `register_agent` updates status and step budget only, so a changed risk
reverts at a restart (`models/agents.py:10`: "Authoritative persistent record");
built-in agents come back ACTIVE after a restart, whatever their row says, which
is why PauseSurvives excepts them. A deployment deploys the draft as it is
("Deploy an immutable agent version"). A step over the budget raises after the
steps before it, and takes nothing back.

Onboarding: one insert that fails rolls back the staged file and the rows before
it while `success_count` keeps counting them (`db_mapper.py:178-180`,
`service.py:1160-1190`); a PARTIAL_SUCCESS may therefore stand for nothing stored. Any
other exception in the mapper does the same for all rows, which then count as none
(`service.py:211-219`), and the run still ends with a PARTIAL_SUCCESS. A
file of unknown entity is flushed and never committed, so it cannot be "resumed"
(`service.py:93-95`). `resolve_manual_mapping` answers COMPLETED and never commits. Purchase orders
carry no `ingestion_run_id` (`db_mapper.py:545-594`), unlike the rows of the other tables:
nothing tells which run wrote them.

## 5. Proofs

TLAPS proves, for every value of the constants allowed by the assumptions of
the modules, every safety invariant that a run checks, the two action properties
of `actions`, the one of `ai_quota`, and the refinement of `AtMostOnce`. Each
component has an inductive invariant, and the proof one lemma or step per action. The assumptions say of the
constants what the code guarantees of its inputs: sets of calls and SKUs are
finite, quantities are natural numbers, markers such as `NoRes` are nothing else.

*Sums.* What the other proofs need to add up: that a sum over a finite set
has a value (`SumsExist`), gains what an element adds (`SumGains`, `SumRemoves`),
changes by what a value changes (`SumChanges`), splits (`SumOfTwo`), is monotone
(`SumOfFewer`, `SumOfSmaller`) and is bounded class by class (`SumByClass`). The
induction behind it goes over a set: a set of numbers that holds 0 and the next of
each of its members holds all (`Induction`), for else it would leave out a least one.

*QuotaProofs*, for `AIQuota`: `Types`, `RequestCounter`, `SpendCounter`, `ChargedOnce`,
`WithinBudget` and `Final` (RequestCounterExact, SpendCounterExact,
ChargedExactlyOnce, RequestBudget, LedgerAndStatusFinal). The counters alone are
not inductive: that giving exposure back needs no clamp (`GiveBackExact`) rests on
the counters being the number of `Held` and the sum of what they hold, which rests
on types and on ledger rows and statuses agreeing (ChargedExactlyOnce); and
RequestBudget needs LedgerNotAhead, that no ledger row is dated later than
today, so that a new window starts empty. The inductive invariant `IInv`
conjoins them; lemmas state what a step adds to or removes from
`Held`, `DayRows` and `MonthRows`.

For `AIGateway`: `GInvariant`, `NothingLeaks` and `AnswersCharged`
(NoLeakedExposure, AnswersAreCharged), for any queries, cascades, estimates and
policies. NoLeakedExposure speaks of the moments at which the policy row is free; to
be inductive it needs what holds in between: a query calls providers only under the
lock (`LockFollowsStage`), and an open reservation is the one of the query that holds
the lock, counted by both counters (`OneExposure`). A handler that does not touch
reservations keeps the invariant whichever way its stage goes (`QueryMoves`,
`QueryLetsGo`); a rejection lets go of the lock, which may have been the query's own.
AnswersAreCharged follows from `Charged`: usage rows belong to settled reservations, one
row each, and two answers never name the same one, for only a reservation that was
open until then is settled.

*ActionExecutorProofs.* `Types`, `OneClearedPerTarget`, `WrittenOnce`,
`AnnouncedOnceWritten`, `OnlyApprovedPayloads` and `LargeIsApproved` (the five
properties of the run `actions`, the last two about steps). The inductive
invariant adds to OneCleared what the properties rest on: an action has written
once if its outcome is on record and never otherwise (so the record, and not the
state, is what stops a second write); it is announced only if it is on record;
an approval in force was given by somebody who may give it; and, until a payload
is edited, a VALIDATED action is small and an APPROVED one is approved as it is.
A step that leaves the race (every end of execute and reconcile) cannot break
what holds of the contracts: `LeavingIsSafe`. `VerdictFacts` states what
preflight may answer.

*EventProcessorProofs.* `Types`, `WorkedOnce`, `MarkedWithWork`, `OneAlertRow` and
`QuarantineComplete` (EffectsAtMostOnce, MarkAtomicWithWork,
AlertRowsDeduplicated, QuarantinedIsListed). `RunsOnce`: a run is committed only for a
hash that has none, in whichever life. The rest of the first three rests on one
invariant: while the process lives, memory remembers what the rows hold (work
that is committed is in the cache, an alert with a row is in memory); an outcome
that commits nothing cannot break it (`NothingCommitted`). The fourth is about
the list: `RemoveFirstKeepsOthers` shows that taking an event out of the
quarantine keeps the entries of all others.

*Phase16Proofs* has four parts.

Idempotency: `IdempotencyInvariant`, `IdempotencyTypes`, `AppliedOnce`,
`RepliesCommitted` and `Implements` (AppliedOncePerName, ReplyIsCommitted,
ImplementsPromise). The invariant says that a record is open exactly for a named
request that is working, that no two records among `open` and `rows` collide, and
that every named applied request has its row. The refinement follows action by
action: Commit is Apply, a look-up or collision that finds a row is Replay, Abort
and a raised collision are Fail, everything else stutters.

Fulfilment: `FulfillmentInvariant`, `NothingOverPromised`, `LocationsCovered` and
`LinesConsistent` (NoOverPromise, LocationCovered, LineConsistent). `Locks` says
who holds what: no row and no line has two holders, and the line of a holder is
still as it read it. That a request promises no more than there is when it decides
needs `Views`: what it has seen is at least what its rivals, the requests that lock
a row it locks, have been promised. None of them can be promised anything between
its read and its commit, because they would have to hold that row too.

Procurement: `ProcurementInvariant`, `CountersExact`, `ClosedComplete` and
`InvoicesCovered` (LinesExact, ClosedIsComplete, MatchedCovered). Nothing is locked
here, so the invariant says what a call may still rely on at its commit: the
quantities a receipt has read never change and its lines are all of the order's
or, after a revision, none of them (`ReceiptRead`); what a document has read of the
receipts can only have grown (`DocumentRead`). ClosedIsComplete needs that an order which
a receipt has vouched for stays complete: whoever writes the status otherwise, the
feed and every transition but a closure included, takes the voucher back. The first
attempt at it failed for a reason: section 4, Procurement.

Planning: `PlanInvariant`, `MaterialsBalanced` and `PromisesCovered`
(MaterialsBalance, PromiseCovered), for any bills, quantities and depths. `SoFar`
says what a call that nobody disturbed has done. `Descends`: read from the top,
the stack goes down in every ranking of the recipes, so that no SKU to be
visited is on the path, and no cycle is reported. `Balanced`: the gross
requirements in the rows, and those the stack still stands for (`Weight`), are what
was asked directly and what the rows use. `Covering`: if every frame on the stack
turns out covered, so is the product; when the stack is empty, it is. `Total` and
`Below` are recursive functions; `TotalsExist` and `LevelsExist` show that they
exist and obey their equations, `TotalOfTwo`, `TotalOfMultiple` and
`CoveredByComponents` what the steps need of them.

*OnboardingProofs.* `Invariant`, `Types`, `WholeRuns`, `Kept` and `Audited`
(CompletedIsWhole, RejectedAreKept, RowsAreAudited), for any files, ids and
runs. The argument is about `success_count`: it survives a rollback of the database's errors, but the row
whose failure causes the rollback is not counted, so from then on it lags behind
the position in the file. The invariant `NothingLost` says that a count that does not
lag stands for rows that are all in the session or the table, with the staged
file. An exception of another kind ends the rows with a count of zero (`MapperRaises`). Commit stores COMPLETED only for such a count (`CommitStores`); what one
run does leaves the place of the others alone (`OthersPreserved`).

*IntelligenceRunsProofs.* `Invariant` and `WholeHits` (HitsAreWhole): what a session
holds back is fixed by where its request is (`PendingFollowsState`), so the one commit
stores all parts of a run or, after a failure, none; no later step takes a part out
of a row (`RowsOK`), and an answer points at a row that is there (`AnswersOK`).

`UpstreamIsCompleted`, `ReuseIsCurrent` and `MergesAreIdempotent`
(UpstreamCompleted, ReusedIsCurrent, MergeIdempotent) are about what the pipeline
of `Capabilities` computes, for any datasets, updates and caches. Discovery,
execution and merging are functions with an equation per stage, and what holds
before the first stage and goes on from one to the next holds after all
(`ByStages`). A stage decides about its own capability, for good (`OneStage`,
`DecidedForGood`). What an update does not affect needs nothing that it affects
(`GraphClosed`, of the three tables of the code, which are written by hand and
apart), so that its cached outcome is what computing it again would give
(`ReuseIsSound`). A merged list leaves one record per key, the last of its own
ones (`AllPlain`), and merged again only counts them (`AllDuplicates`).

*GovernedAgentsProofs.* `Invariant`, `PausesHold`, `DoneOnce` and `TrippedAreBlocked`
(PauseSurvives, StepsDoneOnce, TrippedToolsAreBlocked). A pause survives because
whoever looks the agent up finds it in both places it can be looked up in
(`PausedEverywhere`): the row says PAUSED, and the process holds the same or
nothing. A built-in agent must be in the process, where a restart puts it back as
ACTIVE: its pause ends there, and the property says so by taking it out of
`halted` (section 4). A step is not done twice because a plan one of whose steps
stands is in the journal (`DoneIsJournaled`); a failure takes back what was done
before it (`FailureTakesBack`). A tripped tool is blocked because a circuit agrees
with the history of its calls (`BreakersAgree`), as long as one store was in use;
that all calls of a plan keep the agreement is an induction over them (`AllCalls`).

Only model-checked: the liveness properties (QueryEnds, EveryRequestEnds,
EveryReserveEnds and ExplosionEnds) and the freedom from deadlock of `ai_quota`, out
of reach of the prover together with ENABLED. The mutants show that each
property, proved or not, depends on the code it is about.

## 6. Not modelled

- The numerical engines (forecasting, inventory, supply, logistics, network,
  economics, risk, finance, decision) and the answer pipeline of the AI layer
  (composer, evidence, reasoning, causal engine): functions of a data set that keep
  no state between calls; their correctness is arithmetic and wording. They are the
  bulk of the repository's lines.
- Schemas, contracts and migrations (declarations), the web client, the legacy
  API, scripts, the Celery stubs of `worker.py`.
- Returns (`services.py:595-644`), exception cases (`phase16/case_service.py`),
  integrations (`integrations/sync_manager.py`), run records
  (`aurix_api/runs/manager.py`) and the model registry (`mlops/registry.py`): life
  cycles of one record, not yet modelled. In the registry, rollback takes the
  version with the greatest creation time although its docstring says "most
  recently archived".
- Of the modelled parts: the offline test double of the gateway, `check_quota` and
  the summaries (they only read), audit records, authentication; approval
  tickets, deployment records and the rate limiter of the agents; shipment
  notices; the cache argument of the pipeline as a feature of the service, which
  never passes it.
- Several API processes at once: the deployment runs one.

`expire_reservations`, `set_policy` and `record_usage` have no caller outside
the tests; they are modelled as operations anyone may call.

## 7. What a next step would be

1. The composition of `Procurement` and `Fulfillment` with `Phase16Idempotency`,
   and of `Onboarding` with the positions of `Fulfillment`.
2. The life cycles listed above, each with its restart and retry.
3. What the liveness properties rest on and can be proved without ENABLED: that
   some step of a running call has its guard true.
