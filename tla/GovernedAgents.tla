--------------------------- MODULE GovernedAgents ---------------------------
(***************************************************************************)
(* The agent runtime with its governance gate, circuit breakers and its    *)
(* compensation (aurix_core/agents), and the studio that deploys agents    *)
(* into it (aurix_core/studio), as routers/agents.py and                   *)
(* routers/agent_studio.py call them.                                      *)
(*                                                                         *)
(* The handlers are coroutines that never await, in the one process of the *)
(* Dockerfile: each is one step.  What the process holds is lost at a      *)
(* restart; rows survive it.  A failed commit is swallowed: the rows stay  *)
(* as they were and the call is answered all the same.  Redis may be       *)
(* reachable or not.  One tenant; a plan is named by its idempotency key.  *)
(* Approval tickets and deployment records are left out: nothing executes  *)
(* a plan because of them.                                                 *)
(***************************************************************************)
EXTENDS Integers, Sequences, FiniteSets

CONSTANTS
    Agents,
    BuiltIn,     \* the agents the module defines: a function to definitions
    Drafted,     \* the agents drafts are made of
    Configs,     \* what a draft may hold: [risk, max]
    Tools,
    Plans,       \* plans by key: [Keys -> [steps, dry, approval]]
    Fresh,       \* the keys of plans the route makes: a new one at each call
    Threshold    \* failures that open a circuit: 5 in the code
Keys == DOMAIN Plans
None == [status |-> "none"]

Risks == {"LOW", "MEDIUM", "HIGH", "CRITICAL"}
\* Drafts with another risk class are left out: deploying them raises.
Config == [risk : Risks, max : Int]
Definition == [status : {"ACTIVE", "PAUSED"}, risk : Risks, max : Int]

ASSUME BuiltInAssumption ==
    DOMAIN BuiltIn \subseteq Agents /\ BuiltIn \in [DOMAIN BuiltIn -> Definition]
ASSUME DraftsAssumption == Drafted \subseteq Agents /\ Configs \subseteq Config
ASSUME PlansAssumption ==
    \A k \in Keys : Plans[k].steps \in Seq([tool : Tools, fails : BOOLEAN]) /\ Plans[k].steps # <<>>
ASSUME NumbersAssumption == Threshold \in Nat \ {0}

VARIABLES
    registry,  \* [Agents -> definition or None]: agents the process holds
    rows,      \* [Agents -> definition or None]: AgentRuntimeModel
    draft,     \* [Agents -> config or None]: drafts the process holds
    drafts,    \* [Agents -> config or None]: StudioAgentModel
    used,      \* the idempotency keys the process remembers
    journal,   \* the keys of completed executions on record
    local,     \* [Tools -> circuit]: breakers of the process
    shared,    \* [Tools -> circuit]: breakers in Redis
    up,        \* Redis is reachable
    times,     \* history: [Keys -> [step -> times done and not compensated, up to 2]]
    halted,    \* history: agents paused on record since they last were made active
    streak,    \* history: [Tools -> [failures, hot]], failed calls in a row
    lapsed     \* history: "journal", a commit of it failed; "breaker", the store of the
               \* breakers was lost or changed; "cut", a step budget cut a plan short

memory == <<registry, draft, used, local>>
vars == <<memory, rows, drafts, journal, shared, up, times, halted, streak, lapsed>>

Closed == [state |-> "CLOSED", failures |-> 0, hot |-> FALSE]
NoAgents == [a \in Agents |-> IF a \in DOMAIN BuiltIn THEN BuiltIn[a] ELSE None]

Init ==
    /\ registry = NoAgents /\ rows = [a \in Agents |-> None]
    /\ draft = [a \in Agents |-> None] /\ drafts = [a \in Agents |-> None]
    /\ used = {} /\ journal = {}
    /\ local = [t \in Tools |-> Closed] /\ shared = [t \in Tools |-> Closed]
    /\ up \in BOOLEAN
    /\ times = [k \in Keys |-> [i \in DOMAIN Plans[k].steps |-> 0]]
    /\ halted = {} /\ streak = [t \in Tools |-> [failures |-> 0, hot |-> FALSE]]
    /\ lapsed = {}

\* get_agent and get_agent_draft: what the process holds, or else the row.
Held(held, stored, a) == IF held[a] # None THEN held[a] ELSE stored[a]
Agent(a) == Held(registry, rows, a)
Draft(a) == Held(draft, drafts, a)

\* Mutant of Stored: the row of an agent that has one is left alone.
Stored_First(d, row) == IF row = None THEN d ELSE row
\* An agent's row is written in full once, and then in these two columns only.
Stored(d, row) == IF row = None THEN d ELSE [row EXCEPT !.status = d.status, !.max = d.max]
Register(a, d) ==
    /\ registry' = [registry EXCEPT ![a] = d]
    /\ \E stored \in BOOLEAN :
          /\ rows' = IF stored THEN [rows EXCEPT ![a] = Stored(d, @)] ELSE rows
          /\ halted' = IF d.status = "PAUSED" /\ stored THEN halted \cup {a} ELSE halted \ {a}

-----------------------------------------------------------------------------
SaveDraft(a, c) ==
    /\ draft' = [draft EXCEPT ![a] = c]
    /\ \E stored \in BOOLEAN :
          drafts' = IF stored /\ drafts[a] = None THEN [drafts EXCEPT ![a] = c] ELSE drafts
    /\ UNCHANGED <<registry, rows, used, journal, local, shared, up,
                   times, halted, streak, lapsed>>

\* deploy_agent_version to production, and rollback_deployment: of the draft as it is,
\* whatever the version is called.  Deployments are read by reports only.
Deploy(a) ==
    /\ Draft(a) # None
    /\ draft' = [draft EXCEPT ![a] = Draft(a)]
    /\ Register(a, [status |-> "ACTIVE", risk |-> Draft(a).risk, max |-> Draft(a).max])
    /\ UNCHANGED <<drafts, used, journal, local, shared, up, times, streak, lapsed>>

SetStatus(a, s) ==
    /\ Agent(a) # None
    /\ Register(a, [Agent(a) EXCEPT !.status = s])
    /\ UNCHANGED <<draft, drafts, used, journal, local, shared, up,
                   times, streak, lapsed>>

\* The lists of agents and of drafts put the rows the process does not hold into it;
\* publishing a version and deploying below production do so for one draft.
ListAgents ==
    /\ registry' = [a \in Agents |-> Agent(a)]
    /\ UNCHANGED <<draft, used, local, rows, drafts, journal, shared, up, times, halted,
                   streak, lapsed>>
ListDrafts ==
    /\ draft' = [a \in Agents |-> Draft(a)]
    /\ UNCHANGED <<registry, used, local, rows, drafts, journal, shared, up, times, halted,
                   streak, lapsed>>

-----------------------------------------------------------------------------
\* is_circuit_open: Redis is asked first, and unless it says OPEN or HALF_OPEN, or
\* cannot be reached, so is the process.
Asked(t) == IF up /\ shared[t].state # "CLOSED" THEN shared[t] ELSE local[t]
Blocked(t) == Asked(t).state = "OPEN" /\ Asked(t).hot
\* A circuit whose cooldown is over is half open once it has been asked.
Probed(circuits, asks, tools) ==
    [t \in Tools |->
        IF t \in tools /\ asks[t] /\ circuits[t].state = "OPEN" /\ ~circuits[t].hot
        THEN [circuits[t] EXCEPT !.state = "HALF_OPEN"] ELSE circuits[t]]

\* Mutant of Recorded: a failure trips the circuit only when it is closed.
Recorded_KeepsHalfOpen(c, ok) ==
    IF ok THEN Closed
    ELSE [state |-> IF c.state = "CLOSED" /\ c.failures + 1 >= Threshold THEN "OPEN" ELSE c.state,
          failures |-> c.failures + 1, hot |-> TRUE]
\* record_tool_result; the counter is cut where it no longer matters.
Recorded(c, ok) ==
    IF ok THEN Closed
    ELSE [state |-> IF c.failures + 1 >= Threshold THEN "OPEN" ELSE "CLOSED",
          failures |-> IF c.failures < Threshold THEN c.failures + 1 ELSE c.failures, hot |-> TRUE]
\* The first n steps, one after the other.
RecordAll(circuits, steps, n) ==
    LET after[i \in 0..n] ==
            IF i = 0 THEN circuits
            ELSE [after[i - 1] EXCEPT ![steps[i].tool] = Recorded(@, ~steps[i].fails)]
    IN after[n]
\* The history of the same calls.
Counted(c, ok) ==
    IF ok THEN [failures |-> 0, hot |-> FALSE]
    ELSE [failures |-> IF c.failures < Threshold THEN c.failures + 1 ELSE c.failures, hot |-> TRUE]
CountAll(streaks, steps, n) ==
    LET after[i \in 0..n] ==
            IF i = 0 THEN streaks
            ELSE [after[i - 1] EXCEPT ![steps[i].tool] = Counted(@, ~steps[i].fails)]
    IN after[n]

\* The steps that are called: up to the first that fails, within the agent's budget.
Called(k, max) ==
    LET steps == Plans[k].steps
        Stops(i) == steps[i].fails \/ i = Len(steps) \/ i = max
    IN CHOOSE n \in 0..Len(steps) :
          IF max <= 0 THEN n = 0 ELSE n > 0 /\ Stops(n) /\ \A i \in 1..(n - 1) : ~Stops(i)

\* Mutant of Remembered: only the process is asked for the key.
Remembered_InMemory(k) == k \in used
Remembered(k) == k \notin Fresh /\ (k \in used \/ k \in journal)

NeedsApproval(d, k) == Plans[k].approval \/ d.risk \in {"HIGH", "CRITICAL"}
Passes(d, k) == d.status = "ACTIVE" /\ \A i \in DOMAIN Plans[k].steps : ~Blocked(Plans[k].steps[i].tool)
ToolsOf(k) == {Plans[k].steps[i].tool : i \in DOMAIN Plans[k].steps}
FromShared == [t \in Tools |-> up /\ shared[t].state # "CLOSED"]
FromLocal == [t \in Tools |-> ~FromShared[t]]

\* The gate refuses: a paused agent, a blocked tool, a rate limit, or a key that was
\* used; the circuits of the steps before that, and of that step, have been asked.
Refuse(a, k) ==
    /\ Agent(a) # None
    /\ registry' = [registry EXCEPT ![a] = Agent(a)]
    /\ \E n \in 0..Len(Plans[k].steps) :
          LET asked == {Plans[k].steps[i].tool : i \in 1..n}
          IN /\ IF n = 0 THEN Agent(a).status # "ACTIVE" \/ Blocked(Plans[k].steps[1].tool)
                ELSE Agent(a).status = "ACTIVE" /\ \A t \in asked : ~Blocked(t)
             /\ shared' = Probed(shared, FromShared, asked)
             /\ local' = Probed(local, FromLocal, asked)
    /\ UNCHANGED <<rows, draft, drafts, used, journal, up, times, halted,
                   streak, lapsed>>

\* A dry run, or a ticket for a plan that needs approval: nothing is executed.
Preview(a, k) ==
    /\ Agent(a) # None /\ Passes(Agent(a), k)
    /\ Plans[k].dry \/ (~Remembered(k) /\ NeedsApproval(Agent(a), k))
    /\ registry' = [registry EXCEPT ![a] = Agent(a)]
    /\ shared' = Probed(shared, FromShared, ToolsOf(k))
    /\ local' = Probed(local, FromLocal, ToolsOf(k))
    /\ UNCHANGED <<rows, draft, drafts, used, journal, up, times, halted, streak, lapsed>>

\* The steps that are taken back when step n of a plan fails.
Compensated(n) == 1..(n - 1)

\* The key is used before anything runs.  A failed step takes back those before it;
\* a step over the budget raises and takes nothing back; success is journaled.
Execute(a, k) ==
    LET d == Agent(a)
        steps == Plans[k].steps
        n == Called(k, d.max)
        fails == n > 0 /\ steps[n].fails
        completes == n = Len(steps) /\ ~fails
    IN /\ d # None /\ Passes(d, k) /\ ~Plans[k].dry
       /\ ~Remembered(k) /\ ~NeedsApproval(d, k)
       /\ registry' = [registry EXCEPT ![a] = d]
       /\ used' = IF k \in Fresh THEN used ELSE used \cup {k}
       /\ shared' = LET probed == Probed(shared, FromShared, ToolsOf(k))
                    IN IF up THEN RecordAll(probed, steps, n) ELSE probed
       /\ local' = RecordAll(Probed(local, FromLocal, ToolsOf(k)), steps, n)
       /\ streak' = CountAll(streak, steps, n)
       /\ times' = IF k \in Fresh THEN times
                   ELSE [times EXCEPT ![k] = [i \in DOMAIN steps |->
                           IF i \in (IF fails THEN (1..(n - 1)) \ Compensated(n) ELSE 1..n)
                           THEN IF @[i] < 2 THEN @[i] + 1 ELSE 2 ELSE @[i]]]
       /\ \E stored \in BOOLEAN :
             /\ journal' = IF completes /\ stored /\ k \notin Fresh THEN journal \cup {k} ELSE journal
             /\ lapsed' = lapsed \cup (IF completes /\ ~stored THEN {"journal"} ELSE {})
                                \cup (IF ~completes /\ ~fails THEN {"cut"} ELSE {})
       /\ UNCHANGED <<rows, draft, drafts, up, halted>>

-----------------------------------------------------------------------------
\* The cooldown after the last failure of every tool passes.
CoolDown ==
    LET Cool(cs) == [t \in Tools |-> [cs[t] EXCEPT !.hot = FALSE]]
    IN /\ \E t \in Tools : local[t].hot \/ shared[t].hot
       /\ local' = Cool(local) /\ shared' = Cool(shared) /\ streak' = Cool(streak)
       /\ UNCHANGED <<registry, draft, used, rows, drafts, journal, up,
                      times, halted, lapsed>>

\* Bounded to once: after it the breakers' property says no more.
RedisFlaps ==
    /\ "breaker" \notin lapsed
    /\ up' = ~up /\ lapsed' = lapsed \cup {"breaker"}
    /\ UNCHANGED <<memory, rows, drafts, journal, shared, times, halted, streak>>

\* Built-in agents come back as they are defined, ACTIVE.
Restart ==
    /\ registry' = NoAgents /\ draft' = [a \in Agents |-> None]
    /\ used' = {} /\ local' = [t \in Tools |-> Closed]
    /\ halted' = halted \ DOMAIN BuiltIn
    /\ lapsed' = lapsed \cup (IF ~up /\ local # [t \in Tools |-> Closed] THEN {"breaker"} ELSE {})
    /\ UNCHANGED <<rows, drafts, journal, shared, up, times, streak>>

Next ==
    \/ \E a \in Drafted, c \in Configs : SaveDraft(a, c)
    \/ \E a \in Agents : Deploy(a)
    \/ \E a \in Agents, s \in {"ACTIVE", "PAUSED"} : SetStatus(a, s)
    \/ \E a \in Agents, k \in Keys : Refuse(a, k) \/ Preview(a, k) \/ Execute(a, k)
    \/ ListAgents \/ ListDrafts \/ CoolDown \/ RedisFlaps \/ Restart

Spec == Init /\ [][Next]_vars

-----------------------------------------------------------------------------
\* An agent paused on record does not run again, in this process or a later one that
\* knows it from its row, until it is resumed or deployed (routers/agents.py:98-117,
\* runtime.py:68-122).
PauseSurvives == \A a \in halted : Agent(a) # None /\ Agent(a).status # "ACTIVE"

\* A tool that failed Threshold times in a row, the last time within the cooldown, is
\* blocked, half-open probes included, as long as one store of the breakers was in use
\* (tools.py:139-213).
TrippedToolsAreBlocked ==
    \A t \in Tools :
        ("breaker" \notin lapsed /\ streak[t].failures >= Threshold /\ streak[t].hot) => Blocked(t)

\* Compensation, remembered keys and the journal together: no step of a plan is done
\* twice without having been taken back, restarts included, unless the journal's commit
\* failed or a step budget cut the plan (governance_gate.py:76-107, runtime.py:205-262).
StepsDoneOnce ==
    lapsed \cap {"journal", "cut"} = {} => \A k \in Keys : \A i \in DOMAIN times[k] : times[k][i] <= 1
=============================================================================
