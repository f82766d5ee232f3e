------------------------ MODULE GovernedAgentsProofs ------------------------
(***************************************************************************)
(* For any agents, drafts, plans and tools: an agent paused on record      *)
(* stays paused, a tool that failed too often is blocked, and no step is   *)
(* done twice, through restarts, failed commits and everything the studio  *)
(* deploys.                                                                *)
(*                                                                         *)
(* A pause holds because whoever looks an agent up finds the same status   *)
(* in the process and in its row; a plan's steps because its key is in the *)
(* journal as soon as one of them has been done for good; a block because  *)
(* the circuit in the store that is asked first has counted every call, by *)
(* induction over the steps of each plan.                                  *)
(***************************************************************************)
EXTENDS GovernedAgents, Sums

\* Agents and drafts, in the process and on record, and what is counted of plans.
HoldersOK ==
    /\ registry \in [Agents -> Definition \cup {None}]
    /\ rows \in [Agents -> Definition \cup {None}]
    /\ draft \in [Agents -> Config \cup {None}]
    /\ drafts \in [Agents -> Config \cup {None}]
TimesOK ==
    /\ DOMAIN times = Keys
    /\ \A k \in Keys : times[k] \in [DOMAIN Plans[k].steps -> 0..2]

\* What a pause on record means in the two places an agent is looked up in.
PausedEverywhere ==
    \A a \in halted :
        /\ a \in Agents /\ rows[a].status = "PAUSED"
        /\ registry[a] = None \/ registry[a].status = "PAUSED"
        /\ a \in DOMAIN BuiltIn => registry[a] # None

\* What has been done for good is in the journal.
DoneIsJournaled ==
    lapsed \cap {"journal", "cut"} = {} =>
        \A k \in Keys : \A i \in DOMAIN Plans[k].steps :
            times[k][i] \in {0, 1} /\ (times[k][i] = 1 => k \in journal)

\* What is not there is neither a definition nor a configuration.
LEMMA NoneIsNothing == None \notin Definition /\ None \notin Config
<1>1. None.status \notin {"ACTIVE", "PAUSED"}
  BY DEF None
<1>2. None \notin Definition
  BY <1>1 DEF Definition
<1>3. DOMAIN None = {"status"}
  BY DEF None
<1>4. ASSUME None \in Config PROVE FALSE
  <2>1. "risk" \in DOMAIN None
    BY <1>4 DEF Config
  <2> QED
    BY <1>3, <2>1
<1> QED
  BY <1>2, <1>4

\* A definition keeps its form under the two updates the code makes.
LEMMA Updates ==
    ASSUME NEW d \in Definition, NEW s \in {"ACTIVE", "PAUSED"}
    PROVE  /\ [d EXCEPT !.status = s] \in Definition
           /\ [d EXCEPT !.status = s].status = s
BY DEF Definition

\* A row that is written has the status of what was registered.
LEMMA StoredIsDefinition ==
    ASSUME NEW d \in Definition, NEW row \in Definition \cup {None}
    PROVE  Stored(d, row) \in Definition /\ Stored(d, row).status = d.status
BY NoneIsNothing DEF Stored, Definition

\* Whoever looks an agent or a draft up finds one, or nothing.
LEMMA AgentIsDefinition ==
    ASSUME HoldersOK, NEW a \in Agents
    PROVE  /\ Agent(a) \in Definition \cup {None}
           /\ Draft(a) \in Config \cup {None}
BY DEF HoldersOK, Agent, Draft, Held

-----------------------------------------------------------------------------
(***************************************************************************)
(* Types.                                                                  *)
(***************************************************************************)
\* Before the first call nothing is paused or done.
LEMMA InitHolders == Init => HoldersOK /\ TimesOK /\ PausedEverywhere /\ DoneIsJournaled
<1> SUFFICES ASSUME Init PROVE HoldersOK /\ TimesOK /\ PausedEverywhere /\ DoneIsJournaled
  OBVIOUS
<1>1. HoldersOK
  BY BuiltInAssumption DEF Init, HoldersOK, NoAgents
<1>2. TimesOK /\ DoneIsJournaled
  BY DEF Init, TimesOK, DoneIsJournaled
<1>3. PausedEverywhere
  BY DEF Init, PausedEverywhere
<1> QED
  BY <1>1, <1>2, <1>3

\* Register puts a definition in the process and, if the commit succeeds, its status
\* on record; the history follows.
LEMMA RegisterKeeps ==
    ASSUME HoldersOK, PausedEverywhere, NEW a \in Agents, NEW d \in Definition, Register(a, d)
    PROVE  /\ registry' \in [Agents -> Definition \cup {None}]
           /\ rows' \in [Agents -> Definition \cup {None}]
           /\ PausedEverywhere'
<1>1. registry' = [registry EXCEPT ![a] = d] /\ registry' \in [Agents -> Definition \cup {None}]
  BY DEF Register, HoldersOK
<1>2. PICK stored \in BOOLEAN :
         /\ rows' = IF stored THEN [rows EXCEPT ![a] = Stored(d, @)] ELSE rows
         /\ halted' = IF d.status = "PAUSED" /\ stored THEN halted \cup {a} ELSE halted \ {a}
  BY DEF Register
<1>3. rows[a] \in Definition \cup {None}
  BY DEF HoldersOK
<1>4. Stored(d, rows[a]) \in Definition /\ Stored(d, rows[a]).status = d.status
  BY <1>3, StoredIsDefinition
<1>5. rows' \in [Agents -> Definition \cup {None}]
  BY <1>2, <1>4 DEF HoldersOK
<1>6. ASSUME NEW b \in halted'
      PROVE  /\ b \in Agents /\ rows'[b].status = "PAUSED"
             /\ registry'[b] = None \/ registry'[b].status = "PAUSED"
             /\ b \in DOMAIN BuiltIn => registry'[b] # None
  <2>1. CASE b = a
    BY <1>1, <1>2, <1>4, <1>6, <2>1, NoneIsNothing DEF HoldersOK
  <2>2. CASE b # a
    BY <1>1, <1>2, <1>6, <2>2 DEF HoldersOK, PausedEverywhere
  <2> QED
    BY <2>1, <2>2
<1>7. PausedEverywhere'
  BY <1>6 DEF PausedEverywhere
<1> QED
  BY <1>1, <1>5, <1>7

\* Looking an agent up puts it in the process, with the status it has on record.
LEMMA LookingUpKeeps ==
    ASSUME HoldersOK, PausedEverywhere, UNCHANGED <<rows, halted>>,
           registry' \in [Agents -> Definition \cup {None}],
           \A b \in Agents : registry'[b] \in {registry[b], Agent(b)}
    PROVE  PausedEverywhere'
BY NoneIsNothing DEF HoldersOK, PausedEverywhere, Agent, Held

\* Every step keeps a pause in both places.
LEMMA RegistryPreserved ==
    ASSUME HoldersOK, PausedEverywhere, Next
    PROVE  HoldersOK' /\ PausedEverywhere'
<1>1. ASSUME NEW a \in Drafted, NEW c \in Configs, SaveDraft(a, c)
      PROVE  HoldersOK' /\ PausedEverywhere'
  <2>1. a \in Agents /\ c \in Config
    BY <1>1, DraftsAssumption
  <2>2. UNCHANGED <<registry, rows, halted>>
    BY <1>1 DEF SaveDraft
  <2>3. draft' \in [Agents -> Config \cup {None}] /\ drafts' \in [Agents -> Config \cup {None}]
    BY <1>1, <2>1 DEF SaveDraft, HoldersOK
  <2> QED
    BY <2>2, <2>3 DEF HoldersOK, PausedEverywhere
<1>2. ASSUME NEW a \in Agents, Deploy(a)
      PROVE  HoldersOK' /\ PausedEverywhere'
  <2>1. Draft(a) \in Config
    BY <1>2, AgentIsDefinition DEF Deploy
  <2>2. [status |-> "ACTIVE", risk |-> Draft(a).risk, max |-> Draft(a).max] \in Definition
    BY <2>1 DEF Config, Definition
  <2>3. Register(a, [status |-> "ACTIVE", risk |-> Draft(a).risk, max |-> Draft(a).max])
    BY <1>2 DEF Deploy
  <2>4. draft' \in [Agents -> Config \cup {None}] /\ drafts' = drafts
    BY <1>2, <2>1 DEF Deploy, HoldersOK
  <2> QED
    BY <2>2, <2>3, <2>4, RegisterKeeps DEF HoldersOK
<1>3. ASSUME NEW a \in Agents, NEW s \in {"ACTIVE", "PAUSED"}, SetStatus(a, s)
      PROVE  HoldersOK' /\ PausedEverywhere'
  <2>1. Agent(a) \in Definition
    BY <1>3, AgentIsDefinition DEF SetStatus
  <2>2. [Agent(a) EXCEPT !.status = s] \in Definition
    BY <2>1, Updates
  <2>3. Register(a, [Agent(a) EXCEPT !.status = s]) /\ UNCHANGED <<draft, drafts>>
    BY <1>3 DEF SetStatus
  <2> QED
    BY <2>2, <2>3, RegisterKeeps DEF HoldersOK
<1>4. ASSUME NEW a \in Agents, NEW k \in Keys, Refuse(a, k) \/ Preview(a, k) \/ Execute(a, k)
      PROVE  HoldersOK' /\ PausedEverywhere'
  <2>1. registry' = [registry EXCEPT ![a] = Agent(a)] /\ UNCHANGED <<rows, draft, drafts, halted>>
    BY <1>4 DEF Refuse, Preview, Execute
  <2>2. /\ registry' \in [Agents -> Definition \cup {None}]
        /\ \A b \in Agents : registry'[b] \in {registry[b], Agent(b)}
    BY <2>1, AgentIsDefinition DEF HoldersOK
  <2> QED
    BY <2>1, <2>2, LookingUpKeeps DEF HoldersOK
<1>5. CASE ListAgents
  <2>1. registry' = [a \in Agents |-> Agent(a)] /\ UNCHANGED <<rows, draft, drafts, halted>>
    BY <1>5 DEF ListAgents
  <2>2. /\ registry' \in [Agents -> Definition \cup {None}]
        /\ \A b \in Agents : registry'[b] \in {registry[b], Agent(b)}
    BY <2>1, AgentIsDefinition
  <2> QED
    BY <2>1, <2>2, LookingUpKeeps DEF HoldersOK
<1>6. CASE ListDrafts
  <2>1. draft' = [a \in Agents |-> Draft(a)] /\ UNCHANGED <<registry, rows, drafts, halted>>
    BY <1>6 DEF ListDrafts
  <2>2. draft' \in [Agents -> Config \cup {None}]
    BY <2>1, AgentIsDefinition
  <2> QED
    BY <2>1, <2>2 DEF HoldersOK, PausedEverywhere
<1>7. CASE CoolDown \/ RedisFlaps
  <2>1. UNCHANGED <<registry, rows, draft, drafts, halted>>
    BY <1>7 DEF CoolDown, RedisFlaps, memory
  <2> QED
    BY <2>1 DEF HoldersOK, PausedEverywhere
<1>8. CASE Restart
  <2>1. /\ registry' = NoAgents /\ draft' = [a \in Agents |-> None]
        /\ UNCHANGED <<rows, drafts>> /\ halted' = halted \ DOMAIN BuiltIn
    BY <1>8 DEF Restart
  <2>2. HoldersOK'
    BY <2>1, BuiltInAssumption DEF HoldersOK, NoAgents
  <2>3. PausedEverywhere'
    BY <2>1 DEF PausedEverywhere, NoAgents
  <2> QED
    BY <2>2, <2>3
<1> QED
  BY <1>1, <1>2, <1>3, <1>4, <1>5, <1>6, <1>7, <1>8 DEF Next

-----------------------------------------------------------------------------
(***************************************************************************)
(* The steps of plans.                                                     *)
(***************************************************************************)

\* Everything but an execution leaves the steps done and the journal alone, and
\* forgets nothing that has lapsed.
LEMMA OthersDoNoSteps ==
    ASSUME Next, \A a \in Agents, k \in Keys : ~Execute(a, k)
    PROVE  UNCHANGED <<times, journal>> /\ lapsed \subseteq lapsed'
BY DEF Next, SaveDraft, Deploy, SetStatus, Refuse, Preview, ListAgents, ListDrafts,
       CoolDown, RedisFlaps, Restart, memory

\* A plan that fails takes back what it did before the step that failed.
LEMMA FailureTakesBack ==
    ASSUME NEW n PROVE (1..(n - 1)) \ Compensated(n) = {}
BY DEF Compensated

\* An execution counts its steps and journals its key.
LEMMA ExecuteCounts ==
    ASSUME TimesOK, DoneIsJournaled, NEW a \in Agents, NEW k \in Keys, Execute(a, k)
    PROVE  TimesOK' /\ DoneIsJournaled'
<1> DEFINE steps == Plans[k].steps
           n == Called(k, Agent(a).max)
           fails == n > 0 /\ steps[n].fails
           completes == n = Len(steps) /\ ~fails
           counted == IF fails THEN (1..(n - 1)) \ Compensated(n) ELSE 1..n
           row == [i \in DOMAIN steps |->
                      IF i \in counted THEN IF times[k][i] < 2 THEN times[k][i] + 1 ELSE 2
                      ELSE times[k][i]]
<1>1. /\ ~Remembered(k)
      /\ times' = IF k \in Fresh THEN times ELSE [times EXCEPT ![k] = row]
  BY DEF Execute
<1>2. PICK stored \in BOOLEAN :
         /\ journal' = IF completes /\ stored /\ k \notin Fresh THEN journal \cup {k} ELSE journal
         /\ lapsed' = lapsed \cup (IF completes /\ ~stored THEN {"journal"} ELSE {})
                             \cup (IF ~completes /\ ~fails THEN {"cut"} ELSE {})
  BY DEF Execute
<1>3. fails => counted = {}
  BY FailureTakesBack
<1> HIDE DEF n, fails, completes, counted
<1>4. times[k] \in [DOMAIN steps -> 0..2]
  BY DEF TimesOK
<1>5. row \in [DOMAIN steps -> 0..2]
  BY <1>4
<1>6. TimesOK'
  BY <1>1, <1>5 DEF TimesOK
<1>7. ASSUME lapsed' \cap {"journal", "cut"} = {}, NEW p \in Keys, NEW i \in DOMAIN Plans[p].steps
      PROVE  times'[p][i] \in {0, 1} /\ (times'[p][i] = 1 => p \in journal')
  <2>1. lapsed \cap {"journal", "cut"} = {} /\ journal \subseteq journal'
    BY <1>2, <1>7
  <2>2. times[p][i] \in {0, 1} /\ (times[p][i] = 1 => p \in journal)
    BY <2>1, <1>7 DEF DoneIsJournaled
  <2>3. CASE p # k \/ k \in Fresh
    <3>1. times'[p][i] = times[p][i]
      BY <1>1, <2>3
    <3> QED
      BY <2>1, <2>2, <3>1
  <2>4. CASE p = k /\ k \notin Fresh
    <3>1. times[k][i] = 0
      BY <1>1, <2>2, <2>4 DEF Remembered
    <3>2. times'[k][i] = row[i] /\ i \in DOMAIN steps
      BY <1>1, <1>7, <2>4 DEF TimesOK
    <3>3. times'[k][i] = IF i \in counted THEN 1 ELSE 0
      BY <3>1, <3>2
    <3>4. fails \/ (completes /\ stored)
      BY <1>2, <1>7
    <3> QED
      BY <1>2, <1>3, <2>4, <3>3, <3>4
  <2> QED
    BY <2>3, <2>4
<1>8. DoneIsJournaled'
  BY <1>7 DEF DoneIsJournaled
<1> QED
  BY <1>6, <1>8

\* Every step keeps what is done for good in the journal.
LEMMA StepsPreserved ==
    ASSUME TimesOK, DoneIsJournaled, Next
    PROVE  TimesOK' /\ DoneIsJournaled'
<1>1. CASE \E a \in Agents, k \in Keys : Execute(a, k)
  BY <1>1, ExecuteCounts
<1>2. CASE \A a \in Agents, k \in Keys : ~Execute(a, k)
  <2>1. UNCHANGED <<times, journal>> /\ lapsed \subseteq lapsed'
    BY <1>2, OthersDoNoSteps
  <2> QED
    BY <2>1 DEF TimesOK, DoneIsJournaled
<1> QED
  BY <1>1, <1>2

-----------------------------------------------------------------------------
(***************************************************************************)
(* The circuit breakers.                                                   *)
(***************************************************************************)
Circuit == [state : {"CLOSED", "OPEN", "HALF_OPEN"}, failures : 0..Threshold, hot : BOOLEAN]
Streak == [failures : 0..Threshold, hot : BOOLEAN]

BreakersOK ==
    /\ local \in [Tools -> Circuit] /\ shared \in [Tools -> Circuit]
    /\ streak \in [Tools -> Streak] /\ up \in BOOLEAN

\* The circuit says what the calls were: it counts the failures in a row, and from
\* Threshold of them on it is open, or half open when the cooldown is over.
Agree(c, s) ==
    /\ c.failures = s.failures /\ c.hot = s.hot
    /\ c.failures >= Threshold => c.state = "OPEN" \/ (c.state = "HALF_OPEN" /\ ~c.hot)
AllAgree(circuits, streaks) == \A t \in Tools : Agree(circuits[t], streaks[t])

\* The store that is asked first speaks for the breakers while it is the same one.
Store == IF up THEN shared ELSE local
BreakersAgree == "breaker" \notin lapsed => AllAgree(Store, streak)

\* The equations of the two recursive functions.
Recording(circuits, steps, n, g) ==
    g = [i \in 0..n |->
            IF i = 0 THEN circuits
            ELSE [g[i - 1] EXCEPT ![steps[i].tool] = Recorded(@, ~steps[i].fails)]]
Counting(streaks, steps, n, g) ==
    g = [i \in 0..n |->
            IF i = 0 THEN streaks
            ELSE [g[i - 1] EXCEPT ![steps[i].tool] = Counted(@, ~steps[i].fails)]]

\* The recursive functions exist, for any number of steps.
LEMMA RecordingExists ==
    ASSUME NEW circuits, NEW steps, NEW n \in Nat
    PROVE  \E g : Recording(circuits, steps, n, g)
<1> DEFINE Has(m) == \E g : Recording(circuits, steps, m, g)
           T == {m \in Nat : Has(m)}
<1>1. 0 \in T
  <2> DEFINE g == [i \in 0..0 |-> circuits]
  <2>1. Recording(circuits, steps, 0, g)
    BY DEF Recording
  <2> QED BY <2>1
<1>2. ASSUME NEW m \in T PROVE m + 1 \in T
  <2>1. PICK g : Recording(circuits, steps, m, g)
    OBVIOUS
  <2> DEFINE Body(f, i) == IF i = 0 THEN circuits
                           ELSE [f[i - 1] EXCEPT ![steps[i].tool] = Recorded(@, ~steps[i].fails)]
             h == [i \in 0..(m + 1) |-> Body(g, i)]
  <2>2. \A i \in 0..m : g[i] = Body(g, i)
    BY <2>1 DEF Recording
  <2>3. \A i \in 0..m : h[i] = g[i]
    BY <2>2
  <2>4. \A i \in 0..(m + 1) : i = 0 \/ i - 1 \in 0..m
    OBVIOUS
  <2>5. \A i \in 0..(m + 1) : Body(h, i) = Body(g, i)
    <3> HIDE DEF h
    <3> QED BY <2>3, <2>4
  <2>6. h = [i \in 0..(m + 1) |-> Body(h, i)]
    <3> HIDE DEF Body
    <3> QED BY <2>5
  <2>7. Recording(circuits, steps, m + 1, h)
    <3> HIDE DEF h
    <3> QED BY <2>6 DEF Recording
  <2> QED BY <2>7
<1>3. T = Nat
  <2> HIDE DEF Has
  <2> QED BY <1>1, <1>2, Induction
<1> QED BY <1>3

\* So does the one of the history.
LEMMA CountingExists ==
    ASSUME NEW streaks, NEW steps, NEW n \in Nat
    PROVE  \E g : Counting(streaks, steps, n, g)
<1> DEFINE Has(m) == \E g : Counting(streaks, steps, m, g)
           T == {m \in Nat : Has(m)}
<1>1. 0 \in T
  <2> DEFINE g == [i \in 0..0 |-> streaks]
  <2>1. Counting(streaks, steps, 0, g)
    BY DEF Counting
  <2> QED BY <2>1
<1>2. ASSUME NEW m \in T PROVE m + 1 \in T
  <2>1. PICK g : Counting(streaks, steps, m, g)
    OBVIOUS
  <2> DEFINE Body(f, i) == IF i = 0 THEN streaks
                           ELSE [f[i - 1] EXCEPT ![steps[i].tool] = Counted(@, ~steps[i].fails)]
             h == [i \in 0..(m + 1) |-> Body(g, i)]
  <2>2. \A i \in 0..m : g[i] = Body(g, i)
    BY <2>1 DEF Counting
  <2>3. \A i \in 0..m : h[i] = g[i]
    BY <2>2
  <2>4. \A i \in 0..(m + 1) : i = 0 \/ i - 1 \in 0..m
    OBVIOUS
  <2>5. \A i \in 0..(m + 1) : Body(h, i) = Body(g, i)
    <3> HIDE DEF h
    <3> QED BY <2>3, <2>4
  <2>6. h = [i \in 0..(m + 1) |-> Body(h, i)]
    <3> HIDE DEF Body
    <3> QED BY <2>5
  <2>7. Counting(streaks, steps, m + 1, h)
    <3> HIDE DEF h
    <3> QED BY <2>6 DEF Counting
  <2> QED BY <2>7
<1>3. T = Nat
  <2> HIDE DEF Has
  <2> QED BY <1>1, <1>2, Induction
<1> QED BY <1>3

\* The value of each is the last one of a function with that equation.
LEMMA RecordAllIs ==
    ASSUME NEW circuits, NEW steps, NEW n \in Nat
    PROVE  \E g : Recording(circuits, steps, n, g) /\ RecordAll(circuits, steps, n) = g[n]
<1> DEFINE h == CHOOSE h : Recording(circuits, steps, n, h)
<1>1. Recording(circuits, steps, n, h)
  BY RecordingExists
<1>2. RecordAll(circuits, steps, n) = h[n]
  BY DEF RecordAll, Recording
<1> QED BY <1>1, <1>2

\* The same of the history.
LEMMA CountAllIs ==
    ASSUME NEW streaks, NEW steps, NEW n \in Nat
    PROVE  \E g : Counting(streaks, steps, n, g) /\ CountAll(streaks, steps, n) = g[n]
<1> DEFINE h == CHOOSE h : Counting(streaks, steps, n, h)
<1>1. Counting(streaks, steps, n, h)
  BY CountingExists
<1>2. CountAll(streaks, steps, n) = h[n]
  BY DEF CountAll, Counting
<1> QED BY <1>1, <1>2

\* One call: types, and the agreement of a circuit with the history.
LEMMA OneCall ==
    ASSUME NEW c \in Circuit, NEW s \in Streak, NEW ok \in BOOLEAN
    PROVE  /\ Recorded(c, ok) \in Circuit /\ Counted(s, ok) \in Streak
           /\ Agree(c, s) => Agree(Recorded(c, ok), Counted(s, ok))
<1>1. Threshold \in Nat \ {0}
  BY NumbersAssumption
<1>2. /\ c.failures \in 0..Threshold /\ c.state \in {"CLOSED", "OPEN", "HALF_OPEN"}
      /\ s.failures \in 0..Threshold
  BY DEF Circuit, Streak
<1>3. CASE ok
  BY <1>1, <1>3 DEF Recorded, Counted, Closed, Circuit, Streak, Agree
<1>4. CASE ~ok
  <2>1. Recorded(c, ok) \in Circuit /\ Counted(s, ok) \in Streak
    BY <1>1, <1>2, <1>4 DEF Recorded, Counted, Circuit, Streak
  <2>2. Agree(c, s) => Agree(Recorded(c, ok), Counted(s, ok))
    BY <1>1, <1>2, <1>4 DEF Recorded, Counted, Agree
  <2> QED BY <2>1, <2>2
<1> QED BY <1>3, <1>4

\* The items of a sequence.
LEMMA ItemsOfSequence ==
    ASSUME NEW S, NEW q \in Seq(S), NEW j \in 1..Len(q) PROVE q[j] \in S
OBVIOUS

\* All calls of a plan.
LEMMA AllCalls ==
    ASSUME NEW steps \in Seq([tool : Tools, fails : BOOLEAN]), NEW n \in 0..Len(steps),
           NEW circuits \in [Tools -> Circuit], NEW streaks \in [Tools -> Streak]
    PROVE  /\ RecordAll(circuits, steps, n) \in [Tools -> Circuit]
           /\ CountAll(streaks, steps, n) \in [Tools -> Streak]
           /\ AllAgree(circuits, streaks) =>
                 AllAgree(RecordAll(circuits, steps, n), CountAll(streaks, steps, n))
<1>0. n \in Nat
  OBVIOUS
<1>1. PICK g : Recording(circuits, steps, n, g) /\ RecordAll(circuits, steps, n) = g[n]
  BY <1>0, RecordAllIs
<1>2. PICK h : Counting(streaks, steps, n, h) /\ CountAll(streaks, steps, n) = h[n]
  BY <1>0, CountAllIs
<1> DEFINE Good(i) == /\ g[i] \in [Tools -> Circuit] /\ h[i] \in [Tools -> Streak]
                      /\ AllAgree(circuits, streaks) => AllAgree(g[i], h[i])
           T == {i \in Nat : i <= n => Good(i)}
<1>3. 0 \in T
  <2>1. g[0] = circuits /\ h[0] = streaks
    BY <1>1, <1>2 DEF Recording, Counting
  <2> QED BY <2>1
<1>4. ASSUME NEW i \in T PROVE i + 1 \in T
  <2> SUFFICES ASSUME i + 1 <= n PROVE Good(i + 1)
    OBVIOUS
  <2>1. Good(i)
    OBVIOUS
  <2>2. i + 1 \in 0..n /\ i + 1 # 0 /\ (i + 1) - 1 = i /\ i + 1 \in 1..Len(steps)
    OBVIOUS
  <2> HIDE DEF Good, T
  <2>3. steps[i + 1].tool \in Tools /\ steps[i + 1].fails \in BOOLEAN
    <3>1. steps[i + 1] \in [tool : Tools, fails : BOOLEAN]
      BY <2>2, ItemsOfSequence
    <3> QED BY <3>1
  <2> DEFINE t == steps[i + 1].tool
             ok == ~steps[i + 1].fails
  <2>4. /\ g[i + 1] = [g[i] EXCEPT ![t] = Recorded(@, ok)]
        /\ h[i + 1] = [h[i] EXCEPT ![t] = Counted(@, ok)]
    <3> DEFINE j == i + 1
    <3>1. j \in 0..n /\ j # 0 /\ j - 1 = i /\ t = steps[j].tool /\ ok = ~steps[j].fails
      BY <2>2
    <3> HIDE DEF j, t, ok
    <3>2. /\ g[j] = [g[j - 1] EXCEPT ![steps[j].tool] = Recorded(@, ~steps[j].fails)]
          /\ h[j] = [h[j - 1] EXCEPT ![steps[j].tool] = Counted(@, ~steps[j].fails)]
      BY <1>1, <1>2, <3>1 DEF Recording, Counting
    <3>3. /\ g[j] = [g[i] EXCEPT ![t] = Recorded(@, ok)]
          /\ h[j] = [h[i] EXCEPT ![t] = Counted(@, ok)]
      BY <3>1, <3>2
    <3> QED BY <3>3 DEF j
  <2>5. t \in Tools /\ ok \in BOOLEAN
    BY <2>3
  <2> HIDE DEF t, ok
  <2>6. g[i] \in [Tools -> Circuit] /\ h[i] \in [Tools -> Streak]
    BY <2>1 DEF Good
  <2>7. /\ Recorded(g[i][t], ok) \in Circuit /\ Counted(h[i][t], ok) \in Streak
        /\ Agree(g[i][t], h[i][t]) => Agree(Recorded(g[i][t], ok), Counted(h[i][t], ok))
    BY <2>5, <2>6, OneCall
  <2>8. g[i + 1] \in [Tools -> Circuit] /\ h[i + 1] \in [Tools -> Streak]
    BY <2>4, <2>5, <2>6, <2>7
  <2>9. ASSUME AllAgree(circuits, streaks), NEW u \in Tools PROVE Agree(g[i + 1][u], h[i + 1][u])
    <3>1. Agree(g[i][u], h[i][u]) /\ Agree(g[i][t], h[i][t])
      BY <2>1, <2>5, <2>9 DEF AllAgree, Good
    <3>2. /\ g[i + 1][u] = IF u = t THEN Recorded(g[i][t], ok) ELSE g[i][u]
          /\ h[i + 1][u] = IF u = t THEN Counted(h[i][t], ok) ELSE h[i][u]
      BY <2>4, <2>6, <2>9
    <3> QED BY <2>7, <3>1, <3>2
  <2> QED BY <2>8, <2>9 DEF AllAgree, Good
<1>5. n \in T
  <2>1. T = Nat
    <3>1. T \in SUBSET Nat
      OBVIOUS
    <3> HIDE DEF T
    <3> QED BY <1>3, <1>4, <3>1, Induction
  <2> QED BY <1>0, <2>1
<1> QED BY <1>0, <1>1, <1>2, <1>5

\* The steps that are called are some first steps of the plan.
LEMMA CalledIsWithin ==
    ASSUME NEW k \in Keys, NEW max \in Int
    PROVE  Called(k, max) \in 0..Len(Plans[k].steps)
<1> DEFINE steps == Plans[k].steps
           Stops(i) == steps[i].fails \/ i = Len(steps) \/ i = max
           Is(n) == IF max <= 0 THEN n = 0 ELSE n > 0 /\ Stops(n) /\ \A i \in 1..(n - 1) : ~Stops(i)
<1>1. Len(steps) \in Nat \ {0}
  BY PlansAssumption
<1>2. \E n \in 0..Len(steps) : Is(n)
  <2>1. CASE max <= 0
    BY <1>1, <2>1
  <2>2. CASE ~(max <= 0)
    <3> DEFINE T == {i \in Nat : i > 0 /\ i <= Len(steps) => \E n \in 1..i : Stops(n) /\ \A j \in 1..(n - 1) : ~Stops(j)}
               U == {i \in Nat : \/ \E n \in 1..i : Stops(n) /\ \A j \in 1..(n - 1) : ~Stops(j)
                                 \/ \A j \in 1..i : ~Stops(j)}
    <3> HIDE DEF Stops
    <3>1. 0 \in U
      OBVIOUS
    <3>2. ASSUME NEW i \in U PROVE i + 1 \in U
      <4>1. CASE \E n \in 1..i : Stops(n) /\ \A j \in 1..(n - 1) : ~Stops(j)
        BY <4>1
      <4>2. CASE \A j \in 1..i : ~Stops(j)
        <5>1. (i + 1) - 1 = i
          OBVIOUS
        <5>2. CASE Stops(i + 1)
          BY <4>2, <5>1, <5>2
        <5>3. CASE ~Stops(i + 1)
          <6>1. \A j \in 1..(i + 1) : j = i + 1 \/ j \in 1..i
            OBVIOUS
          <6> QED BY <4>2, <5>3, <6>1
        <5> QED BY <5>2, <5>3
      <4> QED BY <4>1, <4>2
    <3>3. U = Nat
      <4>1. U \in SUBSET Nat
        OBVIOUS
      <4> HIDE DEF U
      <4> QED BY <3>1, <3>2, <4>1, Induction
    <3>4. Len(steps) \in U
      BY <1>1, <3>3
    <3>5. Stops(Len(steps)) /\ Len(steps) \in 1..Len(steps)
      BY <1>1 DEF Stops
    <3>6. PICK n \in 1..Len(steps) : Stops(n) /\ \A j \in 1..(n - 1) : ~Stops(j)
      BY <3>4, <3>5
    <3>7. n \in 0..Len(steps) /\ n > 0
      BY <1>1
    <3> QED BY <2>2, <3>6, <3>7
  <2> QED BY <2>1, <2>2
<1>3. Called(k, max) = CHOOSE n \in 0..Len(steps) : Is(n)
  BY DEF Called
<1> HIDE DEF Is, steps
<1>4. Called(k, max) \in 0..Len(steps)
  BY <1>2, <1>3
<1> QED BY <1>4 DEF steps

\* Asking a circuit whose cooldown is over changes nothing that counts.
LEMMA ProbedKeeps ==
    ASSUME NEW circuits \in [Tools -> Circuit], NEW asks \in [Tools -> BOOLEAN], NEW tools,
           NEW streaks \in [Tools -> Streak]
    PROVE  /\ Probed(circuits, asks, tools) \in [Tools -> Circuit]
           /\ AllAgree(circuits, streaks) => AllAgree(Probed(circuits, asks, tools), streaks)
<1> DEFINE p == Probed(circuits, asks, tools)
<1>1. ASSUME NEW t \in Tools
      PROVE  /\ p[t] \in Circuit /\ p[t].failures = circuits[t].failures /\ p[t].hot = circuits[t].hot
             /\ \/ p[t].state = circuits[t].state
                \/ circuits[t].state = "OPEN" /\ ~circuits[t].hot /\ p[t].state = "HALF_OPEN"
  <2>1. circuits[t] \in Circuit
    OBVIOUS
  <2> QED BY <2>1 DEF Probed, Circuit
<1>2. p \in [Tools -> Circuit]
  BY <1>1 DEF Probed
<1>3. AllAgree(circuits, streaks) => AllAgree(p, streaks)
  BY <1>1 DEF AllAgree, Agree
<1> QED BY <1>2, <1>3

\* Which store a question is put to, for every tool.
LEMMA AskersTyped ==
    ASSUME BreakersOK PROVE FromShared \in [Tools -> BOOLEAN] /\ FromLocal \in [Tools -> BOOLEAN]
BY DEF BreakersOK, FromShared, FromLocal

\* An execution records the same calls in the circuits and in the history.
LEMMA ExecuteRecords ==
    ASSUME HoldersOK, BreakersOK, BreakersAgree, NEW a \in Agents, NEW k \in Keys, Execute(a, k)
    PROVE  BreakersOK' /\ BreakersAgree'
<1> DEFINE steps == Plans[k].steps
           n == Called(k, Agent(a).max)
           ps == Probed(shared, FromShared, ToolsOf(k))
           pl == Probed(local, FromLocal, ToolsOf(k))
<1>1. /\ shared' = IF up THEN RecordAll(ps, steps, n) ELSE ps
      /\ local' = RecordAll(pl, steps, n)
      /\ streak' = CountAll(streak, steps, n)
      /\ up' = up /\ lapsed \subseteq lapsed'
  BY DEF Execute
<1>2. n \in 0..Len(steps)
  <2>1. Agent(a) \in Definition
    BY AgentIsDefinition DEF Execute
  <2>2. Agent(a).max \in Int
    BY <2>1 DEF Definition
  <2> QED BY <2>2, CalledIsWithin
<1>3. steps \in Seq([tool : Tools, fails : BOOLEAN])
  BY PlansAssumption
<1>4. /\ ps \in [Tools -> Circuit] /\ pl \in [Tools -> Circuit]
      /\ AllAgree(shared, streak) => AllAgree(ps, streak)
      /\ AllAgree(local, streak) => AllAgree(pl, streak)
  BY AskersTyped, ProbedKeeps DEF BreakersOK
<1> HIDE DEF steps, n, ps, pl
<1>5. streak \in [Tools -> Streak]
  BY DEF BreakersOK
<1>6. /\ RecordAll(ps, steps, n) \in [Tools -> Circuit] /\ RecordAll(pl, steps, n) \in [Tools -> Circuit]
      /\ CountAll(streak, steps, n) \in [Tools -> Streak]
      /\ AllAgree(ps, streak) => AllAgree(RecordAll(ps, steps, n), CountAll(streak, steps, n))
      /\ AllAgree(pl, streak) => AllAgree(RecordAll(pl, steps, n), CountAll(streak, steps, n))
  BY <1>2, <1>3, <1>4, <1>5, AllCalls
<1>7. BreakersOK'
  BY <1>1, <1>4, <1>6 DEF BreakersOK
<1>8. BreakersAgree'
  <2> SUFFICES ASSUME "breaker" \notin lapsed' PROVE AllAgree(IF up THEN shared' ELSE local', streak')
    BY <1>1 DEF BreakersAgree, Store
  <2>1. AllAgree(Store, streak)
    BY <1>1 DEF BreakersAgree
  <2> QED BY <1>1, <1>4, <1>6, <2>1 DEF Store
<1> QED BY <1>7, <1>8

\* A question put to the breakers, by a refusal or a preview.
LEMMA AskingKeeps ==
    ASSUME BreakersOK, BreakersAgree, NEW tools,
           shared' = Probed(shared, FromShared, tools), local' = Probed(local, FromLocal, tools),
           UNCHANGED <<streak, up, lapsed>>
    PROVE  BreakersOK' /\ BreakersAgree'
<1>1. /\ shared' \in [Tools -> Circuit] /\ local' \in [Tools -> Circuit]
      /\ AllAgree(shared, streak) => AllAgree(shared', streak)
      /\ AllAgree(local, streak) => AllAgree(local', streak)
  BY AskersTyped, ProbedKeeps DEF BreakersOK
<1>2. BreakersOK'
  BY <1>1 DEF BreakersOK
<1>3. BreakersAgree'
  BY <1>1 DEF BreakersAgree, Store
<1> QED BY <1>2, <1>3

\* Every step keeps the breakers in agreement with the history.
LEMMA BreakersPreserved ==
    ASSUME HoldersOK, BreakersOK, BreakersAgree, Next
    PROVE  BreakersOK' /\ BreakersAgree'
<1>1. ASSUME UNCHANGED <<local, shared, streak, up, lapsed>> PROVE BreakersOK' /\ BreakersAgree'
  BY <1>1 DEF BreakersOK, BreakersAgree, Store
<1>2. CASE \E a \in Drafted, c \in Configs : SaveDraft(a, c)
  BY <1>1, <1>2 DEF SaveDraft
<1>3. CASE \E a \in Agents : Deploy(a)
  BY <1>1, <1>3 DEF Deploy
<1>4. CASE \E a \in Agents, s \in {"ACTIVE", "PAUSED"} : SetStatus(a, s)
  BY <1>1, <1>4 DEF SetStatus
<1>5. CASE ListAgents \/ ListDrafts
  BY <1>1, <1>5 DEF ListAgents, ListDrafts
<1>6. ASSUME NEW a \in Agents, NEW k \in Keys, Refuse(a, k) PROVE BreakersOK' /\ BreakersAgree'
  BY <1>6, AskingKeeps DEF Refuse
<1>7. ASSUME NEW a \in Agents, NEW k \in Keys, Preview(a, k) PROVE BreakersOK' /\ BreakersAgree'
  BY <1>7, AskingKeeps DEF Preview
<1>8. ASSUME NEW a \in Agents, NEW k \in Keys, Execute(a, k) PROVE BreakersOK' /\ BreakersAgree'
  BY <1>8, ExecuteRecords
<1>9. CASE CoolDown
  <2> DEFINE Cool(cs) == [t \in Tools |-> [cs[t] EXCEPT !.hot = FALSE]]
  <2>1. local' = Cool(local) /\ shared' = Cool(shared) /\ streak' = Cool(streak) /\ UNCHANGED <<up, lapsed>>
    BY <1>9 DEF CoolDown
  <2>2. ASSUME NEW c \in Circuit PROVE [c EXCEPT !.hot = FALSE] \in Circuit
    BY DEF Circuit
  <2>3. ASSUME NEW s \in Streak PROVE [s EXCEPT !.hot = FALSE] \in Streak
    BY DEF Streak
  <2>4. ASSUME NEW c \in Circuit, NEW s \in Streak, Agree(c, s)
        PROVE  Agree([c EXCEPT !.hot = FALSE], [s EXCEPT !.hot = FALSE])
    BY <2>4 DEF Agree, Circuit, Streak
  <2>5. BreakersOK'
    BY <2>1, <2>2, <2>3 DEF BreakersOK
  <2>6. BreakersAgree'
    <3> SUFFICES ASSUME "breaker" \notin lapsed, NEW t \in Tools
                 PROVE  Agree((IF up THEN shared' ELSE local')[t], streak'[t])
      BY <2>1 DEF BreakersAgree, AllAgree, Store
    <3>1. Agree(Store[t], streak[t]) /\ Store[t] \in Circuit /\ streak[t] \in Streak
      BY DEF BreakersAgree, AllAgree, BreakersOK, Store
    <3>2. (IF up THEN shared' ELSE local')[t] = [Store[t] EXCEPT !.hot = FALSE]
          /\ streak'[t] = [streak[t] EXCEPT !.hot = FALSE]
      BY <2>1 DEF Store
    <3> QED BY <2>4, <3>1, <3>2
  <2> QED BY <2>5, <2>6
<1>10. CASE RedisFlaps
  <2>1. UNCHANGED <<local, shared, streak>> /\ up' = ~up /\ "breaker" \in lapsed'
    BY <1>10 DEF RedisFlaps, memory
  <2> QED BY <2>1 DEF BreakersOK, BreakersAgree
<1>11. CASE Restart
  <2>1. /\ local' = [t \in Tools |-> Closed] /\ UNCHANGED <<shared, up, streak>>
        /\ lapsed' = lapsed \cup (IF ~up /\ local # [t \in Tools |-> Closed] THEN {"breaker"} ELSE {})
    BY <1>11 DEF Restart
  <2>2. Closed \in Circuit
    BY NumbersAssumption DEF Closed, Circuit
  <2>3. BreakersOK'
    BY <2>1, <2>2 DEF BreakersOK
  <2>4. BreakersAgree'
    BY <2>1 DEF BreakersAgree, Store, BreakersOK
  <2> QED BY <2>3, <2>4
<1> QED
  BY <1>2, <1>3, <1>4, <1>5, <1>6, <1>7, <1>8, <1>9, <1>10, <1>11 DEF Next

\* At first no circuit has counted anything.
LEMMA InitBreakers == Init => BreakersOK /\ BreakersAgree
<1> SUFFICES ASSUME Init PROVE BreakersOK /\ BreakersAgree
  OBVIOUS
<1>1. Threshold \in Nat \ {0}
  BY NumbersAssumption
<1>2. Closed \in Circuit /\ [failures |-> 0, hot |-> FALSE] \in Streak
  BY <1>1 DEF Closed, Circuit, Streak
<1>3. Agree(Closed, [failures |-> 0, hot |-> FALSE])
  BY <1>1 DEF Agree, Closed
<1> QED BY <1>2, <1>3 DEF Init, BreakersOK, BreakersAgree, AllAgree, Store

-----------------------------------------------------------------------------
\* The inductive invariant: types, and one conjunct for each of the three claims.
IInv == HoldersOK /\ TimesOK /\ PausedEverywhere /\ DoneIsJournaled /\ BreakersOK /\ BreakersAgree

\* What agents and drafts are and where a pause shows, and that what is done for good
\* is in the journal, hold in every reachable state (runtime.py:68-140, 205-262).
THEOREM Invariant == Spec => []IInv
<1>1. Init => IInv
  BY InitHolders, InitBreakers DEF IInv
<1>2. IInv /\ [Next]_vars => IInv'
  <2> SUFFICES ASSUME IInv, [Next]_vars PROVE IInv'
    OBVIOUS
  <2>1. CASE Next
    BY <2>1, RegistryPreserved, StepsPreserved, BreakersPreserved DEF IInv
  <2>2. CASE UNCHANGED vars
    <3>1. /\ UNCHANGED <<registry, draft, rows, drafts>>
          /\ UNCHANGED <<journal, times, halted, lapsed>>
          /\ UNCHANGED <<local, shared, up, streak>>
      BY <2>2 DEF vars, memory
    <3>2. HoldersOK' /\ PausedEverywhere'
      BY <3>1 DEF IInv, HoldersOK, PausedEverywhere
    <3>3. TimesOK' /\ DoneIsJournaled'
      BY <3>1 DEF IInv, TimesOK, DoneIsJournaled
    <3>4. BreakersOK' /\ BreakersAgree'
      BY <3>1 DEF IInv, BreakersOK, BreakersAgree, Store
    <3> QED
      BY <3>2, <3>3, <3>4 DEF IInv
  <2> QED
    BY <2>1, <2>2
<1> QED
  BY <1>1, <1>2, PTL DEF Spec

\* An agent paused on record does not run again before it is resumed or deployed, for
\* any agents, drafts and restarts (routers/agents.py:98-117, runtime.py:68-122).
THEOREM PausesHold == Spec => []PauseSurvives
<1>1. ASSUME IInv, NEW a \in halted PROVE Agent(a) # None /\ Agent(a).status # "ACTIVE"
  <2>1. a \in Agents /\ rows[a].status = "PAUSED" /\ (registry[a] = None \/ registry[a].status = "PAUSED")
    BY <1>1 DEF IInv, PausedEverywhere
  <2>2. None.status # "PAUSED"
    BY DEF None
  <2> QED
    BY <2>1, <2>2 DEF Agent, Held
<1>2. IInv => PauseSurvives
  BY <1>1 DEF PauseSurvives
<1> QED
  BY <1>2, Invariant, PTL

\* No step of a plan is done twice without having been taken back, for any plans and
\* restarts, unless a commit of the journal failed or a budget cut a plan short
\* (governance_gate.py:76-107, runtime.py:205-262).
THEOREM DoneOnce == Spec => []StepsDoneOnce
<1>1. IInv => StepsDoneOnce
  BY DEF IInv, TimesOK, DoneIsJournaled, StepsDoneOnce
<1> QED
  BY <1>1, Invariant, PTL

\* A tool that failed Threshold times in a row, the last time within the cooldown, is
\* blocked, for any plans and any Threshold, as long as one store of the breakers was in
\* use (tools.py:139-213).
THEOREM TrippedAreBlocked == Spec => []TrippedToolsAreBlocked
<1>1. ASSUME IInv, NEW t \in Tools, "breaker" \notin lapsed, streak[t].failures >= Threshold, streak[t].hot
      PROVE  Blocked(t)
  <2>1. Agree(Store[t], streak[t])
    BY <1>1 DEF IInv, BreakersAgree, AllAgree
  <2>2. Store[t].state = "OPEN" /\ Store[t].hot
    BY <1>1, <2>1 DEF Agree
  <2>3. Asked(t) = Store[t]
    BY <2>2 DEF Asked, Store
  <2> QED
    BY <2>2, <2>3 DEF Blocked
<1>2. IInv => TrippedToolsAreBlocked
  BY <1>1 DEF TrippedToolsAreBlocked
<1> QED
  BY <1>2, Invariant, PTL
=============================================================================
