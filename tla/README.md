# A verification project for the multi-agent supervisor

TLA+ models of the assistant in this repository, TLC configurations that
model-check them on small instances, and proofs that the TLA+ proof system
(TLAPS) checks for every value of the constants. Definitions are translated from
the code; `PROJECT.json` maps each one to the lines it stands for.

## 1. Inventory

### The parts, and how they interact

A user talks to one *thread*. `chat.py` (Chainlit, many users, one worker thread
per message) or `main.py` (CLI) receives a message, opens an LLM budget
(`services/budget.py`) and invokes the main LangGraph graph (`graph/workflow.py`)
on the thread's checkpointed `SupervisorState` (`state/state.py`):

    START -> memory_manager -> supervisor -> one specialist -> supervisor -> ... -> finalize -> END

LangGraph runs one node at a time and writes a checkpoint after each. Nodes talk
to each other only through the state: the supervisor routes with `next` and
`current_task`, a specialist answers with `last_result`.

| component | state it keeps | operations | what is hard about it | what makes it correct |
|---|---|---|---|---|
| entry points (`chat.py`, `main.py`) | none; the budget scope | new message, resume with an answer, error replies | `get_state` may fail and turn an answer into a new message; two messages of one thread at once | every invocation ends in one reply; the budget's scope is the documented one |
| `memory_manager` | `turn_count`, resets of the turn's fields, pruned `task_history`, summary | one, at the start of a turn | what it does not reset survives from a turn that broke off | a turn begins as if there had been no other |
| supervisor (`agents/supervisor.py`) | `plan`, `plan_ready`, `plan_note`, `hops`, `turn_cut_short`, `outage`, `task_history` | plan, validate, cap, write a result back, insert, skip, route, end | a result is written into "the first pending step" unchecked; three passes change the plan on every visit; limits add up exactly | each result reaches its step, steps run forward and once, no question costs work, the hop cap is out of reach |
| planning calls of the supervisor | locals of a visit | decompose, retry, ask for one decision, retry | nested retries over a chain with fallbacks, on a budget that may go in the middle | an outage is not retried, a spent budget is not an outage, it ends |
| sql tool loop (`agents/sql_agent.py`) | `collected_facts`, `last_chartable_rows`, locals | ask, run tools, synthesize | seven iterations, eight ways out | rows, facts and status agree on each of them |
| specialists (convo, rag, sql, visu) | `last_result`, `chart_path` | one node each | errors that escape; stale rows; budget that goes in the middle | a result names its source; charts draw the right rows |
| clarification | `clarification_count`, `clarification_question` | interrupt, replay with the answer | the node runs twice; the plan is thrown away | bounded questions, nothing lost |
| `finalize` | the reply | one | results left out as "shown in the chart"; old texts; empty replies | what was finished is shown, every turn says something of its own |
| research subgraph (`agents/research/`) | its own `SubGraphSupervisorState` | controller, researcher's tool loop, report writer, boundary node | a loop in which a model decides; locals that vanish | it ends, with bounded web use, and "done" means a report |
| LLM chain (`services/llm.py`) and budget | `calls`, `tokens`, `llm_seconds` | invoke, fall back, reserve, charge | failures at every line of a loop, limits checked in two places | a budget is a backstop; `TurnBudgetExceeded` means nothing is left |
| database pools (`db/connection.py`) | two lazily created pools, a lock | get, acquire, give back, close | double-checked locking against `close_pools`, all worker threads at once | no pool is lost; one closed earlier is never handed out |
| long-term memory (`services/memory.py`) | the table's flag and lock, facts in the database | write, read and clear facts | a lock held while a connection is awaited; a flag tested without it | no statement before the table; no thread waits for ever |
| web tools (`tools/web_search.py`) | a function of `urllib3`, replaced while a page is fetched | search, fetch | process-wide replacement under a lock only fetchers take | the replacement is seen by its own fetch only |
| checkpointer, charts on disk, login, indexing, evaluation, logging | files and tables | upserts, lookups | nothing that a unit test would not reach | - |

`PROJECT.json` lists every part with its status and every hazard with the line
where it bites and the properties aimed at it.

## 2. The plan

Order of work, the most important behaviour first:

1. *(done)* `Plan`, `Turn`: a conversation thread, with crashes, abandoned
   questions, errors and budgets; `Contract`, the abstract thread, and the
   refinement, also across crashes and with its bounded steps; the theorems of
   `PlanProofs`, `TurnProofs`, `ChartProofs` and `ReplyProofs`.
2. *(done)* `ResilientLLM` and the abstract `BudgetedCall` it implements; proofs.
3. *(done)* `Research`, which implements the same `BudgetedCall`; proofs.
4. *(done)* `Planning`, `SqlLoop` and their composition with the chain,
   `LLMCalls`: the nodes that make several LLM calls, each shown to implement
   `BudgetedCall`; proofs in `LLMCallsProofs`.
5. *(done)* `Threading`, `Pools`, `LongTermMemory`, `PinnedFetch` and their
   composition `Workers`: what the turns of different users share; proofs in
   `WorkersProofs`.
6. *(done)* `Overlap`: several messages of one thread on one checkpoint; what
   would repair it in `OverlapProofs`.
7. *(open)* what a turn holds while another message of its thread overlaps it.

## 3. The modules

| module | models | role |
|---|---|---|
| `Plan` | the deterministic plan operators of `agents/supervisor.py`, the types of `state/state.py` | operators only |
| `Turn` | the main graph: every node, the entry points, crashes | state machine, extends `Plan` |
| `TurnProperties` | - | what a turn must and must not do |
| `Contract` | - | abstract: what a thread promises its user, in how many steps, and what a crash may take from it |
| `TurnRefinement` | - | the mapping of `Turn` onto `Contract`, the measure of the steps left |
| `MCTurn` | - | TLC's instances of `Turn`: workflows and requests |
| `BudgetedCall` | - | abstract: what work under a budget promises its caller, in how many steps |
| `ResilientLLM` | `services/llm.py` `invoke`, `services/budget.py` | state machine, implements `BudgetedCall` |
| `Planning` | `get_workflow_plan`, `get_supervisor_decision`, the pre-check | a user of the chain, extends `ResilientLLM` |
| `SqlLoop` | `agents/sql_agent.py` | a user of the chain, extends `ResilientLLM` |
| `LLMCalls` | the nodes of a turn taking turns on one budget | composes `Planning` and `SqlLoop` with the chain; each implements `BudgetedCall` |
| `Research`, `ResearchProperties` | `agents/research/` | state machine, implements `BudgetedCall` |
| `Threading` | - | the worker threads, and nobody |
| `Pools` | `db/connection.py` | state machine |
| `LongTermMemory` | the table of facts of `services/memory.py` | state machine, extends `Pools` whose connections it uses |
| `PinnedFetch` | `fetch_page` of `tools/web_search.py` | state machine |
| `Workers` | worker threads running tools | composes the three |
| `Overlap` | `main` of `chat.py` for messages of one thread, the checkpoint | state machine |
| `PlanProofs`, `TurnProofs`, `ChartProofs`, `ReplyProofs`, `LLMCallsProofs` (the chain too), `ResearchProofs`, `WorkersProofs`, `OverlapProofs` | - | theorems |

**Turn.** `pc` is the node the checkpoint schedules next (LangGraph's task list;
it folds in `SupervisorState.next` and `route_supervisor`), `"idle"` between
turns, `"paused"` at an interrupt. Each node is one action because LangGraph
commits a node's update as one checkpoint; a node that raises commits nothing
(`NodeRaises`), and the process may stop between any two nodes (`Crash`). The
other variables are the fields of `SupervisorState` by their names, apart from
`req` (what the request's text implies), `said` (who spoke last), `spent`
(`TurnBudget.exhausted()` of the scope) and `reply` (what the user was shown).

- `supervisor_agent` is the action `Supervisor`, one disjunct per way it can
  take: `AdvancePlan` writes the result back, `EndUnplanned` closes a turn without
  a budget, `PlanWorkflow`, `PlanByDecision` and `PlanOutage` make a plan. All but
  `EndUnplanned` end in `RoutePlan`, which runs insert, skip and budget pass
  (`Settled`) and routes.
- What a planner answers is any member of `Workflows`; a fallback decision is
  any route and task. `PlanFromWorkflow`, `ValidatePlan`,
  `ApplyClarificationCap`, `MaybeInsertVisu`, ... are the functions of the same
  names.
- `Clarification` is the resumption; the first run of that node is `Interrupt`.
  In `chat.py` a resume opens a new budget, in `main.py` it goes on with the old
  one: both are in `spent' \in {spent, FALSE}`.
- `NewMessage` is also enabled on a paused thread: `chat.py:178` (a failed
  `get_state`) and a restarted CLI start a turn there.

Data abstractions: a task is a model value; a text is the number of the turn it
was produced in, chartable rows the number of the hop that produced them, so
that stale and foreign data can be told apart; a chart's picture is the rows'
number.

**ResilientLLM.** `Check`, `BuildFails`/`BuildSucceeds`,
`ProviderAnswers`/`ProviderFails` are the steps of the loop in `invoke`; whether
an error is retryable is a choice. `contacts` and `waited` record what happened,
next to what the budget believes. Retries inside the provider's client are not
contacts of their own: the code does not see them.

**Planning, SqlLoop, LLMCalls.** A visit of a node is a record: its place, the
attempt or iteration, and how it returned. `AskPlanner` and `AskModel` are the
`invoke` of `ResilientLLM`; the next step of the node waits until that is back
(`pc = "idle"`) and looks at `outcome`. `AtRestAll` says that no such node is at
work: LangGraph runs one at a time, so `BeginPlanning`, `BeginSql`, other nodes'
calls (`OtherNode`) and a new budget (`NextMessage`) wait for it. An sql fact is
abstracted to whether its output can be charted, the rows to the position of the
fact they come from. `funded` remembers for the contract only that a visit began
with budget left. What `Turn` takes as outcomes of `SqlAgent`, `PlanWorkflow`,
`PlanByDecision` and `PlanOutage` are the ways these visits end. They reach the
same `BudgetedCall` as the chain, one level up: a node *as a whole* is refused
without budget and says `budget_exceeded` only once it is spent. That contract allows
an error at any time, so `NodesKeepContract` asks besides (`RefusedIffOver`) that a
visit ends as refused just when its last call was: were `TurnBudgetExceeded` caught
by the `except Exception` behind it, a spent budget would be classified as an outage.

**Workers.** Chainlit handles each message in a worker thread, so everything in
module globals is shared. Every read or write of a global is a step of its own;
statements under a lock that only the lock's holder can see are one step. `conn[t]`,
`memory[t]` and `fetch[t]` are where thread `t` is in the getters, in an
operation on facts, in `fetch_page`. `LongTermMemory` asks `Pools` for its
connections through the same actions as a query does, so the wait for a
connection inside the table's lock is there, and so are the ways to get none
(`NoConnection`: the pool cannot be made, or it lends none). `overtaken` marks a getter during
which `close_pools` was at work; nothing in the program reads it. In
`PinnedFetch` an address stands for the validation that returned it.

**Overlap.** A handler is one run of `main`: `get_state`, then `graph.invoke`,
which reads the checkpoint once and stores the whole state after every node, as
the checkpointer does. Only the turn's number and the node that is scheduled next
are kept of the state (`Scheduled`: `memory_manager`, any later node, the one that
waits for an answer, or none). What `get_state` said decides between `Invoke`, a new
message stored as the input of a run from START, and `Resume`, which runs whatever
node the checkpoint schedules *by then*: usually the one that waits, but when another
message has moved the thread on, the node an invocation at work is running too.

**Research.** `pc` is the subgraph's node, with the researcher's forced note as a
place of its own. `ControllerDecides` are the answers `sub_controller` gives
without a model, `ControllerAsks` the others; `ModelFails`, `ModelCallsTools`,
`ModelWritesNote`, `ResearchOverBudget` are the ways an iteration of `Research`
goes; `FinalNote` is `_final_note`; `ReportWriter` the report writer; `End` the
exits of `research_node`. A message is its author and whether it is blank, short
or over the 800 characters `_has_substantial_note` looks for.

## 4. The runs

| run | instance | distinct states | what it asks |
|---|---|---|---|
| `turn_cases` | all workflows of up to 3 steps over two sql tasks, charts of each source and a rag step; up to 4 steps around the cap of 3; repeated and blank tasks, questions among steps; one turn | 386,624 | types, hop cap, questions that lose nothing, pending steps, records against plan, forward routing; charts get their own rows, run only when they can, are added when missing, are skipped for cause; nothing finished is lost to the user |
| `turn_turns` | three turns, no crashes | 120,282 | texts of the own turn only, an answer always |
| `turn_crashes` | two turns, crashes anywhere, fairness | 39,403 | results reach their step, leftovers stay apart, questions stay bounded though some are abandoned, `Contract`, invocations end |
| `llm_calls` | a chain of 3 models, 6 calls, 3 seconds, 2 tokens; 2 attempts at planning, 3 sql iterations with up to 2 tool calls; fairness | 284,369 | the budget as a backstop, `BudgetedCall` with its bound on steps for the chain and for the nodes, a refusal reported as one, rows and facts of the sql loop, calls and visits return |
| `research_task` | 2 visits, 3 iterations, 1 search, 3 fetches, up to 2 tool calls a reply, fairness | 278,183 | material, reports, web use, `BudgetedCall` with its bound on steps, the task ends |
| `workers` | 2 threads with 2 tools each, pools of 1 connection, one shutdown, 1 redirect, fairness | 272,971 | pools, table, pinned function; every tool ends |

The caps `MAX_PLAN_STEPS = 3`, `MAX_CLARIFICATIONS_PER_TURN = 1`,
`MAX_SEARCH_ATTEMPTS = 1` and `MAX_FETCH_ATTEMPTS = 3` are the code's own values.
Bounds of the models, and why they are enough:

- *Workflows.* Every operator on plans looks at an item, the item before it and
  the sql steps before it, so plans of three with two sql steps have every
  relation they can tell apart; four steps are needed for the cap to drop one.
- *`MaxTurns`.* What outlives a turn is `last_result`, `current_task`, `outage`
  and `task_history`, all overwritten by the next: two turns show what leaks into
  a second one, three what leaks through one.
- *`TASK_HISTORY_KEEP_TURNS`* is 1 or 2 (3 in the code), so that pruning happens
  within the turns explored.
- *`MAX_RESEARCH_ATTEMPTS = 2`, `MAX_ITERATIONS = 3`* (3 and 6 in the code): one
  visit forced and one the model asks for; an iteration before, at and after the
  limits of the tools. The theorems hold for all values.
- *Budget.* Six calls on a chain of three models run out in the middle of a
  chain, of a planning visit and of an sql loop; contacts of up to two seconds
  and replies of up to two tokens overshoot the limits of three and two. Two
  attempts and three iterations (2 and 7 in the code) have a first, a last and,
  for the loop, a middle one.
- *Threads.* Two threads are enough for each lock and each double-checked test to
  be contended; two tools each, so that one thread queries while the other makes
  the table, or fetches again after a failed fetch. Pools of one connection make
  a thread wait for the one that holds the table's lock. One shutdown is in time
  before, between and after any steps of both. The theorems of `WorkersProofs`
  hold for any number of each.
- *Messages.* Two are enough for one number twice. The other half of
  `TurnsNumberedOnce`, that an answer begins no turn, takes three to break: one that
  asks, its answer, and one that moves the thread on in between.

Deadlock is checked, except in `workers` and `overlap`, whose threads and messages
are used up by a bound. `Rest` and `Returned` are the states in which
nothing has to happen: a thread between two turns, a finished research task.

**Fairness.** `WF(GraphStep)`: the executor always runs the node that is
scheduled, and every node returns or raises because provider clients, statements
and page fetches have timeouts. Nothing is assumed of users, crashes or of which
way a step goes. `WF(Step)` and `WF(Work)` say the same of the LLM chain and of
the subgraph. `InvocationEnds` holds without strong fairness: each visit of the
supervisor leaves one pending step less. `VisitEnds` assumes that the node which
runs is run on (`WF(Chain)`, `WF(PlanningNode)`, `WF(SqlNode)`), `JobsEnd` that each
thread is scheduled (`WF(Work(t))`) and `close_pools` too: waiting for a connection
times out (`DB_POOL_ACQUIRE_TIMEOUT`), statements and requests have timeouts.
Weak fairness of the locks suffices because a tool asks for one only so many times
(`JobsTerminate`) and each thread runs finitely many tools.

### Statements of the repository that the code does not keep

Six runs expect a violation; each checks one statement and TLC finds a behaviour
of the code that contradicts it. `PROJECT.json` quotes the statements.

| run | what happens |
|---|---|
| `turn_outage` | `outage` is set and never reset: after one outage each later turn of the thread is answered with the outage message, whatever its steps did |
| `turn_errors` | a provider error that escapes a specialist ends the turn with independent steps pending |
| `turn_pictures` | two charts share one `chart_path`: the reply announces a chart whose picture is the other's, or none |
| `turn_records` | after a crash the next turn records the broken turn's result as its own |
| `overlap` | two of three messages of one thread handled at once begin turns of the same number |
| `research_gathered` | when the forced note fails, what the tools returned is dropped, though the placeholder refers to it |

Other disagreements met while modelling, without a run of their own:

- A chart dropped by `MAX_PLAN_STEPS` is named in `plan_note` as "Not covered";
  `_maybe_insert_visu` (`agents/supervisor.py:549`) may add a chart of the same rows
  and the reply delivers both. An interaction of two passes that `Plan` has.
- An unknown tool name is reported as `permission_denied`
  (`agents/sql_agent.py:167-175`), although the comment at line 127 keeps malformed
  tool calls apart from authorization failures. `SqlLoop!ToolStopsVisit` has it.
- A planner reply that does not fit the schema is classified by the text of the
  validation error; one that mentions a connection counts as an outage
  (`services/errors.py`). `Planning!PlannerHears` allows it.

## 5. The proofs

All theorems hold for every value of the constants under the named assumptions:
`BoundsAssumption` and `TasksAssumption` (`Plan`), `InputsAssumption` (`Turn`),
`BudgetAssumption` (`ResilientLLM`), `AttemptsAssumption`, `LoopAssumption`
(`Planning`, `SqlLoop`), `LimitsAssumption` (`Research`), `ThreadsAssumption`,
`PoolsAssumption`, `FetchAssumption`, `WorkersAssumption` (`Workers` and its parts). They ask for
naturals, distinct model values and well-typed inputs, and nothing of sizes.

**Plan operators** (`PlanProofs`). `Least`, `Greatest` and `Pick` do what their
names say (existence of least and greatest members, of a member for each rank);
each plan operator keeps plans well-formed; the passes only finish pending steps
(`Settles`); validation, cap and insertion keep a plan `WellShaped`: within the
cap plus one chart, a question alone, and only if the turn may still ask.

**A thread** (`TurnProofs`). The properties are not inductive. `HopsWithinBudget`
needs to know how far the plan has come at each hop, and `ResultMatchesStep` what
the node that runs has to do with the plan. `TurnInv` adds that:

- `HopsInv`: a hop reaches a step further down the plan, and each answered
  question allows one more: `hops <= clarification_count + NextPending(plan)`.
  With `WellShaped` this bounds hops by `MAX_HOPS`, so `RoutePlan` never cuts
  short (`RoutePlanKeepsInv`, from `Routable`);
- `RunningInv`: the scheduled node is the route of the first pending step;
- `UnplannedInv`: while nothing is planned nothing is pending, and hops are paid
  for by questions;
- `Begun => WellShaped(plan, ...)`.

`NextKeepsInv` has one step per action, with a lemma for each. From `TurnInv`
follow `TypeCorrect`, `HopCapUnreachable`, `ResultsReachTheirStep`,
`QuestionsAreBounded`, `QuestionsComeAlone`, `NoStepLeftBehind` and the action
properties `FinishedStepsAreFinal` and `RoutingIsForward`, all with crashes and
abandoned questions.

**Charts** (`ChartProofs`). What a step can be charted from depends on the sql steps
before it (`SameSqlSameRows`), and the supervisor's passes finish visu steps only
(`Passes`, `PassKeepsSql`), so rows once found stay found and rows once missing stay
missing. `ChartInv` adds to the four chart properties that a skipped chart has no
pending sql step before it (`SkipsStand`) - without it a later step could bring
rows and belie the skip - and that nothing is queried before a plan exists
(`NothingQueried`). `PictureInv` adds that a chart marked done had all its sql
steps finished and, as the only one, is what `chart_path` shows (`DrawnStands`), also
in the moment between the drawing and its entry in the plan (`JustDrawn`). From them
`ChartsHaveTheirRows`, `SpentBudgetDrawsRowsOnly`, `ChartWishesAreHonoured`,
`SkipsAreJustified` and `NoFinishedStepIsLost`, all with crashes.

**Replies** (`ReplyProofs`). `RoutedState` says once what any visit of the supervisor
leaves behind; four invariants use it. `SpokenInv`: whatever made the last message
the AI's is a convo step's text, back with the supervisor or in the plan, and
`SpokenIsContent` shows that no chart takes it out of the reply; hence
`TurnsAreAnswered`, with crashes. `CalmInv`: a result that comes back to a planned
turn is of this turn, as is every text of its plan; `RecordsInv`: the current task is
that of the first pending step, old records have old numbers, and each result is
written into plan and history alike; `WorkInv`: a note about dropped steps has a step
of the plan behind it, a clarification never has a text.

A crash between a specialist and the supervisor leaves `last_result` to the next
turn. Without crashes (`~Crashes`) that cannot be, hence `RepliesAreTheirOwn` and
`HistoryAgreesWithPlan`; the finding on `RecordsAreOfTheirTurn` shows what happens
otherwise. With crashes the three invariants say how far it goes
(`LeftoversDoNoMore`): one reply that shows the old result and nothing else, one
record that precedes the turn's own. `LeftBehind` is that result, and `Contract`
allows for it: a message that broke off may leave a result which one later answer is
made of.

`StepsLeft` is three for each hop the cap allows and a few for the way to the end.
`StepsBringNearer` shows for each action that it falls; it rests on the hop cap being
out of reach (`TurnInv`), not on any choice of a model. `TurnsTerminate` states it of
the thread: whatever is planned, asked, skipped or broken off, a turn has at most
`3 * MAX_HOPS + 3` steps. With all that `StepKeepsPromise` maps each action to one of
`Contract` or a stutter, and `ThreadKeepsContract` is the refinement of the whole
thread, with and without crashes.

**LLM chain** (`LLMCallsProofs`, first part). `LLMInv` ties what the budget counts to what
happened (one contact less than calls while a reserved call has not been made)
and says that past the check every limit has room. `BudgetIsABackstop` follows,
and `ChainImplementsCall`: each step is a step or a stutter of `BudgetedCall`, which
takes at most `3 * Candidates` steps because each step lowers `CallLeft`.

**Nodes on a chain** (`LLMCallsProofs`). `NodesUseTheChain`: every behaviour of
`LLMCalls` is one of `ResilientLLM`, so `ScopeBound` and `KeepsCallContract` hold
of it by the theorems above. The rest is the invariant `NodesInv`: `LLMInv`, "over"
is said of a spent budget only, at most one node is at work, a call is awaited
where the node's place says so; `last_chartable_rows` is the last chartable fact
(`LastCharted`, kept by `NewRowsAreLast`); a visit that began without budget has
its one call refused (`Unfunded`), without which the visit could not be shown to
be a budgeted call. From it `CallsTypeCorrect`, `SynthesisHasFacts`,
`NewestRowsAreHandedOn` and the refinement `NodesImplementCall`, one lemma for
each kind of step. Its bound on steps is a sum: `NodeLeft` counts the calls a visit
can still make (attempts and tries left in planning, iterations and the synthesis left
in the sql loop) times `StepsOfCall`, and what is left of the call under way. A
step of the chain lowers the latter (`CallShrinks`), a step of the node that begins a
call has one call fewer to make (`FewerCalls`); the products are of variables, so they
are dealt with once, in lemmas about naturals. `NodesReportWhatTheyHeard` has the second
half of `NodesKeepContract`, for each way a visit of either node ends.

**Threads** (`WorkersProofs`). `PoolsInv` says who holds the lock where, that the
pools a handle names are open until `close_pools` has come by, and that a thread
not overtaken by it holds an open one; `MemoryInv` that the flag implies the table
and the lock's holder is where it is held; `FetchInv` that the installed function
is the lock holder's pin, and what it found before is the original. Their
conjunction `WorkersInv` is inductive, for any number of threads and shutdowns,
and gives `PoolsDoNotLeak`, `ClosedPoolsAreForgotten`, `TableIsThere`,
`PagesComeFromValidatedAddresses`, `PinsAreTakenBack`.

Two theorems stand for what can be proved of `JobsEnd`. `NobodyDeadlocks`: as long as
a tool is at work, a thread that is not waiting for a lock exists, or `close_pools`
is between two of its steps. It needs `OneTool` besides `WorkersInv`: whoever waits
for the pools' lock may hold the table's, but who holds the pools' waits for nothing,
and who fetches holds neither. `JobsTerminate`: `WorkLeft`, the getter's steps, those
of the operation and those of each hop that `MAX_REDIRECTS` still allows, falls with
every step of the thread (`WorkShrinks`) and is set back by no other's
(`NobodySetsBack`, from `StepMovesOne`: what another thread or `close_pools` does
moves no thread from its place). TLC has both on the instance of `workers` when
`NobodyIsStuck` and `JobsAreBounded` are added to its configuration.

**Overlap** (`OverlapProofs`). `TurnsNumberedOnce` is what TLC refutes. The theorem
`NumberedOnceOneByOne` says what is missing: if no two invocations of a thread are
between their reading of the checkpoint and their last write (`OneInvocation`),
it holds, for any number of messages and however their `get_state` overlap, stale
answers included. `OverlapInv` adds that only `memory_manager` begins turns, that it
runs for new messages only, and that one is at work on it as long as the checkpoint
schedules it: a stale answer that ran it would be a second invocation.

**Research** (`ResearchProofs`). `ResearchInv` says what has been handed on at
each place and that a written report is the last message; `WebInv` that calls made plus
the room of the current visit fit the visits counted so far. From them
`ResearchTypeCorrect`, `WriterHasMaterial`, `DoneMeansReport`, `WebUseIsBounded`
and `TaskImplementsCall`, whose bound on steps is the visits left times the
`StepsOfVisit` of each (`TaskShrinks`).

**Only model-checked.** The liveness properties (`InvocationEnds`, `CallReturns`,
`VisitEnds`, `TaskEnds`, `JobsEnd`): fairness and ENABLED are out of the prover's
reach. What is proved of them is that each of these ends if it goes on: a bounded
number of steps for turns, calls, visits, tasks and tools, whatever the models and
the network answer; that the next step is taken is the assumption of fairness and,
for the locks, `NobodyDeadlocks`. Every other property of a passing run is also a theorem. What a recursive
definition computes for all inputs could not be proved; the models need none (`Pick`
selects by rank instead).

## 6. What is not modelled

- The contents of a turn when two messages of one thread overlap: `Overlap` has
  the numbers and what is scheduled next, `Turn` one invocation at a time.
- Users of `urllib3` other than `fetch_page` while its function is replaced: no
  other code of the repository connects through it.
- SQL text, sensitive-data patterns, what makes rows chartable: data of
  `SqlLoop`'s choice. The drawing half of `agents/visualization_agent.py` (types,
  axes, titles) computes a picture from rows and keeps no state.
- Runs without a budget scope (evaluation, tests): unlimited.
- Extraction of facts, summaries, prompts, wording, chart types and drawing:
  best effort or layout, nothing in a turn depends on them.
- Which exceptions are outages or retryable: classification of text; the models
  take either verdict.
- Login, chart storage and serving, checkpointer backends, indexing, evaluation,
  schema and roles, logging: no protocol of their own.
