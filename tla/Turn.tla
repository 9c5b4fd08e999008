-------------------------------- MODULE Turn --------------------------------
(***************************************************************************)
(* One conversation thread of the assistant: the main LangGraph graph of   *)
(* graph/workflow.py over the checkpointed SupervisorState of              *)
(* state/state.py, driven by the entry points chat.py and main.py.         *)
(*                                                                         *)
(* LangGraph runs one node at a time and checkpoints the state after each, *)
(* so every node is one action; pc is the node the checkpoint schedules    *)
(* next, which folds SupervisorState.next and the routing function into    *)
(* one variable.  What an LLM, a tool or a database answers is a           *)
(* nondeterministic choice.  A node that lets an exception escape aborts   *)
(* the invocation: its own update is lost, the last checkpoint stays.      *)
(***************************************************************************)
EXTENDS Plan

CONSTANTS
    Workflows,                \* workflows the planner LLM may return
    Requests,                 \* what a message may ask for, see Request
    TASK_HISTORY_KEEP_TURNS,  \* turns of task_history that survive pruning
    MaxTurns,                 \* bound: messages that start a turn
    Crashes,                  \* may the process stop between two nodes?
    NoResult                  \* SupervisorState.last_result is None

\* What the text of the current request implies: a chart is wanted, it
\* supplies two numbers, it names sensitive data.
Request == [chart: BOOLEAN, numbers: BOOLEAN, sensitive: BOOLEAN]

ASSUME InputsAssumption ==
    /\ Workflows \subseteq Seq(PlanStep)
    /\ Requests \subseteq Request
    /\ TASK_HISTORY_KEEP_TURNS \in Nat
    /\ MaxTurns \in Nat
    /\ Crashes \in BOOLEAN
    /\ NoResult \notin SpecialistResult

VARIABLES
    pc,                      \* the node to run, or "idle" / "paused"
    turn_count,
    plan, plan_ready, plan_note,
    hops, turn_cut_short,
    current_task,            \* Blank for None and for ""
    last_result, task_history,
    clarification_count,
    clarification_question,  \* TRUE when a question is stored
    chart_path,              \* the hop whose data the picture shows, 0 if None
    outage,
    spent,                   \* the LLM budget in scope is exhausted
    req,                     \* the current Request
    said,                    \* the last message: "human", "ai" or "silent" (empty AI)
    reply                    \* what the invocation showed the user

planVars == <<plan, plan_ready, plan_note, hops, turn_cut_short>>
taskVars == <<current_task, last_result, task_history>>
askVars  == <<clarification_count, clarification_question>>
userVars == <<req, said, reply>>
vars == <<pc, turn_count, planVars, taskVars, askVars, chart_path, outage, spent, userVars>>

Nodes == PlanRoutes \cup {"memory_manager", "supervisor", "finalize"}

NoReply == [kind |-> "none", answers |-> {}, charts |-> {}, texts |-> {}, image |-> 0]
Reply(kind) == [NoReply EXCEPT !.kind = kind]

\* Mutant: the research node is wired to itself.
EdgeFrom_ResearchLoop(node) == CASE node = "finalize" -> "idle"
                                 [] node = "research" -> "research"
                                 [] OTHER             -> "supervisor"

\* The unconditional edges of the graph.
EdgeFrom(node) == CASE node = "finalize" -> "idle"
                    [] OTHER            -> "supervisor"

Init ==
    /\ pc = "idle" /\ turn_count = 0
    /\ plan = <<>> /\ plan_ready = FALSE /\ plan_note = {}
    /\ hops = 0 /\ turn_cut_short = FALSE
    /\ current_task = Blank /\ last_result = NoResult /\ task_history = <<>>
    /\ clarification_count = 0 /\ clarification_question = FALSE
    /\ chart_path = 0 /\ outage = FALSE /\ spent = FALSE
    /\ req \in Requests /\ said = "human" /\ reply = NoReply

-----------------------------------------------------------------------------
(* Entry points.                                                           *)

\* A new message enters at START with a fresh budget.  A paused thread takes
\* one when chat.py's get_state fails, or when the CLI was restarted.
NewMessage ==
    /\ pc \in {"idle", "paused"}
    /\ turn_count < MaxTurns
    /\ pc' = "memory_manager"
    /\ spent' = FALSE
    /\ req' \in Requests
    /\ said' = "human"
    /\ reply' = NoReply
    /\ UNCHANGED <<turn_count, planVars, taskVars, askVars, chart_path, outage>>

\* The graph stops at interrupt(); the entry point shows the question.
Interrupt ==
    /\ pc = "clarification"
    /\ pc' = "paused"
    /\ reply' = Reply("question")
    /\ UNCHANGED <<turn_count, planVars, taskVars, askVars, chart_path, outage,
                   spent, req, said>>

\* Mutant: the answered step is not marked done.
Clarification_Unmarked ==
    /\ pc = "paused"
    /\ pc' = EdgeFrom("clarification")
    /\ spent' \in {spent, FALSE}
    /\ \E wish \in BOOLEAN, more \in BOOLEAN :
          req' = [req EXCEPT !.chart = wish, !.numbers = @ \/ more]
    /\ plan_ready' = FALSE
    /\ current_task' = Blank
    /\ last_result' = NoResult
    /\ clarification_question' = FALSE
    /\ clarification_count' = clarification_count + 1
    /\ said' = "human"
    /\ reply' = NoReply
    /\ UNCHANGED <<turn_count, plan, plan_note, hops, turn_cut_short, task_history,
                   chart_path, outage>>

\* The node replays with the human's answer.  chat.py opens a new budget for
\* it, main.py keeps the turn's.  The answer joins the request's text, so it
\* can add numbers and change the chart wish either way.
Clarification ==
    /\ pc = "paused"
    /\ pc' = EdgeFrom("clarification")
    /\ spent' \in {spent, FALSE}
    /\ \E wish \in BOOLEAN, more \in BOOLEAN :
          req' = [req EXCEPT !.chart = wish, !.numbers = @ \/ more]
    /\ plan' = [i \in DOMAIN plan |->
                   IF i = NextPending(plan) /\ plan[i].route = "clarification"
                   THEN [plan[i] EXCEPT !.status = "done"] ELSE plan[i]]
    /\ plan_ready' = FALSE
    /\ current_task' = Blank
    /\ last_result' = NoResult
    /\ clarification_question' = FALSE
    /\ clarification_count' = clarification_count + 1
    /\ said' = "human"
    /\ reply' = NoReply
    /\ UNCHANGED <<turn_count, plan_note, hops, turn_cut_short, task_history,
                   chart_path, outage>>

-----------------------------------------------------------------------------
(* memory_manager                                                          *)

\* Mutant: plan_ready survives from the turn before.
MemoryManager_KeepsPlanReady ==
    /\ pc = "memory_manager"
    /\ pc' = EdgeFrom("memory_manager")
    /\ turn_count' = turn_count + 1
    /\ clarification_count' = 0
    /\ chart_path' = 0
    /\ plan' = <<>> /\ plan_note' = {}
    /\ hops' = 0 /\ turn_cut_short' = FALSE
    /\ task_history' = <<>>
    /\ spent' \in BOOLEAN
    /\ UNCHANGED <<plan_ready, current_task, last_result, clarification_question,
                   outage, userVars>>

\* Starts a turn.  Folding old messages into the summary is best effort and
\* never touches the latest message; its LLM call may spend the budget.
MemoryManager ==
    /\ pc = "memory_manager"
    /\ pc' = EdgeFrom("memory_manager")
    /\ turn_count' = turn_count + 1
    /\ clarification_count' = 0
    /\ chart_path' = 0
    /\ plan' = <<>> /\ plan_ready' = FALSE /\ plan_note' = {}
    /\ hops' = 0 /\ turn_cut_short' = FALSE
    /\ task_history' = Pick(task_history,
           {i \in DOMAIN task_history :
               task_history[i].turn + TASK_HISTORY_KEEP_TURNS > turn_count + 1})
    /\ spent' \in BOOLEAN
    /\ UNCHANGED <<current_task, last_result, clarification_question, outage, userVars>>

-----------------------------------------------------------------------------
(* supervisor                                                              *)

\* The TaskRecord of the result that came back; an empty task leaves none.
RecordedHistory ==
    IF last_result # NoResult /\ current_task # Blank
    THEN Append(task_history,
                [turn |-> turn_count, route |-> last_result.source,
                 task |-> current_task, status |-> last_result.status,
                 text |-> last_result.text])
    ELSE task_history

\* The three backstops that run on every visit, in the code's order.
Settled(p, s) ==
    SkipUnbudgetedVisu(
        SkipBlockedSteps(MaybeInsertVisu(p, req.chart), turn_count), s, turn_count)

\* Mutant: the rows are taken to be still in last_result.
VisuInput_NotResupplied(p, i) ==
    IF p[i].src = "inline" THEN NoResult ELSE last_result

\* The specialist input a routed visu step gets.
VisuInput(p, i) ==
    LET source == RowsUpstreamIndex(p, i)
    IN  CASE p[i].src = "inline" -> NoResult
          [] p[i].src # "inline" /\ source # 0 ->
                [source |-> "sql", status |-> "done", text |-> turn_count,
                 rows |-> p[source].rows]
          [] OTHER -> last_result

\* Routes to the first pending step of p, or ends the turn.  noProvider is the
\* outage found on this visit and s the budget after its LLM calls.
RoutePlan(p, noProvider, note, s) ==
    \E settled \in {Settled(p, s)} :
    LET i       == NextPending(settled)
        wanted  == ~noProvider /\ i # 0
        capped  == wanted /\ hops + 1 > MAX_HOPS
        routed  == wanted /\ ~capped
    IN  /\ plan' = IF capped THEN CutShort(settled) ELSE settled
        /\ plan_ready' = TRUE
        /\ plan_note' = note
        /\ hops' = IF wanted THEN hops + 1 ELSE hops
        /\ turn_cut_short' = (turn_cut_short \/ capped)
        /\ outage' = (outage \/ noProvider)
        /\ pc' = IF routed THEN settled[i].route ELSE "finalize"
        /\ current_task' = IF routed THEN settled[i].task ELSE Blank
        /\ last_result' = IF ~routed THEN last_result
                          ELSE IF settled[i].route = "visu" THEN VisuInput(settled, i)
                          ELSE NoResult
        /\ clarification_question' =
              (clarification_question \/ (routed /\ settled[i].route = "clarification"))
        /\ spent' \in IF routed /\ settled[i].route = "clarification"
                      THEN {s, TRUE} ELSE {s}
        /\ task_history' = RecordedHistory
        /\ UNCHANGED <<turn_count, clarification_count, chart_path, userVars>>

\* A plan an LLM produced is validated, then capped.
AdoptPlan(p, s) ==
    LET valid == ValidatePlan(p, req.numbers)
    IN  RoutePlan(ApplyClarificationCap(valid.plan, clarification_count), FALSE,
                  valid.note, s)

\* Neither LLM call gave a decision: sensitive requests go to sql, whose
\* permission gate answers them, anything else to an apology by convo.
DefaultStep == NewItem(IF req.sensitive THEN "sql" ELSE "convo", Canned, "none")

\* A step just finished: write its result into the plan and go on.
AdvancePlan ==
    /\ pc = "supervisor"
    /\ plan_ready
    /\ RoutePlan(IF last_result # NoResult
                 THEN CompleteCurrentStep(plan, last_result) ELSE plan,
                 FALSE, plan_note, spent)

\* The budget went before anything was planned: close the turn.
EndUnplanned ==
    /\ pc = "supervisor"
    /\ ~plan_ready /\ spent
    /\ pc' = "finalize"
    /\ current_task' = Blank
    /\ plan_ready' = TRUE
    /\ task_history' = RecordedHistory
    /\ UNCHANGED <<turn_count, plan, plan_note, hops, turn_cut_short, last_result,
                   askVars, chart_path, outage, spent, userVars>>

\* One call decomposes the request into a workflow of at least one step.
PlanWorkflow ==
    /\ pc = "supervisor"
    /\ ~plan_ready /\ ~spent
    /\ \E steps \in Workflows, s \in BOOLEAN :
          /\ PlanFromWorkflow(steps) # <<>>
          /\ AdoptPlan(PlanFromWorkflow(steps), s)

\* Mutant: a decision to end is stored as a step like any other.
PlanByDecision_EndStep ==
    /\ pc = "supervisor"
    /\ ~plan_ready /\ ~spent
    /\ \E s \in BOOLEAN, route \in PlanRoutes \cup {"end"}, task \in Tasks \cup {Blank} :
          AdoptPlan(<<NewItem(route, task, IF route = "visu" THEN "inline" ELSE "none")>>, s)

\* No usable workflow: one decision, stored as a one-step plan.
PlanByDecision ==
    /\ pc = "supervisor"
    /\ ~plan_ready /\ ~spent
    /\ \E s \in BOOLEAN :
          \/ \E route \in PlanRoutes, task \in Tasks \cup {Blank} :
                AdoptPlan(<<NewItem(route, task, IF route = "visu" THEN "inline" ELSE "none")>>, s)
          \/ RoutePlan(<<>>, FALSE, plan_note, s)     \* it decided "end"
          \/ AdoptPlan(<<DefaultStep>>, s)            \* schema failures or the budget

\* No LLM provider was usable for either call.
PlanOutage ==
    /\ pc = "supervisor"
    /\ ~plan_ready /\ ~spent
    /\ \E s \in BOOLEAN : RoutePlan(<<>>, TRUE, plan_note, s)

Supervisor ==
    AdvancePlan \/ EndUnplanned \/ PlanWorkflow \/ PlanByDecision \/ PlanOutage

-----------------------------------------------------------------------------
(* Specialists.  Each returns a SpecialistResult; texts of this turn only.  *)

Result(source, status, text, rows) ==
    [source |-> source, status |-> status, text |-> text, rows |-> rows]

Failure(source) == Result(source, "failed", turn_count, 0)

\* An LLM call needs budget left and may use up the last of it; a call that
\* finds none left raises TurnBudgetExceeded, at once or on a later model.
LLMAnswers == ~spent /\ spent' \in BOOLEAN
OverBudget == spent' = TRUE

Return(result) ==
    /\ pc' = EdgeFrom(pc)
    /\ last_result' = result
    /\ UNCHANGED <<turn_count, planVars, current_task, task_history, askVars, outage,
                   req, reply>>

\* The reply also joins the messages, and may be empty.
Convo ==
    /\ pc = "convo"
    /\ UNCHANGED chart_path
    /\ \/ LLMAnswers /\ said' = "ai" /\ Return(Result("convo", "done", turn_count, 0))
       \/ LLMAnswers /\ said' = "silent" /\ Return(Result("convo", "done", 0, 0))
       \/ OverBudget /\ said' = said /\ Return(Failure("convo"))

\* Retrieval may be down or find nothing before any LLM is asked.
RAG ==
    /\ pc = "rag"
    /\ UNCHANGED <<said, chart_path>>
    /\ \/ UNCHANGED spent /\ Return(Failure("rag"))
       \/ UNCHANGED spent /\ Return(Result("rag", "partial", turn_count, 0))
       \/ OverBudget /\ Return(Failure("rag"))
       \/ LLMAnswers /\ \E text \in {0, turn_count} : Return(Result("rag", "done", text, 0))

\* The tool loop: rows found before a failure stay with the failed result.
SqlAgent ==
    /\ pc = "sql"
    /\ UNCHANGED <<said, chart_path>>
    /\ \/ UNCHANGED spent /\ Return(Failure("sql"))     \* permission gate
       \/ OverBudget /\ Return(Failure("sql"))
       \/ /\ LLMAnswers
          /\ \E rows \in {0, hops}, status \in {"done", "failed"} :
                Return(Result("sql", status, turn_count, rows))

\* The subgraph researches and reports; an empty task raises instead.
ResearchNode ==
    /\ pc = "research"
    /\ current_task # Blank
    /\ UNCHANGED <<said, chart_path>>
    /\ \/ OverBudget /\ Return(Failure("research"))
       \/ /\ LLMAnswers
          /\ \E status \in {"done", "failed"} :
                Return(Result("research", status, turn_count, 0))

HasRows == last_result # NoResult /\ last_result.rows # 0

\* The first chart still to draw takes database rows.
ChartsDatabase ==
    LET waiting == {i \in Pending(plan) : plan[i].route = "visu"}
    IN  waiting # {} /\ plan[Least(waiting)].src # "inline"

\* Rows in last_result are charted without an LLM; a database chart without
\* rows fails at once; an inline chart is extracted from the task by an LLM.
\* Any other error is caught and fails the step.
Visualization ==
    /\ pc = "visu"
    /\ UNCHANGED said
    /\ \/ /\ current_task # Blank /\ HasRows
          /\ chart_path' = last_result.rows
          /\ UNCHANGED spent
          /\ Return(Result("visu", "done", turn_count, 0))
       \/ /\ current_task # Blank /\ ~HasRows /\ ~ChartsDatabase
          /\ chart_path' = hops
          /\ LLMAnswers
          /\ Return(Result("visu", "done", turn_count, 0))
       \/ /\ chart_path' = 0
          /\ IF current_task = Blank \/ HasRows \/ ChartsDatabase
             THEN UNCHANGED spent
             ELSE LLMAnswers \/ OverBudget
          /\ Return(Failure("visu"))

-----------------------------------------------------------------------------
(* finalize                                                                *)

\* A result to report: an item of the plan or, at index 0, last_result.
View(i) == IF i = 0
           THEN [route |-> last_result.source, status |-> last_result.status,
                 text |-> last_result.text]
           ELSE [route |-> plan[i].route, status |-> plan[i].status,
                 text |-> plan[i].text]

\* Mutant: last_result is reported next to what the plan has.
CompletedResults_AndLast ==
    {i \in DOMAIN plan : plan[i].status # "pending" /\ plan[i].text # 0}
        \cup (IF last_result # NoResult THEN {0} ELSE {})

CompletedResults ==
    LET finished == {i \in DOMAIN plan : plan[i].status # "pending" /\ plan[i].text # 0}
    IN  IF finished = {} /\ last_result # NoResult THEN {0} ELSE finished

Charts == {i \in CompletedResults : View(i).route = "visu" /\ View(i).status = "done"}

\* Mutant: every chart is taken to be drawn from database rows.
ChartSourceIndex_Inline(i) == RowsUpstreamIndex(plan, i)

ChartSourceIndex(i) ==
    IF plan[i].src = "inline" THEN 0 ELSE RowsUpstreamIndex(plan, i)

\* What is said in words: neither the charts nor the steps they picture.
Answers == CompletedResults \ (Charts \cup {ChartSourceIndex(i) : i \in Charts \ {0}})

\* A failed result always renders some text.
HasContent ==
    \/ Charts # {} \/ plan_note # {} \/ turn_cut_short
    \/ \E i \in Answers : View(i).text # 0 \/ View(i).status # "done"

FinalReply ==
    IF outage THEN Reply("outage")
    ELSE IF HasContent
         THEN [kind |-> "answer", answers |-> Answers, charts |-> Charts,
               texts |-> {View(i).text : i \in Answers \cup Charts} \ {0},
               image |-> chart_path]
         ELSE Reply(IF said = "ai" THEN "earlier" ELSE "fallback")

\* Mutant: last_result is left for the next turn.
Finalize_KeepsResult ==
    /\ pc = "finalize"
    /\ pc' = EdgeFrom("finalize")
    /\ reply' = FinalReply
    /\ said' = "ai"
    /\ clarification_count' = 0
    /\ UNCHANGED <<turn_count, planVars, current_task, last_result, task_history,
                   clarification_question, chart_path, outage, spent, req>>

\* Mutant: no fallback message when there is nothing to say.
Finalize_Silent ==
    /\ pc = "finalize"
    /\ pc' = EdgeFrom("finalize")
    /\ reply' = FinalReply
    /\ said' = IF outage \/ HasContent THEN "ai" ELSE said
    /\ last_result' = NoResult
    /\ clarification_count' = 0
    /\ UNCHANGED <<turn_count, planVars, current_task, task_history,
                   clarification_question, chart_path, outage, spent, req>>

\* Combining two answers and extracting facts call the LLM as best effort;
\* nothing reads the turn's budget after them.
Finalize ==
    /\ pc = "finalize"
    /\ pc' = EdgeFrom("finalize")
    /\ reply' = FinalReply
    /\ said' = "ai"
    /\ last_result' = NoResult
    /\ clarification_count' = 0
    /\ UNCHANGED <<turn_count, planVars, current_task, task_history,
                   clarification_question, chart_path, outage, spent, req>>

-----------------------------------------------------------------------------
(* The invocation breaks off; the last checkpoint stays as it is.          *)

Stop(shown) ==
    /\ pc' = "idle"
    /\ reply' = shown
    /\ UNCHANGED <<turn_count, planVars, taskVars, askVars, chart_path, outage,
                   spent, req, said>>

\* These nodes catch only TurnBudgetExceeded (rag: also the retrieval errors
\* it names, sql: also bad requests), so a provider error escapes to the entry point.
NodeRaises ==
    /\ \/ pc \in {"convo", "sql"} /\ ~spent
       \/ pc = "research" /\ (~spent \/ current_task = Blank)
       \/ pc = "rag"
    /\ Stop(Reply("error"))

\* The process stops between two nodes, and a later one opens the thread again.
Crash ==
    /\ Crashes
    /\ pc \in Nodes
    /\ Stop(NoReply)

-----------------------------------------------------------------------------
\* Between turns the thread may rest for ever.
Rest == pc = "idle" /\ UNCHANGED vars

Specialist == Convo \/ RAG \/ SqlAgent \/ ResearchNode \/ Visualization

\* What LangGraph runs by itself once an invocation has begun.
GraphStep ==
    MemoryManager \/ Supervisor \/ Specialist \/ Interrupt \/ Finalize \/ NodeRaises

Next == NewMessage \/ Clarification \/ GraphStep \/ Crash \/ Rest

Spec == Init /\ [][Next]_vars

\* The executor always runs the scheduled node; users owe nothing.
FairSpec == Spec /\ WF_vars(GraphStep)
=============================================================================
