--------------------------- MODULE TurnProperties ---------------------------
(***************************************************************************)
(* What a turn must and must not do.  Every property names the code it is  *)
(* about; those the code violates are kept at the end, each with the       *)
(* statement of the repository it contradicts.                             *)
(***************************************************************************)
EXTENDS Turn

TaskRecord == [turn: Nat, route: Specialists, task: AnyTask \ {Blank},
               status: {"done", "partial", "failed"}, text: Nat]

ReplyKinds == {"none", "question", "answer", "outage", "earlier", "fallback", "error"}

\* The state keeps its shape: the fields of SupervisorState hold values of
\* the types state/state.py declares, whatever the LLMs answer.
TypeOK ==
    /\ pc \in Nodes \cup {"idle", "paused"}
    /\ turn_count \in Nat
    /\ plan \in Seq(PlanItem) /\ plan_ready \in BOOLEAN
    /\ plan_note \in SUBSET PlanRoutes
    /\ hops \in Nat /\ turn_cut_short \in BOOLEAN
    /\ current_task \in AnyTask
    /\ last_result \in SpecialistResult \cup {NoResult}
    /\ task_history \in Seq(TaskRecord)
    /\ clarification_count \in Nat /\ clarification_question \in BOOLEAN
    /\ chart_path \in Nat
    /\ outage \in BOOLEAN /\ spent \in BOOLEAN
    /\ req \in Request /\ said \in {"human", "ai", "silent"}
    /\ reply.kind \in ReplyKinds

-----------------------------------------------------------------------------
(* Safety.                                                                 *)

\* "This should be unreachable" (supervisor.py:244-245): no sequence of plans,
\* inserted charts, skipped steps and a clarification ever reaches the hop cap.
HopsWithinBudget == hops <= MAX_HOPS /\ ~turn_cut_short

\* A result that comes back to the supervisor was produced by the step it is
\* about to be written into: the first pending one has the result's route.
\* _complete_current_step relies on it and checks nothing.
ResultMatchesStep ==
    pc = "supervisor" /\ plan_ready /\ last_result # NoResult
        => /\ NextPending(plan) # 0
           /\ plan[NextPending(plan)].route = last_result.source

\* A turn interrupts the user at most MAX_CLARIFICATIONS_PER_TURN times, and
\* only with a question stored: the node replays on resume and must not
\* generate another one.
BoundedQuestions ==
    /\ clarification_count <= MAX_CLARIFICATIONS_PER_TURN
    /\ pc \in {"clarification", "paused"} =>
          clarification_count < MAX_CLARIFICATIONS_PER_TURN /\ clarification_question

\* A clarification is the whole plan.  The answer makes the supervisor plan
\* again from nothing, so any step finished before it would be lost.
QuestionLosesNothing ==
    pc \in {"clarification", "paused"} => Len(plan) = 1

\* A database chart starts with the rows of the nearest finished sql step
\* before it, whatever ran in between; an inline chart starts with no rows,
\* so stale ones cannot override the user's numbers.
ChartInputIsItsSource ==
    pc = "visu" =>
        LET i      == NextPending(plan)
            source == RowsUpstreamIndex(plan, i)
        IN  IF plan[i].src = "inline" THEN last_result = NoResult
            ELSE /\ source # 0 /\ last_result # NoResult
                 /\ last_result.rows = plan[source].rows

\* Once the budget is spent no chart that needs an LLM is started: it would fail
\* on its first call.  One of existing rows still is (_skip_unbudgeted_visu).
NoLLMChartWithoutBudget ==
    pc = "visu" /\ spent => last_result # NoResult /\ last_result.rows # 0

\* A turn is only finalized when no step of its plan waits any more.
NothingPendingAtEnd == pc = "finalize" => Pending(plan) = {}

\* A user who wants a chart and gets chartable rows gets a chart step, even
\* when the planner left it out or the cap dropped it.
ChartWishHonoured ==
    pc = "finalize" /\ req.chart /\ RowsUpstreamIndex(plan, Len(plan) + 1) # 0
        => HasVisu(plan)

\* A chart reported as skipped had no rows to draw: not when it was skipped,
\* and not through any step that ran later.
SkippedForCause ==
    \A i \in DOMAIN plan :
        plan[i].status = "skipped" => RowsUpstreamIndex(plan, i) = 0

RecordsOf(turn) == {i \in DOMAIN task_history : task_history[i].turn = turn}

Matches(record, item) ==
    /\ record.route = item.route /\ record.task = item.task
    /\ record.text = item.text
    /\ (record.status = "done") = (item.status = "done")

\* task_history and the plan tell the same story at the end of a turn
\* (evaluation.py reads both): every finished step with a task has its record
\* in this turn and every record of this turn its step.
RecordsMatchPlan ==
    pc = "finalize" =>
        /\ \A i \in DOMAIN plan :
              plan[i].status = "done" /\ plan[i].route \in Specialists /\ plan[i].task # Blank
                 => \E k \in RecordsOf(turn_count) : Matches(task_history[k], plan[i])
        /\ \A k \in RecordsOf(turn_count) :
              \E i \in DOMAIN plan : Matches(task_history[k], plan[i])

ShownOnce ==
    Cardinality({i \in DOMAIN plan : plan[i].route = "visu"}) <= 1

\* With at most one chart in the plan, every finished step reaches the user:
\* in words, as the chart, or pictured - and then the picture shown is drawn
\* from that very step's rows (finalize.py, _split_chart_results).
NothingLost ==
    pc = "idle" /\ reply.kind = "answer" /\ ShownOnce =>
        \A i \in DOMAIN plan :
            \/ plan[i].status # "done" \/ plan[i].text = 0
            \/ i \in reply.answers
            \/ i \in reply.charts /\ reply.image # 0
            \/ reply.charts # {} /\ plan[i].rows # 0 /\ reply.image = plan[i].rows

\* A reply contains only texts produced in its own turn.
OwnTextsOnly == reply.texts \subseteq {turn_count}

\* Even after a crash a reply never mixes turns: its texts are of its own turn,
\* or it shows nothing but the last_result an earlier turn left behind.
RepliesDoNotMix ==
    reply.texts \subseteq {turn_count} \/ reply.answers \cup reply.charts = {0}

\* Even after a crash every finished step has its record, and at most one record
\* of a turn has no step: its first, of the result the crash left behind.
OneRecordMisfiled ==
    pc = "finalize" =>
        /\ \A i \in DOMAIN plan :
              plan[i].status = "done" /\ plan[i].route \in Specialists /\ plan[i].task # Blank
                 => \E k \in RecordsOf(turn_count) : Matches(task_history[k], plan[i])
        /\ \A k \in RecordsOf(turn_count) :
              \/ \E i \in DOMAIN plan : Matches(task_history[k], plan[i])
              \/ \A j \in RecordsOf(turn_count) : k <= j

\* All that a turn which broke off can do to a later one: one reply that shows
\* its last result and nothing else, one record that precedes the turn's own.
LeftoversStayApart == RepliesDoNotMix /\ OneRecordMisfiled

\* A turn that reaches its end says something of its own: the last message is
\* not the user's, not an empty one and not one of an earlier step or turn.
AlwaysAnswered ==
    pc = "idle" /\ reply.kind \notin {"none", "error"}
        => said = "ai" /\ reply.kind # "earlier"

-----------------------------------------------------------------------------
(* Action properties.                                                      *)

\* While a plan is carried out its finished steps never change again.
FinishedStepsStand ==
    [][plan_ready /\ plan_ready' =>
          \A i \in DOMAIN plan :
             plan[i].status # "pending" => i \in DOMAIN plan' /\ plan'[i] = plan[i]]_vars

\* The supervisor routes a plan strictly forward: no step is run twice.
RoutesForward ==
    [][pc = "supervisor" /\ plan_ready /\ pc' \in PlanRoutes
          => NextPending(plan') > NextPending(plan)]_vars

-----------------------------------------------------------------------------
(* Liveness, under FairSpec.                                               *)

\* Every invocation comes to an end: an answer, a question or an error.
InvocationEnds == pc \in Nodes ~> pc \in {"idle", "paused"}

-----------------------------------------------------------------------------
(* Statements of the repository that the code does not keep.               *)

\* state/state.py:182-187, outage: "Set when the turn ended because no LLM
\* provider was usable".  An outage leaves no plan, so the outage reply never
\* covers finished steps.
OutageReplyMeansOutage ==
    pc = "idle" /\ reply.kind = "outage" =>
        \A i \in DOMAIN plan : plan[i].status # "done"

\* README.md:87: "If a step fails, independent remaining steps still run."
FailureSparesOtherSteps ==
    pc = "idle" /\ reply.kind = "error" => Pending(plan) \ {NextPending(plan)} = {}

\* agents/finalize.py:86-87: "A chart image is already shown to the user
\* separately", for every chart the reply announces.
AnnouncedChartsAreShown ==
    pc = "idle" /\ reply.kind = "answer" =>
        \A i \in reply.charts :
            /\ reply.image # 0
            /\ plan[i].src # "inline" => reply.image = plan[RowsUpstreamIndex(plan, i)].rows

\* state/state.py:63-68: a TaskRecord is "One specialist invocation during a
\* user turn", under "User-turn number": every record of a turn is of a step
\* that turn planned.
RecordsAreOfTheirTurn ==
    pc = "finalize" =>
        \A k \in RecordsOf(turn_count) :
            \E i \in DOMAIN plan : Matches(task_history[k], plan[i])
=============================================================================
