-------------------------------- MODULE Plan --------------------------------
(***************************************************************************)
(* The plan of one user turn and the deterministic operators by which the  *)
(* supervisor builds and advances it (agents/supervisor.py, state/state.py)*)
(*                                                                         *)
(* Data are abstracted to what the properties tell apart:                  *)
(*   - a task is a member of Tasks, up to the case and white space that    *)
(*     _normalized_task removes; Blank is an empty or all-space task and   *)
(*     Canned stands for every task the supervisor words itself;           *)
(*   - a text (summary) is the number of the turn that produced it, and 0  *)
(*     when it is None or empty;                                           *)
(*   - chartable rows (structured_data) are the number of the hop that     *)
(*     produced them, and 0 when there are none.                           *)
(* Index 0 stands for Python's None where a plan index may be missing.     *)
(***************************************************************************)
EXTENDS Naturals, Sequences, FiniteSets

CONSTANTS
    Tasks,                        \* the non-blank tasks an LLM may name
    Blank,                        \* the empty task
    Canned,                       \* a task worded by the supervisor
    MAX_PLAN_STEPS,               \* cap on the steps a turn plans
    MAX_CLARIFICATIONS_PER_TURN   \* clarifying questions one turn may ask

ASSUME BoundsAssumption ==
    /\ MAX_PLAN_STEPS \in Nat \ {0}
    /\ MAX_CLARIFICATIONS_PER_TURN \in Nat

ASSUME TasksAssumption ==
    /\ Blank \notin Tasks
    /\ Canned \notin Tasks \cup {Blank}

MAX_HOPS == MAX_PLAN_STEPS + MAX_CLARIFICATIONS_PER_TURN + 1

Specialists == {"rag", "research", "convo", "sql", "visu"}
PlanRoutes  == Specialists \cup {"clarification"}
AnyTask     == Tasks \cup {Blank, Canned}
DataSources == {"database", "inline", "none"}

SpecialistResult ==
    [source: Specialists, status: {"done", "partial", "failed"}, text: Nat, rows: Nat]

PlanStep == [route: PlanRoutes, task: Tasks \cup {Blank}, src: DataSources]

PlanItem ==
    [route: PlanRoutes, task: AnyTask, src: DataSources,
     status: {"pending", "done", "failed", "skipped"}, text: Nat, rows: Nat]

NewItem(route, task, src) ==
    [route |-> route, task |-> task, src |-> src,
     status |-> "pending", text |-> 0, rows |-> 0]

-----------------------------------------------------------------------------
(* Selecting from a sequence.                                              *)

Least(S)    == CHOOSE i \in S : \A j \in S : i <= j
Greatest(S) == CHOOSE i \in S : \A j \in S : j <= i

\* Number of members of S below i, and the member with k others below it.
Rank(S, i)   == Cardinality({j \in S : j < i})
Ranked(S, k) == CHOOSE i \in S : Rank(S, i) = k

\* The items of plan at the indices in S, in order.
Pick(plan, S) == [k \in 1..Cardinality(S) |-> plan[Ranked(S, k - 1)]]

-----------------------------------------------------------------------------
(* From the planner's workflow to a plan.                                  *)

HasRoute(steps, I, route) == \E i \in I : steps[i].route = route

\* A visu step without a data source charts an earlier sql step if there is one.
InferredSource(steps, i) ==
    IF steps[i].route = "visu" /\ steps[i].src = "none"
    THEN IF HasRoute(steps, 1..(i-1), "sql") THEN "database" ELSE "inline"
    ELSE steps[i].src

PlanFromWorkflow(steps) ==
    Pick([i \in DOMAIN steps |->
              NewItem(steps[i].route, steps[i].task, InferredSource(steps, i))],
         {i \in DOMAIN steps : steps[i].task # Blank})

\* Not a repetition of the step before it.
IsFresh(plan, i) ==
    i = 1 \/ plan[i].route # plan[i-1].route \/ plan[i].task # plan[i-1].task

\* An inline chart needs two numbers in the request, any other an earlier sql step.
CanChart(plan, i, enoughNumbers) ==
    IF plan[i].src = "inline" THEN enoughNumbers
                              ELSE HasRoute(plan, 1..(i-1), "sql")

ValidSteps(plan, enoughNumbers) ==
    {i \in DOMAIN plan : /\ IsFresh(plan, i)
                         /\ plan[i].route = "visu" => CanChart(plan, i, enoughNumbers)}

\* Mutant: a clarification among other steps is left where it is.
ClarificationSteps_Kept(plan) == {}

ClarificationSteps(plan) == {i \in DOMAIN plan : plan[i].route = "clarification"}

\* The plan to run, and the routes of the asks its note reports as dropped.
ValidatePlan(plan, enoughNumbers) ==
    LET asks    == ClarificationSteps(plan)
        valid   == ValidSteps(plan, enoughNumbers)
        kept    == {i \in valid : Rank(valid, i) < MAX_PLAN_STEPS}
        sourced == [i \in DOMAIN plan |->
                       IF plan[i].route = "visu" /\ plan[i].src # "inline"
                       THEN [plan[i] EXCEPT !.src = "database"] ELSE plan[i]]
        ask(task) == <<NewItem("clarification", task, "none")>>
    IN  IF asks # {}
        THEN LET task == plan[Least(asks)].task
             IN  [plan |-> ask(IF task = Blank THEN Canned ELSE task), note |-> {}]
        ELSE [plan |-> IF kept = {} THEN ask(Canned) ELSE Pick(sourced, kept),
              note |-> {plan[i].route : i \in valid \ kept}]

-----------------------------------------------------------------------------
(* Advancing a plan.                                                       *)

Pending(plan) == {i \in DOMAIN plan : plan[i].status = "pending"}

\* A step brought to an end without running.
Finish(item, status, text) == [item EXCEPT !.status = status, !.text = text]

NextPending(plan) == IF Pending(plan) = {} THEN 0 ELSE Least(Pending(plan))

\* Mutant: a failed result leaves its step pending, to be retried.
CompleteCurrentStep_Retry(plan, result) ==
    LET i == NextPending(plan)
    IN  IF i = 0 \/ result.status = "failed" THEN plan
        ELSE [plan EXCEPT ![i].status = "done", ![i].text = result.text,
                          ![i].rows = result.rows]

\* Mutant: a partial result counts as done.
CompleteCurrentStep_PartialIsDone(plan, result) ==
    LET i == NextPending(plan)
    IN  IF i = 0 THEN plan
        ELSE [plan EXCEPT
                ![i].status = IF result.status = "failed" THEN "failed" ELSE "done",
                ![i].text   = result.text,
                ![i].rows   = result.rows]

CompleteCurrentStep(plan, result) ==
    LET i == NextPending(plan)
    IN  IF i = 0 THEN plan
        ELSE [plan EXCEPT
                ![i].status = IF result.status = "done" THEN "done" ELSE "failed",
                ![i].text   = result.text,
                ![i].rows   = result.rows]

\* Mutant: off by one, the cap bites one question late.
ApplyClarificationCap_Late(plan, count) ==
    IF count <= MAX_CLARIFICATIONS_PER_TURN THEN plan
    ELSE [i \in DOMAIN plan |->
             IF plan[i].route = "clarification"
             THEN [plan[i] EXCEPT !.route = "convo", !.task = Canned]
             ELSE plan[i]]

ApplyClarificationCap(plan, count) ==
    IF count < MAX_CLARIFICATIONS_PER_TURN THEN plan
    ELSE [i \in DOMAIN plan |->
             IF plan[i].route = "clarification"
             THEN [plan[i] EXCEPT !.route = "convo", !.task = Canned]
             ELSE plan[i]]

UpstreamSql(plan, i) == {j \in 1..(i-1) : plan[j].route = "sql"}

RowsUpstreamIndex(plan, i) ==
    LET sources == {j \in UpstreamSql(plan, i) :
                       plan[j].status = "done" /\ plan[j].rows # 0}
    IN  IF sources = {} THEN 0 ELSE Greatest(sources)

HasVisu(plan) == HasRoute(plan, DOMAIN plan, "visu")

\* Mutant: a chart is added even when the plan has one already.
MaybeInsertVisu_Again(plan, wantsChart) ==
    IF wantsChart /\ RowsUpstreamIndex(plan, Len(plan) + 1) # 0
    THEN Append(plan, NewItem("visu", Canned, "database"))
    ELSE plan

\* Mutant: only the rows of the last step of the plan count.
MaybeInsertVisu_LastStepOnly(plan, wantsChart) ==
    IF ~HasVisu(plan) /\ wantsChart /\ RowsUpstreamIndex(plan, Len(plan) + 1) = Len(plan)
       /\ plan # <<>>
    THEN Append(plan, NewItem("visu", Canned, "database"))
    ELSE plan

MaybeInsertVisu(plan, wantsChart) ==
    IF ~HasVisu(plan) /\ wantsChart /\ RowsUpstreamIndex(plan, Len(plan) + 1) # 0
    THEN Append(plan, NewItem("visu", Canned, "database"))
    ELSE plan

\* Mutant: the sql steps still to run are not waited for.
IsBlocked_Eager(plan, i) ==
    /\ plan[i].status = "pending"
    /\ plan[i].route = "visu"
    /\ plan[i].src # "inline"
    /\ RowsUpstreamIndex(plan, i) = 0

\* A database chart no sql step can feed any more.
IsBlocked(plan, i) ==
    /\ plan[i].status = "pending"
    /\ plan[i].route = "visu"
    /\ plan[i].src # "inline"
    /\ UpstreamSql(plan, i) \cap Pending(plan) = {}
    /\ RowsUpstreamIndex(plan, i) = 0

SkipBlockedSteps(plan, turn) ==
    [i \in DOMAIN plan |->
        IF IsBlocked(plan, i)
        THEN Finish(plan[i], "skipped", turn) ELSE plan[i]]

\* Mutant: inline charts are let through.
SkipUnbudgetedVisu_InlineRuns(plan, spent, turn) ==
    [i \in DOMAIN plan |->
        IF /\ spent
           /\ plan[i].route = "visu" /\ plan[i].status = "pending"
           /\ RowsUpstreamIndex(plan, i) = 0 /\ plan[i].src # "inline"
        THEN Finish(plan[i], "failed", turn) ELSE plan[i]]

\* Mutant: charts that are drawn already are failed too.
SkipUnbudgetedVisu_Finished(plan, spent, turn) ==
    [i \in DOMAIN plan |->
        IF /\ spent
           /\ plan[i].route = "visu"
           /\ plan[i].src = "inline" \/ RowsUpstreamIndex(plan, i) = 0
        THEN Finish(plan[i], "failed", turn) ELSE plan[i]]

\* With the budget spent, only a chart of existing rows may still run.
SkipUnbudgetedVisu(plan, spent, turn) ==
    [i \in DOMAIN plan |->
        IF /\ spent
           /\ plan[i].route = "visu" /\ plan[i].status = "pending"
           /\ plan[i].src = "inline" \/ RowsUpstreamIndex(plan, i) = 0
        THEN Finish(plan[i], "failed", turn) ELSE plan[i]]

\* The hop cap fails what is left, without a text.
CutShort(plan) ==
    [i \in DOMAIN plan |->
        IF plan[i].status = "pending"
        THEN Finish(plan[i], "failed", 0) ELSE plan[i]]
=============================================================================
