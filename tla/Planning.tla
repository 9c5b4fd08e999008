------------------------------- MODULE Planning -------------------------------
(***************************************************************************)
(* The LLM calls of a supervisor visit that has no plan yet                *)
(* (agents/supervisor.py): the request is decomposed into a workflow,      *)
(* failing that one decision is asked for; each is tried a few times.      *)
(* What is done with the answer is Turn!PlanWorkflow, Turn!PlanByDecision  *)
(* and Turn!PlanOutage.                                                    *)
(***************************************************************************)
EXTENDS ResilientLLM

CONSTANT max_attempts   \* of get_workflow_plan, and of get_supervisor_decision

ASSUME AttemptsAssumption == max_attempts \in Nat \ {0}

VARIABLE planning       \* the visit: its place, the call it makes, its verdict

Verdicts == {"none", "closed", "workflow", "decision", "default", "outage"}

PlanningVisit == [at: {"rest", "ready", "asked", "returned"},
                  call: {"workflow", "decision"}, attempt: 1..max_attempts,
                  verdict: Verdicts]

NotPlanning == [at |-> "rest", call |-> "workflow", attempt |-> 1, verdict |-> "none"]

PlanningInit == planning = NotPlanning

Decide(verdict) ==
    planning' = [planning EXCEPT !.at = "returned", !.verdict = verdict]

Try(call, attempt) ==
    planning' = [planning EXCEPT !.at = "ready", !.call = call, !.attempt = attempt]

\* Without budget the turn is closed and no LLM is asked.
BeginPlanning ==
    /\ planning.at = "rest" /\ pc = "idle"
    /\ IF Exhausted THEN Decide("closed") ELSE Try("workflow", 1)
    /\ UNCHANGED vars

AskPlanner ==
    /\ planning.at = "ready"
    /\ Invoke
    /\ planning' = [planning EXCEPT !.at = "asked"]

\* No usable workflow: one decision is asked for; failing that, the default.
GiveUp ==
    IF planning.call = "workflow" THEN Try("decision", 1) ELSE Decide("default")

\* Mutant: attempts are not counted.
Retry_Uncounted == Try(planning.call, planning.attempt)

Retry ==
    IF planning.attempt < max_attempts
    THEN Try(planning.call, planning.attempt + 1)
    ELSE GiveUp

\* Mutant: the budget's exception is classified like any other error.
PlannerHears_OutageOnBudget ==
    /\ planning.at = "asked" /\ pc = "idle"
    /\ CASE outcome \in {"over", "error"} -> Retry \/ Decide("outage")
         [] outcome = "answer" ->
               \/ Decide(planning.call) \/ Retry \/ Decide("outage")
               \/ planning.call = "workflow" /\ GiveUp
    /\ UNCHANGED vars

\* A reply that is no plan and an error are both classified by their text, so
\* either may count as an outage, which is not tried again.
PlannerHears ==
    /\ planning.at = "asked" /\ pc = "idle"
    /\ CASE outcome = "over"   -> GiveUp
         [] outcome = "error"  -> Retry \/ Decide("outage")
         [] outcome = "answer" ->
               \/ Decide(planning.call)
               \/ planning.call = "workflow" /\ GiveUp      \* all its steps are blank
               \/ Retry \/ Decide("outage")
    /\ UNCHANGED vars

EndPlanning ==
    /\ planning.at = "returned"
    /\ planning' = NotPlanning
    /\ UNCHANGED vars

PlanningStep == AskPlanner \/ PlannerHears

\* The visit as one piece of budgeted work.
PlanningPhase ==
    IF planning.at # "returned" THEN "open"
    ELSE CASE planning.verdict = "closed"  -> "over"
           [] planning.verdict = "outage"  -> "error"
           [] planning.verdict = "default" -> IF outcome = "over" THEN "over" ELSE "error"
           [] OTHER                        -> "answer"

\* Calls the visit may still begin, and its steps if it begins them all.
PlanningCalls ==
    (IF planning.call = "workflow" THEN max_attempts ELSE 0)
    + (max_attempts - planning.attempt) + (IF planning.at = "ready" THEN 1 ELSE 0)

PlanningLeft ==
    PlanningCalls * StepsOfCall + (IF planning.at = "asked" THEN CallLeft + 1 ELSE 0)
=============================================================================
