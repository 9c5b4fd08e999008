------------------------------- MODULE LLMCalls -------------------------------
(***************************************************************************)
(* The nodes of a turn that make several LLM calls and the chain they make *)
(* them through, on one budget: planning, the sql loop, and the single     *)
(* calls of other nodes.  One node runs at a time, and one call.           *)
(***************************************************************************)
EXTENDS Planning, SqlLoop

allVars == <<vars, planning, sqlVars>>

AtRestAll == planning.at = "rest" /\ sql.at = "rest"

CallsInit == Init /\ PlanningInit /\ SqlInit

\* A node with one LLM call: memory_manager's summary, convo, rag, a chart.
OtherNode == AtRestAll /\ Invoke /\ UNCHANGED <<planning, sqlVars>>

NextMessage == AtRestAll /\ OpenScope /\ UNCHANGED <<planning, sqlVars>>

Chain == Step /\ UNCHANGED <<planning, sqlVars>>

PlanningNode ==
    /\ \/ AtRestAll /\ BeginPlanning
       \/ PlanningStep \/ EndPlanning
    /\ UNCHANGED sqlVars

SqlNode ==
    /\ \/ AtRestAll /\ BeginSql
       \/ SqlStep \/ EndSql
    /\ UNCHANGED planning

CallsNext == OtherNode \/ NextMessage \/ Chain \/ PlanningNode \/ SqlNode

CallsSpec == CallsInit /\ [][CallsNext]_allVars

\* The executor runs the node that is scheduled, provider clients have timeouts.
CallsFairSpec ==
    CallsSpec /\ WF_allVars(Chain) /\ WF_allVars(PlanningNode) /\ WF_allVars(SqlNode)

-----------------------------------------------------------------------------
CallsTypeOK ==
    /\ TypeOK
    /\ planning \in PlanningVisit
    /\ sql \in SqlVisit
    /\ collected_facts \in Seq(Facts)
    /\ last_chartable_rows \in Nat

\* The iterations never end without anything to synthesize from: the branch for
\* no facts (agents/sql_agent.py:252) is a backstop.
FactsAtTheLimit == sql.at = "synthesize" => collected_facts # <<>>

\* However an sql step ends, unless it was refused or broke off, it hands on the
\* newest rows its tools returned, or none if there were none: a later output
\* that cannot be charted takes nothing away, an earlier one never wins.
RowsAreNewest ==
    LET given == sql.result.structured_data
        found == Charted(collected_facts)
    IN  /\ sql.at = "returned" /\ sql.result.status # "raised"
        /\ sql.result.issue \notin Failures \cup {"invalid_request"}
        => IF found = {} THEN given = 0
           ELSE given \in found /\ \A k \in found : k <= given

NodePhase == IF planning.at # "rest" THEN PlanningPhase ELSE SqlPhase

NodeLeft == IF NodePhase # "open" THEN 0
            ELSE IF planning.at # "rest" THEN PlanningLeft ELSE SqlLeft

Node == INSTANCE BudgetedCall WITH
    MaxSteps <- (2 * max_attempts + max_iterations + 1) * StepsOfCall,
    phase <- NodePhase, spent <- Exhausted, toGo <- NodeLeft

\* A visit ends as refused just when its last call was: the budget is never taken
\* for an outage, which Turn would remember, nor any failure for the budget.
RefusedIffOver ==
    NodePhase = "open" /\ NodePhase' # "open" => (NodePhase' = "over" <=> outcome = "over")

\* Planning and the sql loop look to the graph like one budgeted call each, as
\* Turn takes them: refused without budget, budget_exceeded only once it is
\* spent, no matter how many calls, retries and fallbacks they are made of, and
\* each of their steps brings the visit nearer to its end. What their last call
\* met with is what they report.
NodesKeepContract == Node!CallSpec /\ [][RefusedIffOver]_allVars

\* Every visit of these nodes ends, also when no model can even be built.
VisitEnds == /\ planning.at # "rest" ~> planning.at = "rest"
             /\ sql.at # "rest" ~> sql.at = "rest"
=============================================================================
