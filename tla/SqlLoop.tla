------------------------------- MODULE SqlLoop -------------------------------
(***************************************************************************)
(* Sql_agent (agents/sql_agent.py): the model calls tools until it answers *)
(* in words or its iterations are used up; then an answer is synthesized   *)
(* from what the tools returned.  The rows for a chart are those of the    *)
(* last tool output that has a label and a number in every row.            *)
(*                                                                         *)
(* A fact is abstracted to whether its output is chartable.                *)
(***************************************************************************)
EXTENDS ResilientLLM, SequencesExt

CONSTANTS max_iterations,
          MaxToolCalls      \* bound: tool calls in one reply

ASSUME LoopAssumption == max_iterations \in Nat \ {0} /\ MaxToolCalls \in Nat \ {0}

VARIABLES
    sql,              \* the visit, see SqlVisit
    collected_facts,  \* what the tools returned, one entry for each call
    last_chartable_rows   \* the fact they are taken from, 0 for None

sqlVars == <<sql, collected_facts, last_chartable_rows>>

Facts    == {"chartable", "plain"}
Failures == {"permission_denied", "table_or_schema_missing"}
Issues   == Failures \cup {"none", "budget_exceeded", "invalid_request", "empty_answer",
                          "max_iterations", "synthesis_failed", "empty_synthesis"}

\* A result: what structured_data holds is the fact it is taken from.
NoAnswer == [status |-> "none", issue |-> "none", structured_data |-> 0]

\* funded is no state of the program: the visit began with budget left.
SqlVisit == [at: {"rest", "ready", "asked", "synthesize", "synthesizing", "returned"},
             iteration: 0..max_iterations, funded: BOOLEAN,
             result: [status: {"none", "done", "failed", "raised"}, issue: Issues,
                      structured_data: Nat]]

AtRest == [at |-> "rest", iteration |-> 0, funded |-> FALSE, result |-> NoAnswer]

SqlInit == sql = AtRest /\ collected_facts = <<>> /\ last_chartable_rows = 0

Returns(status, issue, rows) ==
    sql' = [sql EXCEPT !.at = "returned",
                       !.result = [status |-> status, issue |-> issue,
                                   structured_data |-> rows]]

\* A request for sensitive data is refused before any model is asked.
BeginSql ==
    /\ sql.at = "rest" /\ pc = "idle"
    /\ \/ Returns("failed", "permission_denied", 0)
       \/ sql' = [sql EXCEPT !.at = "ready", !.funded = ~Exhausted]
    /\ UNCHANGED <<collected_facts, last_chartable_rows, vars>>

AskModel ==
    /\ sql.at = "ready"
    /\ Invoke
    /\ sql' = [sql EXCEPT !.at = "asked"]
    /\ UNCHANGED <<collected_facts, last_chartable_rows>>

Heard(how) ==
    /\ sql.at = "asked" /\ pc = "idle" /\ outcome = how
    /\ UNCHANGED vars

ModelOverBudget ==
    /\ Heard("over")
    /\ Returns("failed", "budget_exceeded", last_chartable_rows)
    /\ UNCHANGED <<collected_facts, last_chartable_rows>>

\* Mutant: every error of the call is taken for the budget's.
ModelFails_AsBudget ==
    /\ Heard("error")
    /\ Returns("failed", "budget_exceeded", last_chartable_rows)
    /\ UNCHANGED <<collected_facts, last_chartable_rows>>

\* A bad request fails the step without its rows; other errors escape the node.
ModelFails ==
    /\ Heard("error")
    /\ Returns("failed", "invalid_request", 0) \/ Returns("raised", "none", 0)
    /\ UNCHANGED <<collected_facts, last_chartable_rows>>

\* A reply without tool calls is the answer.
ModelAnswers ==
    /\ Heard("answer")
    /\ \/ Returns("done", "none", last_chartable_rows)
       \/ Returns("failed", "empty_answer", last_chartable_rows)
    /\ UNCHANGED <<collected_facts, last_chartable_rows>>

\* An unknown tool is reported like a denied one, whatever the user's level; an
\* exception the loop does not expect escapes.  Nothing collected is handed on.
ToolStopsVisit ==
    /\ Heard("answer")
    /\ \/ \E issue \in Failures : Returns("failed", issue, 0)
       \/ Returns("raised", "none", 0)
    /\ UNCHANGED <<collected_facts, last_chartable_rows>>

Charted(facts) == {k \in DOMAIN facts : facts[k] = "chartable"}

\* Mutant: an output that is not chartable clears the rows found before.
NewRows_Cleared(facts) ==
    IF facts[Len(facts)] = "chartable" THEN Len(facts) ELSE 0

\* The rows after some more facts: those of the last one that is chartable.
NewRows(facts) ==
    IF \E k \in Charted(facts) : k > Len(collected_facts)
    THEN CHOOSE k \in Charted(facts) : \A j \in Charted(facts) : j <= k
    ELSE last_chartable_rows

\* Mutant: a tool call that fails leaves no fact behind.
ModelCallsTools_FailuresDropped ==
    /\ Heard("answer")
    /\ \E outputs \in BoundedSeq(Facts, MaxToolCalls) :
          /\ collected_facts' = collected_facts \o outputs
          /\ last_chartable_rows' = IF outputs = <<>> THEN last_chartable_rows
                                    ELSE NewRows(collected_facts \o outputs)
    /\ sql' = [sql EXCEPT !.iteration = @ + 1,
                  !.at = IF sql.iteration + 1 = max_iterations THEN "synthesize" ELSE "ready"]

\* Every call leaves a fact, the text of its error if it failed.
ModelCallsTools ==
    /\ Heard("answer")
    /\ \E outputs \in BoundedSeq(Facts, MaxToolCalls) :
          /\ outputs # <<>>
          /\ collected_facts' = collected_facts \o outputs
          /\ last_chartable_rows' = NewRows(collected_facts \o outputs)
    /\ sql' = [sql EXCEPT !.iteration = @ + 1,
                  !.at = IF sql.iteration + 1 = max_iterations THEN "synthesize" ELSE "ready"]

\* The iterations are used up: one more call, without tools, if there are facts.
Synthesize ==
    /\ sql.at = "synthesize"
    /\ IF collected_facts # <<>>
       THEN Invoke /\ sql' = [sql EXCEPT !.at = "synthesizing"]
       ELSE Returns("failed", "max_iterations", last_chartable_rows) /\ UNCHANGED vars
    /\ UNCHANGED <<collected_facts, last_chartable_rows>>

\* Whatever happens to it, the rows found stay with the result.
SynthesisHeard ==
    /\ sql.at = "synthesizing" /\ pc = "idle"
    /\ CASE outcome = "over"   -> Returns("failed", "budget_exceeded", last_chartable_rows)
         [] outcome = "error"  -> Returns("failed", "synthesis_failed", last_chartable_rows)
         [] outcome = "answer" -> \/ Returns("done", "none", last_chartable_rows)
                                  \/ Returns("failed", "empty_synthesis", last_chartable_rows)
    /\ UNCHANGED <<collected_facts, last_chartable_rows, vars>>

\* The node has returned, its locals are gone.
EndSql ==
    /\ sql.at = "returned"
    /\ sql' = AtRest /\ collected_facts' = <<>> /\ last_chartable_rows' = 0
    /\ UNCHANGED vars

SqlStep ==
    \/ AskModel \/ ModelOverBudget \/ ModelFails \/ ModelAnswers \/ ToolStopsVisit
    \/ ModelCallsTools \/ Synthesize \/ SynthesisHeard

\* The visit as one piece of budgeted work; one refused before it had any is none.
SqlPhase ==
    IF sql.at # "returned" THEN IF sql.funded THEN "open" ELSE "none"
    ELSE CASE sql.result.status = "raised"         -> "error"
           [] sql.result.issue = "budget_exceeded" -> "over"
           [] ~sql.funded /\ sql.result.issue = "permission_denied" -> "none"
           [] OTHER                                -> "answer"

\* Calls the visit may still begin, and its steps if it begins them all.
SqlCalls ==
    (max_iterations - sql.iteration)
    + (IF sql.at \in {"ready", "synthesize"} THEN 1 ELSE 0)

SqlLeft ==
    SqlCalls * StepsOfCall
    + (IF sql.at \in {"asked", "synthesizing"} THEN CallLeft + 1 ELSE 0)
=============================================================================
