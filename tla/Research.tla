------------------------------ MODULE Research ------------------------------
(***************************************************************************)
(* The research subgraph (agents/research/): a controller that sends a     *)
(* task to the web researcher, some times, and then to the report writer,  *)
(* and the boundary node that turns the outcome into a SpecialistResult.   *)
(* It starts from a fresh SubGraphSupervisorState every time it is called. *)
(*                                                                         *)
(* The task is not blank: the researcher raises on a blank one before it   *)
(* does anything, which Turn!NodeRaises has.  A message is abstracted to   *)
(* who wrote it and how long it is; spent is TurnBudget.exhausted, moved   *)
(* by the LLM calls as BudgetedCall says.                                  *)
(***************************************************************************)
EXTENDS Naturals, Sequences

CONSTANTS
    MAX_RESEARCH_ATTEMPTS,   \* visits to the researcher per task
    MAX_ITERATIONS,          \* model calls per visit, the final note aside
    MAX_SEARCH_ATTEMPTS, MAX_FETCH_ATTEMPTS,   \* tool calls that run, per visit
    MaxToolCalls             \* bound: tool calls in one reply

ASSUME LimitsAssumption ==
    /\ MAX_RESEARCH_ATTEMPTS \in Nat \ {0}
    /\ MAX_ITERATIONS \in Nat \ {0}
    /\ MAX_SEARCH_ATTEMPTS \in Nat /\ MAX_FETCH_ATTEMPTS \in Nat
    /\ MaxToolCalls \in Nat \ {0}

VARIABLES
    pc,              \* "controller", "research", "final_note", "report", "end"
    research_attempts, research_messages, report_written, research_succeeded,
    iteration, search_attempts, fetch_attempts,   \* locals of one visit
    gathered,        \* this visit's tools brought something back
    used,            \* tool calls that ran, over all visits
    spent,
    last_result      \* NoResult until the node returns or raises

visitVars == <<iteration, search_attempts, fetch_attempts, gathered>>
vars == <<pc, research_attempts, research_messages, report_written, research_succeeded,
          visitVars, used, spent, last_result>>

NoResult == [status |-> "none", issue |-> "none"]

\* A blank message is empty or all space; a long one has over 800 characters.
Sizes   == {"blank", "short", "long"}
Message == [from: {"researcher", "no_note", "writer"}, size: Sizes]

Init ==
    /\ pc = "controller"
    /\ research_attempts = 0 /\ research_messages = <<>>
    /\ report_written = FALSE /\ research_succeeded = FALSE
    /\ iteration = 0 /\ search_attempts = 0 /\ fetch_attempts = 0 /\ gathered = FALSE
    /\ used = [search |-> 0, fetch |-> 0]
    /\ spent \in BOOLEAN
    /\ last_result = NoResult

Say(from, size) ==
    research_messages' = Append(research_messages, [from |-> from, size |-> size])

LLMResponds == ~spent /\ spent' \in BOOLEAN

\* Back in research_node.  TurnBudgetExceeded becomes a failed result, any other
\* exception escapes into the main graph.
End(status, issue) ==
    /\ pc' = "end"
    /\ last_result' = [status |-> status, issue |-> issue]
    /\ UNCHANGED <<research_attempts, research_messages, report_written,
                   research_succeeded, visitVars, used>>

OverBudget == spent' = TRUE /\ End("failed", "budget_exceeded")

\* Mutant: every exception is taken for the budget's.
Raise_AsBudget == LLMResponds /\ End("failed", "budget_exceeded")

Raise == LLMResponds /\ End("raised", "none")

-----------------------------------------------------------------------------
(* sub_controller                                                          *)

\* Mutant: a written report ends the task only once the attempts are used up.
MustEnd_AtCap == report_written /\ research_attempts >= MAX_RESEARCH_ATTEMPTS

MustEnd == report_written

\* Mutant: off by one, the cap bites one visit late.
MustReport_Late ==
    /\ ~MustEnd
    /\ \/ research_attempts > MAX_RESEARCH_ATTEMPTS
       \/ /\ research_attempts >= 1
          /\ \E k \in DOMAIN research_messages : research_messages[k].size = "long"

MustReport ==
    /\ ~MustEnd
    /\ \/ research_attempts >= MAX_RESEARCH_ATTEMPTS
       \/ /\ research_attempts >= 1
          /\ \E k \in DOMAIN research_messages : research_messages[k].size = "long"

\* Mutant: the first decision is the model's too.
MustResearch_Never == FALSE

MustResearch ==
    /\ ~MustEnd /\ ~MustReport
    /\ research_attempts = 0 /\ research_messages = <<>>

\* The next visit to the researcher, as attempt n.
Visit(n) ==
    /\ pc' = "research"
    /\ research_attempts' = n
    /\ iteration' = 0 /\ search_attempts' = 0 /\ fetch_attempts' = 0 /\ gathered' = FALSE

ToReport == pc' = "report" /\ UNCHANGED <<research_attempts, visitVars>>

\* The subgraph ends, and the node reports its last message.
Finish ==
    LET last == research_messages[Len(research_messages)]
    IN  IF research_messages = <<>> THEN End("failed", "research_no_results")
        ELSE IF last.size = "blank" THEN End("failed", "research_empty_report")
        ELSE IF research_succeeded THEN End("done", "none")
                                   ELSE End("failed", "research_no_results")

ControllerDecides ==
    /\ pc = "controller"
    /\ \/ MustEnd /\ Finish /\ UNCHANGED spent
       \/ /\ \/ MustReport /\ ToReport
             \/ MustResearch /\ Visit(1)
          /\ UNCHANGED <<research_messages, report_written, research_succeeded, used,
                         spent, last_result>>

\* Mutant: a visit the model asks for is not counted.
ControllerAsks_Uncounted ==
    /\ pc = "controller"
    /\ ~MustEnd /\ ~MustReport /\ ~MustResearch
    /\ LLMResponds
    /\ Visit(research_attempts)
    /\ UNCHANGED <<research_messages, report_written, research_succeeded, used, last_result>>

\* Otherwise the model decides.  A provider error forces the report; a reply
\* that is no SubDecision raises.
ControllerAsks ==
    /\ pc = "controller"
    /\ ~MustEnd /\ ~MustReport /\ ~MustResearch
    /\ \/ OverBudget
       \/ Raise
       \/ LLMResponds /\ Finish
       \/ /\ LLMResponds
          /\ Visit(research_attempts + 1) \/ ToReport
          /\ UNCHANGED <<research_messages, report_written, research_succeeded, used,
                         last_result>>

-----------------------------------------------------------------------------
(* Research                                                                *)

\* After an iteration: the final note when there is enough material or no
\* iteration is left, else another one.
NextIteration(searches, fetches) ==
    /\ iteration' = iteration + 1
    /\ search_attempts' = searches /\ fetch_attempts' = fetches
    /\ pc' = IF \/ iteration' = MAX_ITERATIONS
                \/ searches >= MAX_SEARCH_ATTEMPTS /\ fetches >= 2
             THEN "final_note" ELSE "research"
    /\ UNCHANGED <<research_attempts, research_messages, report_written,
                   research_succeeded, last_result>>

\* The model is told of the error and asked again.  The early exit was already
\* looked at when the counters last moved, so only the iterations count.
ModelFails ==
    /\ pc = "research"
    /\ LLMResponds
    /\ NextIteration(search_attempts, fetch_attempts)
    /\ UNCHANGED <<gathered, used>>

\* Of n more tool calls of a kind, those that run under its limit.
Run(n, attempts, limit) == IF attempts + n <= limit THEN n
                           ELSE IF attempts < limit THEN limit - attempts ELSE 0

\* Tool calls past their limit, of an unknown tool or that fail get a text instead.
ModelCallsTools ==
    /\ pc = "research"
    /\ LLMResponds
    /\ \E s, f, unknown \in 0..MaxToolCalls :
          LET searched == Run(s, search_attempts, MAX_SEARCH_ATTEMPTS)
              fetched  == Run(f, fetch_attempts, MAX_FETCH_ATTEMPTS)
          IN  /\ s + f + unknown \in 1..MaxToolCalls
              /\ used' = [search |-> used.search + searched, fetch |-> used.fetch + fetched]
              /\ gathered' \in IF searched + fetched = 0 THEN {gathered} ELSE {gathered, TRUE}
              /\ NextIteration(search_attempts + s, fetch_attempts + f)

\* The visit hands on one message, and nothing of what the tools returned.
HandOn(from, size) ==
    /\ Say(from, size)
    /\ pc' = "controller"
    /\ UNCHANGED <<research_attempts, report_written, research_succeeded, visitVars, used,
                   last_result>>

\* A reply without tool calls is the note.
ModelWritesNote ==
    /\ pc = "research"
    /\ LLMResponds
    /\ \E size \in Sizes : HandOn("researcher", size)

\* Mutant: a visit whose note cannot be written starts over, uncounted.
FinalNote_StartsOver ==
    /\ pc = "final_note"
    /\ \/ OverBudget
       \/ LLMResponds /\ \E size \in Sizes : HandOn("researcher", size)
       \/ /\ LLMResponds
          /\ Visit(research_attempts)
          /\ UNCHANGED <<research_messages, report_written, research_succeeded, used,
                         last_result>>

FinalNote ==
    /\ pc = "final_note"
    /\ \/ OverBudget
       \/ LLMResponds /\ \E size \in Sizes : HandOn("researcher", size)
       \/ LLMResponds /\ HandOn("no_note", "short")

\* The budget ends before or during a model call of the loop.
ResearchOverBudget == pc = "research" /\ OverBudget

-----------------------------------------------------------------------------
(* report_writer                                                           *)

Written(size, success) ==
    /\ Say("writer", size)
    /\ research_succeeded' = success /\ report_written' = TRUE
    /\ pc' = "controller"
    /\ UNCHANGED <<research_attempts, visitVars, used, last_result>>

\* A provider error leaves a failed report; a reply that is no ReportOutput raises.
ReportWriter ==
    /\ pc = "report"
    /\ \/ research_messages = <<>> /\ Written("short", FALSE) /\ UNCHANGED spent
       \/ /\ research_messages # <<>>
          /\ \/ OverBudget
             \/ Raise
             \/ LLMResponds /\ Written("short", FALSE)
             \/ LLMResponds /\ \E size \in Sizes, success \in BOOLEAN : Written(size, success)

-----------------------------------------------------------------------------
\* The node has returned: the main graph goes on.
Returned == pc = "end" /\ UNCHANGED vars

Work ==
    \/ ControllerDecides \/ ControllerAsks
    \/ ModelFails \/ ModelCallsTools \/ ModelWritesNote \/ ResearchOverBudget \/ FinalNote
    \/ ReportWriter

Next == Work \/ Returned

Spec == Init /\ [][Next]_vars

\* The executor runs the scheduled node; model and tool calls have timeouts.
FairSpec == Spec /\ WF_vars(Work)
=============================================================================
