------------------------- MODULE ResearchProperties -------------------------
(***************************************************************************)
(* What a research task must and must not do, and the contract it keeps    *)
(* with the main graph.                                                    *)
(***************************************************************************)
EXTENDS Research

\* The subgraph's state keeps the shape state/state.py declares.
TypeOK ==
    /\ pc \in {"controller", "research", "final_note", "report", "end"}
    /\ research_attempts \in 0..MAX_RESEARCH_ATTEMPTS
    /\ research_messages \in Seq(Message)
    /\ report_written \in BOOLEAN /\ research_succeeded \in BOOLEAN
    /\ iteration \in 0..MAX_ITERATIONS
    /\ search_attempts \in Nat /\ fetch_attempts \in Nat /\ gathered \in BOOLEAN
    /\ used \in [search: Nat, fetch: Nat] /\ spent \in BOOLEAN
    /\ last_result.status \in {"none", "done", "failed", "raised"}

\* The report writer is never called with nothing to report on, so its own
\* branch for that case and research_node's for no messages are backstops.
ReportHasMaterial == pc = "report" => research_messages # <<>>

\* "done" is only ever said of a report: the message the user gets is the
\* writer's, which declared success, and not a later note of the researcher.
DoneIsReported ==
    last_result.status = "done" =>
        /\ report_written /\ research_succeeded
        /\ research_messages[Len(research_messages)].from = "writer"
        /\ research_messages[Len(research_messages)].size # "blank"

\* However the model decides, one task runs a bounded number of web searches
\* and page fetches: the limits of a visit times the visits.
WebUseBounded ==
    /\ used.search <= MAX_RESEARCH_ATTEMPTS * MAX_SEARCH_ATTEMPTS
    /\ used.fetch  <= MAX_RESEARCH_ATTEMPTS * MAX_FETCH_ATTEMPTS

\* The first model call of the task is the researcher's.
Begun == ~(\/ pc = "controller" /\ research_attempts = 0
           \/ pc = "research" /\ research_attempts = 1 /\ iteration = 0 /\ spent)

Phase ==
    CASE pc = "end" -> (CASE last_result.status = "raised"          -> "error"
                          [] last_result.issue  = "budget_exceeded" -> "over"
                          [] OTHER                                  -> "answer")
      [] pc # "end" /\ Begun  -> "open"
      [] pc # "end" /\ ~Begun -> "none"

\* Steps of one round: the controller, a visit with all its iterations, its note.
StepsOfVisit == MAX_ITERATIONS + 2

\* Steps until the task ends if it visits the researcher as often as it may; from
\* the last round the report and the way to the end remain.
TaskLeft ==
    LET visits == (MAX_RESEARCH_ATTEMPTS - research_attempts) * StepsOfVisit
    IN  CASE pc = "controller" -> IF report_written THEN 1 ELSE visits + 3
          [] pc = "research"   -> visits + 3 + (MAX_ITERATIONS - iteration) + 1
          [] pc = "final_note" -> visits + 3 + 1
          [] pc = "report"     -> 2
          [] pc = "end"        -> 0

Promise == INSTANCE BudgetedCall WITH
    MaxSteps <- MAX_RESEARCH_ATTEMPTS * StepsOfVisit + 2,
    phase <- Phase, spent <- spent,
    toGo <- IF Phase = "open" THEN TaskLeft ELSE 0

\* A research task looks to the main graph like one budgeted call: a result or
\* an exception only if there was budget at the start, budget_exceeded only if
\* there is none left.  Turn!ResearchNode takes this for granted.  Every step
\* brings the end nearer, whatever the model decides.
KeepsCallContract == Promise!CallSpec

\* Every task ends: controller, researcher and writer do not send each other
\* the task for ever (README.md:106, "so it cannot loop on the report step").
TaskEnds == <>(pc = "end")

-----------------------------------------------------------------------------
\* A statement of the repository that the code does not keep.
\* agents/research/researcher.py:52, _final_note: "Force one untool'd invoke so
\* gathered snippets aren't thrown away", and if that fails "See tool results
\* above": what a visit gathered is handed on in some form.
GatheredIsHandedOn ==
    pc = "controller" /\ gathered /\ research_messages # <<>> =>
        research_messages[Len(research_messages)].from # "no_note"
=============================================================================
