--------------------------- MODULE ResearchProofs ---------------------------
(***************************************************************************)
(* Theorems about the research subgraph, for any limits.                   *)
(***************************************************************************)
EXTENDS ResearchProperties, TLAPS

Issues == {"none", "budget_exceeded", "research_no_results", "research_empty_report"}

\* Tool calls of a kind that one visit may still run.
Room(attempts, limit) == IF attempts < limit THEN limit - attempts ELSE 0

\* What has been handed on so far fits where the task is: nothing before the
\* first visit, something whenever the controller has been back, and a written
\* report is the last message until the task ends.
MaterialInv ==
    /\ pc \in {"research", "final_note", "report"} => research_attempts >= 1
    /\ research_attempts = 0 => research_messages = <<>>
    /\ pc \in {"controller", "report"} /\ research_attempts >= 1
          => research_messages # <<>>
    /\ report_written =>
          /\ pc \in {"controller", "end"}
          /\ research_attempts >= 1
          /\ research_messages # <<>>
          /\ research_messages[Len(research_messages)].from = "writer"
    /\ research_succeeded => report_written
    /\ pc = "research" => iteration < MAX_ITERATIONS

\* The tool calls that ran and those the visit may still run fit the visits.
WebInv ==
    /\ \/ research_attempts = 0 /\ used.search = 0
       \/ used.search + Room(search_attempts, MAX_SEARCH_ATTEMPTS)
             <= research_attempts * MAX_SEARCH_ATTEMPTS
    /\ \/ research_attempts = 0 /\ used.fetch = 0
       \/ used.fetch + Room(fetch_attempts, MAX_FETCH_ATTEMPTS)
             <= research_attempts * MAX_FETCH_ATTEMPTS

ResearchInv ==
    /\ TypeOK /\ MaterialInv /\ DoneIsReported
    /\ last_result.issue \in Issues

\* A message is typed, and so is a sequence one message longer; its last
\* message is the new one.
LEMMA Saying ==
    ASSUME NEW from \in {"researcher", "no_note", "writer"}, NEW size \in Sizes,
           research_messages \in Seq(Message), Say(from, size)
    PROVE  /\ research_messages' \in Seq(Message)
           /\ research_messages' # <<>>
           /\ research_messages'[Len(research_messages')] = [from |-> from, size |-> size]
<1>1. [from |-> from, size |-> size] \in Message
      BY DEF Message
<1> QED BY <1>1 DEF Say

\* Leaving the subgraph keeps the invariant, if "done" is said of a report.
LEMMA EndKeepsInv ==
    ASSUME ResearchInv, NEW status \in {"done", "failed", "raised"}, NEW issue \in Issues,
           End(status, issue), spent' \in BOOLEAN,
           status = "done" =>
              /\ report_written /\ research_succeeded
              /\ research_messages[Len(research_messages)].size # "blank"
    PROVE  ResearchInv'
BY DEF ResearchInv, TypeOK, MaterialInv, DoneIsReported, End, visitVars, Issues

\* The controller's end: the last message decides what the task came to.
LEMMA FinishKeepsInv ==
    ASSUME ResearchInv, Finish, spent' \in BOOLEAN
    PROVE  /\ ResearchInv'
           /\ pc' = "end" /\ last_result'.status # "raised"
           /\ last_result'.issue # "budget_exceeded"
<1> DEFINE last == research_messages[Len(research_messages)]
<1>1. \/ End("failed", "research_no_results")
      \/ End("failed", "research_empty_report")
      \/ End("done", "none") /\ last.size # "blank" /\ research_succeeded
      BY DEF Finish
<1>2. research_succeeded => report_written
      BY DEF ResearchInv, MaterialInv
<1>3. ResearchInv'
      BY <1>1, <1>2, EndKeepsInv DEF Issues
<1> QED BY <1>1, <1>3 DEF End

\* Any other exit gives up for the budget or raises.
LEMMA GivingUpKeepsInv ==
    ASSUME ResearchInv, OverBudget \/ Raise
    PROVE  ResearchInv'
<1>1. spent' \in BOOLEAN
      BY DEF OverBudget, Raise, LLMResponds
<1>2. End("failed", "budget_exceeded") \/ End("raised", "none")
      BY DEF OverBudget, Raise
<1> QED BY <1>1, <1>2, EndKeepsInv DEF Issues

\* A visit to the researcher begins.
LEMMA VisitKeepsInv ==
    ASSUME ResearchInv, ~report_written, pc = "controller",
           research_attempts < MAX_RESEARCH_ATTEMPTS,
           Visit(research_attempts + 1), spent' \in BOOLEAN,
           UNCHANGED <<research_messages, report_written, research_succeeded, used, last_result>>
    PROVE  ResearchInv'
<1> USE LimitsAssumption
<1>0. 0 \in 0..MAX_ITERATIONS /\ research_attempts + 1 \in 0..MAX_RESEARCH_ATTEMPTS
      BY DEF ResearchInv, TypeOK
<1>1. TypeOK'
      BY <1>0, ZenonT(30) DEF ResearchInv, TypeOK, Visit
<1>2. MaterialInv'
      BY DEF ResearchInv, TypeOK, MaterialInv, Visit
<1> QED BY <1>1, <1>2 DEF ResearchInv, DoneIsReported

\* The controller hands over to the writer.
LEMMA ToReportKeepsInv ==
    ASSUME ResearchInv, ~report_written, pc = "controller", research_attempts >= 1,
           ToReport, spent' \in BOOLEAN,
           UNCHANGED <<research_messages, report_written, research_succeeded, used, last_result>>
    PROVE  ResearchInv'
BY DEF ResearchInv, TypeOK, MaterialInv, DoneIsReported, ToReport, visitVars

\* An iteration of the researcher's loop ends.
LEMMA IterationKeepsInv ==
    ASSUME ResearchInv, pc = "research", NEW s \in Nat, NEW f \in Nat,
           NextIteration(s, f), gathered' \in BOOLEAN, used' \in [search: Nat, fetch: Nat],
           spent' \in BOOLEAN
    PROVE  ResearchInv'
<1> USE LimitsAssumption
<1>1. iteration' \in 0..MAX_ITERATIONS /\ (pc' = "research" => iteration' < MAX_ITERATIONS)
      BY DEF ResearchInv, TypeOK, MaterialInv, NextIteration
<1>2. pc' \in {"research", "final_note"}
      BY DEF NextIteration
<1>3. search_attempts' \in Nat /\ fetch_attempts' \in Nat
      BY DEF NextIteration
<1> QED BY <1>1, <1>2, <1>3 DEF ResearchInv, TypeOK, MaterialInv, DoneIsReported, NextIteration

\* The researcher hands on its message.
LEMMA HandOnKeepsInv ==
    ASSUME ResearchInv, pc \in {"research", "final_note"},
           NEW from \in {"researcher", "no_note"}, NEW size \in Sizes,
           HandOn(from, size), spent' \in BOOLEAN
    PROVE  ResearchInv'
<1>1. research_messages' \in Seq(Message) /\ research_messages' # <<>>
      BY Saying DEF ResearchInv, TypeOK, HandOn
<1> QED BY <1>1 DEF ResearchInv, TypeOK, MaterialInv, DoneIsReported, HandOn, visitVars

\* The writer's report is the last message.
LEMMA WrittenKeepsInv ==
    ASSUME ResearchInv, pc = "report", NEW size \in Sizes, NEW success \in BOOLEAN,
           Written(size, success), spent' \in BOOLEAN
    PROVE  ResearchInv'
<1>1. /\ research_messages' \in Seq(Message) /\ research_messages' # <<>>
      /\ research_messages'[Len(research_messages')] = [from |-> "writer", size |-> size]
  <2>1. research_messages \in Seq(Message) /\ Say("writer", size)
        BY DEF ResearchInv, TypeOK, Written
  <2> QED BY <2>1, Saying
<1> QED BY <1>1 DEF ResearchInv, TypeOK, MaterialInv, DoneIsReported, Written, visitVars

\* Every step of the subgraph keeps the invariant.
LEMMA NextKeepsResearchInv == ResearchInv /\ [Next]_vars => ResearchInv'
<1> USE LimitsAssumption
<1> SUFFICES ASSUME ResearchInv, [Next]_vars PROVE ResearchInv'
    OBVIOUS
<1>0. research_attempts \in Nat /\ search_attempts \in Nat /\ fetch_attempts \in Nat
      /\ spent \in BOOLEAN /\ used \in [search: Nat, fetch: Nat]
      BY DEF ResearchInv, TypeOK
<1>1. CASE ControllerDecides
  <2>1. CASE MustEnd /\ Finish /\ UNCHANGED spent
        BY <1>0, <2>1, FinishKeepsInv
  <2>2. CASE MustReport /\ ToReport
    <3>1. research_attempts >= 1 /\ ~report_written
          BY <1>0, <2>2 DEF MustReport, MustEnd
    <3> QED BY <1>0, <1>1, <2>2, <3>1, ToReportKeepsInv DEF ControllerDecides, MustReport, MustEnd
  <2>3. CASE MustResearch /\ Visit(1)
    <3>1. research_attempts + 1 = 1 /\ ~report_written
          BY <1>0, <2>3 DEF MustResearch, MustEnd
    <3> QED BY <1>0, <1>1, <2>3, <3>1, VisitKeepsInv DEF ControllerDecides, MustResearch, MustEnd
  <2> QED BY <1>1, <2>1, <2>2, <2>3 DEF ControllerDecides
<1>2. CASE ControllerAsks
  <2>1. /\ ~report_written /\ pc = "controller"
        /\ research_attempts >= 1 /\ research_attempts < MAX_RESEARCH_ATTEMPTS
        BY <1>0, <1>2 DEF ControllerAsks, MustEnd, MustReport, MustResearch, ResearchInv,
                          MaterialInv, TypeOK
  <2>2. CASE OverBudget \/ Raise
        BY <2>2, GivingUpKeepsInv
  <2>3. CASE LLMResponds /\ Finish
        BY <2>3, FinishKeepsInv DEF LLMResponds
  <2>4. CASE /\ LLMResponds
             /\ Visit(research_attempts + 1) \/ ToReport
             /\ UNCHANGED <<research_messages, report_written, research_succeeded, used, last_result>>
        BY <2>1, <2>4, VisitKeepsInv, ToReportKeepsInv DEF LLMResponds
  <2> QED BY <1>2, <2>2, <2>3, <2>4 DEF ControllerAsks
<1>3. CASE ModelFails
  <2>1. gathered' \in BOOLEAN /\ used' = used /\ spent' \in BOOLEAN
        BY <1>3 DEF ModelFails, LLMResponds, ResearchInv, TypeOK
  <2> QED BY <1>0, <1>3, <2>1, IterationKeepsInv DEF ModelFails
<1>4. CASE ModelCallsTools
  <2>1. PICK s, f, unknown \in 0..MaxToolCalls :
          /\ used' = [search |-> used.search + Run(s, search_attempts, MAX_SEARCH_ATTEMPTS),
                      fetch  |-> used.fetch + Run(f, fetch_attempts, MAX_FETCH_ATTEMPTS)]
          /\ gathered' \in {gathered, TRUE}
          /\ NextIteration(search_attempts + s, fetch_attempts + f)
        BY <1>4 DEF ModelCallsTools
  <2>2. /\ Run(s, search_attempts, MAX_SEARCH_ATTEMPTS) \in Nat
        /\ Run(f, fetch_attempts, MAX_FETCH_ATTEMPTS) \in Nat
        BY <1>0 DEF Run
  <2>3. used' \in [search: Nat, fetch: Nat]
        BY <1>0, <2>1, <2>2
  <2>4. gathered' \in BOOLEAN /\ spent' \in BOOLEAN
        BY <1>4, <2>1 DEF ModelCallsTools, LLMResponds, ResearchInv, TypeOK
  <2>5. search_attempts + s \in Nat /\ fetch_attempts + f \in Nat
        BY <1>0
  <2> QED BY <1>4, <2>1, <2>3, <2>4, <2>5, IterationKeepsInv DEF ModelCallsTools
<1>5. CASE ModelWritesNote
      BY <1>5, HandOnKeepsInv DEF ModelWritesNote, LLMResponds
<1>6. CASE ResearchOverBudget
      BY <1>6, GivingUpKeepsInv DEF ResearchOverBudget
<1>7. CASE FinalNote
  <2>1. CASE OverBudget
        BY <2>1, GivingUpKeepsInv
  <2>2. CASE LLMResponds /\ \E size \in Sizes : HandOn("researcher", size)
        BY <1>7, <2>2, HandOnKeepsInv DEF FinalNote, LLMResponds
  <2>3. CASE LLMResponds /\ HandOn("no_note", "short")
        BY <1>7, <2>3, HandOnKeepsInv DEF FinalNote, LLMResponds, Sizes
  <2> QED BY <1>7, <2>1, <2>2, <2>3 DEF FinalNote
<1>8. CASE ReportWriter
  <2>1. CASE OverBudget \/ Raise
        BY <2>1, GivingUpKeepsInv
  <2>2. CASE \E size \in Sizes, success \in BOOLEAN :
                Written(size, success) /\ spent' \in BOOLEAN
        BY <1>8, <2>2, WrittenKeepsInv DEF ReportWriter
  <2>3. "short" \in Sizes
        BY DEF Sizes
  <2> QED BY <1>0, <1>8, <2>1, <2>2, <2>3 DEF ReportWriter, LLMResponds
<1>9. CASE Returned \/ UNCHANGED vars
      BY <1>9 DEF Returned, vars, visitVars, ResearchInv, TypeOK, MaterialInv, DoneIsReported
<1> QED BY <1>1, <1>2, <1>3, <1>4, <1>5, <1>6, <1>7, <1>8, <1>9 DEF Next, Work

\* A fresh subgraph state satisfies the invariant.
LEMMA InitSatisfiesResearchInv == Init => ResearchInv
<1> USE LimitsAssumption
<1> SUFFICES ASSUME Init PROVE ResearchInv
    OBVIOUS
<1>1. research_messages \in Seq(Message)
      BY DEF Init
<1>2. last_result.status = "none" /\ last_result.issue = "none"
      BY DEF Init, NoResult
<1>3. 0 \in 0..MAX_ITERATIONS /\ 0 \in 0..MAX_RESEARCH_ATTEMPTS
      OBVIOUS
<1>4. used \in [search: Nat, fetch: Nat]
      BY DEF Init
<1>5. TypeOK
      BY <1>1, <1>2, <1>3, <1>4 DEF Init, TypeOK
<1> QED BY <1>2, <1>5 DEF Init, ResearchInv, MaterialInv, DoneIsReported, Issues

\* The inductive invariant holds throughout.
THEOREM ResearchInvariant == Spec => []ResearchInv
BY InitSatisfiesResearchInv, NextKeepsResearchInv, PTL DEF Spec

\* The state keeps the declared types whatever the models answer.
THEOREM ResearchTypeCorrect == Spec => []TypeOK
<1>1. ResearchInv => TypeOK
      BY DEF ResearchInv
<1> QED BY <1>1, ResearchInvariant, PTL

\* The writer is never called without material (agents/research/supervisor.py,
\* sub_controller: the first decision never needs the model).
THEOREM WriterHasMaterial == Spec => []ReportHasMaterial
<1>1. ResearchInv => ReportHasMaterial
      BY DEF ResearchInv, TypeOK, MaterialInv, ReportHasMaterial
<1> QED BY <1>1, ResearchInvariant, PTL

\* A task is "done" only by a report that declared success (research_node.py).
THEOREM DoneMeansReport == Spec => []DoneIsReported
<1>1. ResearchInv => DoneIsReported
      BY DEF ResearchInv
<1> QED BY <1>1, ResearchInvariant, PTL

-----------------------------------------------------------------------------
(* The bound on the use of the web.                                        *)

\* One more visit has room for one more visit's tool calls.
LEMMA OneMoreVisit ==
    ASSUME NEW n \in Nat, NEW limit \in Nat
    PROVE  (n + 1) * limit = n * limit + limit /\ n * limit \in Nat
OBVIOUS

\* The calls that run under a limit use up the room they had.
LEMMA RunFitsRoom ==
    ASSUME NEW n \in Nat, NEW attempts \in Nat, NEW limit \in Nat
    PROVE  Run(n, attempts, limit) + Room(attempts + n, limit) <= Room(attempts, limit)
BY DEF Run, Room

\* No step of the subgraph lets a visit run more tool calls than its limits.
LEMMA NextKeepsWebInv == ResearchInv /\ WebInv /\ [Next]_vars => WebInv'
<1> USE LimitsAssumption
<1> SUFFICES ASSUME ResearchInv, WebInv, [Next]_vars PROVE WebInv'
    OBVIOUS
<1>0. /\ research_attempts \in Nat /\ search_attempts \in Nat /\ fetch_attempts \in Nat
      /\ used.search \in Nat /\ used.fetch \in Nat /\ used \in [search: Nat, fetch: Nat]
      BY DEF ResearchInv, TypeOK
<1>1. CASE Visit(research_attempts + 1) /\ UNCHANGED used
  <2>1. /\ Room(0, MAX_SEARCH_ATTEMPTS) = MAX_SEARCH_ATTEMPTS
        /\ Room(0, MAX_FETCH_ATTEMPTS) = MAX_FETCH_ATTEMPTS
        BY DEF Room
  <2>2. /\ used.search <= research_attempts * MAX_SEARCH_ATTEMPTS
        /\ used.fetch <= research_attempts * MAX_FETCH_ATTEMPTS
    <3>1. /\ research_attempts * MAX_SEARCH_ATTEMPTS \in Nat
          /\ research_attempts * MAX_FETCH_ATTEMPTS \in Nat
          BY <1>0, OneMoreVisit
    <3>2. Room(search_attempts, MAX_SEARCH_ATTEMPTS) \in Nat
          /\ Room(fetch_attempts, MAX_FETCH_ATTEMPTS) \in Nat
          BY <1>0 DEF Room
    <3> QED BY <1>0, <3>1, <3>2 DEF WebInv
  <2>3. /\ used.search + MAX_SEARCH_ATTEMPTS <= (research_attempts + 1) * MAX_SEARCH_ATTEMPTS
        /\ used.fetch + MAX_FETCH_ATTEMPTS <= (research_attempts + 1) * MAX_FETCH_ATTEMPTS
        BY <1>0, <2>2, OneMoreVisit
  <2> QED BY <1>1, <2>1, <2>3 DEF WebInv, Visit
<1>2. CASE UNCHANGED <<research_attempts, search_attempts, fetch_attempts, used>>
      BY <1>2 DEF WebInv, Room
<1>3. CASE ModelCallsTools
  <2>1. PICK s, f, unknown \in 0..MaxToolCalls :
          /\ used' = [search |-> used.search + Run(s, search_attempts, MAX_SEARCH_ATTEMPTS),
                      fetch  |-> used.fetch + Run(f, fetch_attempts, MAX_FETCH_ATTEMPTS)]
          /\ NextIteration(search_attempts + s, fetch_attempts + f)
        BY <1>3 DEF ModelCallsTools
  <2>2. /\ Run(s, search_attempts, MAX_SEARCH_ATTEMPTS)
             + Room(search_attempts', MAX_SEARCH_ATTEMPTS)
             <= Room(search_attempts, MAX_SEARCH_ATTEMPTS)
        /\ Run(f, fetch_attempts, MAX_FETCH_ATTEMPTS)
             + Room(fetch_attempts', MAX_FETCH_ATTEMPTS)
             <= Room(fetch_attempts, MAX_FETCH_ATTEMPTS)
    <3>1. search_attempts' = search_attempts + s /\ fetch_attempts' = fetch_attempts + f
          BY <2>1 DEF NextIteration
    <3> QED BY <1>0, <3>1, RunFitsRoom
  <2>3. /\ Run(s, search_attempts, MAX_SEARCH_ATTEMPTS) \in Nat
        /\ Run(f, fetch_attempts, MAX_FETCH_ATTEMPTS) \in Nat
        /\ Room(search_attempts, MAX_SEARCH_ATTEMPTS) \in Nat
        /\ Room(fetch_attempts, MAX_FETCH_ATTEMPTS) \in Nat
        /\ Room(search_attempts', MAX_SEARCH_ATTEMPTS) \in Nat
        /\ Room(fetch_attempts', MAX_FETCH_ATTEMPTS) \in Nat
        BY <1>0, <2>1 DEF Run, Room, NextIteration
  <2>4. research_attempts' = research_attempts /\ research_attempts # 0
        BY <1>3, <2>1 DEF ModelCallsTools, NextIteration, ResearchInv, MaterialInv
  <2>5. /\ research_attempts * MAX_SEARCH_ATTEMPTS \in Nat
        /\ research_attempts * MAX_FETCH_ATTEMPTS \in Nat
        BY <1>0, OneMoreVisit
  <2>6. /\ used'.search = used.search + Run(s, search_attempts, MAX_SEARCH_ATTEMPTS)
        /\ used'.fetch = used.fetch + Run(f, fetch_attempts, MAX_FETCH_ATTEMPTS)
        BY <2>1
  <2>7. /\ used.search + Room(search_attempts, MAX_SEARCH_ATTEMPTS)
             <= research_attempts * MAX_SEARCH_ATTEMPTS
        /\ used.fetch + Room(fetch_attempts, MAX_FETCH_ATTEMPTS)
             <= research_attempts * MAX_FETCH_ATTEMPTS
        BY <2>4 DEF WebInv
  <2>8. /\ used'.search + Room(search_attempts', MAX_SEARCH_ATTEMPTS)
             <= research_attempts' * MAX_SEARCH_ATTEMPTS
        /\ used'.fetch + Room(fetch_attempts', MAX_FETCH_ATTEMPTS)
             <= research_attempts' * MAX_FETCH_ATTEMPTS
    <3>1. /\ research_attempts' * MAX_SEARCH_ATTEMPTS = research_attempts * MAX_SEARCH_ATTEMPTS
          /\ research_attempts' * MAX_FETCH_ATTEMPTS = research_attempts * MAX_FETCH_ATTEMPTS
          BY <2>4
    <3> QED BY <1>0, <2>2, <2>3, <2>5, <2>6, <2>7, <3>1
  <2> QED BY <2>8 DEF WebInv
<1>4. CASE ModelFails
      BY <1>4 DEF ModelFails, NextIteration, WebInv, Room
<1>5. CASE MustResearch /\ Visit(1) /\ UNCHANGED used
      BY <1>0, <1>1, <1>5 DEF MustResearch
<1>6. CASE \E status, issue : End(status, issue)
      BY <1>2, <1>6 DEF End, visitVars
<1>7. CASE ToReport /\ UNCHANGED used
      BY <1>2, <1>7 DEF ToReport, visitVars
<1>8. CASE \E from, size : HandOn(from, size)
      BY <1>2, <1>8 DEF HandOn, visitVars
<1>9. CASE \E size, success : Written(size, success)
      BY <1>2, <1>9 DEF Written, visitVars
<1>10. CASE Returned \/ UNCHANGED vars
      BY <1>2, <1>10 DEF Returned, vars, visitVars
<1>11. Finish \/ OverBudget \/ Raise => \E status, issue : End(status, issue)
      BY DEF Finish, OverBudget, Raise
<1>12. ControllerDecides => WebInv'
      BY <1>5, <1>6, <1>7, <1>11 DEF ControllerDecides
<1>13. ControllerAsks => WebInv'
      BY <1>1, <1>6, <1>7, <1>11 DEF ControllerAsks
<1>14. ModelWritesNote \/ ResearchOverBudget \/ FinalNote => WebInv'
      BY <1>6, <1>8, <1>11 DEF ModelWritesNote, ResearchOverBudget, FinalNote
<1>15. ReportWriter => WebInv'
      BY <1>6, <1>9, <1>11 DEF ReportWriter
<1> QED BY <1>3, <1>4, <1>10, <1>12, <1>13, <1>14, <1>15 DEF Next, Work

\* No task runs more searches or fetches than its visits allow
\* (researcher.py: MAX_SEARCH_ATTEMPTS, MAX_FETCH_ATTEMPTS; MAX_RESEARCH_ATTEMPTS).
THEOREM WebUseIsBounded == Spec => []WebUseBounded
<1>1. Init => WebInv
      BY DEF Init, WebInv
<1>2. Spec => []WebInv
      BY <1>1, ResearchInvariant, NextKeepsWebInv, PTL DEF Spec
<1>3. ResearchInv /\ WebInv => WebUseBounded
  <2> SUFFICES ASSUME ResearchInv, WebInv PROVE WebUseBounded
      OBVIOUS
  <2> USE LimitsAssumption
  <2>1. /\ research_attempts \in Nat /\ search_attempts \in Nat /\ fetch_attempts \in Nat
        /\ used.search \in Nat /\ used.fetch \in Nat
        /\ research_attempts <= MAX_RESEARCH_ATTEMPTS
        BY DEF ResearchInv, TypeOK
  <2>2. \A limit \in Nat : /\ research_attempts * limit <= MAX_RESEARCH_ATTEMPTS * limit
                            /\ research_attempts * limit \in Nat
                            /\ MAX_RESEARCH_ATTEMPTS * limit \in Nat
        BY <2>1
  <2>3. /\ Room(search_attempts, MAX_SEARCH_ATTEMPTS) \in Nat
        /\ Room(fetch_attempts, MAX_FETCH_ATTEMPTS) \in Nat
        BY <2>1 DEF Room
  <2>4. used.search <= MAX_RESEARCH_ATTEMPTS * MAX_SEARCH_ATTEMPTS
        BY <2>1, <2>2, <2>3 DEF WebInv
  <2>5. used.fetch <= MAX_RESEARCH_ATTEMPTS * MAX_FETCH_ATTEMPTS
        BY <2>1, <2>2, <2>3 DEF WebInv
  <2> QED BY <2>4, <2>5 DEF WebUseBounded
<1> QED BY <1>2, <1>3, ResearchInvariant, PTL

-----------------------------------------------------------------------------
(* The contract with the main graph.                                       *)

\* In the middle of a task the contract's call is open, before it there is none.
LEMMA PhaseOf ==
    ASSUME ResearchInv
    PROVE  /\ pc # "end" /\ Begun => Phase = "open"
           /\ pc # "end" /\ ~Begun => Phase = "none"
BY DEF Phase

\* How the contract's call ends.
LEMMA EndOf ==
    ASSUME NEW status, NEW issue, End(status, issue),
           status = "raised" => issue = "none"
    PROVE  Phase' = IF status = "raised" THEN "error"
                    ELSE IF issue = "budget_exceeded" THEN "over" ELSE "answer"
BY DEF End, Phase

\* Steps the visits that are left may take.
VisitSteps == (MAX_RESEARCH_ATTEMPTS - research_attempts) * StepsOfVisit

LEMMA TaskLeftIs ==
    ASSUME ResearchInv
    PROVE  /\ VisitSteps \in Nat /\ StepsOfVisit = MAX_ITERATIONS + 2
           /\ TaskLeft = CASE pc = "controller" -> IF report_written THEN 1 ELSE VisitSteps + 3
                            [] pc = "research"   -> VisitSteps + 3 + (MAX_ITERATIONS - iteration) + 1
                            [] pc = "final_note" -> VisitSteps + 3 + 1
                            [] pc = "report"     -> 2
                            [] pc = "end"        -> 0
<1> USE LimitsAssumption
<1>1. StepsOfVisit \in Nat /\ MAX_RESEARCH_ATTEMPTS - research_attempts \in Nat
      BY DEF StepsOfVisit, ResearchInv, TypeOK
<1>2. VisitSteps \in Nat
      BY <1>1 DEF VisitSteps
<1> QED BY <1>2 DEF StepsOfVisit, TaskLeft, VisitSteps

\* Each step of the task brings its end nearer.
LEMMA TaskShrinks ==
    ASSUME ResearchInv, Work
    PROVE  TaskLeft \in Nat \ {0} /\ TaskLeft' \in 0..(TaskLeft - 1)
<1> USE LimitsAssumption
<1>0. /\ pc # "end" /\ TaskLeft \in Nat \ {0} /\ iteration \in 0..MAX_ITERATIONS
      /\ VisitSteps \in Nat
  <2>1. pc \in {"controller", "research", "final_note", "report"}
        BY DEF Work, ControllerDecides, ControllerAsks, ModelFails, ModelCallsTools,
               ModelWritesNote, ResearchOverBudget, FinalNote, ReportWriter
  <2>2. iteration \in 0..MAX_ITERATIONS
        BY DEF ResearchInv, TypeOK
  <2> QED BY <2>1, <2>2, TaskLeftIs
<1> SUFFICES TaskLeft' \in 0..(TaskLeft - 1)
    BY <1>0
<1>1. ASSUME NEW status, NEW issue, End(status, issue)
      PROVE  TaskLeft' \in 0..(TaskLeft - 1)
  <2>1. TaskLeft' = 0
        BY <1>1 DEF End, TaskLeft
  <2> QED BY <1>0, <2>1
<1>2. ASSUME OverBudget \/ Raise \/ Finish PROVE TaskLeft' \in 0..(TaskLeft - 1)
      BY <1>1, <1>2 DEF OverBudget, Raise, Finish
<1>3. ASSUME pc = "controller", ~report_written, ToReport
      PROVE  TaskLeft' \in 0..(TaskLeft - 1)
  <2>1. TaskLeft' = 2
        BY <1>3 DEF ToReport, TaskLeft
  <2>2. TaskLeft = VisitSteps + 3
        BY <1>3, TaskLeftIs
  <2> QED BY <1>0, <2>1, <2>2
<1>4. ASSUME pc = "controller", ~report_written, research_attempts < MAX_RESEARCH_ATTEMPTS,
             Visit(research_attempts + 1)
      PROVE  TaskLeft' \in 0..(TaskLeft - 1)
  <2> DEFINE n == MAX_RESEARCH_ATTEMPTS - (research_attempts + 1)
             K == StepsOfVisit
  <2>1. n \in Nat /\ K \in Nat /\ K = MAX_ITERATIONS + 2
        /\ MAX_RESEARCH_ATTEMPTS - research_attempts = n + 1
        BY <1>4 DEF ResearchInv, TypeOK, StepsOfVisit
  <2>2. TaskLeft' = n * K + 3 + (MAX_ITERATIONS - 0) + 1
        BY <1>4 DEF Visit, TaskLeft, StepsOfVisit
  <2>3. VisitSteps = (n + 1) * K
        BY <2>1 DEF VisitSteps
  <2>4. TaskLeft = VisitSteps + 3
        BY <1>4, TaskLeftIs
  <2> HIDE DEF n, K
  <2>5. n * K \in Nat /\ (n + 1) * K = n * K + K
        BY <2>1
  <2> QED BY <2>1, <2>2, <2>3, <2>4, <2>5
<1>5. ASSUME pc \in {"research", "final_note"}, NEW from, NEW size, HandOn(from, size)
      PROVE  TaskLeft' \in 0..(TaskLeft - 1)
  <2>1. TaskLeft' = VisitSteps + 3
        BY <1>5 DEF HandOn, TaskLeft, VisitSteps, StepsOfVisit, ResearchInv, MaterialInv
  <2>2. TaskLeft > VisitSteps + 3
        BY <1>0, <1>5, TaskLeftIs
  <2> QED BY <1>0, <2>1, <2>2
<1>6. ASSUME pc = "research", NEW s, NEW f, NextIteration(s, f)
      PROVE  TaskLeft' \in 0..(TaskLeft - 1)
  <2>1. TaskLeft = VisitSteps + 3 + (MAX_ITERATIONS - iteration) + 1
        /\ iteration < MAX_ITERATIONS
        BY <1>6, TaskLeftIs DEF ResearchInv, MaterialInv
  <2>2. \/ TaskLeft' = VisitSteps + 3 + 1
        \/ TaskLeft' = VisitSteps + 3 + (MAX_ITERATIONS - (iteration + 1)) + 1
        BY <1>6 DEF NextIteration, TaskLeft, VisitSteps, StepsOfVisit
  <2> QED BY <1>0, <2>1, <2>2
<1>7. CASE ControllerDecides
      BY <1>2, <1>3, <1>4, <1>7
      DEF ControllerDecides, MustReport, MustResearch, MustEnd
<1>8. CASE ControllerAsks
  <2>1. pc = "controller" /\ ~report_written /\ research_attempts < MAX_RESEARCH_ATTEMPTS
        BY <1>8 DEF ControllerAsks, MustEnd, MustReport, MustResearch, ResearchInv,
                    MaterialInv, TypeOK
  <2> QED BY <1>2, <1>3, <1>4, <1>8, <2>1 DEF ControllerAsks
<1>9. CASE ModelFails \/ ModelCallsTools
      BY <1>6, <1>9 DEF ModelFails, ModelCallsTools
<1>10. CASE ModelWritesNote \/ ResearchOverBudget \/ FinalNote
       BY <1>2, <1>5, <1>10 DEF ModelWritesNote, ResearchOverBudget, FinalNote
<1>11. CASE ReportWriter
  <2>1. ASSUME NEW size, NEW success, Written(size, success)
        PROVE  TaskLeft' \in 0..(TaskLeft - 1)
    <3>1. TaskLeft' = 1
          BY <2>1 DEF Written, TaskLeft
    <3>2. TaskLeft = 2
          BY <1>11, TaskLeftIs DEF ReportWriter
    <3> QED BY <3>1, <3>2
  <2> QED BY <1>2, <1>11, <2>1 DEF ReportWriter
<1> QED BY <1>7, <1>8, <1>9, <1>10, <1>11 DEF Work

\* Every step of the subgraph is a step or a stutter of the call it promises.
LEMMA TaskStepKeepsContract ==
    ResearchInv /\ ResearchInv' /\ [Next]_vars => [Promise!CallNext]_Promise!callVars
<1> USE DEF Promise!callVars, Promise!CallNext, Promise!Step
<1> SUFFICES ASSUME ResearchInv, ResearchInv', [Next]_vars
             PROVE  [Promise!CallNext]_Promise!callVars
    OBVIOUS
<1>0. spent \in BOOLEAN /\ spent' \in BOOLEAN /\ research_attempts \in Nat /\ iteration \in Nat
      BY LimitsAssumption DEF ResearchInv, TypeOK
<1>a. ASSUME Phase = "open", Work, Phase' # "open"
      PROVE  0 \in 0..(TaskLeft - 1)
      BY <1>a, TaskShrinks
<1>1. ASSUME Phase = "open", Work, Finish \/ Raise, spent => spent'
      PROVE  Promise!End
  <2>1. Phase' \in {"answer", "error"}
        BY <1>1, EndOf DEF Finish, Raise
  <2> QED BY <1>0, <1>1, <1>a, <2>1 DEF Promise!End
<1>2. ASSUME Phase = "open" \/ (Phase = "none" /\ spent), Work, OverBudget
      PROVE  Promise!End \/ Promise!Refuse
  <2>1. Phase' = "over" /\ spent' = TRUE
        BY <1>2, EndOf DEF OverBudget
  <2>2. CASE Phase = "open"
        BY <1>0, <1>2, <1>a, <2>1, <2>2 DEF Promise!End
  <2>3. CASE Phase = "none" /\ spent
        BY <1>0, <2>1, <2>3 DEF Promise!Refuse
  <2> QED BY <1>2, <2>2, <2>3
<1>3. ASSUME Phase = "open", Work, Phase' = "open", spent => spent'
      PROVE  Promise!Work
      BY <1>0, <1>3, TaskShrinks DEF Promise!Work
<1>4. CASE ControllerDecides
  <2>1. CASE MustEnd /\ Finish /\ UNCHANGED spent
    <3>1. Phase = "open"
          BY <1>0, <1>4, <2>1, PhaseOf DEF ControllerDecides, MustEnd, Begun, ResearchInv, MaterialInv
    <3> QED BY <1>1, <1>4, <2>1, <3>1 DEF Work
  <2>2. CASE MustReport /\ ToReport /\ UNCHANGED spent
    <3>1. Phase = "open"
          BY <1>0, <1>4, <2>2, PhaseOf, LimitsAssumption DEF ControllerDecides, MustReport, Begun
    <3>2. Phase' = "open"
          BY <2>2 DEF ToReport, Phase, Begun
    <3> QED BY <1>3, <1>4, <2>2, <3>1, <3>2 DEF Work
  <2>3. CASE MustResearch /\ Visit(1) /\ UNCHANGED spent
    <3>1. Phase = "none"
          BY <1>4, <2>3, PhaseOf DEF ControllerDecides, MustResearch, Begun
    <3>2. Phase' = IF spent THEN "none" ELSE "open"
          BY <2>3 DEF Visit, Phase, Begun
    <3>3. TaskLeft' \in 0..(MAX_RESEARCH_ATTEMPTS * StepsOfVisit + 2)
      <4>1. TaskLeft' \in 0..(VisitSteps + 2)
        <5>1. TaskLeft = VisitSteps + 3 /\ VisitSteps \in Nat
              BY <1>4, <2>3, TaskLeftIs DEF ControllerDecides, MustResearch, MustEnd
        <5> QED BY <1>4, <5>1, TaskShrinks DEF Work
      <4>2. VisitSteps = MAX_RESEARCH_ATTEMPTS * StepsOfVisit
        <5>1. MAX_RESEARCH_ATTEMPTS - research_attempts = MAX_RESEARCH_ATTEMPTS
              BY <2>3, LimitsAssumption DEF MustResearch
        <5> QED BY <5>1 DEF VisitSteps
      <4> QED BY <4>1, <4>2
    <3> QED BY <1>0, <2>3, <3>1, <3>2, <3>3 DEF Promise!Start
  <2> QED BY <1>4, <2>1, <2>2, <2>3 DEF ControllerDecides
<1>5. CASE ControllerAsks
  <2>1. Phase = "open" /\ research_attempts >= 1
        BY <1>0, <1>5, PhaseOf
        DEF ControllerAsks, MustEnd, MustReport, MustResearch, Begun, ResearchInv, MaterialInv
  <2>2. CASE OverBudget
        BY <1>2, <1>5, <2>1, <2>2 DEF Work
  <2>3. CASE Raise \/ (LLMResponds /\ Finish)
        BY <1>0, <1>1, <1>5, <2>1, <2>3 DEF Raise, LLMResponds, Work
  <2>4. CASE LLMResponds /\ (Visit(research_attempts + 1) \/ ToReport)
    <3>1. research_attempts + 1 # 1
          BY <1>0, <2>1
    <3>2. Phase' = "open"
          BY <2>4, <3>1 DEF Visit, ToReport, Phase, Begun
    <3> QED BY <1>3, <1>5, <2>1, <2>4, <3>2 DEF LLMResponds, Work
  <2> QED BY <1>5, <2>2, <2>3, <2>4 DEF ControllerAsks
<1>6. CASE Work /\ pc = "research" /\ LLMResponds /\ \E s, f : NextIteration(s, f)
  <2>1. Phase = "open"
        BY <1>6, PhaseOf DEF LLMResponds, Begun
  <2>2. Phase' = "open"
    <3>1. iteration' # 0 /\ pc' \in {"research", "final_note"}
          BY <1>0, <1>6 DEF NextIteration
    <3> QED BY <3>1 DEF Phase, Begun
  <2> QED BY <1>3, <1>6, <2>1, <2>2 DEF LLMResponds
<1>7. CASE Work /\ pc \in {"research", "final_note"} /\ LLMResponds /\ \E from, size : HandOn(from, size)
  <2>1. Phase = "open"
        BY <1>7, PhaseOf DEF LLMResponds, Begun
  <2>2. Phase' = "open"
    <3>1. pc' = "controller" /\ research_attempts' # 0
          BY <1>7 DEF HandOn, ResearchInv, MaterialInv
    <3> QED BY <3>1 DEF Phase, Begun
  <2> QED BY <1>3, <1>7, <2>1, <2>2 DEF LLMResponds
<1>8. CASE Work /\ pc \in {"research", "final_note"} /\ OverBudget
  <2>1. Phase = "open" \/ (Phase = "none" /\ spent)
        BY <1>8, PhaseOf DEF Begun
  <2> QED BY <1>2, <1>8, <2>1
<1>9. CASE ReportWriter
  <2>1. Phase = "open"
        BY <1>9, PhaseOf DEF ReportWriter, Begun
  <2>2. CASE OverBudget
        BY <1>2, <1>9, <2>1, <2>2 DEF Work
  <2>3. CASE Raise
        BY <1>0, <1>1, <1>9, <2>1, <2>3 DEF Raise, LLMResponds, Work
  <2>4. CASE (\E size, success : Written(size, success)) /\ (spent => spent')
    <3>1. pc' = "controller" /\ research_attempts' # 0
          BY <1>9, <2>4 DEF Written, ReportWriter, ResearchInv, MaterialInv
    <3>2. Phase' = "open"
          BY <3>1 DEF Phase, Begun
    <3> QED BY <1>3, <1>9, <2>1, <2>4, <3>2 DEF Work
  <2>5. \/ OverBudget \/ Raise
        \/ (\E size, success : Written(size, success)) /\ (spent => spent')
        BY <1>9 DEF ReportWriter, LLMResponds
  <2> QED BY <2>2, <2>3, <2>4, <2>5, Zenon
<1>10. CASE Returned \/ UNCHANGED vars
  <2>1. Phase' = Phase /\ spent' = spent
        BY <1>10 DEF Returned, vars, visitVars, Phase, Begun
  <2>2. TaskLeft' = TaskLeft
    <3>1. /\ pc' = pc /\ research_attempts' = research_attempts
          /\ report_written' = report_written /\ iteration' = iteration
          BY <1>10 DEF Returned, vars, visitVars
    <3> QED BY <3>1, Zenon DEF TaskLeft, StepsOfVisit
  <2> QED BY <2>1, <2>2
<1>11. ModelFails \/ ModelCallsTools => [Promise!CallNext]_Promise!callVars
       BY <1>6 DEF ModelFails, ModelCallsTools, Work
<1>12. ModelWritesNote \/ ResearchOverBudget \/ FinalNote
          => [Promise!CallNext]_Promise!callVars
       BY <1>7, <1>8 DEF ModelWritesNote, ResearchOverBudget, FinalNote, Work
<1> QED BY <1>4, <1>5, <1>9, <1>10, <1>11, <1>12 DEF Next, Work

\* A research task implements the abstract budgeted call: what Turn!ResearchNode
\* and the supervisor take "budget_exceeded" and an exception to mean.  It is over
\* after a number of steps that only the limits decide.
THEOREM TaskImplementsCall == Spec => KeepsCallContract
<1>1. Init => Promise!CallInit
      BY DEF Init, Promise!CallInit, Phase, Begun
<1> QED BY <1>1, ResearchInvariant, TaskStepKeepsContract, PTL
        DEF Spec, KeepsCallContract, Promise!CallSpec
=============================================================================
