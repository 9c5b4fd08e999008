----------------------------- MODULE ReplyProofs -----------------------------
(***************************************************************************)
(* Proofs about what a turn says: that it says something of its own, that  *)
(* task_history tells the story of the plan, and that a thread keeps the   *)
(* contract with its user.  A crash leaves the result of its step behind,  *)
(* so what holds with crashes is weaker than what holds without; both are  *)
(* proved.                                                                 *)
(***************************************************************************)
EXTENDS ChartProofs

\* What a visit that routes p leaves of the rest of the state.
LEMMA RoutedState ==
    ASSUME TurnInv, TurnInv', NEW p \in Seq(PlanItem), NEW noProvider, NEW note,
           NEW s \in BOOLEAN, RoutePlan(p, noProvider, note, s)
    PROVE  /\ plan' = Settled(p, s) /\ plan_ready'
           /\ pc' \in PlanRoutes \cup {"finalize"}
           /\ plan_note' = note
           /\ task_history' = RecordedHistory
           /\ pc' # "finalize" => current_task' = plan'[NextPending(plan')].task
           /\ \/ last_result' = NoResult
              \/ pc' = "finalize" /\ last_result' = last_result
              \/ pc' = "visu" /\ last_result' = VisuInput(plan', NextPending(plan'))
           /\ UNCHANGED <<turn_count, clarification_count, said, reply>>
<1>. DEFINE q == Settled(p, s)
<1>1. /\ plan' = q /\ plan_ready'
      /\ pc' \in PlanRoutes \cup {"finalize"}
      /\ UNCHANGED <<turn_count, said, reply>>
  BY RoutedPlace
<1>2. /\ plan_note' = note /\ task_history' = RecordedHistory
      /\ clarification_count' = clarification_count
  BY DEF RoutePlan
<1>3. pc' # "finalize" => current_task' = q[NextPending(q)].task
  BY DEF RoutePlan
<1>4. \/ last_result' = NoResult
      \/ pc' = "finalize" /\ last_result' = last_result
      \/ pc' = "visu" /\ last_result' = VisuInput(q, NextPending(q))
  BY DEF RoutePlan
<1>. HIDE DEF q
<1>5. pc' # "finalize" => current_task' = plan'[NextPending(plan')].task
  BY <1>1, <1>3
<1>6. \/ last_result' = NoResult
      \/ pc' = "finalize" /\ last_result' = last_result
      \/ pc' = "visu" /\ last_result' = VisuInput(plan', NextPending(plan'))
  BY <1>1, <1>4
<1>. QED  BY <1>1, <1>2, <1>5, <1>6 DEF q

\* What a specialist leaves behind, and that only convo speaks.
LEMMA SpecialistReturns ==
    ASSUME TurnInv, Specialist
    PROVE  /\ pc \in Specialists /\ pc' = "supervisor" /\ plan_ready
           /\ last_result'.source = pc /\ last_result'.text \in {0, turn_count}
           /\ said' = "ai" => \/ said = "ai"
                              \/ /\ pc = "convo" /\ last_result' # NoResult
                                 /\ last_result'.status = "done"
                                 /\ last_result'.text = turn_count
           /\ UNCHANGED <<turn_count, planVars, current_task, task_history, askVars, outage,
                          req, reply>>
<1>1. /\ pc \in Specialists /\ pc' = "supervisor"
      /\ UNCHANGED <<turn_count, planVars, current_task, task_history, askVars, outage,
                     req, reply>>
  BY DEF Specialist, Convo, RAG, SqlAgent, ResearchNode, Visualization, Return, EdgeFrom,
         Specialists
<1>2. plan_ready
  BY <1>1 DEF TurnInv, RunningInv, PlanRoutes
<1>3. last_result'.source = pc /\ last_result'.text \in {0, turn_count}
  <2>1. CASE Convo
    BY <2>1 DEF Convo, Return, Failure, Result
  <2>2. CASE RAG
    BY <2>2 DEF RAG, Return, Failure, Result
  <2>3. CASE SqlAgent
    BY <2>3 DEF SqlAgent, Return, Failure, Result
  <2>4. CASE ResearchNode
    BY <2>4 DEF ResearchNode, Return, Failure, Result
  <2>5. CASE Visualization
    BY <2>5 DEF Visualization, Return, Failure, Result
  <2>. QED  BY <2>1, <2>2, <2>3, <2>4, <2>5 DEF Specialist
<1>4. ASSUME said' = "ai", said # "ai"
      PROVE  /\ pc = "convo" /\ last_result' # NoResult
             /\ last_result'.status = "done" /\ last_result'.text = turn_count
  <2>1. Convo
    BY <1>4 DEF Specialist, RAG, SqlAgent, ResearchNode, Visualization
  <2>2. pc = "convo" /\ last_result' = Result("convo", "done", turn_count, 0)
    BY <1>4, <2>1 DEF Convo, Return
  <2>3. Result("convo", "done", turn_count, 0) \in SpecialistResult
    BY DEF TurnInv, TypeOK, Result, SpecialistResult, Specialists
  <2>. QED  BY <2>2, <2>3, InputsAssumption DEF Result
<1>. QED  BY <1>1, <1>2, <1>3, <1>4

-----------------------------------------------------------------------------
(* A turn comes to an end.                                                 *)

\* While an invocation is under way a step is left, and no hop too many is
\* counted.
LEMMA StepsLeftType ==
    ASSUME TurnInv
    PROVE  /\ MAX_HOPS \in Nat /\ hops \in 0..MAX_HOPS
           /\ StepsLeft \in Nat /\ (pc # "idle" => StepsLeft > 0)
<1>1. MAX_HOPS \in Nat /\ hops \in 0..MAX_HOPS
  BY BoundsAssumption DEF TurnInv, TypeOK, HopsWithinBudget, MAX_HOPS
<1>2. pc \in {"idle", "paused", "memory_manager", "supervisor", "finalize"} \cup PlanRoutes
  BY DEF TurnInv, TypeOK, Nodes
<1>. HIDE DEF MAX_HOPS
<1>. QED  BY <1>1, <1>2 DEF StepsLeft, PlanRoutes, Specialists

\* The supervisor counts a hop for every node it sends the turn to.
LEMMA SupervisorCountsHops ==
    ASSUME TurnInv, TurnInv', Supervisor
    PROVE  /\ pc = "supervisor"
           /\ \/ pc' \in PlanRoutes /\ hops' = hops + 1
              \/ pc' = "finalize"
<1>1. pc = "supervisor"
  BY DEF Supervisor, AdvancePlan, EndUnplanned, PlanWorkflow, PlanByDecision, PlanOutage
<1>2. ASSUME NEW p \in Seq(PlanItem), NEW noProvider, NEW note, NEW s \in BOOLEAN,
             RoutePlan(p, noProvider, note, s)
      PROVE  pc' = "finalize" \/ (pc' \in PlanRoutes /\ hops' = hops + 1)
  BY <1>2, RoutedPlace
<1>3. CASE AdvancePlan
  <2>1. plan_ready /\ RoutePlan(Advanced, FALSE, plan_note, spent) /\ spent \in BOOLEAN
    BY <1>3 DEF AdvancePlan, Advanced, TurnInv, TypeOK
  <2>2. Advanced \in Seq(PlanItem)
    BY <1>1, <2>1, AdvancedRoutable DEF Routable, WellShaped
  <2>. QED  BY <1>1, <1>2, <2>1, <2>2
<1>4. CASE EndUnplanned
  BY <1>1, <1>4 DEF EndUnplanned
<1>5. CASE \E p \in Seq(FreshItem), noProvider \in BOOLEAN, note \in SUBSET PlanRoutes,
              s \in BOOLEAN : RoutePlan(p, noProvider, note, s)
  BY <1>1, <1>2, <1>5, FreshSkips
<1>. QED  BY <1>3, <1>4, <1>5, SupervisorRoutes

\* Every step but the one that begins a turn brings it nearer to its end.
LEMMA StepsBringNearer ==
    ASSUME TurnInv, TurnInv', [Next]_vars, ~UNCHANGED vars, pc' # "memory_manager"
    PROVE  StepsLeft' \in 0..(StepsLeft - 1)
<1>0. /\ MAX_HOPS \in Nat /\ hops \in 0..MAX_HOPS /\ hops' \in 0..MAX_HOPS
      /\ StepsLeft \in Nat /\ StepsLeft' \in Nat /\ (pc # "idle" => StepsLeft > 0)
  <2>1. /\ MAX_HOPS \in Nat /\ hops \in 0..MAX_HOPS
        /\ StepsLeft \in Nat /\ (pc # "idle" => StepsLeft > 0)
    BY StepsLeftType
  <2>2. hops' \in 0..MAX_HOPS /\ StepsLeft' \in Nat
    <3>1. (TurnInv => hops \in 0..MAX_HOPS /\ StepsLeft \in Nat)'
      BY StepsLeftType, PTL
    <3>. QED  BY <3>1
  <2>. QED  BY <2>1, <2>2
<1>. HIDE DEF MAX_HOPS
<1>1. CASE Clarification
  <2>1. pc = "paused" /\ pc' = "supervisor" /\ hops' = hops
    BY <1>1 DEF Clarification, EdgeFrom
  <2>2. /\ StepsLeft = 3 * (MAX_HOPS - hops) + 3 /\ StepsLeft' = 3 * (MAX_HOPS - hops) + 2
    BY <2>1 DEF StepsLeft, PlanRoutes, Specialists
  <2>. QED  BY <1>0, <2>2
<1>2. CASE MemoryManager
  <2>1. pc = "memory_manager" /\ pc' = "supervisor" /\ hops' = 0
    BY <1>2 DEF MemoryManager, EdgeFrom
  <2>2. StepsLeft = 3 * MAX_HOPS + 3 /\ StepsLeft' = 3 * (MAX_HOPS - 0) + 2
    BY <2>1 DEF StepsLeft, PlanRoutes, Specialists
  <2>. QED  BY <1>0, <2>2
<1>3. CASE Supervisor
  <2>1. CASE pc = "supervisor" /\ pc' \in PlanRoutes /\ hops' = hops + 1
    <3>1. /\ StepsLeft = 3 * (MAX_HOPS - hops) + 2
          /\ StepsLeft' = 3 * (MAX_HOPS - (hops + 1)) + 4
      BY <2>1 DEF StepsLeft, PlanRoutes, Specialists
    <3>. QED  BY <1>0, <2>1, <3>1
  <2>2. CASE pc = "supervisor" /\ pc' = "finalize"
    <3>1. StepsLeft = 3 * (MAX_HOPS - hops) + 2 /\ StepsLeft' = 1
      BY <2>2 DEF StepsLeft, PlanRoutes, Specialists
    <3>. QED  BY <1>0, <3>1
  <2>. QED  BY <1>3, <2>1, <2>2, SupervisorCountsHops
<1>4. CASE Specialist
  <2>1. pc \in Specialists /\ pc' = "supervisor" /\ hops' = hops
    BY <1>4, SpecialistReturns DEF planVars
  <2>2. /\ StepsLeft = 3 * (MAX_HOPS - hops) + 4 /\ StepsLeft' = 3 * (MAX_HOPS - hops) + 2
    BY <2>1 DEF StepsLeft, PlanRoutes, Specialists
  <2>. QED  BY <1>0, <2>2
<1>5. CASE Interrupt
  <2>1. pc = "clarification" /\ pc' = "paused" /\ hops' = hops
    BY <1>5 DEF Interrupt, planVars
  <2>2. /\ StepsLeft = 3 * (MAX_HOPS - hops) + 4 /\ StepsLeft' = 3 * (MAX_HOPS - hops) + 3
    BY <2>1 DEF StepsLeft, PlanRoutes, Specialists
  <2>. QED  BY <1>0, <2>2
<1>6. CASE Finalize \/ NodeRaises \/ Crash
  <2>1. pc # "idle" /\ pc' = "idle"
    BY <1>6 DEF Finalize, EdgeFrom, NodeRaises, Crash, Stop, Nodes, PlanRoutes, Specialists
  <2>2. StepsLeft' = 0
    BY <2>1 DEF StepsLeft, PlanRoutes, Specialists
  <2>. QED  BY <1>0, <2>1, <2>2
<1>. QED
  BY <1>1, <1>2, <1>3, <1>4, <1>5, <1>6 DEF Next, NewMessage, GraphStep, Rest

\* A turn ends after a number of steps that is fixed when it begins: 3 * MAX_HOPS
\* + 3, its questions and their answers included, however models, users and
\* failures behave (graph/workflow.py, the cycle through supervisor).
THEOREM TurnsTerminate == Spec => TurnsAreBounded
<1>. DEFINE Nearer == pc' # "memory_manager" => StepsLeft' \in 0..(StepsLeft - 1)
<1>1. TurnInv /\ TurnInv' /\ [Next]_vars => [Nearer]_vars
  BY StepsBringNearer
<1>. QED
  BY <1>1, TurnInvariant, PTL DEF Spec, TurnsAreBounded

-----------------------------------------------------------------------------
(* A turn says something of its own.                                       *)

\* A convo step that said something: in the plan, or just come back.
Spoken ==
    \/ /\ pc = "supervisor" /\ last_result # NoResult /\ last_result.source = "convo"
       /\ last_result.status = "done" /\ last_result.text # 0
    \/ \E i \in DOMAIN plan :
          plan[i].route = "convo" /\ plan[i].status = "done" /\ plan[i].text # 0

SpokenInv ==
    /\ Begun => turn_count # 0
    /\ pc = "memory_manager" \/ (pc = "supervisor" /\ ~plan_ready) => said = "human"
    /\ pc # "idle" /\ said = "ai" => Spoken
    /\ AlwaysAnswered

\* What convo said stays in the plan until the turn is finalized.
LEMMA AdvanceKeepsSpoken ==
    ASSUME TurnInv, TurnInv', SpokenInv, AdvancePlan
    PROVE  SpokenInv'
<1>. DEFINE n == NextPending(plan)
            p == CompleteCurrentStep(plan, last_result)
            q == Settled(p, spent)
<1>1. /\ pc = "supervisor" /\ plan \in Seq(PlanItem) /\ spent \in BOOLEAN
      /\ turn_count \in Nat /\ req \in Request
      /\ last_result # NoResult /\ last_result \in SpecialistResult
      /\ n # 0 /\ plan[n].route = last_result.source
      /\ RoutePlan(p, FALSE, plan_note, spent)
  BY DEF AdvancePlan, TurnInv, TypeOK, ResultMatchesStep
<1>2. /\ n \in DOMAIN plan /\ plan[n].status = "pending"
      /\ p \in Seq(PlanItem) /\ DOMAIN p = DOMAIN plan
      /\ \A i \in DOMAIN plan \ {n} : p[i] = plan[i]
      /\ p[n].route = plan[n].route
      /\ p[n].status = IF last_result.status = "done" THEN "done" ELSE "failed"
      /\ p[n].text = last_result.text
  BY <1>1, CompleteStep
<1>. HIDE DEF n, p
<1>3. /\ plan' = q /\ plan_ready' /\ pc' \in PlanRoutes \cup {"finalize"}
      /\ UNCHANGED <<turn_count, said, reply>>
  BY <1>1, <1>2, RoutedState
<1>4. /\ q \in Seq(PlanItem) /\ Len(p) <= Len(q)
      /\ \A i \in DOMAIN p : p[i].status # "pending" => q[i] = p[i]
  BY <1>1, <1>2, SettledKeeps
<1>. HIDE DEF q
<1>5. DOMAIN p \subseteq DOMAIN q
  BY <1>2, <1>4
<1>6. ASSUME said = "ai"
      PROVE  \E i \in DOMAIN q :
                q[i].route = "convo" /\ q[i].status = "done" /\ q[i].text # 0
  <2>1. PICK i \in DOMAIN p : p[i].route = "convo" /\ p[i].status = "done" /\ p[i].text # 0
    <3>1. Spoken
      BY <1>1, <1>6 DEF SpokenInv
    <3>. QED  BY <1>1, <1>2, <3>1 DEF Spoken
  <2>. QED  BY <1>4, <1>5, <2>1
<1>7. pc' \notin {"idle", "memory_manager", "supervisor"}
  BY <1>3 DEF PlanRoutes, Specialists
<1>. QED
  BY <1>1, <1>3, <1>6, <1>7 DEF SpokenInv, Spoken, AlwaysAnswered, Begun

\* The words of a finished convo step are never left to a picture.
LEMMA SpokenIsContent ==
    ASSUME TurnInv, pc = "finalize", Spoken
    PROVE  HasContent
<1>1. plan \in Seq(PlanItem) /\ DOMAIN plan = 1..Len(plan)
  BY DEF TurnInv, TypeOK
<1>2. PICK i \in DOMAIN plan :
         plan[i].route = "convo" /\ plan[i].status = "done" /\ plan[i].text # 0
  BY DEF Spoken
<1>3. /\ i # 0 /\ i \in CompletedResults
      /\ CompletedResults = {k \in DOMAIN plan : plan[k].status # "pending" /\ plan[k].text # 0}
  BY <1>1, <1>2 DEF CompletedResults
<1>4. View(i).route = "convo" /\ View(i).text # 0
  BY <1>2, <1>3 DEF View
<1>5. ASSUME NEW k \in Charts \ {0} PROVE ChartSourceIndex(k) # i
  <2>1. k \in DOMAIN plan /\ k \in Nat \ {0} /\ k <= Len(plan) + 1
    BY <1>1, <1>3 DEF Charts
  <2>2. ASSUME RowsUpstreamIndex(plan, k) = i PROVE FALSE
    <3>1. i \in UpstreamSql(plan, k)
      BY <1>1, <1>3, <2>1, <2>2, UpstreamRows
    <3>. QED  BY <1>2, <3>1 DEF UpstreamSql
  <2>. QED  BY <1>3, <2>2 DEF ChartSourceIndex
<1>6. i \in Answers
  BY <1>3, <1>4, <1>5 DEF Answers, Charts
<1>. QED  BY <1>4, <1>6 DEF HasContent

\* Init and every step keep the invariant.
LEMMA SpokenInductive ==
    /\ Init => SpokenInv
    /\ TurnInv /\ TurnInv' /\ SpokenInv /\ [Next]_vars => SpokenInv'
<1>1. Init => SpokenInv
  BY DEF Init, SpokenInv, AlwaysAnswered, Begun, NoReply
<1>2. ASSUME TurnInv, TurnInv', SpokenInv, [Next]_vars PROVE SpokenInv'
  <2>0. plan \in Seq(PlanItem) /\ turn_count \in Nat
    BY <1>2 DEF TurnInv, TypeOK
  <2>1. CASE AdvancePlan
    BY <1>2, <2>1, AdvanceKeepsSpoken
  <2>2. CASE EndUnplanned
    <3>1. pc = "supervisor" /\ ~plan_ready /\ pc' = "finalize"
          /\ UNCHANGED <<plan, turn_count, said, reply>>
      BY <2>2 DEF EndUnplanned, userVars
    <3>. QED  BY <1>2, <3>1 DEF SpokenInv, Spoken, AlwaysAnswered, Begun
  <2>3. ASSUME NEW p \in Seq(FreshItem), NEW noProvider, NEW note, NEW s \in BOOLEAN,
               ~plan_ready, pc = "supervisor", RoutePlan(p, noProvider, note, s)
        PROVE  SpokenInv'
    <3>1. /\ pc' \in PlanRoutes \cup {"finalize"} /\ plan_ready'
          /\ UNCHANGED <<turn_count, said, reply>>
      BY <1>2, <2>3, FreshSkips, RoutedState
    <3>2. pc' \notin {"idle", "memory_manager", "supervisor"}
      BY <3>1 DEF PlanRoutes, Specialists
    <3>. QED  BY <1>2, <2>3, <3>1, <3>2 DEF SpokenInv, AlwaysAnswered, Begun
  <2>4. CASE Supervisor
    <3>1. pc = "supervisor"
      BY <2>4 DEF Supervisor, AdvancePlan, EndUnplanned, PlanWorkflow, PlanByDecision,
                  PlanOutage
    <3>. QED  BY <1>2, <2>1, <2>2, <2>3, <2>4, <3>1, SupervisorRoutes
  <2>5. CASE Specialist
    <3>1. /\ pc \in Specialists /\ pc' = "supervisor" /\ plan_ready'
          /\ last_result'.source = pc
          /\ said' = "ai" => \/ said = "ai"
                             \/ /\ pc = "convo" /\ last_result' # NoResult
                                /\ last_result'.status = "done"
                                /\ last_result'.text = turn_count
          /\ UNCHANGED <<turn_count, plan, reply>>
      BY <1>2, <2>5, SpecialistReturns DEF planVars
    <3>2. pc \notin {"idle", "memory_manager", "supervisor"}
      BY <3>1 DEF Specialists
    <3>3. said' = "ai" => Spoken'
      BY <1>2, <3>1, <3>2 DEF SpokenInv, Spoken, Begun
    <3>. QED  BY <1>2, <3>1, <3>2, <3>3 DEF SpokenInv, AlwaysAnswered, Begun
  <2>6. CASE Finalize
    <3>1. /\ pc = "finalize" /\ pc' = "idle" /\ reply' = FinalReply /\ said' = "ai"
      BY <2>6 DEF Finalize, EdgeFrom
    <3>2. FinalReply.kind = "earlier" => said = "ai" /\ ~HasContent
      BY DEF FinalReply, Reply, NoReply
    <3>3. FinalReply.kind # "earlier"
      BY <1>2, <3>1, <3>2, SpokenIsContent DEF SpokenInv
    <3>. QED  BY <3>1, <3>3 DEF SpokenInv, AlwaysAnswered, Begun
  <2>7. CASE Clarification
    BY <1>2, <2>7 DEF Clarification, EdgeFrom, SpokenInv, AlwaysAnswered, Begun
  <2>8. CASE MemoryManager
    BY <1>2, <2>0, <2>8
    DEF MemoryManager, EdgeFrom, userVars, SpokenInv, AlwaysAnswered, Begun
  <2>9. CASE NewMessage
    BY <1>2, <2>9 DEF NewMessage, SpokenInv, AlwaysAnswered, Begun
  <2>10. CASE Interrupt
    BY <1>2, <2>10
    DEF Interrupt, planVars, taskVars, SpokenInv, Spoken, AlwaysAnswered, Begun
  <2>11. CASE NodeRaises \/ Crash
    <3>1. pc' = "idle" /\ reply'.kind \in {"none", "error"}
      BY <2>11 DEF NodeRaises, Crash, Stop, Reply, NoReply
    <3>. QED  BY <3>1 DEF SpokenInv, AlwaysAnswered, Begun
  <2>12. CASE UNCHANGED vars
    BY <1>2, <2>12
    DEF vars, planVars, taskVars, userVars, SpokenInv, Spoken, AlwaysAnswered, Begun
  <2>. QED
    BY <1>2, <2>4, <2>5, <2>6, <2>7, <2>8, <2>9, <2>10, <2>11, <2>12 DEF Next, GraphStep, Rest
<1>. QED  BY <1>1, <1>2

\* Every turn that reaches its end answers, and never with a message of an
\* earlier step or turn (finalize.py, finalize).
THEOREM TurnsAreAnswered == Spec => []AlwaysAnswered
<1>1. SpokenInv => AlwaysAnswered
  BY DEF SpokenInv
<1>. QED  BY <1>1, TurnInvariant, SpokenInductive, PTL DEF Spec

-----------------------------------------------------------------------------
(* A turn tells its own results.                                           *)

\* The plan's texts are of this turn.  So is the result that comes back to the
\* supervisor, and without a crash any result there is.
CalmInv ==
    /\ pc \in {"clarification", "paused", "convo", "rag", "sql", "research"} =>
          last_result = NoResult
    /\ last_result # NoResult /\ (~Crashes \/ (pc = "supervisor" /\ plan_ready)) =>
          /\ pc \in {"supervisor", "visu", "finalize"}
          /\ pc = "supervisor" => plan_ready
          /\ last_result.text \in {0, turn_count}
    /\ Begun => \A i \in DOMAIN plan : plan[i].text \in {0, turn_count}
    /\ pc = "memory_manager" => reply.texts = {}
    /\ RepliesDoNotMix
    /\ ~Crashes => OwnTextsOnly

\* A plan of this turn's texts is routed into a state of this turn's texts.
LEMMA RoutePlanKeepsCalm ==
    ASSUME TurnInv, TurnInv', CalmInv, pc = "supervisor",
           NEW p \in Seq(PlanItem), \A i \in DOMAIN p : p[i].text \in {0, turn_count},
           NEW noProvider, NEW note, NEW s \in BOOLEAN, RoutePlan(p, noProvider, note, s)
    PROVE  CalmInv'
<1>. DEFINE q == Settled(p, s)
<1>1. /\ plan' = q /\ pc' \in PlanRoutes \cup {"finalize"}
      /\ \/ last_result' = NoResult
         \/ pc' = "finalize" /\ last_result' = last_result
         \/ pc' = "visu" /\ last_result' = VisuInput(plan', NextPending(plan'))
      /\ UNCHANGED <<turn_count, reply>>
  BY RoutedState
<1>2. \A i \in DOMAIN q : q[i].text \in {0, turn_count}
  <2>1. turn_count \in Nat /\ req \in Request
    BY DEF TurnInv, TypeOK
  <2>. QED  BY <2>1, SettledKeeps
<1>. HIDE DEF q
<1>3. pc' \notin {"memory_manager", "supervisor", "paused"}
  BY <1>1 DEF PlanRoutes, Specialists
<1>4. ~Crashes /\ last_result' # NoResult =>
         pc' \in {"visu", "finalize"} /\ last_result'.text \in {0, turn_count}
  <2>1. CASE pc' = "visu" /\ last_result' = VisuInput(plan', NextPending(plan'))
    BY <2>1 DEF VisuInput, CalmInv
  <2>2. CASE pc' = "finalize" /\ last_result' = last_result
    BY <2>2 DEF CalmInv
  <2>. QED  BY <1>1, <2>1, <2>2
<1>5. pc' \notin {"visu", "finalize"} => last_result' = NoResult
  BY <1>1
<1>6. RepliesDoNotMix' /\ (~Crashes => OwnTextsOnly')
  BY <1>1 DEF CalmInv, RepliesDoNotMix, OwnTextsOnly
<1>. QED  BY <1>1, <1>2, <1>3, <1>4, <1>5, <1>6 DEF CalmInv

\* A reply is made of the texts of the plan, or else of the last result alone.
LEMMA FinalTexts ==
    ASSUME TurnInv, CalmInv, pc = "finalize"
    PROVE  /\ \/ FinalReply.texts \subseteq {turn_count}
              \/ FinalReply.answers \cup FinalReply.charts = {0}
           /\ ~Crashes => FinalReply.texts \subseteq {turn_count}
<1>1. /\ \A i \in DOMAIN plan : plan[i].text \in {0, turn_count}
      /\ ~Crashes /\ last_result # NoResult => last_result.text \in {0, turn_count}
  BY DEF CalmInv, Begun
<1>2. plan \in Seq(PlanItem) /\ 0 \notin DOMAIN plan
  BY DEF TurnInv, TypeOK
<1>3. FinalReply.texts \in {{}, {View(i).text : i \in Answers \cup Charts} \ {0}}
  BY DEF FinalReply, Reply, NoReply
<1>4. CompletedResults \subseteq DOMAIN plan \/ CompletedResults = {0}
  BY DEF CompletedResults
<1>5. CASE CompletedResults \subseteq DOMAIN plan
  <2>1. ASSUME NEW i \in Answers \cup Charts PROVE View(i).text \in {0, turn_count}
    <3>1. i \in DOMAIN plan
      BY <1>5 DEF Answers, Charts
    <3>. QED  BY <1>1, <1>2, <3>1 DEF View
  <2>. QED  BY <1>3, <2>1
<1>6. CASE CompletedResults = {0}
  <2>1. Charts \subseteq {0} /\ Answers = {0} \ Charts
    BY <1>6 DEF Charts, Answers
  <2>2. FinalReply.texts = {} \/ FinalReply.answers \cup FinalReply.charts = {0}
    BY <2>1 DEF FinalReply, Reply, NoReply
  <2>3. ASSUME ~Crashes, NEW i \in Answers \cup Charts PROVE View(i).text \in {0, turn_count}
    <3>1. i = 0 /\ last_result # NoResult
      BY <1>2, <1>6, <2>1 DEF CompletedResults
    <3>. QED  BY <1>1, <2>3, <3>1 DEF View
  <2>. QED  BY <1>3, <2>2, <2>3
<1>. QED  BY <1>4, <1>5, <1>6

\* Init and every step keep the invariant.
LEMMA CalmInductive ==
    /\ Init => CalmInv
    /\ TurnInv /\ TurnInv' /\ CalmInv /\ [Next]_vars => CalmInv'
<1>1. Init => CalmInv
  BY DEF Init, CalmInv, RepliesDoNotMix, OwnTextsOnly, Begun, NoReply
<1>2. ASSUME TurnInv, TurnInv', CalmInv, [Next]_vars PROVE CalmInv'
  <2>0. /\ plan \in Seq(PlanItem) /\ turn_count \in Nat /\ spent \in BOOLEAN
        /\ last_result \in SpecialistResult \cup {NoResult}
    BY <1>2 DEF TurnInv, TypeOK
  <2>1. CASE AdvancePlan
    <3>. DEFINE p == CompleteCurrentStep(plan, last_result)
    <3>1. /\ pc = "supervisor" /\ plan_ready
          /\ last_result # NoResult /\ NextPending(plan) # 0
          /\ RoutePlan(p, FALSE, plan_note, spent)
      BY <1>2, <2>1 DEF AdvancePlan, TurnInv, ResultMatchesStep
    <3>2. /\ last_result.text \in {0, turn_count}
          /\ \A i \in DOMAIN plan : plan[i].text \in {0, turn_count}
      BY <1>2, <3>1 DEF CalmInv, Begun
    <3>3. p \in Seq(PlanItem) /\ \A i \in DOMAIN p : p[i].text \in {0, turn_count}
      BY <2>0, <3>1, <3>2, CompleteStep
    <3>. HIDE DEF p
    <3>. QED  BY <1>2, <2>0, <3>1, <3>3, RoutePlanKeepsCalm
  <2>2. CASE EndUnplanned
    BY <1>2, <2>2 DEF EndUnplanned, userVars, CalmInv, RepliesDoNotMix, OwnTextsOnly, Begun
  <2>3. ASSUME NEW p \in Seq(FreshItem), NEW noProvider, NEW note, NEW s \in BOOLEAN,
               pc = "supervisor", RoutePlan(p, noProvider, note, s)
        PROVE  CalmInv'
    <3>1. p \in Seq(PlanItem)
      BY FreshSkips
    <3>2. \A item \in FreshItem : item.text = 0
      BY DEF FreshItem
    <3>. HIDE DEF FreshItem
    <3>3. \A i \in DOMAIN p : p[i].text \in {0, turn_count}
      BY <3>2
    <3>. QED  BY <1>2, <2>3, <3>1, <3>3, RoutePlanKeepsCalm
  <2>4. CASE Supervisor
    <3>1. pc = "supervisor"
      BY <2>4 DEF Supervisor, AdvancePlan, EndUnplanned, PlanWorkflow, PlanByDecision,
                  PlanOutage
    <3>. QED  BY <1>2, <2>1, <2>2, <2>3, <2>4, <3>1, SupervisorRoutes
  <2>5. CASE Specialist
    <3>1. /\ pc \in Specialists /\ pc' = "supervisor" /\ plan_ready'
          /\ last_result'.text \in {0, turn_count}
          /\ UNCHANGED <<turn_count, plan, reply>>
      BY <1>2, <2>5, SpecialistReturns DEF planVars
    <3>2. pc \notin {"idle", "memory_manager"}
      BY <3>1 DEF Specialists
    <3>. QED  BY <1>2, <3>1, <3>2 DEF CalmInv, RepliesDoNotMix, OwnTextsOnly, Begun
  <2>6. CASE Finalize
    <3>1. /\ pc = "finalize" /\ pc' = "idle" /\ reply' = FinalReply
          /\ last_result' = NoResult /\ turn_count' = turn_count
      BY <2>6 DEF Finalize, EdgeFrom
    <3>. QED  BY <1>2, <3>1, FinalTexts DEF CalmInv, RepliesDoNotMix, OwnTextsOnly, Begun
  <2>7. CASE Clarification
    <3>1. /\ pc = "paused" /\ pc' = "supervisor" /\ last_result' = NoResult /\ reply' = NoReply
          /\ turn_count' = turn_count /\ DOMAIN plan' = DOMAIN plan
          /\ \A i \in DOMAIN plan : plan'[i].text = plan[i].text
      <4>1. \A i \in DOMAIN plan : plan[i] \in PlanItem
        BY <2>0
      <4>. QED  BY <2>7, <4>1 DEF Clarification, EdgeFrom, PlanItem
    <3>. QED  BY <1>2, <3>1 DEF CalmInv, RepliesDoNotMix, OwnTextsOnly, Begun, NoReply
  <2>8. CASE MemoryManager
    <3>1. /\ pc = "memory_manager" /\ pc' = "supervisor" /\ plan' = <<>>
          /\ ~plan_ready' /\ UNCHANGED <<last_result, reply>>
      BY <2>8 DEF MemoryManager, EdgeFrom, userVars
    <3>. QED  BY <1>2, <3>1 DEF CalmInv, RepliesDoNotMix, OwnTextsOnly
  <2>9. CASE NewMessage
    BY <1>2, <2>9
    DEF NewMessage, planVars, taskVars, CalmInv, RepliesDoNotMix, OwnTextsOnly, Begun, NoReply
  <2>10. CASE Interrupt
    BY <1>2, <2>10
    DEF Interrupt, planVars, taskVars, CalmInv, RepliesDoNotMix, OwnTextsOnly, Begun, Reply, NoReply
  <2>11. CASE NodeRaises
    <3>1. /\ pc \in {"convo", "sql", "research", "rag"} /\ pc' = "idle"
          /\ reply' = Reply("error") /\ last_result' = last_result
      BY <2>11 DEF NodeRaises, Stop, taskVars
    <3>. QED  BY <1>2, <3>1 DEF CalmInv, RepliesDoNotMix, OwnTextsOnly, Begun, Reply, NoReply
  <2>13. CASE Crash
    <3>1. Crashes /\ pc' = "idle" /\ reply' = NoReply
      BY <2>13 DEF Crash, Stop
    <3>. QED  BY <3>1 DEF CalmInv, RepliesDoNotMix, Begun, NoReply
  <2>12. CASE UNCHANGED vars
    BY <1>2, <2>12
    DEF vars, planVars, taskVars, userVars, CalmInv, RepliesDoNotMix, OwnTextsOnly, Begun
  <2>. QED
    BY <1>2, <2>4, <2>5, <2>6, <2>7, <2>8, <2>9, <2>10, <2>11, <2>12, <2>13
    DEF Next, GraphStep, Rest
<1>. QED  BY <1>1, <1>2

LEMMA CalmInvariant == Spec => []CalmInv
  BY TurnInvariant, CalmInductive, PTL DEF Spec

\* Without a crash in the middle of a turn, a reply only has texts that its own
\* turn produced: nothing stored survives into the next one (finalize.py,
\* finalize; supervisor.py, supervisor_agent).
THEOREM RepliesAreTheirOwn == Spec => [](~Crashes => OwnTextsOnly)
<1>1. CalmInv => (~Crashes => OwnTextsOnly)
  BY DEF CalmInv
<1>. QED  BY <1>1, CalmInvariant, PTL

-----------------------------------------------------------------------------
(* task_history tells the story of the plan.                               *)

\* Every finished step of p with a task has its record in h.
Recorded(h, p) ==
    \A i \in DOMAIN p :
        p[i].status = "done" /\ p[i].route \in Specialists /\ p[i].task # Blank =>
            \E k \in DOMAIN h : h[k].turn = turn_count /\ Matches(h[k], p[i])

\* The first record of the turn in h.
First(h, k) == \A j \in DOMAIN h : h[j].turn = turn_count => k <= j

\* Every record of the turn in h has its step in p, which waits no more; but the
\* first may be of the result that a crash left behind.
Stepped(h, p) ==
    \A k \in DOMAIN h : h[k].turn = turn_count =>
        \/ \E i \in DOMAIN p : p[i].status # "pending" /\ Matches(h[k], p[i])
        \/ Crashes /\ First(h, k)

RecordsInv ==
    /\ pc \in Specialists \/ (pc = "supervisor" /\ plan_ready) =>
          current_task = plan[NextPending(plan)].task
    /\ \A k \in DOMAIN task_history : task_history[k].turn <= turn_count
    /\ Begun => Recorded(task_history, plan) /\ Stepped(task_history, plan)
    /\ pc = "supervisor" /\ ~plan_ready => Stepped(RecordedHistory, <<>>)

\* The backstops leave what is recorded alone and record nothing.
LEMMA SettledKeepsRecords ==
    ASSUME TurnInv, NEW p \in Seq(PlanItem), NEW s \in BOOLEAN, NEW h,
           Recorded(h, p), Stepped(h, p)
    PROVE  Recorded(h, Settled(p, s)) /\ Stepped(h, Settled(p, s))
<1>. DEFINE q == Settled(p, s)
<1>1. /\ q \in Seq(PlanItem) /\ Len(p) <= Len(q)
      /\ \A i \in DOMAIN p : p[i].status # "pending" => q[i] = p[i]
      /\ \A i \in DOMAIN q : q[i].status = "done" => i \in DOMAIN p /\ q[i] = p[i]
  <2>1. turn_count \in Nat /\ req \in Request
    BY DEF TurnInv, TypeOK
  <2>. QED  BY <2>1, SettledKeeps
<1>. HIDE DEF q
<1>2. DOMAIN p \subseteq DOMAIN q
  BY <1>1
<1>3. Recorded(h, q)
  BY <1>1 DEF Recorded
<1>4. Stepped(h, q)
  <2>. SUFFICES ASSUME NEW k \in DOMAIN h, h[k].turn = turn_count
                PROVE  \/ \E i \in DOMAIN q : q[i].status # "pending" /\ Matches(h[k], q[i])
                       \/ Crashes /\ First(h, k)
    BY DEF Stepped
  <2>. SUFFICES ASSUME NEW i \in DOMAIN p, p[i].status # "pending", Matches(h[k], p[i])
                PROVE  \E m \in DOMAIN q : q[m].status # "pending" /\ Matches(h[k], q[m])
    BY DEF Stepped
  <2>2. i \in DOMAIN q /\ q[i] = p[i]
    BY <1>1, <1>2
  <2>. QED  BY <2>2
<1>. QED  BY <1>3, <1>4 DEF q

\* A plan that agrees with the history is routed into a state that does.
LEMMA RoutePlanKeepsRecords ==
    ASSUME TurnInv, TurnInv', pc = "supervisor",
           NEW p \in Seq(PlanItem), NEW noProvider, NEW note, NEW s \in BOOLEAN,
           RoutePlan(p, noProvider, note, s),
           Recorded(RecordedHistory, p), Stepped(RecordedHistory, p),
           \A k \in DOMAIN RecordedHistory : RecordedHistory[k].turn <= turn_count
    PROVE  RecordsInv'
<1>. DEFINE q == Settled(p, s)
<1>1. /\ plan' = q /\ plan_ready' /\ pc' \in PlanRoutes \cup {"finalize"}
      /\ task_history' = RecordedHistory /\ turn_count' = turn_count
      /\ pc' # "finalize" => current_task' = plan'[NextPending(plan')].task
  BY RoutedState
<1>2. Recorded(RecordedHistory, q) /\ Stepped(RecordedHistory, q)
  BY SettledKeepsRecords
<1>. HIDE DEF q
<1>3. Recorded(task_history, plan)' /\ Stepped(task_history, plan)'
  BY <1>1, <1>2 DEF Recorded, Stepped, First
<1>4. pc' \in Specialists => pc' # "finalize"
  BY DEF Specialists
<1>5. pc' # "supervisor"
  BY <1>1 DEF PlanRoutes, Specialists
<1>. QED  BY <1>1, <1>3, <1>4, <1>5 DEF RecordsInv

\* The record of the result that came back, if its step has a task.
LEMMA NewRecord ==
    ASSUME TurnInv, last_result # NoResult, current_task # Blank
    PROVE  LET h == RecordedHistory
               n == Len(task_history) + 1
           IN  /\ DOMAIN h = DOMAIN task_history \cup {n} /\ n \in DOMAIN h
               /\ \A k \in DOMAIN task_history : k # n /\ h[k] = task_history[k]
               /\ h[n].turn = turn_count /\ h[n].route = last_result.source
               /\ h[n].task = current_task /\ h[n].status = last_result.status
               /\ h[n].text = last_result.text
<1>. DEFINE record == [turn |-> turn_count, route |-> last_result.source,
                       task |-> current_task, status |-> last_result.status,
                       text |-> last_result.text]
<1>1. /\ record.turn = turn_count /\ record.route = last_result.source
      /\ record.task = current_task /\ record.status = last_result.status
      /\ record.text = last_result.text
  OBVIOUS
<1>2. RecordedHistory = Append(task_history, record)
  BY DEF RecordedHistory
<1>. HIDE DEF record
<1>3. task_history \in Seq(TaskRecord)
  BY DEF TurnInv, TypeOK
<1>4. /\ Len(Append(task_history, record)) = Len(task_history) + 1
      /\ DOMAIN Append(task_history, record) = 1..(Len(task_history) + 1)
      /\ DOMAIN task_history = 1..Len(task_history) /\ Len(task_history) \in Nat
      /\ \A k \in 1..Len(task_history) : Append(task_history, record)[k] = task_history[k]
      /\ Append(task_history, record)[Len(task_history) + 1] = record
  BY <1>3
<1>. QED  BY <1>1, <1>2, <1>4

\* What is recorded stays so, and is recorded before anything new.
OnlyGrows ==
    LET h == RecordedHistory
    IN  /\ DOMAIN task_history \subseteq DOMAIN h
        /\ \A k \in DOMAIN task_history : h[k] = task_history[k]
        /\ \A k \in DOMAIN h \ DOMAIN task_history :
              /\ last_result # NoResult /\ h[k].turn = turn_count
              /\ \A j \in DOMAIN h : j <= k

LEMMA HistoryGrows == TurnInv => OnlyGrows
<1>. SUFFICES ASSUME TurnInv PROVE OnlyGrows
  OBVIOUS
<1>1. CASE last_result = NoResult \/ current_task = Blank
  <2>1. RecordedHistory = task_history
    BY <1>1 DEF RecordedHistory
  <2>. QED  BY <2>1 DEF OnlyGrows
<1>2. CASE last_result # NoResult /\ current_task # Blank
  <2>. DEFINE h == RecordedHistory
              n == Len(task_history) + 1
  <2>1. /\ DOMAIN h = DOMAIN task_history \cup {n}
        /\ \A k \in DOMAIN task_history : h[k] = task_history[k]
        /\ h[n].turn = turn_count
    BY <1>2, NewRecord
  <2>. HIDE DEF h
  <2>2. \A j \in DOMAIN task_history \cup {n} : j <= n
    <3>1. task_history \in Seq(TaskRecord)
      BY DEF TurnInv, TypeOK
    <3>. QED  BY <3>1
  <2>3. \A k \in DOMAIN h \ DOMAIN task_history : k = n
    BY <2>1
  <2>. HIDE DEF n
  <2>. QED  BY <1>2, <2>1, <2>2, <2>3 DEF h, OnlyGrows
<1>. QED  BY <1>1, <1>2

\* The step that came back is written into plan and history alike.
LEMMA AdvanceKeepsRecords ==
    ASSUME TurnInv, TurnInv', RecordsInv, AdvancePlan
    PROVE  RecordsInv'
<1>. DEFINE n == NextPending(plan)
            p == CompleteCurrentStep(plan, last_result)
            h == RecordedHistory
<1>1. /\ pc = "supervisor" /\ plan_ready /\ plan \in Seq(PlanItem) /\ spent \in BOOLEAN
      /\ turn_count \in Nat /\ task_history \in Seq(TaskRecord)
      /\ last_result # NoResult /\ last_result \in SpecialistResult
      /\ n # 0 /\ plan[n].route = last_result.source
      /\ RoutePlan(p, FALSE, plan_note, spent)
  BY DEF AdvancePlan, TurnInv, TypeOK, ResultMatchesStep
<1>2. /\ n \in DOMAIN plan /\ plan[n].status = "pending"
      /\ p \in Seq(PlanItem) /\ DOMAIN p = DOMAIN plan
      /\ \A i \in DOMAIN plan \ {n} : p[i] = plan[i]
      /\ p[n].route = plan[n].route /\ p[n].task = plan[n].task
      /\ p[n].status = IF last_result.status = "done" THEN "done" ELSE "failed"
      /\ p[n].text = last_result.text
  BY <1>1, CompleteStep
<1>3. /\ current_task = plan[n].task
      /\ Recorded(task_history, plan) /\ Stepped(task_history, plan)
      /\ \A k \in DOMAIN task_history : task_history[k].turn <= turn_count
  BY <1>1 DEF RecordsInv, Begun
<1>. HIDE DEF n, p
<1>4. /\ DOMAIN task_history \subseteq DOMAIN h
      /\ \A k \in DOMAIN task_history : h[k] = task_history[k]
      /\ \A k \in DOMAIN h \ DOMAIN task_history :
            /\ h[k].turn = turn_count /\ Matches(h[k], p[n])
            /\ \A j \in DOMAIN h : j <= k
      /\ p[n].task # Blank =>
            \E k \in DOMAIN h : h[k].turn = turn_count /\ Matches(h[k], p[n])
  <2>1. CASE current_task = Blank
    BY <1>2, <1>3, <2>1 DEF RecordedHistory
  <2>2. CASE current_task # Blank
    <3>. DEFINE l == Len(task_history) + 1
    <3>1. /\ DOMAIN h = DOMAIN task_history \cup {l} /\ l \in DOMAIN h
          /\ \A k \in DOMAIN task_history : h[k] = task_history[k]
          /\ h[l].turn = turn_count /\ h[l].route = last_result.source
          /\ h[l].task = current_task /\ h[l].status = last_result.status
          /\ h[l].text = last_result.text
      BY <1>1, <2>2, NewRecord
    <3>3. \A k \in DOMAIN h \ DOMAIN task_history : \A j \in DOMAIN h : j <= k
      BY HistoryGrows DEF OnlyGrows
    <3>. HIDE DEF h, l
    <3>2. Matches(h[l], p[n])
      BY <1>1, <1>2, <1>3, <3>1 DEF Matches
    <3>. QED  BY <3>1, <3>2, <3>3
  <2>. QED  BY <2>1, <2>2
<1>. HIDE DEF h
<1>5. Recorded(h, p)
  <2>. SUFFICES ASSUME NEW i \in DOMAIN p, p[i].status = "done",
                       p[i].route \in Specialists, p[i].task # Blank
                PROVE  \E k \in DOMAIN h : h[k].turn = turn_count /\ Matches(h[k], p[i])
    BY DEF Recorded
  <2>1. CASE i = n
    BY <1>4, <2>1
  <2>2. CASE i # n
    <3>1. i \in DOMAIN plan /\ p[i] = plan[i]
      BY <1>2, <2>2
    <3>2. PICK k \in DOMAIN task_history :
             task_history[k].turn = turn_count /\ Matches(task_history[k], plan[i])
      BY <1>3, <3>1 DEF Recorded
    <3>. QED  BY <1>4, <3>1, <3>2
  <2>. QED  BY <2>1, <2>2
<1>6. Stepped(h, p)
  <2>. SUFFICES ASSUME NEW k \in DOMAIN h, h[k].turn = turn_count
                PROVE  \/ \E i \in DOMAIN p : p[i].status # "pending" /\ Matches(h[k], p[i])
                       \/ Crashes /\ First(h, k)
    BY DEF Stepped
  <2>1. CASE k \notin DOMAIN task_history
    BY <1>2, <1>4, <2>1
  <2>2. CASE k \in DOMAIN task_history
    <3>1. \/ \E i \in DOMAIN plan :
                plan[i].status # "pending" /\ Matches(task_history[k], plan[i])
          \/ Crashes /\ First(task_history, k)
      BY <1>3, <1>4, <2>2 DEF Stepped
    <3>2. ASSUME NEW i \in DOMAIN plan, plan[i].status # "pending",
                 Matches(task_history[k], plan[i])
          PROVE  \E m \in DOMAIN p : p[m].status # "pending" /\ Matches(h[k], p[m])
      <4>1. i \in DOMAIN p /\ p[i] = plan[i]
        BY <1>2, <3>2
      <4>. QED  BY <1>4, <2>2, <3>2, <4>1
    <3>3. First(task_history, k) => First(h, k)
      BY <1>4, <2>2 DEF First
    <3>. QED  BY <3>1, <3>2, <3>3
  <2>. QED  BY <2>1, <2>2
<1>7. \A k \in DOMAIN h : h[k].turn <= turn_count
  BY <1>1, <1>3, <1>4
<1>. QED  BY <1>1, <1>2, <1>5, <1>6, <1>7, RoutePlanKeepsRecords DEF h

\* While a question is asked no step of the turn is recorded.
LEMMA AskingRecordsNothing ==
    ASSUME TurnInv, RecordsInv, pc = "paused"
    PROVE  /\ Stepped(task_history, <<>>)
           /\ \A i \in DOMAIN plan : plan[i].route \notin Specialists
<1>1. /\ plan \in Seq(PlanItem) /\ Len(plan) = 1 /\ Stepped(task_history, plan)
      /\ NextPending(plan) # 0 /\ plan[NextPending(plan)].route = "clarification"
  <2>1. plan \in Seq(PlanItem) /\ Stepped(task_history, plan)
    BY DEF TurnInv, TypeOK, RecordsInv, Begun
  <2>2. NextPending(plan) # 0 /\ plan[NextPending(plan)].route = "clarification"
    BY DEF TurnInv, RunningInv, Running
  <2>. QED  BY <2>1, <2>2, AskingState
<1>2. NextPending(plan) \in Pending(plan)
  BY <1>1, NextPendingFirst
<1>3. DOMAIN plan = {1} /\ NextPending(plan) = 1 /\ plan[1].status = "pending"
  BY <1>1, <1>2 DEF Pending
<1>. QED  BY <1>1, <1>3 DEF Stepped, Specialists

\* Pruning selects records.
LEMMA PrunedIsOlder ==
    ASSUME TurnInv, RecordsInv, MemoryManager
    PROVE  /\ turn_count' = turn_count + 1
           /\ \A k \in DOMAIN task_history' : task_history'[k].turn < turn_count'
<1>. DEFINE Older == {r \in TaskRecord : r.turn <= turn_count}
            recent == {i \in DOMAIN task_history :
                          task_history[i].turn + TASK_HISTORY_KEEP_TURNS > turn_count + 1}
<1>1. /\ turn_count' = turn_count + 1 /\ turn_count \in Nat
      /\ task_history' = Pick(task_history, recent)
      /\ task_history \in Seq(TaskRecord)
      /\ \A k \in DOMAIN task_history : task_history[k].turn <= turn_count
  BY DEF MemoryManager, TurnInv, TypeOK, RecordsInv
<1>. HIDE DEF recent
<1>2. task_history \in Seq(Older)
  BY <1>1
<1>3. \A r \in Older : r.turn \in Nat /\ r.turn <= turn_count
  BY DEF TaskRecord
<1>. HIDE DEF Older
<1>4. recent \in SUBSET DOMAIN task_history
  BY DEF recent
<1>5. task_history' \in Seq(Older)
  BY <1>1, <1>2, <1>4, PickIsSeq
<1>6. \A k \in DOMAIN task_history' : task_history'[k] \in Older
  BY <1>5
<1>. QED  BY <1>1, <1>3, <1>6

\* Init and every step keep the invariant.
LEMMA RecordsInductive ==
    /\ Init => RecordsInv
    /\ TurnInv /\ TurnInv' /\ CalmInv /\ RecordsInv /\ [Next]_vars => RecordsInv'
<1>1. Init => RecordsInv
  BY DEF Init, RecordsInv, Begun, Specialists
<1>2. ASSUME TurnInv, TurnInv', CalmInv, RecordsInv, [Next]_vars
      PROVE  RecordsInv'
  <2>0. /\ plan \in Seq(PlanItem) /\ turn_count \in Nat /\ spent \in BOOLEAN
        /\ task_history \in Seq(TaskRecord)
    BY <1>2 DEF TurnInv, TypeOK
  <2>1. CASE AdvancePlan
    BY <1>2, <2>1, AdvanceKeepsRecords
  <2>2. ASSUME pc = "supervisor", ~plan_ready
        PROVE  /\ \A p : Stepped(RecordedHistory, p)
               /\ \A k \in DOMAIN RecordedHistory : RecordedHistory[k].turn <= turn_count
    <3>1. Stepped(RecordedHistory, <<>>)
      BY <1>2, <2>2 DEF RecordsInv
    <3>2. \A p : Stepped(RecordedHistory, p)
      BY <3>1 DEF Stepped
    <3>3. \A k \in DOMAIN task_history : task_history[k].turn <= turn_count
      BY <1>2 DEF RecordsInv
    <3>4. \A k \in DOMAIN RecordedHistory : RecordedHistory[k].turn <= turn_count
      BY <1>2, <2>0, <3>3, HistoryGrows DEF OnlyGrows
    <3>. QED  BY <3>2, <3>4
  <2>3. CASE EndUnplanned
    <3>1. /\ pc = "supervisor" /\ ~plan_ready /\ pc' = "finalize"
          /\ task_history' = RecordedHistory /\ UNCHANGED <<turn_count, plan>>
      BY <2>3 DEF EndUnplanned
    <3>2. Recorded(task_history, plan)
      BY <1>2, <3>1 DEF RecordsInv, Begun
    <3>4. Recorded(RecordedHistory, plan)
      BY <1>2, <3>2, HistoryGrows DEF OnlyGrows, Recorded
    <3>5. Stepped(RecordedHistory, plan)
      BY <2>2, <3>1
    <3>3. Recorded(task_history, plan)' /\ Stepped(task_history, plan)'
      BY <3>1, <3>4, <3>5 DEF Recorded, Stepped, First
    <3>. QED  BY <2>2, <3>1, <3>3 DEF RecordsInv, Specialists
  <2>4. ASSUME NEW p \in Seq(FreshItem), NEW noProvider, NEW note, NEW s \in BOOLEAN,
               pc = "supervisor", ~plan_ready, RoutePlan(p, noProvider, note, s)
        PROVE  RecordsInv'
    <3>1. p \in Seq(PlanItem)
      BY FreshSkips
    <3>2. \A item \in FreshItem : item.status = "pending"
      BY DEF FreshItem
    <3>. HIDE DEF FreshItem
    <3>3. Recorded(RecordedHistory, p) /\ Stepped(RecordedHistory, p)
      BY <2>2, <2>4, <3>2 DEF Recorded
    <3>4. \A k \in DOMAIN RecordedHistory : RecordedHistory[k].turn <= turn_count
      BY <2>2, <2>4
    <3>. QED  BY <1>2, <2>4, <3>1, <3>3, <3>4, RoutePlanKeepsRecords
  <2>5. CASE Supervisor
    <3>1. pc = "supervisor"
      BY <2>5 DEF Supervisor, AdvancePlan, EndUnplanned, PlanWorkflow, PlanByDecision,
                  PlanOutage
    <3>. QED  BY <1>2, <2>1, <2>3, <2>4, <2>5, <3>1, SupervisorRoutes
  <2>6. CASE Specialist
    <3>1. /\ pc \in Specialists /\ pc' = "supervisor" /\ plan_ready'
          /\ UNCHANGED <<turn_count, plan, current_task, task_history>>
      BY <1>2, <2>6, SpecialistReturns DEF planVars
    <3>2. Begun
      BY <3>1 DEF Begun, Specialists
    <3>3. Recorded(task_history, plan)' /\ Stepped(task_history, plan)'
      BY <1>2, <3>1, <3>2 DEF RecordsInv, Recorded, Stepped, First
    <3>. QED  BY <1>2, <3>1, <3>3 DEF RecordsInv
  <2>7. CASE Clarification
    <3>1. /\ pc = "paused" /\ pc' = "supervisor" /\ ~plan_ready'
          /\ UNCHANGED <<turn_count, task_history>> /\ DOMAIN plan' = DOMAIN plan
          /\ \A i \in DOMAIN plan : plan'[i].route = plan[i].route
      <4>1. \A i \in DOMAIN plan : plan[i] \in PlanItem
        BY <2>0
      <4>. QED  BY <2>7, <4>1 DEF Clarification, EdgeFrom, PlanItem
    <3>2. /\ Stepped(task_history, <<>>)
          /\ \A i \in DOMAIN plan : plan[i].route \notin Specialists
      BY <1>2, <3>1, AskingRecordsNothing
    <3>3. Recorded(task_history, plan)' /\ Stepped(task_history, plan)'
      BY <3>1, <3>2 DEF Recorded, Stepped, First
    <3>4. Stepped(RecordedHistory, <<>>)'
      <4>1. last_result' = NoResult
        BY <2>7 DEF Clarification
      <4>2. RecordedHistory' = task_history
        BY <3>1, <4>1 DEF RecordedHistory
      <4>. QED  BY <3>1, <3>2, <4>2 DEF Stepped, First
    <3>. QED  BY <1>2, <3>1, <3>3, <3>4 DEF RecordsInv, Specialists
  <2>8. CASE MemoryManager
    <3>1. /\ pc' = "supervisor" /\ ~plan_ready' /\ plan' = <<>>
      BY <2>8 DEF MemoryManager, EdgeFrom
    <3>2. /\ turn_count' = turn_count + 1
          /\ \A k \in DOMAIN task_history' : task_history'[k].turn < turn_count'
      BY <1>2, <2>8, PrunedIsOlder
    <3>3. task_history' \in Seq(TaskRecord) /\ \A r \in TaskRecord : r.turn \in Nat
      BY <1>2 DEF TurnInv, TypeOK, TaskRecord
    <3>4. \A k \in DOMAIN task_history' : task_history'[k].turn \in Nat
      BY <3>3
    <3>5. \A k \in DOMAIN task_history' : /\ task_history'[k].turn <= turn_count'
                                          /\ task_history'[k].turn # turn_count'
      BY <2>0, <3>2, <3>4
    <3>6. Recorded(task_history, plan)' /\ Stepped(task_history, plan)'
      BY <3>1, <3>5 DEF Recorded, Stepped
    <3>7. ~Crashes => last_result' = NoResult
      BY <1>2, <2>8 DEF MemoryManager, CalmInv
    <3>8. OnlyGrows'
      <4>1. (TurnInv => OnlyGrows)'
        BY HistoryGrows, PTL
      <4>. QED  BY <1>2, <4>1
    <3>9. Stepped(RecordedHistory, <<>>)'
      <4>. SUFFICES ASSUME NEW k \in DOMAIN RecordedHistory',
                           RecordedHistory'[k].turn = turn_count'
                    PROVE  Crashes /\ First(RecordedHistory, k)'
        BY DEF Stepped
      <4>2. k \notin DOMAIN task_history'
        BY <1>2, <3>5, <3>8 DEF OnlyGrows
      <4>3. last_result' # NoResult
        BY <3>8, <4>2 DEF OnlyGrows
      <4>4. ASSUME NEW j \in DOMAIN RecordedHistory', RecordedHistory'[j].turn = turn_count'
            PROVE  k <= j
        <5>1. j \notin DOMAIN task_history'
          BY <1>2, <3>5, <3>8, <4>4 DEF OnlyGrows
        <5>. QED  BY <3>8, <5>1 DEF OnlyGrows
      <4>. QED  BY <3>7, <4>3, <4>4 DEF First
    <3>. QED  BY <3>1, <3>5, <3>6, <3>9 DEF RecordsInv, Specialists
  <2>9. CASE NewMessage \/ Finalize \/ NodeRaises \/ Crash
    <3>1. /\ pc' \in {"idle", "memory_manager"} /\ UNCHANGED <<turn_count, task_history>>
      BY <2>9 DEF NewMessage, Finalize, EdgeFrom, NodeRaises, Crash, Stop, taskVars
    <3>. QED  BY <1>2, <3>1 DEF RecordsInv, Begun, Specialists
  <2>10. CASE Interrupt
    <3>1. /\ pc = "clarification" /\ pc' = "paused"
          /\ UNCHANGED <<turn_count, plan, plan_ready, current_task, task_history>>
      BY <2>10 DEF Interrupt, planVars, taskVars
    <3>2. Recorded(task_history, plan)' /\ Stepped(task_history, plan)'
      BY <1>2, <3>1 DEF RecordsInv, Begun, Recorded, Stepped, First
    <3>. QED  BY <1>2, <3>1, <3>2 DEF RecordsInv, Specialists
  <2>11. CASE UNCHANGED vars
    <3>1. UNCHANGED <<pc, turn_count, plan, plan_ready, taskVars>>
      BY <2>11 DEF vars, planVars
    <3>2. RecordedHistory' = RecordedHistory
      BY <3>1 DEF RecordedHistory, taskVars
    <3>. QED
      BY <1>2, <3>1, <3>2 DEF taskVars, RecordsInv, Begun, Recorded, Stepped, First
  <2>. QED
    BY <1>2, <2>5, <2>6, <2>7, <2>8, <2>9, <2>10, <2>11 DEF Next, GraphStep, Rest
<1>. QED  BY <1>1, <1>2

\* Without a crash in the middle of a turn, plan and task_history agree at its
\* end (supervisor.py, supervisor_agent; evaluation.py reads both).
THEOREM HistoryAgreesWithPlan == Spec => [](~Crashes => RecordsMatchPlan)
<1>1. RecordsInv => (~Crashes => RecordsMatchPlan)
  BY DEF RecordsInv, RecordsMatchPlan, RecordsOf, Begun, Recorded, Stepped
<1>. QED  BY <1>1, RecordsInductive, TurnInvariant, CalmInvariant, PTL DEF Spec

\* Even with crashes no reply mixes turns and every finished step has its
\* record: what a broken-off turn left in last_result is told alone, and recorded
\* before anything of the turn (finalize.py, _completed_results; supervisor.py,
\* supervisor_agent).
THEOREM LeftoversDoNoMore == Spec => []LeftoversStayApart
<1>1. RecordsInv => OneRecordMisfiled
  BY DEF RecordsInv, OneRecordMisfiled, RecordsOf, Begun, Recorded, Stepped, First
<1>2. CalmInv => RepliesDoNotMix
  BY DEF CalmInv
<1>3. CalmInv /\ RecordsInv => LeftoversStayApart
  BY <1>1, <1>2 DEF LeftoversStayApart
<1>. QED  BY <1>3, RecordsInductive, TurnInvariant, CalmInvariant, PTL DEF Spec

-----------------------------------------------------------------------------
(* A thread keeps the contract with its user.                              *)

IsWork(p, i) == i \in DOMAIN p /\ p[i].route # "clarification"

\* Whatever the plan has to say is work; a question is not, and before a turn is
\* planned it has asked at most.
WorkInv ==
    /\ \A i \in DOMAIN plan : plan[i].route = "clarification" => plan[i].text = 0
    /\ Begun => Noted(plan, plan_note)
    /\ pc = "supervisor" /\ ~plan_ready => \A i \in DOMAIN plan : ~IsWork(plan, i)

\* A plan whose note has a step behind it is routed into a state where it does.
LEMMA RoutePlanKeepsWork ==
    ASSUME TurnInv, TurnInv', NEW p \in Seq(PlanItem), NEW noProvider, NEW note,
           NEW s \in BOOLEAN, RoutePlan(p, noProvider, note, s),
           \A i \in DOMAIN p : p[i].route = "clarification" => p[i].text = 0,
           Noted(p, note)
    PROVE  WorkInv'
<1>. DEFINE q == Settled(p, s)
<1>1. /\ plan' = q /\ plan_ready' /\ pc' \in PlanRoutes \cup {"finalize"}
      /\ plan_note' = note
  BY RoutedState
<1>2. /\ q \in Seq(PlanItem) /\ Len(p) <= Len(q)
      /\ \A i \in DOMAIN p : q[i].route = p[i].route
      /\ \A i \in DOMAIN q : q[i].route # "visu" => i \in DOMAIN p /\ q[i] = p[i]
  <2>1. turn_count \in Nat /\ req \in Request
    BY DEF TurnInv, TypeOK
  <2>. QED  BY <2>1, SettledKeeps
<1>. HIDE DEF q
<1>3. DOMAIN p \subseteq DOMAIN q
  BY <1>2
<1>4. \A i \in DOMAIN q : q[i].route = "clarification" => q[i].text = 0
  BY <1>2
<1>5. Noted(q, note)
  BY <1>2, <1>3 DEF Noted
<1>6. pc' # "supervisor"
  BY <1>1 DEF PlanRoutes, Specialists
<1>. QED  BY <1>1, <1>4, <1>5, <1>6 DEF WorkInv, Noted

\* The step a result is written into is work.
LEMMA AdvanceKeepsWork ==
    ASSUME TurnInv, TurnInv', WorkInv, AdvancePlan
    PROVE  WorkInv'
<1>. DEFINE n == NextPending(plan)
            p == CompleteCurrentStep(plan, last_result)
<1>1. /\ pc = "supervisor" /\ plan \in Seq(PlanItem) /\ spent \in BOOLEAN
      /\ last_result # NoResult /\ last_result \in SpecialistResult
      /\ n # 0 /\ plan[n].route = last_result.source
      /\ RoutePlan(p, FALSE, plan_note, spent)
  BY DEF AdvancePlan, TurnInv, TypeOK, ResultMatchesStep
<1>2. /\ n \in DOMAIN plan /\ p \in Seq(PlanItem) /\ DOMAIN p = DOMAIN plan
      /\ \A i \in DOMAIN plan \ {n} : p[i] = plan[i]
      /\ p[n].route = plan[n].route
  BY <1>1, CompleteStep
<1>. HIDE DEF n, p
<1>3. p[n].route # "clarification"
  BY <1>1, <1>2 DEF SpecialistResult, Specialists
<1>4. \A i \in DOMAIN p : p[i].route = "clarification" => p[i].text = 0
  BY <1>2, <1>3 DEF WorkInv
<1>5. Noted(p, plan_note)
  BY <1>1, <1>2 DEF WorkInv, Begun, Noted
<1>. QED  BY <1>1, <1>2, <1>4, <1>5, RoutePlanKeepsWork

\* The plan behind a question is that question.
LEMMA AskingHasNoWork ==
    ASSUME TurnInv, pc \in {"clarification", "paused"}
    PROVE  \A i \in DOMAIN plan : ~IsWork(plan, i)
<1>1. /\ plan \in Seq(PlanItem) /\ Len(plan) = 1
      /\ NextPending(plan) # 0 /\ plan[NextPending(plan)].route = "clarification"
  <2>1. plan \in Seq(PlanItem)
    BY DEF TurnInv, TypeOK
  <2>2. NextPending(plan) # 0 /\ plan[NextPending(plan)].route = "clarification"
    BY DEF TurnInv, RunningInv, Running, PlanRoutes
  <2>. QED  BY <2>1, <2>2, AskingState
<1>2. NextPending(plan) \in 0..Len(plan)
  BY <1>1, NextPendingFirst
<1>3. NextPending(plan) = 1 /\ DOMAIN plan = {1}
  BY <1>1, <1>2
<1>. QED  BY <1>1, <1>3 DEF IsWork

\* Init and every step keep the invariant.
LEMMA WorkInductive ==
    /\ Init => WorkInv
    /\ TurnInv /\ TurnInv' /\ WorkInv /\ [Next]_vars => WorkInv'
<1>1. Init => WorkInv
  BY DEF Init, WorkInv, Begun
<1>2. ASSUME TurnInv, TurnInv', WorkInv, [Next]_vars
      PROVE  WorkInv'
  <2>0. plan \in Seq(PlanItem) /\ \A i \in DOMAIN plan : plan[i] \in PlanItem
    BY <1>2 DEF TurnInv, TypeOK
  <2>1. CASE AdvancePlan
    BY <1>2, <2>1, AdvanceKeepsWork
  <2>2. ASSUME pc = "supervisor", ~plan_ready
        PROVE  plan_note = {}
    BY <1>2, <2>2 DEF WorkInv, Begun, Noted, IsWork
  <2>3. CASE EndUnplanned
    <3>1. /\ pc = "supervisor" /\ ~plan_ready /\ pc' = "finalize"
          /\ UNCHANGED <<plan, plan_note>>
      BY <2>3 DEF EndUnplanned
    <3>. QED  BY <1>2, <2>2, <3>1 DEF WorkInv, Noted
  <2>4. ASSUME NEW p \in Seq(FreshItem), NEW noProvider, NEW note, NEW s \in BOOLEAN,
               pc = "supervisor", ~plan_ready, RoutePlan(p, noProvider, note, s),
               note = plan_note \/ Noted(p, note)
        PROVE  WorkInv'
    <3>1. p \in Seq(PlanItem)
      BY FreshSkips
    <3>2. \A item \in FreshItem : item.text = 0
      BY DEF FreshItem
    <3>. HIDE DEF FreshItem
    <3>3. \A i \in DOMAIN p : p[i].text = 0
      BY <3>2
    <3>4. Noted(p, note)
      BY <2>2, <2>4 DEF Noted
    <3>. QED  BY <1>2, <2>4, <3>1, <3>3, <3>4, RoutePlanKeepsWork
  <2>5. CASE Supervisor
    <3>1. pc = "supervisor"
      BY <2>5 DEF Supervisor, AdvancePlan, EndUnplanned, PlanWorkflow, PlanByDecision,
                  PlanOutage
    <3>. QED  BY <1>2, <2>1, <2>3, <2>4, <2>5, <3>1, SupervisorRoutes
  <2>6. CASE Specialist
    <3>1. /\ pc \in Specialists /\ pc' = "supervisor" /\ plan_ready'
          /\ UNCHANGED <<plan, plan_note>>
      BY <1>2, <2>6, SpecialistReturns DEF planVars
    <3>2. Begun
      BY <3>1 DEF Begun, Specialists
    <3>. QED  BY <1>2, <3>1, <3>2 DEF WorkInv
  <2>7. CASE Clarification
    <3>1. /\ pc = "paused" /\ pc' = "supervisor" /\ last_result' = NoResult
          /\ plan_note' = plan_note /\ DOMAIN plan' = DOMAIN plan
          /\ \A i \in DOMAIN plan : /\ plan'[i].route = plan[i].route
                                    /\ plan'[i].text = plan[i].text
      BY <2>0, <2>7 DEF Clarification, EdgeFrom, PlanItem
    <3>2. \A i \in DOMAIN plan : ~IsWork(plan, i)
      BY <1>2, <3>1, AskingHasNoWork
    <3>. QED  BY <1>2, <3>1, <3>2 DEF WorkInv, Begun, Noted, IsWork
  <2>8. CASE MemoryManager
    <3>1. /\ pc' = "supervisor" /\ plan' = <<>> /\ plan_note' = {}
      BY <2>8 DEF MemoryManager, EdgeFrom
    <3>. QED  BY <3>1 DEF WorkInv, Noted
  <2>9. CASE NewMessage \/ Finalize \/ NodeRaises \/ Crash
    <3>1. pc' \in {"idle", "memory_manager"} /\ UNCHANGED plan
      BY <2>9 DEF NewMessage, Finalize, EdgeFrom, NodeRaises, Crash, Stop, planVars
    <3>. QED  BY <1>2, <3>1 DEF WorkInv, Begun
  <2>10. CASE Interrupt
    BY <1>2, <2>10 DEF Interrupt, planVars, taskVars, WorkInv, Begun, IsWork
  <2>11. CASE UNCHANGED vars
    BY <1>2, <2>11 DEF vars, planVars, taskVars, WorkInv, Begun, IsWork
  <2>. QED
    BY <1>2, <2>5, <2>6, <2>7, <2>8, <2>9, <2>10, <2>11 DEF Next, GraphStep, Rest
<1>. QED  BY <1>1, <1>2

\* A step that came back is work that stays.
LEMMA AdvanceLeavesWork ==
    ASSUME TurnInv, TurnInv', AdvancePlan
    PROVE  \E i \in DOMAIN plan' :
              plan'[i].status # "pending" /\ plan'[i].route # "clarification"
<1>. DEFINE n == NextPending(plan)
            p == CompleteCurrentStep(plan, last_result)
            q == Settled(p, spent)
<1>1. /\ plan \in Seq(PlanItem) /\ spent \in BOOLEAN
      /\ turn_count \in Nat /\ req \in Request
      /\ last_result # NoResult /\ last_result \in SpecialistResult
      /\ n # 0 /\ plan[n].route = last_result.source
      /\ RoutePlan(p, FALSE, plan_note, spent)
  BY DEF AdvancePlan, TurnInv, TypeOK, ResultMatchesStep
<1>2. /\ n \in DOMAIN plan /\ p \in Seq(PlanItem) /\ DOMAIN p = DOMAIN plan
      /\ p[n].route = plan[n].route
      /\ p[n].status = IF last_result.status = "done" THEN "done" ELSE "failed"
  BY <1>1, CompleteStep
<1>. HIDE DEF n, p
<1>3. plan' = q
  BY <1>1, <1>2, RoutedState
<1>4. /\ q \in Seq(PlanItem) /\ Len(p) <= Len(q)
      /\ \A i \in DOMAIN p : p[i].status # "pending" => q[i] = p[i]
  BY <1>1, <1>2, SettledKeeps
<1>. HIDE DEF q
<1>5. n \in DOMAIN q
  BY <1>2, <1>4
<1>6. p[n].status # "pending" /\ p[n].route # "clarification"
  BY <1>1, <1>2 DEF SpecialistResult, Specialists
<1>. QED  BY <1>2, <1>3, <1>4, <1>5, <1>6

\* A reply of kind "answer" has finished work behind it, or a result that was
\* left behind.
LEMMA AnswersHaveWork ==
    ASSUME TurnInv, WorkInv, pc = "finalize", HasContent
    PROVE  FinishedWork # {} \/ LeftBehind
<1>1. /\ plan \in Seq(PlanItem) /\ Pending(plan) = {} /\ ~turn_cut_short /\ Begun
  BY DEF TurnInv, TypeOK, NothingPendingAtEnd, HopsWithinBudget, Begun
<1>2. FinishedWork = {i \in DOMAIN plan : IsWork(plan, i)}
  BY <1>1 DEF FinishedWork, Pending, IsWork
<1>3. SUFFICES ASSUME ~LeftBehind
               PROVE  \E i \in DOMAIN plan : IsWork(plan, i)
  BY <1>2
<1>4. ASSUME NEW i \in CompletedResults PROVE \E k \in DOMAIN plan : IsWork(plan, k)
  <2>1. CASE i \in DOMAIN plan /\ plan[i].text # 0
    BY <2>1 DEF WorkInv, IsWork
  <2>2. CASE last_result # NoResult
    BY <1>2, <1>3, <2>2 DEF LeftBehind
  <2>. QED  BY <2>1, <2>2 DEF CompletedResults
<1>5. Answers \cup Charts \subseteq CompletedResults
  BY DEF Answers, Charts
<1>6. CASE plan_note # {}
  BY <1>1, <1>6 DEF WorkInv, Noted, IsWork
<1>. QED  BY <1>1, <1>4, <1>5, <1>6 DEF HasContent

\* A plan within the cap leaves no more work than the contract allows.
LEMMA WorkIsCapped ==
    ASSUME TurnInv', Begun'
    PROVE  FinishedWork' \in SUBSET (1..(MAX_PLAN_STEPS + 1))
<1>1. /\ plan' \in Seq(PlanItem) /\ WithinCap(plan')
  BY DEF TurnInv, WellShaped, Begun
<1>2. DOMAIN plan' = 1..Len(plan') /\ Len(plan') \in Nat
  BY <1>1
<1>3. Len(plan') <= MAX_PLAN_STEPS \/ Len(plan') <= MAX_PLAN_STEPS + 1
  BY <1>1 DEF WithinCap
<1>4. DOMAIN plan' \subseteq 1..(MAX_PLAN_STEPS + 1)
  <2>1. MAX_PLAN_STEPS \in Nat
    BY BoundsAssumption
  <2>. QED  BY <1>2, <1>3, <2>1
<1>5. FinishedWork' \subseteq DOMAIN plan'
  BY DEF FinishedWork
<1>. QED  BY <1>4, <1>5

\* Every step is a step of the contract, or none.
LEMMA StepKeepsPromise ==
    ASSUME TurnInv, TurnInv', SpokenInv', CalmInv, WorkInv, [Next]_vars
    PROVE  [Promise!ContractNext]_Promise!contractVars
<1>. USE DEF Promise!contractVars, Promise!ContractNext, Promise!Step
<1>00. SUFFICES ASSUME ~UNCHANGED vars
                PROVE  Promise!ContractNext
  <2>. SUFFICES ASSUME UNCHANGED vars PROVE UNCHANGED Promise!contractVars
    OBVIOUS
  <2>1. /\ Phase' = Phase /\ Asked' = Asked /\ FinishedWork' = FinishedWork /\ reply' = reply
    BY DEF vars, planVars, askVars, userVars, Phase, Asked, FinishedWork, Begun
  <2>2. LeftBehind' = LeftBehind
    BY <2>1 DEF vars, planVars, taskVars, LeftBehind
  <2>3. StepsLeft' = StepsLeft
    BY DEF vars, planVars, StepsLeft
  <2>. QED  BY <2>1, <2>2, <2>3
<1>01. pc' # "memory_manager" => StepsLeft' \in 0..(StepsLeft - 1)
  BY <1>00, StepsBringNearer
<1>0. /\ plan \in Seq(PlanItem) /\ clarification_count \in Nat
      /\ \A i \in DOMAIN plan : plan[i] \in PlanItem
  BY DEF TurnInv, TypeOK
<1>1. CASE NewMessage
  <2>1. /\ pc \in {"idle", "paused"} /\ pc' = "memory_manager" /\ reply' = NoReply
    BY <1>1 DEF NewMessage
  <2>2. /\ Phase \in {"idle", "asking"} /\ Phase' = "working"
        /\ Asked' = 0 /\ FinishedWork' = {} /\ reply'.kind = "none"
    BY <2>1 DEF Phase, Asked, FinishedWork, Begun, NoReply
  <2>3. LeftBehind' = LeftBehind
    <3>1. last_result' = last_result /\ (pc = "paused" => last_result = NoResult)
      BY <1>1 DEF NewMessage, taskVars, CalmInv
    <3>. QED  BY <2>1, <3>1 DEF LeftBehind
  <2>4. StepsLeft' = 3 * MAX_HOPS + 3
    BY <2>1 DEF StepsLeft, PlanRoutes, Specialists
  <2>. QED  BY <2>2, <2>3, <2>4 DEF Promise!Receive
<1>2. CASE MemoryManager
  <2>1. /\ pc = "memory_manager" /\ pc' = "supervisor" /\ plan' = <<>>
        /\ clarification_count' = 0 /\ ~plan_ready' /\ UNCHANGED <<last_result, reply>>
    BY <1>2 DEF MemoryManager, EdgeFrom, userVars
  <2>2. /\ Phase = "working" /\ Phase' = Phase /\ Asked' = Asked
        /\ FinishedWork = {} /\ FinishedWork' = {}
    BY <2>1 DEF Phase, Asked, FinishedWork, Begun
  <2>3. LeftBehind' = LeftBehind
    BY <2>1 DEF LeftBehind
  <2>. QED  BY <1>01, <2>1, <2>2, <2>3 DEF Promise!Work
<1>3. CASE Supervisor
  <2>1. /\ pc = "supervisor" /\ pc' \in PlanRoutes \cup {"finalize"}
        /\ UNCHANGED <<clarification_count, reply>>
        /\ pc' = "finalize" => last_result' \in {NoResult, last_result}
    <3>1. pc = "supervisor"
      BY <1>3 DEF Supervisor, AdvancePlan, EndUnplanned, PlanWorkflow, PlanByDecision,
                  PlanOutage
    <3>2. CASE AdvancePlan
      <4>1. plan_ready /\ RoutePlan(Advanced, FALSE, plan_note, spent) /\ spent \in BOOLEAN
        BY <3>2 DEF AdvancePlan, Advanced, TurnInv, TypeOK
      <4>2. Advanced \in Seq(PlanItem)
        BY <3>1, <4>1, AdvancedRoutable DEF Routable, WellShaped
      <4>. QED  BY <3>1, <4>1, <4>2, RoutedState
    <3>3. CASE EndUnplanned
      BY <3>3 DEF EndUnplanned, askVars, userVars
    <3>4. ASSUME NEW p \in Seq(FreshItem), NEW noProvider, NEW note, NEW s \in BOOLEAN,
                 RoutePlan(p, noProvider, note, s)
          PROVE  /\ pc' \in PlanRoutes \cup {"finalize"}
                 /\ UNCHANGED <<clarification_count, reply>>
                 /\ pc' = "finalize" => last_result' \in {NoResult, last_result}
      BY <3>4, FreshSkips, RoutedState
    <3>. QED  BY <1>3, <3>1, <3>2, <3>3, <3>4, SupervisorRoutes
  <2>2. pc' \notin {"idle", "memory_manager", "paused"} /\ Begun /\ Begun'
    BY <2>1 DEF PlanRoutes, Specialists, Begun
  <2>3. Phase = "working" /\ Phase' = "working" /\ Asked' = Asked
    BY <2>1, <2>2 DEF Phase, Asked
  <2>4. FinishedWork' \in SUBSET (1..(MAX_PLAN_STEPS + 1))
    BY <2>2, WorkIsCapped
  <2>5. FinishedWork \subseteq FinishedWork'
    <3>1. CASE ~plan_ready
      BY <2>1, <2>2, <3>1 DEF WorkInv, FinishedWork, IsWork
    <3>2. CASE plan_ready
      <4>1. AdvancePlan
        BY <1>3, <3>2 DEF Supervisor, EndUnplanned, PlanWorkflow, PlanByDecision, PlanOutage
      <4>2. \A i \in DOMAIN plan : plan[i].status # "pending" =>
               i \in DOMAIN plan' /\ plan'[i] = plan[i]
        BY <4>1, AdvanceStep
      <4>. QED  BY <2>2, <4>2 DEF FinishedWork
    <3>. QED  BY <3>1, <3>2
  <2>6. LeftBehind' \in {LeftBehind, FALSE}
    <3>1. pc' # "supervisor"
      BY <2>1 DEF PlanRoutes, Specialists
    <3>2. ASSUME LeftBehind' PROVE LeftBehind
      <4>1. /\ pc' = "finalize" /\ FinishedWork' = {} /\ last_result' # NoResult
        BY <2>2, <3>1, <3>2 DEF LeftBehind
      <4>2. ~AdvancePlan
        BY <2>2, <4>1, AdvanceLeavesWork DEF FinishedWork
      <4>3. ~plan_ready
        BY <1>3, <4>2 DEF Supervisor, EndUnplanned, PlanWorkflow, PlanByDecision, PlanOutage
      <4>. QED  BY <2>1, <4>1, <4>3 DEF LeftBehind
    <3>. QED  BY <3>2 DEF LeftBehind
  <2>7. pc' # "memory_manager"
    BY <2>1 DEF PlanRoutes, Specialists
  <2>. QED  BY <1>01, <2>1, <2>3, <2>4, <2>5, <2>6, <2>7 DEF Promise!Work
<1>4. CASE Specialist
  <2>1. /\ pc \in Specialists /\ pc' = "supervisor" /\ plan_ready'
        /\ UNCHANGED <<plan, clarification_count, reply>>
    BY <1>4, SpecialistReturns DEF planVars, askVars
  <2>2. pc \notin {"idle", "memory_manager", "paused"}
    BY <2>1 DEF Specialists
  <2>3. /\ Phase = "working" /\ Phase' = Phase /\ Asked' = Asked
        /\ FinishedWork' = FinishedWork
    BY <2>1, <2>2 DEF Phase, Asked, FinishedWork, Begun
  <2>4. LeftBehind = FALSE /\ LeftBehind' = FALSE
    BY <2>1 DEF LeftBehind, Specialists
  <2>5. FinishedWork' \in SUBSET (1..(MAX_PLAN_STEPS + 1))
    <3>1. Begun'
      BY <2>1 DEF Begun
    <3>. QED  BY <3>1, WorkIsCapped
  <2>. QED  BY <1>01, <2>1, <2>3, <2>4, <2>5 DEF Promise!Work
<1>5. CASE Interrupt
  <2>1. /\ pc = "clarification" /\ pc' = "paused" /\ reply' = Reply("question")
        /\ UNCHANGED <<plan, clarification_count>>
    BY <1>5 DEF Interrupt, planVars, askVars
  <2>2. clarification_count < MAX_CLARIFICATIONS_PER_TURN
    BY <2>1, AskingState
  <2>3. \A i \in DOMAIN plan : ~IsWork(plan, i)
    BY <2>1, AskingHasNoWork
  <2>4. /\ Phase = "working" /\ Phase' = "asking"
        /\ Asked = clarification_count /\ Asked' = Asked
        /\ FinishedWork = {} /\ FinishedWork' = FinishedWork /\ reply'.kind = "question"
    BY <2>1, <2>3 DEF Phase, Asked, FinishedWork, Begun, IsWork, Reply, NoReply
  <2>5. LeftBehind = FALSE /\ LeftBehind' = FALSE
    BY <2>1 DEF LeftBehind
  <2>. QED  BY <1>01, <2>1, <2>2, <2>4, <2>5 DEF Promise!Ask
<1>6. CASE Clarification
  <2>1. /\ pc = "paused" /\ pc' = "supervisor" /\ reply' = NoReply
        /\ last_result' = NoResult
        /\ clarification_count' = clarification_count + 1
        /\ DOMAIN plan' = DOMAIN plan
        /\ \A i \in DOMAIN plan : plan'[i].route = plan[i].route
    BY <1>0, <1>6 DEF Clarification, EdgeFrom, PlanItem
  <2>2. \A i \in DOMAIN plan : ~IsWork(plan, i)
    BY <2>1, AskingHasNoWork
  <2>3. /\ Phase = "asking" /\ Phase' = "working" /\ Asked' = Asked + 1
        /\ FinishedWork' = FinishedWork /\ reply'.kind = "none"
    BY <2>1, <2>2 DEF Phase, Asked, FinishedWork, Begun, IsWork, NoReply
  <2>4. LeftBehind = FALSE /\ LeftBehind' = FALSE
    BY <2>1 DEF LeftBehind
  <2>. QED  BY <1>01, <2>1, <2>3, <2>4 DEF Promise!Hear
<1>7. CASE Finalize
  <2>1. /\ pc = "finalize" /\ pc' = "idle" /\ reply' = FinalReply /\ last_result' = NoResult
    BY <1>7 DEF Finalize, EdgeFrom
  <2>2. /\ Phase = "working" /\ Phase' = "idle" /\ Asked' = 0 /\ FinishedWork' = {}
    BY <2>1 DEF Phase, Asked, FinishedWork, Begun
  <2>3. \/ reply'.kind = "answer" /\ HasContent
        \/ reply'.kind \in {"fallback", "outage", "earlier"}
    BY <2>1 DEF FinalReply, Reply, NoReply
  <2>4. reply'.kind # "earlier"
    BY <2>1, <2>3 DEF SpokenInv, AlwaysAnswered
  <2>5. HasContent => FinishedWork # {} \/ LeftBehind
    BY <2>1, AnswersHaveWork
  <2>6. LeftBehind' = FALSE
    BY <2>1 DEF LeftBehind
  <2>. QED  BY <1>01, <2>1, <2>2, <2>3, <2>4, <2>5, <2>6 DEF Promise!Close
<1>8. CASE NodeRaises
  <2>1. /\ pc \in {"convo", "sql", "research", "rag"} /\ pc' = "idle"
        /\ reply'.kind = "error" /\ last_result' = last_result
    BY <1>8 DEF NodeRaises, Stop, taskVars, Reply, NoReply
  <2>2. /\ Phase = "working" /\ Phase' = "idle" /\ Asked' = 0 /\ FinishedWork' = {}
    BY <2>1 DEF Phase, Asked, FinishedWork, Begun
  <2>3. LeftBehind' = FALSE
    BY <2>1 DEF LeftBehind, CalmInv
  <2>. QED  BY <1>01, <2>1, <2>2, <2>3 DEF Promise!Close
<1>9. CASE Crash
  <2>1. Crashes /\ pc \notin {"idle", "paused"} /\ pc' = "idle" /\ reply'.kind = "none"
    BY <1>9 DEF Crash, Stop, Nodes, PlanRoutes, Specialists, NoReply
  <2>2. /\ Phase = "working" /\ Phase' = "idle" /\ Asked' = 0 /\ FinishedWork' = {}
        /\ LeftBehind' \in BOOLEAN
    BY <2>1 DEF Phase, Asked, FinishedWork, Begun, LeftBehind
  <2>. QED  BY <1>01, <2>1, <2>2 DEF Promise!Break
<1>. QED
  BY <1>00, <1>1, <1>2, <1>3, <1>4, <1>5, <1>6, <1>7, <1>8, <1>9 DEF Next, GraphStep, Rest

\* A thread keeps the contract with its user, for every cap, workflow and
\* request: a message takes a bounded number of steps, work is never undone,
\* questions come before any work, and an answer has work behind it - or, when
\* processes may stop in the middle of a turn, the result that one of them left,
\* reported once (graph/workflow.py with all its nodes).
THEOREM ThreadKeepsContract == Spec => KeepsContract
<1>1. Init => Promise!ContractInit
  <2>. SUFFICES ASSUME Init PROVE Promise!ContractInit
    OBVIOUS
  <2>1. pc = "idle" /\ last_result = NoResult /\ reply.kind = "none"
    BY DEF Init, NoReply
  <2>2. Phase = "idle" /\ Asked = 0 /\ FinishedWork = {}
    BY <2>1 DEF Phase, Asked, FinishedWork, Begun
  <2>3. StepsLeft = 0
    BY <2>1 DEF StepsLeft, PlanRoutes, Specialists
  <2>4. LeftBehind = FALSE
    BY <2>1 DEF LeftBehind
  <2>. QED  BY <2>1, <2>2, <2>3, <2>4 DEF Promise!ContractInit
<1>2. TurnInv /\ TurnInv' /\ SpokenInv' /\ CalmInv /\ WorkInv /\ [Next]_vars
      => [Promise!ContractNext]_Promise!contractVars
  BY StepKeepsPromise
<1>. QED
  BY <1>1, <1>2, WorkInductive, TurnInvariant, SpokenInductive, CalmInvariant, PTL
  DEF Spec, KeepsContract, Promise!ContractSpec
=============================================================================
