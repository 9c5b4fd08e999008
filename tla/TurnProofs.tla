------------------------------ MODULE TurnProofs ------------------------------
(***************************************************************************)
(* Proofs about Turn for every number of steps, questions and turns.  One  *)
(* inductive invariant, TurnInv, carries the safety theorems: it adds to   *)
(* the properties what keeps them true, namely the shape of the plan, what *)
(* the scheduled node has to do with its first pending step, and how far   *)
(* the hop counter may have come when that step is reached.                *)
(***************************************************************************)
EXTENDS TurnRefinement, PlanProofs

USE BoundsAssumption

\* The route of the step being carried out; a paused thread is in its question.
Running == IF pc = "paused" THEN "clarification" ELSE pc

\* Nothing is planned yet, or the question asked first has been answered.
UnplannedInv ==
    pc = "supervisor" /\ ~plan_ready => hops <= clarification_count /\ Pending(plan) = {}

\* A node runs the first pending step of a ready plan; a clarification's
\* question is stored by then.
RunningInv ==
    pc \in PlanRoutes \cup {"paused"} =>
        /\ plan_ready /\ NextPending(plan) # 0
        /\ plan[NextPending(plan)].route = Running
        /\ Running = "clarification" => clarification_question

\* Each hop reaches a step further down the plan, each answered question
\* allows one more.
HopsInv ==
    plan_ready /\ pc \in PlanRoutes \cup {"paused", "supervisor"} =>
        hops <= clarification_count + NextPending(plan)

TurnInv ==
    /\ TypeOK
    /\ HopsWithinBudget
    /\ clarification_count <= MAX_CLARIFICATIONS_PER_TURN
    /\ Begun => WellShaped(plan, clarification_count)
    /\ UnplannedInv
    /\ RunningInv
    /\ pc = "supervisor" /\ plan_ready => last_result # NoResult
    /\ ResultMatchesStep
    /\ HopsInv
    /\ NothingPendingAtEnd

-----------------------------------------------------------------------------
(* The supervisor.                                                         *)

\* The three backstops of every visit only finish pending steps, and what is
\* pending after them was pending before or is a chart added at the end.
LEMMA SettledShape ==
    ASSUME turn_count \in Nat, req \in Request,
           NEW p, NEW count \in Nat, WellShaped(p, count), NEW s \in BOOLEAN
    PROVE  LET q == Settled(p, s)
           IN  /\ WellShaped(q, count) /\ DOMAIN p \subseteq DOMAIN q
               /\ \A i \in DOMAIN p : p[i].status # "pending" => q[i] = p[i]
               /\ \A i \in Pending(q) : i \in Pending(p) \/ \A j \in DOMAIN p : j < i
               /\ p = <<>> => Pending(q) = {}
<1>. DEFINE a == MaybeInsertVisu(p, req.chart)
            b == SkipBlockedSteps(a, turn_count)
            q == SkipUnbudgetedVisu(b, s, turn_count)
<1>0. req.chart \in BOOLEAN
  BY DEF Request
<1>1. /\ WellShaped(a, count)
      /\ DOMAIN p \subseteq DOMAIN a /\ \A i \in DOMAIN p : a[i] = p[i]
      /\ \A i \in DOMAIN a \ DOMAIN p : \A j \in DOMAIN p : j < i
      /\ p = <<>> => a = <<>>
  BY <1>0, InsertVisuShape
<1>. HIDE DEF a
<1>2. a \in Seq(PlanItem) /\ Settles(a, b)
  BY <1>1, SkipBlockedSettles DEF WellShaped
<1>. HIDE DEF b
<1>3. b \in Seq(PlanItem) /\ Settles(b, q)
  BY <1>2, SkipUnbudgetedSettles DEF Settles
<1>. HIDE DEF q
<1>4. Settles(a, q)
  BY <1>2, <1>3, SettlesTransitive
<1>5. WellShaped(q, count) /\ Pending(q) \subseteq Pending(a) /\ DOMAIN q = DOMAIN a
  BY <1>1, <1>4, SettlesShape
<1>6. \A i \in DOMAIN p : p[i].status # "pending" => q[i] = p[i]
  BY <1>1, <1>4 DEF Settles
<1>7. \A i \in Pending(q) : i \in Pending(p) \/ \A j \in DOMAIN p : j < i
  BY <1>1, <1>5 DEF Pending
<1>8. p = <<>> => Pending(q) = {}
  BY <1>1, <1>5, EmptyPlanShape
<1>. QED
  BY <1>1, <1>5, <1>6, <1>7, <1>8 DEF Settled, a, b, q

\* What RoutePlan needs in order to keep the invariant: a well-shaped plan, no
\* work after an outage, and a hop left for every step still to run.
Routable(p, noProvider) ==
    /\ WellShaped(p, clarification_count)
    /\ noProvider => p = <<>>
    /\ \A i \in Nat \ {0} :
          i \in Pending(p) \/ (\A j \in DOMAIN p : j < i)
             => hops < clarification_count + i

\* The history stays a list of TaskRecords when a result is recorded.
LEMMA RecordedHistoryType ==
    ASSUME TypeOK
    PROVE  RecordedHistory \in Seq(TaskRecord)
<1>1. ASSUME last_result # NoResult, current_task # Blank
      PROVE  [turn |-> turn_count, route |-> last_result.source,
              task |-> current_task, status |-> last_result.status,
              text |-> last_result.text] \in TaskRecord
  BY <1>1 DEF TypeOK, TaskRecord, SpecialistResult
<1>. DEFINE record == [turn |-> turn_count, route |-> last_result.source,
                       task |-> current_task, status |-> last_result.status,
                       text |-> last_result.text]
<1>2. ASSUME record \in TaskRecord PROVE Append(task_history, record) \in Seq(TaskRecord)
  <2>. HIDE DEF record
  <2>. QED  BY <1>2 DEF TypeOK
<1>. QED
  BY <1>1, <1>2 DEF RecordedHistory, TypeOK

\* What a routed chart step gets is a SpecialistResult or none.
LEMMA VisuInputType ==
    ASSUME TypeOK, NEW p \in Seq(PlanItem), NEW i \in DOMAIN p
    PROVE  VisuInput(p, i) \in SpecialistResult \cup {NoResult}
<1>. DEFINE source == RowsUpstreamIndex(p, i)
<1>1. ASSUME source # 0 PROVE p[source].rows \in Nat
  <2>. DEFINE sources == {j \in UpstreamSql(p, i) : p[j].status = "done" /\ p[j].rows # 0}
  <2>1. sources # {} /\ source = Greatest(sources)
    BY <1>1 DEF RowsUpstreamIndex
  <2>2. i - 1 \in Nat /\ sources \in SUBSET (1..(i - 1))
    BY DEF UpstreamSql
  <2>3. source \in 1..(i - 1)
    <3>. HIDE DEF sources
    <3>. QED  BY <2>1, <2>2, GreatestExists
  <2>4. source \in DOMAIN p
    BY <2>3
  <2>. QED  BY <2>4, ItemType
<1>. HIDE DEF source
<1>2. ASSUME source # 0
      PROVE  [source |-> "sql", status |-> "done", text |-> turn_count,
              rows |-> p[source].rows] \in SpecialistResult
  BY <1>1, <1>2 DEF TypeOK, SpecialistResult, Specialists
<1>. QED
  BY <1>2 DEF VisuInput, TypeOK, source

\* However a plan came about, routing it keeps the invariant and never cuts
\* the turn short: the hop cap is out of reach.
LEMMA RoutePlanKeepsInv ==
    ASSUME TurnInv, pc = "supervisor",
           NEW p, NEW noProvider \in BOOLEAN, NEW note \in SUBSET PlanRoutes,
           NEW s \in BOOLEAN, Routable(p, noProvider), RoutePlan(p, noProvider, note, s)
    PROVE  /\ TurnInv'
           /\ plan' = Settled(p, s)
<1>. DEFINE settled == Settled(p, s)
            i       == NextPending(settled)
            wanted  == ~noProvider /\ i # 0
            capped  == wanted /\ hops + 1 > MAX_HOPS
            routed  == wanted /\ ~capped
            count   == clarification_count
<1>1. TypeOK /\ count \in Nat /\ count <= MAX_CLARIFICATIONS_PER_TURN /\ hops \in Nat
  BY DEF TurnInv, TypeOK
<1>2. /\ WellShaped(settled, count) /\ DOMAIN p \subseteq DOMAIN settled
      /\ \A k \in Pending(settled) : k \in Pending(p) \/ \A j \in DOMAIN p : j < k
      /\ p = <<>> => Pending(settled) = {}
  <2>1. turn_count \in Nat /\ req \in Request /\ WellShaped(p, count)
    BY <1>1 DEF TypeOK, Routable
  <2>. QED  BY <1>1, <2>1, SettledShape
<1>3. /\ plan' = IF capped THEN CutShort(settled) ELSE settled
      /\ plan_ready' = TRUE
      /\ plan_note' = note
      /\ hops' = IF wanted THEN hops + 1 ELSE hops
      /\ turn_cut_short' = (turn_cut_short \/ capped)
      /\ outage' = (outage \/ noProvider)
      /\ pc' = IF routed THEN settled[i].route ELSE "finalize"
      /\ current_task' = IF routed THEN settled[i].task ELSE Blank
      /\ last_result' = IF ~routed THEN last_result
                        ELSE IF settled[i].route = "visu" THEN VisuInput(settled, i)
                        ELSE NoResult
      /\ clarification_question' =
            (clarification_question \/ (routed /\ settled[i].route = "clarification"))
      /\ spent' \in {s, TRUE}
      /\ task_history' = RecordedHistory
      /\ UNCHANGED <<turn_count, clarification_count, chart_path, userVars>>
  BY DEF RoutePlan
<1>. HIDE DEF settled
<1>4. settled \in Seq(PlanItem)
  BY <1>2 DEF WellShaped
<1>5. ASSUME i # 0
      PROVE  i \in Pending(settled) /\ i \in DOMAIN settled /\ i \in Nat \ {0}
             /\ settled[i].route \in PlanRoutes /\ settled[i].task \in AnyTask
             /\ i <= MAX_PLAN_STEPS + 1
  <2>1. i \in Pending(settled) /\ i \in 1..Len(settled)
    BY <1>4, <1>5, NextPendingFirst
  <2>2. i \in DOMAIN settled
    BY <2>1 DEF Pending
  <2>3. Len(settled) <= MAX_PLAN_STEPS + 1 /\ Len(settled) \in Nat
    BY <1>2, <1>4 DEF WellShaped, WithinCap
  <2>. HIDE DEF i
  <2>. QED  BY <1>4, <2>1, <2>2, <2>3, ItemType
<1>. HIDE DEF i
<1>6. i # 0 => hops + 1 <= count + i
  BY <1>1, <1>2, <1>5 DEF Routable
<1>7. ~ capped
  BY <1>1, <1>5, <1>6 DEF MAX_HOPS
<1>8. plan' = settled
  BY <1>3, <1>7
<1>9. CASE wanted
  <2>1. /\ routed /\ i # 0 /\ hops' = hops + 1 /\ ~turn_cut_short' /\ plan_ready'
        /\ pc' = settled[i].route /\ pc' \in PlanRoutes
        /\ clarification_count' = count
    BY <1>3, <1>5, <1>7, <1>9 DEF TurnInv, HopsWithinBudget
  <2>2. TypeOK'
    <3>1. last_result' \in SpecialistResult \cup {NoResult}
      BY <1>1, <1>3, <1>4, <1>5, <2>1, VisuInputType
    <3>2. current_task' \in AnyTask
      BY <1>3, <1>5, <2>1
    <3>3. task_history' \in Seq(TaskRecord)
      BY <1>1, <1>3, RecordedHistoryType
    <3>4. /\ pc' \in Nodes /\ turn_count' \in Nat /\ plan' \in Seq(PlanItem)
          /\ plan_ready' \in BOOLEAN /\ plan_note' \in SUBSET PlanRoutes
          /\ hops' \in Nat /\ turn_cut_short' \in BOOLEAN /\ clarification_count' \in Nat
      BY <1>1, <1>3, <1>4, <1>8, <2>1 DEF TypeOK, Nodes
    <3>5. outage' \in BOOLEAN /\ spent' \in BOOLEAN /\ clarification_question' \in BOOLEAN
      BY <1>1, <1>3 DEF TypeOK
    <3>6. /\ chart_path' \in Nat /\ req' \in Request /\ said' \in {"human", "ai", "silent"}
          /\ reply'.kind \in ReplyKinds
      BY <1>1, <1>3 DEF TypeOK, userVars
    <3>. QED
      BY <3>1, <3>2, <3>3, <3>4, <3>5, <3>6 DEF TypeOK
  <2>3. HopsWithinBudget' /\ HopsInv'
    <3>1. hops' <= count + i /\ hops' <= MAX_HOPS
      BY <1>1, <1>5, <1>6, <2>1 DEF MAX_HOPS
    <3>. QED
      BY <1>8, <2>1, <3>1 DEF HopsWithinBudget, HopsInv, MAX_HOPS, i
  <2>4. WellShaped(plan', clarification_count')
    BY <1>2, <1>8, <2>1
  <2>5. RunningInv'
    <3>1. pc' \in Specialists \cup {"clarification"} /\ pc' # "paused"
      BY <2>1 DEF PlanRoutes, Specialists
    <3>2. Running' = pc'
      BY <3>1 DEF Running
    <3>3. pc' = "clarification" => clarification_question'
      BY <1>3, <2>1
    <3>. QED  BY <1>8, <2>1, <3>2, <3>3 DEF RunningInv, i
  <2>6. pc' \notin {"supervisor", "finalize"}
    BY <2>1 DEF PlanRoutes, Specialists
  <2>. QED
    BY <1>1, <1>8, <2>1, <2>2, <2>3, <2>4, <2>5, <2>6
    DEF TurnInv, UnplannedInv, ResultMatchesStep, NothingPendingAtEnd, settled
<1>10. CASE ~wanted
  <2>1. /\ hops' = hops /\ ~turn_cut_short' /\ plan_ready'
        /\ pc' = "finalize" /\ current_task' = Blank /\ last_result' = last_result
        /\ clarification_count' = count
    BY <1>3, <1>7, <1>10 DEF TurnInv, HopsWithinBudget
  <2>2. TypeOK'
    <3>1. task_history' \in Seq(TaskRecord)
      BY <1>1, <1>3, RecordedHistoryType
    <3>. QED
      BY <1>1, <1>3, <1>4, <1>7, <1>8, <2>1, <3>1 DEF TypeOK, userVars, Nodes, AnyTask
  <2>3. WellShaped(plan', clarification_count')
    BY <1>2, <1>8, <2>1
  <2>4. Pending(plan') = {}
    <3>1. CASE noProvider
      BY <1>2, <1>8, <3>1 DEF Routable
    <3>2. CASE i = 0
      <4>1. Pending(settled) # {} => NextPending(settled) \in Pending(settled)
        BY <1>4, NextPendingFirst
      <4>2. 0 \notin Pending(settled)
        BY <1>4 DEF Pending
      <4>. QED  BY <1>8, <3>2, <4>1, <4>2 DEF i
    <3>. QED  BY <1>10, <3>1, <3>2
  <2>5. pc' \notin PlanRoutes \cup {"paused", "supervisor"}
    BY <2>1 DEF PlanRoutes, Specialists
  <2>6. HopsWithinBudget'
    BY <2>1 DEF HopsWithinBudget, TurnInv, MAX_HOPS
  <2>. QED
    BY <1>1, <1>8, <2>1, <2>2, <2>3, <2>4, <2>5, <2>6
    DEF TurnInv, UnplannedInv, RunningInv, ResultMatchesStep, HopsInv,
        NothingPendingAtEnd, settled
<1>. QED
  BY <1>9, <1>10

\* The plan an AdvancePlan step routes: the finished step is written into it.
Advanced == IF last_result # NoResult THEN CompleteCurrentStep(plan, last_result) ELSE plan

\* A step comes back with a hop left for every step after it.
LEMMA AdvancedRoutable ==
    ASSUME TurnInv, pc = "supervisor", plan_ready
    PROVE  /\ Routable(Advanced, FALSE) /\ Settles(plan, Advanced)
           /\ Pending(Advanced) = Pending(plan) \ {NextPending(plan)}
<1>. DEFINE p == Advanced
            n == NextPending(plan)
<1>1. /\ plan \in Seq(PlanItem) /\ last_result \in SpecialistResult
      /\ clarification_count \in Nat /\ hops \in Nat
      /\ WellShaped(plan, clarification_count)
      /\ n # 0 /\ hops <= clarification_count + n
  BY DEF TurnInv, TypeOK, Begun, ResultMatchesStep, HopsInv
<1>2. p = CompleteCurrentStep(plan, last_result)
  BY DEF TurnInv, Advanced
<1>. HIDE DEF p
<1>3. Settles(plan, p) /\ Pending(p) = Pending(plan) \ {n}
  BY <1>1, <1>2, CompleteSettles
<1>4. WellShaped(p, clarification_count) /\ DOMAIN p = DOMAIN plan
  BY <1>1, <1>3, SettlesShape
<1>5. n \in Pending(plan) /\ n \in DOMAIN plan /\ n \in Nat
      /\ \A j \in Pending(plan) : n <= j
  <2>1. Pending(plan) # {}
    BY <1>1, NextPendingFirst
  <2>. QED  BY <1>1, <2>1, NextPendingFirst DEF Pending
<1>. HIDE DEF n
<1>6. ASSUME NEW i \in Nat \ {0}, i \in Pending(p) \/ (\A j \in DOMAIN p : j < i)
      PROVE  hops < clarification_count + i
  <2>1. n < i
    BY <1>3, <1>4, <1>5, <1>6
  <2>. QED  BY <1>1, <1>5, <2>1
<1>7. Routable(p, FALSE)
  BY <1>4, <1>6 DEF Routable
<1>. QED
  BY <1>3, <1>7 DEF p, n

\* Every plan made from nothing leaves a hop for each of its steps.
LEMMA FreshRoutable ==
    ASSUME TurnInv, pc = "supervisor", ~plan_ready,
           NEW p, WellShaped(p, clarification_count),
           NEW noProvider \in BOOLEAN, noProvider => p = <<>>
    PROVE  Routable(p, noProvider)
<1>1. hops <= clarification_count /\ hops \in Nat /\ clarification_count \in Nat
  BY DEF TurnInv, TypeOK, UnplannedInv
<1>. QED
  BY <1>1 DEF Routable

\* A plan from the LLM, validated and capped, is one RoutePlan may route.
LEMMA AdoptPlanKeepsInv ==
    ASSUME TurnInv, pc = "supervisor", ~plan_ready,
           NEW p \in Seq(PlanItem), NEW s \in BOOLEAN, AdoptPlan(p, s)
    PROVE  TurnInv'
<1>. DEFINE valid  == ValidatePlan(p, req.numbers)
            capped == ApplyClarificationCap(valid.plan, clarification_count)
<1>1. req.numbers \in BOOLEAN /\ clarification_count \in Nat
  BY DEF TurnInv, TypeOK, Request
<1>2. /\ valid.plan \in Seq(PlanItem) /\ valid.note \in SUBSET PlanRoutes
      /\ Len(valid.plan) <= MAX_PLAN_STEPS
      /\ QuestionsAlone(valid.plan)
  BY <1>1, ValidatePlanShape
<1>3. RoutePlan(capped, FALSE, valid.note, s)
  BY DEF AdoptPlan
<1>. HIDE DEF valid
<1>4. WellShaped(capped, clarification_count)
  BY <1>1, <1>2, ClarificationCapShape
<1>. HIDE DEF capped
<1>5. Routable(capped, FALSE)
  BY <1>4, FreshRoutable
<1>. QED
  BY <1>2, <1>3, <1>5, RoutePlanKeepsInv

\* However supervisor_agent leaves a visit, the invariant holds.
LEMMA SupervisorKeepsInv ==
    ASSUME TurnInv, Supervisor
    PROVE  TurnInv'
<1>1. pc = "supervisor" /\ TypeOK /\ clarification_count \in Nat
  BY DEF Supervisor, AdvancePlan, EndUnplanned, PlanWorkflow, PlanByDecision, PlanOutage,
         TurnInv, TypeOK
<1>2. CASE AdvancePlan
  <2>1. plan_ready /\ RoutePlan(Advanced, FALSE, plan_note, spent)
    BY <1>2 DEF AdvancePlan, Advanced
  <2>2. Routable(Advanced, FALSE)
    BY <1>1, <2>1, AdvancedRoutable
  <2>3. plan_note \in SUBSET PlanRoutes /\ spent \in BOOLEAN
    BY <1>1 DEF TypeOK
  <2>. QED  BY <1>1, <2>1, <2>2, <2>3, RoutePlanKeepsInv
<1>3. CASE EndUnplanned
  <2>1. /\ ~plan_ready /\ pc' = "finalize" /\ current_task' = Blank /\ plan_ready' = TRUE
        /\ task_history' = RecordedHistory
        /\ UNCHANGED <<turn_count, plan, plan_note, hops, turn_cut_short, last_result,
                       askVars, chart_path, outage, spent, userVars>>
    BY <1>3 DEF EndUnplanned
  <2>2. TypeOK'
    <3>1. task_history' \in Seq(TaskRecord)
      BY <1>1, <2>1, RecordedHistoryType
    <3>. QED  BY <1>1, <2>1, <3>1 DEF TypeOK, userVars, askVars, Nodes, AnyTask
  <2>3. Pending(plan') = {} /\ WellShaped(plan', clarification_count')
    BY <1>1, <2>1 DEF TurnInv, UnplannedInv, Begun, askVars
  <2>. QED
    BY <1>1, <2>1, <2>2, <2>3
    DEF TurnInv, HopsWithinBudget, UnplannedInv, RunningInv, ResultMatchesStep, HopsInv,
        NothingPendingAtEnd, askVars, PlanRoutes, Specialists
<1>4. CASE PlanWorkflow
  <2>1. PICK steps \in Workflows, s \in BOOLEAN : AdoptPlan(PlanFromWorkflow(steps), s)
    BY <1>4 DEF PlanWorkflow
  <2>2. PlanFromWorkflow(steps) \in Seq(PlanItem)
    BY InputsAssumption, PlanFromWorkflowType
  <2>. QED  BY <1>1, <1>4, <2>1, <2>2, AdoptPlanKeepsInv DEF PlanWorkflow
<1>5. CASE PlanByDecision
  <2>1. ~plan_ready
    BY <1>5 DEF PlanByDecision
  <2>2. ASSUME NEW route \in PlanRoutes, NEW task \in AnyTask, NEW src \in DataSources,
               NEW s \in BOOLEAN, AdoptPlan(<<NewItem(route, task, src)>>, s)
        PROVE  TurnInv'
    <3>1. <<NewItem(route, task, src)>> \in Seq(PlanItem)
      BY NewItemType
    <3>. QED  BY <1>1, <2>1, <2>2, <3>1, AdoptPlanKeepsInv
  <2>3. PICK s \in BOOLEAN :
           \/ \E route \in PlanRoutes, task \in Tasks \cup {Blank} :
                AdoptPlan(<<NewItem(route, task, IF route = "visu" THEN "inline" ELSE "none")>>, s)
           \/ RoutePlan(<<>>, FALSE, plan_note, s)
           \/ AdoptPlan(<<DefaultStep>>, s)
    BY <1>5 DEF PlanByDecision
  <2>4. CASE \E route \in PlanRoutes, task \in Tasks \cup {Blank} :
                AdoptPlan(<<NewItem(route, task, IF route = "visu" THEN "inline" ELSE "none")>>, s)
    <3>1. PICK route \in PlanRoutes, task \in Tasks \cup {Blank} :
             AdoptPlan(<<NewItem(route, task, IF route = "visu" THEN "inline" ELSE "none")>>, s)
      BY <2>4
    <3>2. task \in AnyTask /\ (IF route = "visu" THEN "inline" ELSE "none") \in DataSources
      BY DEF AnyTask, DataSources
    <3>. QED  BY <2>2, <3>1, <3>2
  <2>5. CASE RoutePlan(<<>>, FALSE, plan_note, s)
    <3>1. Routable(<<>>, FALSE)
      BY <1>1, <2>1, EmptyPlanShape, FreshRoutable
    <3>2. plan_note \in SUBSET PlanRoutes
      BY <1>1 DEF TypeOK
    <3>. QED  BY <1>1, <2>5, <3>1, <3>2, RoutePlanKeepsInv
  <2>6. CASE AdoptPlan(<<DefaultStep>>, s)
    <3>1. AdoptPlan(<<NewItem(IF req.sensitive THEN "sql" ELSE "convo", Canned, "none")>>, s)
      BY <2>6 DEF DefaultStep
    <3>2. /\ (IF req.sensitive THEN "sql" ELSE "convo") \in PlanRoutes
          /\ Canned \in AnyTask /\ "none" \in DataSources
      BY DEF PlanRoutes, Specialists, AnyTask, DataSources
    <3>. QED  BY <2>2, <3>1, <3>2
  <2>. QED  BY <2>3, <2>4, <2>5, <2>6
<1>6. CASE PlanOutage
  <2>1. PICK s \in BOOLEAN : RoutePlan(<<>>, TRUE, plan_note, s)
    BY <1>6 DEF PlanOutage
  <2>2. ~plan_ready /\ plan_note \in SUBSET PlanRoutes
    BY <1>1, <1>6 DEF PlanOutage, TypeOK
  <2>3. Routable(<<>>, TRUE)
    BY <1>1, <2>2, EmptyPlanShape, FreshRoutable
  <2>. QED  BY <1>1, <2>1, <2>2, <2>3, RoutePlanKeepsInv
<1>. QED
  BY <1>2, <1>3, <1>4, <1>5, <1>6 DEF Supervisor

-----------------------------------------------------------------------------
(* The specialists.                                                        *)

\* A result goes back under the name of the node that ran, to the step it ran for.
LEMMA ReturnKeepsInv ==
    ASSUME TurnInv, pc \in Specialists, NEW result \in SpecialistResult,
           result.source = pc, Return(result),
           said' \in {"human", "ai", "silent"}, chart_path' \in Nat, spent' \in BOOLEAN
    PROVE  TurnInv'
<1>1. /\ pc' = "supervisor" /\ last_result' = result /\ result # NoResult
      /\ UNCHANGED <<turn_count, planVars, current_task, task_history, askVars, outage,
                     req, reply>>
  BY InputsAssumption DEF Return, EdgeFrom, Specialists
<1>2. /\ TypeOK /\ pc \in PlanRoutes /\ Begun /\ pc # "paused"
  BY DEF TurnInv, PlanRoutes, Specialists, Begun
<1>3. TypeOK'
  BY <1>1, <1>2 DEF TypeOK, planVars, askVars, Nodes
<1>4. /\ plan_ready /\ NextPending(plan) # 0 /\ plan[NextPending(plan)].route = pc
      /\ hops <= clarification_count + NextPending(plan)
      /\ WellShaped(plan, clarification_count)
      /\ clarification_count <= MAX_CLARIFICATIONS_PER_TURN
  BY <1>2 DEF TurnInv, RunningInv, HopsInv, Running
<1>5. UNCHANGED <<plan, plan_ready, hops, turn_cut_short, clarification_count>>
  BY <1>1 DEF planVars, askVars
<1>6. HopsWithinBudget'
  BY <1>5 DEF TurnInv, HopsWithinBudget, MAX_HOPS
<1>. QED
  BY <1>1, <1>3, <1>4, <1>5, <1>6
  DEF TurnInv, UnplannedInv, RunningInv, ResultMatchesStep, HopsInv, NothingPendingAtEnd,
      PlanRoutes, Specialists

\* A result built by a specialist is a SpecialistResult under its own name.
LEMMA ResultType ==
    ASSUME TypeOK, NEW source \in Specialists, NEW status \in {"done", "partial", "failed"},
           NEW text \in {0, turn_count}, NEW rows \in {0, hops}
    PROVE  /\ Result(source, status, text, rows) \in SpecialistResult
           /\ Result(source, status, text, rows).source = source
  BY DEF TypeOK, Result, SpecialistResult

\* However a specialist ends, its result goes to the step it ran for.
LEMMA SpecialistKeepsInv ==
    ASSUME TurnInv, Specialist
    PROVE  TurnInv'
<1>. DEFINE Answered(result) == /\ result \in SpecialistResult /\ result.source = pc
                                /\ Return(result)
<1>1. /\ TypeOK /\ pc \in Specialists /\ turn_count \in Nat /\ hops \in Nat
      /\ said \in {"human", "ai", "silent"} /\ spent \in BOOLEAN /\ chart_path \in Nat
  BY DEF TurnInv, TypeOK, Specialist, Convo, RAG, SqlAgent, ResearchNode, Visualization,
         Specialists
<1>2. ASSUME NEW result, Answered(result), said' \in {"human", "ai", "silent"},
             chart_path' \in Nat, spent' \in BOOLEAN
      PROVE  TurnInv'
  BY <1>1, <1>2, ReturnKeepsInv
<1>. DEFINE SomeAnswer == \E status \in {"done", "partial", "failed"},
                             text \in {0, turn_count}, rows \in {0, hops} :
                             Return(Result(pc, status, text, rows))
<1>3. ASSUME SomeAnswer PROVE \E result : Answered(result)
  BY <1>1, <1>3, ResultType
<1>4. Convo => SomeAnswer /\ said' \in {"human", "ai", "silent"} /\ chart_path' \in Nat
               /\ spent' \in BOOLEAN
  BY <1>1 DEF Convo, LLMAnswers, OverBudget, Failure
<1>5. RAG => SomeAnswer /\ said' \in {"human", "ai", "silent"} /\ chart_path' \in Nat
             /\ spent' \in BOOLEAN
  BY <1>1 DEF RAG, LLMAnswers, OverBudget, Failure
<1>6. SqlAgent => SomeAnswer /\ said' \in {"human", "ai", "silent"} /\ chart_path' \in Nat
                  /\ spent' \in BOOLEAN
  BY <1>1 DEF SqlAgent, LLMAnswers, OverBudget, Failure
<1>7. ResearchNode => SomeAnswer /\ said' \in {"human", "ai", "silent"} /\ chart_path' \in Nat
                      /\ spent' \in BOOLEAN
  BY <1>1 DEF ResearchNode, LLMAnswers, OverBudget, Failure
<1>8. last_result # NoResult => last_result.rows \in Nat
  BY <1>1 DEF TypeOK, SpecialistResult
<1>9. Visualization => SomeAnswer /\ said' \in {"human", "ai", "silent"} /\ chart_path' \in Nat
                       /\ spent' \in BOOLEAN
  <2>. SUFFICES ASSUME Visualization
                PROVE  SomeAnswer /\ said' = said /\ chart_path' \in Nat /\ spent' \in BOOLEAN
    BY <1>1
  <2>1. said' = said /\ pc = "visu"
    BY DEF Visualization
  <2>2. chart_path' \in Nat /\ spent' \in BOOLEAN
    <3>1. \/ last_result # NoResult /\ chart_path' = last_result.rows
          \/ chart_path' = hops \/ chart_path' = 0
      BY DEF Visualization, HasRows
    <3>2. spent' = spent \/ LLMAnswers \/ OverBudget
      BY DEF Visualization
    <3>3. chart_path' \in Nat
      BY <1>1, <1>8, <3>1
    <3>. QED  BY <1>1, <3>2, <3>3 DEF LLMAnswers, OverBudget
  <2>3. \E status \in {"done", "failed"} : Return(Result(pc, status, turn_count, 0))
    BY <2>1 DEF Visualization, Failure
  <2>. QED  BY <2>1, <2>2, <2>3
<1>. HIDE DEF Answered, SomeAnswer
<1>. QED
  BY <1>2, <1>3, <1>4, <1>5, <1>6, <1>7, <1>9 DEF Specialist

-----------------------------------------------------------------------------
(* The rest of the graph, and the user.                                    *)

\* A new message, also one that abandons a question, keeps the invariant.
LEMMA NewMessageKeepsInv ==
    ASSUME TurnInv, NewMessage PROVE TurnInv'
<1>1. /\ pc' = "memory_manager" /\ req' \in Request /\ said' = "human" /\ reply' = NoReply
      /\ spent' = FALSE
      /\ UNCHANGED <<turn_count, planVars, taskVars, askVars, chart_path, outage>>
  BY InputsAssumption DEF NewMessage
<1>2. TypeOK'
  BY <1>1 DEF TurnInv, TypeOK, planVars, taskVars, askVars, Nodes, NoReply, ReplyKinds
<1>. QED
  BY <1>1, <1>2
  DEF TurnInv, HopsWithinBudget, Begun, UnplannedInv, RunningInv, ResultMatchesStep,
      HopsInv, NothingPendingAtEnd, planVars, askVars, PlanRoutes, Specialists

\* Pausing at the question keeps the invariant.
LEMMA InterruptKeepsInv ==
    ASSUME TurnInv, Interrupt PROVE TurnInv'
<1>1. /\ pc = "clarification" /\ pc' = "paused" /\ reply' = Reply("question")
      /\ UNCHANGED <<turn_count, planVars, taskVars, askVars, chart_path, outage,
                     spent, req, said>>
  BY DEF Interrupt
<1>2. TypeOK'
  BY <1>1 DEF TurnInv, TypeOK, planVars, taskVars, askVars, Nodes, NoReply, Reply, ReplyKinds
<1>3. RunningInv'
  BY <1>1 DEF TurnInv, RunningInv, Running, planVars, askVars, PlanRoutes
<1>. QED
  BY <1>1, <1>2, <1>3
  DEF TurnInv, HopsWithinBudget, Begun, UnplannedInv, ResultMatchesStep,
      HopsInv, NothingPendingAtEnd, planVars, askVars, PlanRoutes

\* A turn starts without a plan, without hops and with its questions left.
LEMMA MemoryManagerKeepsInv ==
    ASSUME TurnInv, MemoryManager PROVE TurnInv'
<1>. DEFINE recent == {i \in DOMAIN task_history :
                          task_history[i].turn + TASK_HISTORY_KEEP_TURNS > turn_count + 1}
<1>1. /\ pc = "memory_manager" /\ pc' = "supervisor" /\ turn_count' = turn_count + 1
      /\ clarification_count' = 0 /\ chart_path' = 0
      /\ plan' = <<>> /\ plan_ready' = FALSE /\ plan_note' = {}
      /\ hops' = 0 /\ turn_cut_short' = FALSE
      /\ task_history' = Pick(task_history, recent)
      /\ spent' \in BOOLEAN
      /\ UNCHANGED <<current_task, last_result, clarification_question, outage, userVars>>
  BY DEF MemoryManager, EdgeFrom
<1>2. task_history' \in Seq(TaskRecord)
  <2>1. task_history \in Seq(TaskRecord) /\ recent \in SUBSET DOMAIN task_history
    BY DEF TurnInv, TypeOK
  <2>. HIDE DEF recent
  <2>. QED  BY <1>1, <2>1, PickIsSeq
<1>. HIDE DEF recent
<1>3. TypeOK'
  <2>1. plan' \in Seq(PlanItem) /\ turn_count' \in Nat
    BY <1>1 DEF TurnInv, TypeOK
  <2>. QED  BY <1>1, <1>2, <2>1 DEF TurnInv, TypeOK, userVars, Nodes
<1>4. WellShaped(plan', clarification_count') /\ Pending(plan') = {}
  BY <1>1, EmptyPlanShape
<1>. QED
  BY <1>1, <1>3, <1>4
  DEF TurnInv, HopsWithinBudget, UnplannedInv, RunningInv, ResultMatchesStep,
      HopsInv, NothingPendingAtEnd, MAX_HOPS, PlanRoutes, Specialists

\* Finalizing leaves a thread at rest.
LEMMA FinalizeKeepsInv ==
    ASSUME TurnInv, Finalize PROVE TurnInv'
<1>1. /\ pc' = "idle" /\ reply' = FinalReply /\ said' = "ai" /\ last_result' = NoResult
      /\ clarification_count' = 0
      /\ UNCHANGED <<turn_count, planVars, current_task, task_history,
                     clarification_question, chart_path, outage, spent, req>>
  BY DEF Finalize, EdgeFrom
<1>2. reply'.kind \in ReplyKinds
  BY <1>1 DEF FinalReply, Reply, NoReply, ReplyKinds
<1>3. TypeOK'
  BY <1>1, <1>2 DEF TurnInv, TypeOK, planVars
<1>. QED
  BY <1>1, <1>3
  DEF TurnInv, HopsWithinBudget, Begun, UnplannedInv, RunningInv, ResultMatchesStep,
      HopsInv, NothingPendingAtEnd, planVars, PlanRoutes, Specialists

\* An invocation that breaks off, at whatever node, leaves a thread that the
\* next message can start from.
LEMMA StopKeepsInv ==
    ASSUME TurnInv, NEW shown, shown.kind \in ReplyKinds, Stop(shown) PROVE TurnInv'
<1>1. /\ pc' = "idle" /\ reply' = shown
      /\ UNCHANGED <<turn_count, planVars, taskVars, askVars, chart_path, outage,
                     spent, req, said>>
  BY DEF Stop
<1>2. TypeOK'
  BY <1>1 DEF TurnInv, TypeOK, planVars, taskVars, askVars
<1>. QED
  BY <1>1, <1>2
  DEF TurnInv, HopsWithinBudget, Begun, UnplannedInv, RunningInv, ResultMatchesStep,
      HopsInv, NothingPendingAtEnd, planVars, askVars, PlanRoutes, Specialists

\* The plan behind a question is that one step; once answered, nothing of it
\* is pending and its hop is paid for by the question.
LEMMA ClarificationKeepsInv ==
    ASSUME TurnInv, Clarification PROVE TurnInv'
<1>. DEFINE n == NextPending(plan)
            answered == [i \in DOMAIN plan |->
                           IF i = n /\ plan[i].route = "clarification"
                           THEN [plan[i] EXCEPT !.status = "done"] ELSE plan[i]]
<1>1. /\ pc = "paused" /\ pc' = "supervisor" /\ spent' \in {spent, FALSE}
      /\ plan' = answered /\ plan_ready' = FALSE /\ current_task' = Blank
      /\ last_result' = NoResult /\ clarification_question' = FALSE
      /\ clarification_count' = clarification_count + 1
      /\ said' = "human" /\ reply' = NoReply
      /\ UNCHANGED <<turn_count, plan_note, hops, turn_cut_short, task_history,
                     chart_path, outage>>
  BY DEF Clarification, EdgeFrom
<1>2. req' \in Request
  <2>1. PICK wish \in BOOLEAN, more \in BOOLEAN :
           req' = [req EXCEPT !.chart = wish, !.numbers = @ \/ more]
    BY DEF Clarification
  <2>2. req \in Request
    BY DEF TurnInv, TypeOK
  <2>3. req.numbers \in BOOLEAN
    BY <2>2 DEF Request
  <2>4. (req.numbers \/ more) \in BOOLEAN
    OBVIOUS
  <2>. QED  BY <2>1, <2>2, <2>4 DEF Request
<1>3. /\ TypeOK /\ plan \in Seq(PlanItem) /\ hops \in Nat /\ clarification_count \in Nat
      /\ WellShaped(plan, clarification_count)
      /\ n # 0 /\ plan[n].route = "clarification" /\ plan_ready
      /\ hops <= clarification_count + n
  BY <1>1 DEF TurnInv, TypeOK, Begun, RunningInv, HopsInv, Running
<1>4. n \in Pending(plan) /\ n \in DOMAIN plan
  BY <1>3, NextPendingFirst DEF Pending
<1>5. Len(plan) = 1 /\ n = 1 /\ clarification_count < MAX_CLARIFICATIONS_PER_TURN
  <2>1. Len(plan) = 1 /\ clarification_count < MAX_CLARIFICATIONS_PER_TURN
    BY <1>3, <1>4 DEF WellShaped, QuestionsAlone, QuestionsAllowed
  <2>. HIDE DEF n
  <2>. QED  BY <1>3, <1>4, <2>1
<1>. HIDE DEF n
<1>6. /\ answered \in Seq(PlanItem) /\ Len(answered) = 1 /\ DOMAIN answered = 1..1
      /\ answered[1].status = "done"
  <2>1. DOMAIN plan = 1..1 /\ plan[1] \in PlanItem
    BY <1>3, <1>4, <1>5
  <2>2. answered[1] = [plan[1] EXCEPT !.status = "done"]
    BY <1>3, <1>5, <2>1
  <2>3. answered[1] \in PlanItem /\ answered[1].status = "done"
    BY <2>1, <2>2 DEF PlanItem
  <2>4. answered \in [1..1 -> {answered[1]}]
    BY <2>1
  <2>. HIDE DEF answered
  <2>5. answered \in [1..Len(plan) -> PlanItem]
    BY <1>5, <2>3, <2>4
  <2>6. /\ answered \in Seq(PlanItem) /\ Len(answered) = Len(plan)
        /\ DOMAIN answered = 1..Len(plan)
    BY <1>3, <2>5
  <2>. QED  BY <1>5, <2>3, <2>6
<1>. HIDE DEF answered
<1>7. Pending(plan') = {}
  BY <1>1, <1>6 DEF Pending
<1>8. WellShaped(plan', clarification_count')
  <2>1. plan' \in Seq(PlanItem) /\ Len(plan') = 1
    BY <1>1, <1>6
  <2>. QED  BY <1>7, <2>1 DEF WellShaped, WithinCap, QuestionsAlone, QuestionsAllowed
<1>9. TypeOK'
  <2>1. reply'.kind \in ReplyKinds
    BY <1>1 DEF NoReply, ReplyKinds
  <2>2. plan' \in Seq(PlanItem) /\ clarification_count' \in Nat
    BY <1>1, <1>3, <1>6
  <2>3. spent' \in BOOLEAN
    BY <1>1, <1>3 DEF TypeOK
  <2>. QED  BY <1>1, <1>2, <1>3, <2>1, <2>2, <2>3 DEF TypeOK, Nodes, AnyTask
<1>10. hops' <= clarification_count' /\ clarification_count' <= MAX_CLARIFICATIONS_PER_TURN
  BY <1>1, <1>3, <1>5
<1>. QED
  BY <1>1, <1>7, <1>8, <1>9, <1>10
  DEF TurnInv, HopsWithinBudget, UnplannedInv, RunningInv, ResultMatchesStep, HopsInv,
      NothingPendingAtEnd, PlanRoutes, Specialists

-----------------------------------------------------------------------------
(* The inductive invariant.                                                *)

\* A thread without a checkpoint satisfies the invariant.
LEMMA InitSatisfiesInv ==
    Init => TurnInv
<1>. SUFFICES ASSUME Init PROVE TurnInv
  OBVIOUS
<1>1. TypeOK
  <2>1. req \in Request /\ reply.kind \in ReplyKinds
    BY InputsAssumption DEF Init, NoReply, ReplyKinds
  <2>2. plan \in Seq(PlanItem) /\ task_history \in Seq(TaskRecord)
    BY DEF Init
  <2>. QED  BY <2>1, <2>2 DEF Init, TypeOK, AnyTask
<1>. QED
  BY <1>1
  DEF Init, TurnInv, HopsWithinBudget, Begun, UnplannedInv, RunningInv, ResultMatchesStep,
      HopsInv, NothingPendingAtEnd, MAX_HOPS, PlanRoutes, Specialists

\* Every step of the graph, the user or a crash keeps the invariant.
LEMMA NextKeepsInv ==
    TurnInv /\ [Next]_vars => TurnInv'
<1>. SUFFICES ASSUME TurnInv, [Next]_vars PROVE TurnInv'
  OBVIOUS
<1>1. CASE NewMessage
  BY <1>1, NewMessageKeepsInv
<1>2. CASE Clarification
  BY <1>2, ClarificationKeepsInv
<1>3. CASE MemoryManager
  BY <1>3, MemoryManagerKeepsInv
<1>4. CASE Supervisor
  BY <1>4, SupervisorKeepsInv
<1>5. CASE Specialist
  BY <1>5, SpecialistKeepsInv
<1>6. CASE Interrupt
  BY <1>6, InterruptKeepsInv
<1>7. CASE Finalize
  BY <1>7, FinalizeKeepsInv
<1>8. CASE NodeRaises
  <2>1. Stop(Reply("error")) /\ Reply("error").kind \in ReplyKinds
    BY <1>8 DEF NodeRaises, Reply, NoReply, ReplyKinds
  <2>. QED  BY <2>1, StopKeepsInv
<1>9. CASE Crash
  <2>1. Stop(NoReply) /\ NoReply.kind \in ReplyKinds
    BY <1>9 DEF Crash, NoReply, ReplyKinds
  <2>. QED  BY <2>1, StopKeepsInv
<1>10. CASE UNCHANGED vars
  BY <1>10
  DEF vars, planVars, taskVars, askVars, userVars, TurnInv, TypeOK, HopsWithinBudget, Begun,
      UnplannedInv, RunningInv, Running, ResultMatchesStep, HopsInv, NothingPendingAtEnd
<1>. QED
  BY <1>1, <1>2, <1>3, <1>4, <1>5, <1>6, <1>7, <1>8, <1>9, <1>10
  DEF Next, GraphStep, Rest

\* The invariant holds in every reachable state, for every cap, every set of
\* tasks, workflows and requests, and with or without crashes.
THEOREM TurnInvariant == Spec => []TurnInv
  BY InitSatisfiesInv, NextKeepsInv, PTL DEF Spec

-----------------------------------------------------------------------------
(* The safety properties.                                                  *)

\* SupervisorState (state/state.py) keeps its declared types.
THEOREM TypeCorrect == Spec => []TypeOK
<1>1. TurnInv => TypeOK
  BY DEF TurnInv
<1>. QED  BY <1>1, TurnInvariant, PTL

\* The hop cap of supervisor.py:244-264 is unreachable, as its comment claims:
\* turn_cut_short is never set, whatever plans, questions and crashes occur.
THEOREM HopCapUnreachable == Spec => []HopsWithinBudget
<1>1. TurnInv => HopsWithinBudget
  BY DEF TurnInv
<1>. QED  BY <1>1, TurnInvariant, PTL

\* _complete_current_step always writes a result into the step that produced it.
THEOREM ResultsReachTheirStep == Spec => []ResultMatchesStep
<1>1. TurnInv => ResultMatchesStep
  BY DEF TurnInv
<1>. QED  BY <1>1, TurnInvariant, PTL

\* What the invariant says of a thread that asks its user something.
LEMMA AskingState ==
    ASSUME TurnInv, pc \in {"clarification", "paused"}
    PROVE  /\ Len(plan) = 1 /\ clarification_question
           /\ clarification_count < MAX_CLARIFICATIONS_PER_TURN
<1>. DEFINE n == NextPending(plan)
<1>1. /\ plan \in Seq(PlanItem) /\ WellShaped(plan, clarification_count)
      /\ n # 0 /\ plan[n].route = "clarification" /\ clarification_question
  BY DEF TurnInv, TypeOK, Begun, RunningInv, Running, PlanRoutes
<1>2. n \in Pending(plan) /\ n \in DOMAIN plan
  BY <1>1, NextPendingFirst DEF Pending
<1>. HIDE DEF n
<1>. QED
  BY <1>1, <1>2 DEF WellShaped, QuestionsAlone, QuestionsAllowed

\* No turn asks more questions than MAX_CLARIFICATIONS_PER_TURN allows, and the
\* node that interrupts always finds its question stored.
THEOREM QuestionsAreBounded == Spec => []BoundedQuestions
<1>1. TurnInv => BoundedQuestions
  BY AskingState DEF TurnInv, BoundedQuestions
<1>. QED  BY <1>1, TurnInvariant, PTL

\* Re-planning after an answer never discards a finished step.
THEOREM QuestionsComeAlone == Spec => []QuestionLosesNothing
<1>1. TurnInv => QuestionLosesNothing
  BY AskingState DEF QuestionLosesNothing
<1>. QED  BY <1>1, TurnInvariant, PTL

\* Every way to finalize leaves no step of the plan waiting.
THEOREM NoStepLeftBehind == Spec => []NothingPendingAtEnd
<1>1. TurnInv => NothingPendingAtEnd
  BY DEF TurnInv
<1>. QED  BY <1>1, TurnInvariant, PTL

-----------------------------------------------------------------------------
(* The action properties.                                                  *)

\* An AdvancePlan step keeps what is finished and moves on behind the step
\* that came back.
LEMMA AdvanceStep ==
    ASSUME TurnInv, AdvancePlan
    PROVE  /\ TurnInv'
           /\ \A i \in DOMAIN plan : plan[i].status # "pending" =>
                 i \in DOMAIN plan' /\ plan'[i] = plan[i]
           /\ \A i \in Pending(plan') : NextPending(plan) < i
<1>1. /\ pc = "supervisor" /\ plan_ready /\ RoutePlan(Advanced, FALSE, plan_note, spent)
      /\ plan \in Seq(PlanItem) /\ plan_note \in SUBSET PlanRoutes /\ spent \in BOOLEAN
      /\ turn_count \in Nat /\ req \in Request /\ clarification_count \in Nat
      /\ NextPending(plan) # 0
  BY DEF TurnInv, TypeOK, AdvancePlan, Advanced, ResultMatchesStep
<1>2. /\ Routable(Advanced, FALSE) /\ Settles(plan, Advanced)
      /\ Pending(Advanced) = Pending(plan) \ {NextPending(plan)}
  BY <1>1, AdvancedRoutable
<1>3. TurnInv' /\ plan' = Settled(Advanced, spent)
  BY <1>1, <1>2, RoutePlanKeepsInv
<1>4. /\ DOMAIN Advanced \subseteq DOMAIN plan'
      /\ \A i \in DOMAIN Advanced : Advanced[i].status # "pending" => plan'[i] = Advanced[i]
      /\ \A i \in Pending(plan') : i \in Pending(Advanced) \/ \A j \in DOMAIN Advanced : j < i
  <2>1. WellShaped(Advanced, clarification_count)
    BY <1>2 DEF Routable
  <2>. QED  BY <1>1, <1>3, <2>1, SettledShape
<1>5. DOMAIN Advanced = DOMAIN plan
  BY <1>1, <1>2 DEF Settles
<1>6. \A i \in DOMAIN plan : plan[i].status # "pending" =>
         i \in DOMAIN plan' /\ plan'[i] = plan[i]
  BY <1>2, <1>4, <1>5 DEF Settles
<1>7. /\ NextPending(plan) \in DOMAIN plan
      /\ \A j \in Pending(plan) : NextPending(plan) <= j
      /\ Pending(plan) \subseteq Nat /\ NextPending(plan) \in Nat
  BY <1>1, NextPendingFirst DEF Pending
<1>8. \A i \in Pending(plan') : NextPending(plan) < i
  BY <1>2, <1>4, <1>5, <1>7
<1>. QED
  BY <1>3, <1>6, <1>8

\* Finished steps of a plan in progress are never rewritten, by any node.
THEOREM FinishedStepsAreFinal == Spec => FinishedStepsStand
<1>. DEFINE Stands == \A i \in DOMAIN plan : plan[i].status # "pending" =>
                         i \in DOMAIN plan' /\ plan'[i] = plan[i]
<1>1. ASSUME TurnInv, [Next]_vars, plan_ready, plan_ready'
      PROVE  Stands
  <2>1. CASE AdvancePlan
    BY <1>1, <2>1, AdvanceStep
  <2>2. CASE UNCHANGED plan
    BY <2>2
  <2>3. AdvancePlan \/ UNCHANGED plan
    BY <1>1
    DEF Next, GraphStep, Rest, NewMessage, Clarification, MemoryManager, Supervisor,
        EndUnplanned, PlanWorkflow, PlanByDecision, PlanOutage, Specialist, Convo, RAG,
        SqlAgent, ResearchNode, Visualization, Return, Interrupt, Finalize, NodeRaises,
        Crash, Stop, vars, planVars
  <2>. QED  BY <2>1, <2>2, <2>3
<1>2. TurnInv /\ [Next]_vars => [plan_ready /\ plan_ready' => Stands]_vars
  BY <1>1
<1>. QED
  BY <1>2, TurnInvariant, PTL DEF Spec, FinishedStepsStand

\* The supervisor never routes to the same step twice, nor back.
THEOREM RoutingIsForward == Spec => RoutesForward
<1>. DEFINE Forward == pc = "supervisor" /\ plan_ready /\ pc' \in PlanRoutes
                          => NextPending(plan') > NextPending(plan)
<1>1. ASSUME TurnInv, [Next]_vars, pc = "supervisor", plan_ready, pc' \in PlanRoutes
      PROVE  NextPending(plan') > NextPending(plan)
  <2>1. AdvancePlan
    <3>1. pc' \notin {"idle", "supervisor"}
      BY <1>1 DEF PlanRoutes, Specialists
    <3>. QED
      BY <1>1, <3>1
      DEF Next, GraphStep, Rest, NewMessage, Clarification, MemoryManager, Supervisor,
          EndUnplanned, PlanWorkflow, PlanByDecision, PlanOutage, Specialist, Convo, RAG,
          SqlAgent, ResearchNode, Visualization, Interrupt, Finalize, NodeRaises,
          Crash, Stop, vars
  <2>2. TurnInv' /\ \A i \in Pending(plan') : NextPending(plan) < i
    BY <1>1, <2>1, AdvanceStep
  <2>3. plan' \in Seq(PlanItem) /\ NextPending(plan') # 0
    BY <1>1, <2>2 DEF TurnInv, TypeOK, RunningInv
  <2>4. NextPending(plan') \in Pending(plan') /\ NextPending(plan') \in Nat
    BY <2>3, NextPendingFirst DEF Pending
  <2>5. NextPending(plan) \in Nat
    BY <1>1, NextPendingFirst DEF TurnInv, TypeOK
  <2>. QED  BY <2>2, <2>4, <2>5
<1>2. TurnInv /\ [Next]_vars => [Forward]_vars
  BY <1>1
<1>. QED
  BY <1>2, TurnInvariant, PTL DEF Spec, RoutesForward
=============================================================================
