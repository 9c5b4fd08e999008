------------------------------ MODULE PlanProofs ------------------------------
(***************************************************************************)
(* Lemmas about the operators of Plan: what selecting from a sequence      *)
(* returns, and what building, advancing and settling a plan preserve.     *)
(***************************************************************************)
EXTENDS Plan, TLAPS, FiniteSetTheorems, WellFoundedInduction

USE BoundsAssumption

-----------------------------------------------------------------------------
(* Selecting from a sequence.                                              *)

\* A set of natural numbers that is not empty has a least member, so
\* _next_pending returns a pending step whenever there is one.
LEMMA LeastExists ==
    ASSUME NEW S \in SUBSET Nat, S # {}
    PROVE  Least(S) \in S /\ \A j \in S : Least(S) <= j
<1>. DEFINE Order == StrictSubsetOrdering(Nat)
            T     == {0..i : i \in S}
<1>1. T # {} /\ T \subseteq FiniteSubsetsOf(Nat)
  <2>1. \A i \in Nat : IsFiniteSet(0..i) /\ 0..i \subseteq Nat
    BY FS_Interval
  <2>. QED  BY <2>1 DEF FiniteSubsetsOf
<1>2. PICK t \in T : \A u \in T : ~ (<<u, t>> \in Order)
  <2>. HIDE DEF T
  <2>. QED  BY <1>1, WFMin, FS_StrictSubsetOrderingWellFounded
<1>3. PICK m \in S : t = 0..m
  BY <1>2
<1>4. \A j \in S : m <= j
  <2>. SUFFICES ASSUME NEW j \in S, j < m PROVE FALSE
    OBVIOUS
  <2>1. 0..j \subseteq 0..m /\ 0..j # 0..m
    BY m \in 0..m, m \notin 0..j
  <2>2. <<0..j, t>> \in Order
    BY <1>3, <2>1 DEF StrictSubsetOrdering
  <2>. QED  BY <1>2, <2>2
<1>. QED
  BY <1>4 DEF Least

\* A finite set of natural numbers that is not empty has a greatest member.
LEMMA GreatestExists ==
    ASSUME NEW n \in Nat, NEW S \in SUBSET (1..n), S # {}
    PROVE  Greatest(S) \in S /\ \A j \in S : j <= Greatest(S)
<1>. DEFINE T == {n - i : i \in S}
<1>1. T \in SUBSET Nat /\ T # {}
  <2>1. \A i \in S : n - i \in Nat
    OBVIOUS
  <2>. QED  BY <2>1
<1>2. PICK k \in T : \A j \in T : k <= j
  <2>. HIDE DEF T
  <2>. QED  BY <1>1, LeastExists
<1>3. PICK m \in S : k = n - m
  BY <1>2
<1>4. \A j \in S : j <= m
  BY <1>2, <1>3
<1>. QED
  BY <1>4 DEF Greatest

\* Every rank below the size of a finite set of naturals is taken by a member.
LEMMA RankedExists ==
    ASSUME NEW S \in SUBSET Nat, IsFiniteSet(S),
           NEW k \in 0..(Cardinality(S) - 1)
    PROVE  Ranked(S, k) \in S /\ Rank(S, Ranked(S, k)) = k
<1>. DEFINE Below(i)  == {j \in S : j < i}
            Missed(r) == ~ \E i \in S : Rank(S, i) = r
            Gaps      == {r \in 0..(Cardinality(S) - 1) : Missed(r)}
<1>0. Cardinality(S) \in Nat
  BY FS_CardinalityType
<1>1. SUFFICES Gaps = {}
  <2>1. \E i \in S : Rank(S, i) = k
    BY <1>1
  <2>. QED  BY <2>1 DEF Ranked
<1>2. SUFFICES ASSUME Gaps # {} PROVE FALSE
  OBVIOUS
<1>3. PICK g \in Gaps : \A r \in Gaps : g <= r
  <2>1. Gaps \in SUBSET Nat
    BY <1>0
  <2>. HIDE DEF Gaps
  <2>. QED  BY <1>2, <2>1, LeastExists
<1>4. g \in Nat /\ g < Cardinality(S) /\ Missed(g)
  BY <1>0, <1>3
<1>5. \A i : Below(i) \subseteq S /\ IsFiniteSet(Below(i)) /\ Rank(S, i) = Cardinality(Below(i))
  BY FS_Subset DEF Rank
<1>6. CASE g = 0
  <2>1. S # {}
    BY <1>4, <1>6, FS_EmptySet
  <2>2. PICK m \in S : \A j \in S : m <= j
    BY <2>1, LeastExists
  <2>3. Below(m) = {}
    <3>1. \A j \in S : ~ (j < m)
      BY <2>2
    <3>. QED  BY <3>1
  <2>4. Rank(S, m) = 0
    BY <1>5, <2>3, FS_EmptySet
  <2>. QED  BY <1>4, <1>6, <2>2, <2>4
<1>7. CASE g # 0
  <2>1. PICK i \in S : Rank(S, i) = g - 1
    <3>1. g - 1 \in 0..(Cardinality(S) - 1) /\ ~ (g <= g - 1)
      BY <1>0, <1>4, <1>7
    <3>2. g - 1 \notin Gaps
      <4>. HIDE DEF Gaps
      <4>. QED  BY <1>3, <3>1
    <3>. QED  BY <3>1, <3>2
  <2>. DEFINE Low == Below(i) \cup {i}
  <2>2. IsFiniteSet(Low) /\ Cardinality(Low) = g
    <3>1. i \notin Below(i) /\ IsFiniteSet(Below(i)) /\ Cardinality(Below(i)) = g - 1
      BY <1>5, <2>1
    <3>2. g - 1 + 1 = g
      BY <1>4
    <3>. HIDE DEF Below
    <3>. QED  BY <3>1, <3>2, FS_AddElement
  <2>3. Low \subseteq S /\ Low # S
    BY <1>4, <1>5, <2>1, <2>2
  <2>4. PICK m \in S \ Low : \A j \in S \ Low : m <= j
    <3>1. S \ Low \in SUBSET Nat /\ S \ Low # {}
      BY <2>3
    <3>. HIDE DEF Low
    <3>. QED  BY <3>1, LeastExists
  <2>5. Below(m) = Low
    <3>1. \A j \in Low : j < m
      <4>1. \A j \in S : j <= i => j \in Low
        OBVIOUS
      <4>2. i < m
        BY <4>1, <2>4
      <4>. QED  BY <4>2, <2>4
    <3>2. \A j \in S : j < m => j \in Low
      <4>1. \A j \in S \ Low : ~ (j < m)
        BY <2>4
      <4>. HIDE DEF Low
      <4>. QED  BY <4>1
    <3>. QED  BY <3>1, <3>2, <2>3
  <2>6. Rank(S, m) = g
    BY <1>5, <2>2, <2>5
  <2>. QED  BY <1>4, <2>4, <2>6
<1>. QED  BY <1>6, <1>7

\* Pick returns a sequence of the chosen items, one for each index.
LEMMA PickIsSeq ==
    ASSUME NEW X, NEW plan \in Seq(X), NEW S \in SUBSET DOMAIN plan
    PROVE  /\ Pick(plan, S) \in Seq(X)
           /\ Cardinality(S) \in Nat /\ Len(Pick(plan, S)) = Cardinality(S)
           /\ S # {} => Cardinality(S) # 0
<1>1. S \in SUBSET Nat /\ IsFiniteSet(S)
  <2>1. IsFiniteSet(1..Len(plan))
    BY FS_Interval
  <2>. QED  BY <2>1, FS_Subset
<1>2. Cardinality(S) \in Nat
  BY <1>1, FS_CardinalityType
<1>3. \A k \in 1..Cardinality(S) : plan[Ranked(S, k - 1)] \in X
  <2>. TAKE k \in 1..Cardinality(S)
  <2>1. k - 1 \in 0..(Cardinality(S) - 1)
    BY <1>2
  <2>2. Ranked(S, k - 1) \in S
    BY <1>1, <2>1, RankedExists
  <2>. QED  BY <2>2
<1>4. S # {} => Cardinality(S) # 0
  BY <1>1, FS_EmptySet
<1>. QED  BY <1>2, <1>3, <1>4 DEF Pick

\* A set of indices keeps at most n members below rank n.
LEMMA RankCutsOff ==
    ASSUME NEW S \in SUBSET Nat, IsFiniteSet(S), NEW n \in Nat
    PROVE  Cardinality({i \in S : Rank(S, i) < n}) <= n
<1>. DEFINE Below(i) == {j \in S : j < i}
            Kept     == {i \in S : Rank(S, i) < n}
            f        == [i \in Kept |-> Rank(S, i)]
<1>1. \A i : IsFiniteSet(Below(i)) /\ Rank(S, i) = Cardinality(Below(i)) /\ Rank(S, i) \in Nat
  BY FS_Subset, FS_CardinalityType DEF Rank
<1>2. \A i, j \in S : i < j => Rank(S, i) # Rank(S, j)
  <2>. SUFFICES ASSUME NEW i \in S, NEW j \in S, i < j, Rank(S, i) = Rank(S, j)
                PROVE  FALSE
    OBVIOUS
  <2>1. Below(i) \in SUBSET Below(j) /\ i \in Below(j) /\ i \notin Below(i)
    <3>1. \A m \in S : m < i => m < j
      BY i \in Nat, j \in Nat, \A m \in S : m \in Nat
    <3>2. Below(i) \in SUBSET Below(j)
      BY <3>1
    <3>3. ~ (i < i)
      BY i \in Nat
    <3>. QED  BY <3>2, <3>3
  <2>2. Below(i) = Below(j)
    <3>. HIDE DEF Below
    <3>. QED  BY <1>1, <2>1, FS_Subset
  <2>. QED  BY <2>1, <2>2
<1>3. \A i, j \in Kept : f[i] = f[j] => i = j
  BY <1>2
<1>4. f \in Injection(Kept, 0..(n - 1))
  <2>1. \A i \in Kept : f[i] \in 0..(n - 1)
    <3>1. \A i \in Kept : f[i] \in Nat /\ f[i] < n
      BY <1>1
    <3>. HIDE DEF f, Kept
    <3>. QED  BY <3>1
  <2>2. f \in [Kept -> 0..(n - 1)] /\ DOMAIN f = Kept
    BY <2>1
  <2>. HIDE DEF f, Kept
  <2>. QED  BY <1>3, <2>2 DEF Injection, IsInjective
<1>5. IsFiniteSet(0..(n - 1)) /\ Cardinality(0..(n - 1)) = n
  BY FS_Interval
<1>. HIDE DEF Kept, f
<1>. QED
  BY <1>4, <1>5, FS_Injection DEF Kept

-----------------------------------------------------------------------------
(* Building a plan.                                                        *)

\* A new item of the plan is well-formed: pending, without text or rows.
LEMMA NewItemType ==
    ASSUME NEW route \in PlanRoutes, NEW task \in AnyTask, NEW src \in DataSources
    PROVE  NewItem(route, task, src) \in PlanItem
  BY DEF NewItem, PlanItem

\* _plan_from_workflow builds well-formed items from any workflow.
LEMMA PlanFromWorkflowType ==
    ASSUME NEW steps \in Seq(PlanStep)
    PROVE  PlanFromWorkflow(steps) \in Seq(PlanItem)
<1>. DEFINE items == [i \in DOMAIN steps |->
                         NewItem(steps[i].route, steps[i].task, InferredSource(steps, i))]
            named == {i \in DOMAIN steps : steps[i].task # Blank}
<1>1. \A i \in DOMAIN steps : steps[i] \in PlanStep
  OBVIOUS
<1>2. \A i \in DOMAIN steps : InferredSource(steps, i) \in DataSources
  BY <1>1 DEF InferredSource, DataSources, PlanStep
<1>3. \A i \in DOMAIN steps : items[i] \in PlanItem
  BY <1>1, <1>2, NewItemType DEF PlanStep, AnyTask
<1>4. items \in Seq(PlanItem) /\ DOMAIN items = DOMAIN steps
  <2>1. items \in [1..Len(steps) -> PlanItem]
    <3>. HIDE DEF items
    <3>1. DOMAIN items = 1..Len(steps) /\ items = [i \in DOMAIN items |-> items[i]]
      BY DEF items
    <3>. QED  BY <1>3, <3>1
  <2>. HIDE DEF items
  <2>. QED  BY <2>1
<1>. HIDE DEF items
<1>5. Pick(items, named) \in Seq(PlanItem)
  BY <1>4, PickIsSeq
<1>. QED
  BY <1>5 DEF PlanFromWorkflow, items

\* A clarification is the only step of its plan.
QuestionsAlone(plan) ==
    \A i \in DOMAIN plan : plan[i].route = "clarification" => Len(plan) = 1

\* _validate_plan returns a plan within the cap; a clarification comes alone.
LEMMA ValidatePlanShape ==
    ASSUME NEW plan \in Seq(PlanItem), NEW enoughNumbers \in BOOLEAN
    PROVE  LET valid == ValidatePlan(plan, enoughNumbers)
           IN  /\ valid.plan \in Seq(PlanItem) /\ valid.note \in SUBSET PlanRoutes
               /\ Len(valid.plan) <= MAX_PLAN_STEPS
               /\ QuestionsAlone(valid.plan)
<1>. DEFINE asks    == ClarificationSteps(plan)
            valid   == ValidSteps(plan, enoughNumbers)
            kept    == {i \in valid : Rank(valid, i) < MAX_PLAN_STEPS}
            sourced == [i \in DOMAIN plan |->
                           IF plan[i].route = "visu" /\ plan[i].src # "inline"
                           THEN [plan[i] EXCEPT !.src = "database"] ELSE plan[i]]
            ask(task) == <<NewItem("clarification", task, "none")>>
            Quiet   == {item \in PlanItem : item.route # "clarification"}
            result  == ValidatePlan(plan, enoughNumbers)
<1>1. valid \in SUBSET DOMAIN plan
  BY DEF ValidSteps
<1>2. ASSUME NEW task \in AnyTask
      PROVE  /\ ask(task) \in Seq(PlanItem) /\ Len(ask(task)) <= MAX_PLAN_STEPS
             /\ QuestionsAlone(ask(task))
  <2>1. NewItem("clarification", task, "none") \in PlanItem
    BY NewItemType DEF PlanRoutes, DataSources
  <2>. QED  BY <2>1 DEF QuestionsAlone
<1>3. CASE asks # {}
  <2>1. Least(asks) \in DOMAIN plan
    <3>1. asks \in SUBSET Nat /\ asks \subseteq DOMAIN plan
      BY DEF ClarificationSteps
    <3>. QED  BY <1>3, <3>1, LeastExists
  <2>2. plan[Least(asks)].task \in AnyTask
    <3>1. plan[Least(asks)] \in PlanItem
      <4>. HIDE DEF asks
      <4>. QED  BY <2>1
    <3>. QED  BY <3>1 DEF PlanItem
  <2>. DEFINE task == IF plan[Least(asks)].task = Blank THEN Canned
                      ELSE plan[Least(asks)].task
  <2>3. task \in AnyTask
    BY <2>2 DEF AnyTask
  <2>4. result.plan = ask(task) /\ result.note = {}
    BY <1>3 DEF ValidatePlan
  <2>. HIDE DEF task
  <2>. QED  BY <1>2, <2>3, <2>4
<1>4. CASE asks = {}
  <2>1. /\ result.plan = IF kept = {} THEN ask(Canned) ELSE Pick(sourced, kept)
        /\ result.note = {plan[i].route : i \in valid \ kept}
    BY <1>4 DEF ValidatePlan
  <2>2. \A i \in DOMAIN plan : plan[i] \in Quiet
    BY <1>4 DEF ClarificationSteps
  <2>3. sourced \in Seq(Quiet) /\ DOMAIN sourced = DOMAIN plan
    <3>1. \A i \in DOMAIN plan : sourced[i] \in Quiet
      BY <2>2 DEF PlanItem, DataSources
    <3>2. sourced \in [1..Len(plan) -> Quiet]
      <4>1. DOMAIN sourced = 1..Len(plan) /\ sourced = [i \in DOMAIN sourced |-> sourced[i]]
        OBVIOUS
      <4>. HIDE DEF sourced, Quiet
      <4>. QED  BY <3>1, <4>1
    <3>. HIDE DEF sourced, Quiet
    <3>. QED  BY <3>2
  <2>4. kept \in SUBSET DOMAIN sourced /\ Cardinality(kept) <= MAX_PLAN_STEPS
    <3>1. valid \in SUBSET Nat /\ IsFiniteSet(valid)
      BY <1>1, FS_Interval, FS_Subset
    <3>. HIDE DEF valid
    <3>. QED  BY <1>1, <2>3, <3>1, RankCutsOff
  <2>5. result.note \in SUBSET PlanRoutes
    <3>1. \A i \in DOMAIN plan : plan[i] \in PlanItem
      OBVIOUS
    <3>2. \A i \in DOMAIN plan : plan[i].route \in PlanRoutes
      BY <3>1 DEF PlanItem
    <3>. HIDE DEF valid
    <3>. QED  BY <1>1, <2>1, <3>2
  <2>6. CASE kept = {}
    <3>1. Canned \in AnyTask /\ result.plan = ask(Canned)
      BY <2>1, <2>6 DEF AnyTask
    <3>. QED  BY <1>2, <2>5, <3>1
  <2>7. CASE kept # {}
    <3>. HIDE DEF sourced, kept, Quiet
    <3>1. /\ Pick(sourced, kept) \in Seq(Quiet)
          /\ Len(Pick(sourced, kept)) <= MAX_PLAN_STEPS
      BY <2>3, <2>4, PickIsSeq
    <3>2. Quiet \subseteq PlanItem /\ \A item \in Quiet : item.route # "clarification"
      BY DEF Quiet
    <3>3. QuestionsAlone(Pick(sourced, kept))
      BY <3>1, <3>2 DEF QuestionsAlone
    <3>. QED  BY <2>1, <2>5, <2>7, <3>1, <3>2, <3>3
  <2>. QED  BY <2>6, <2>7
<1>. QED
  BY <1>3, <1>4

-----------------------------------------------------------------------------
(* Advancing a plan.                                                       *)

\* An item reads as well-formed at every index of its plan.
LEMMA ItemType ==
    ASSUME NEW plan \in Seq(PlanItem), NEW i \in DOMAIN plan
    PROVE  /\ plan[i] \in PlanItem /\ i \in 1..Len(plan)
           /\ plan[i].route \in PlanRoutes /\ plan[i].task \in AnyTask
           /\ plan[i].src \in DataSources
           /\ plan[i].status \in {"pending", "done", "failed", "skipped"}
           /\ plan[i].text \in Nat /\ plan[i].rows \in Nat
<1>1. plan[i] \in PlanItem /\ i \in 1..Len(plan)
  OBVIOUS
<1>. QED
  BY <1>1 DEF PlanItem

\* _next_pending returns the first pending step, and nothing if there is none.
LEMMA NextPendingFirst ==
    ASSUME NEW plan \in Seq(PlanItem)
    PROVE  /\ Pending(plan) = {} => NextPending(plan) = 0
           /\ Pending(plan) # {} =>
                 /\ NextPending(plan) \in Pending(plan)
                 /\ \A j \in Pending(plan) : NextPending(plan) <= j
           /\ NextPending(plan) \in 0..Len(plan)
<1>1. Pending(plan) \in SUBSET Nat /\ Pending(plan) \subseteq 1..Len(plan)
  BY DEF Pending
<1>2. ASSUME Pending(plan) # {}
      PROVE  /\ Least(Pending(plan)) \in Pending(plan)
             /\ \A j \in Pending(plan) : Least(Pending(plan)) <= j
  BY <1>1, <1>2, LeastExists
<1>. QED
  BY <1>1, <1>2 DEF NextPending

\* q is p with some pending steps finished and nothing else touched.
Settles(p, q) ==
    /\ q \in Seq(PlanItem) /\ Len(q) = Len(p)
    /\ \A i \in DOMAIN p : /\ q[i].route = p[i].route /\ q[i].task = p[i].task
                           /\ q[i].src = p[i].src
                           /\ p[i].status # "pending" => q[i] = p[i]

\* Passes that only finish pending steps add up to one.
LEMMA SettlesTransitive ==
    ASSUME NEW p \in Seq(PlanItem), NEW q, NEW r, Settles(p, q), Settles(q, r)
    PROVE  Settles(p, r)
<1>1. DOMAIN p = DOMAIN q
  BY DEF Settles
<1>. QED
  BY <1>1 DEF Settles

\* A pass over the plan that only finishes pending steps settles it.
LEMMA PassSettles ==
    ASSUME NEW p \in Seq(PlanItem), NEW X, NEW q \in [DOMAIN p -> X], NEW text \in Nat,
           NEW status \in {"done", "failed", "skipped"},
           \A i \in DOMAIN p :
              \/ q[i] = p[i]
              \/ /\ p[i].status = "pending"
                 /\ q[i] = Finish(p[i], status, text)
    PROVE  Settles(p, q)
<1>1. \A i \in DOMAIN p : /\ q[i] \in PlanItem
                          /\ q[i].route = p[i].route /\ q[i].task = p[i].task
                          /\ q[i].src = p[i].src
                          /\ p[i].status # "pending" => q[i] = p[i]
  <2>. TAKE i \in DOMAIN p
  <2>1. p[i] \in PlanItem
    OBVIOUS
  <2>2. CASE q[i] = p[i]
    BY <2>1, <2>2
  <2>3. CASE p[i].status = "pending" /\ q[i] = Finish(p[i], status, text)
    <3>1. /\ Finish(p[i], status, text) \in PlanItem
          /\ Finish(p[i], status, text).route = p[i].route
          /\ Finish(p[i], status, text).task = p[i].task
          /\ Finish(p[i], status, text).src = p[i].src
      BY <2>1 DEF Finish, PlanItem
    <3>. QED  BY <2>3, <3>1
  <2>. QED  BY <2>2, <2>3
<1>2. DOMAIN q = 1..Len(p)
  OBVIOUS
<1>3. q \in [1..Len(p) -> PlanItem]
  BY <1>1, <1>2
<1>4. q \in Seq(PlanItem) /\ Len(q) = Len(p)
  BY <1>3
<1>. QED
  BY <1>1, <1>4 DEF Settles

\* _skip_blocked_steps only finishes pending steps.
LEMMA SkipBlockedSettles ==
    ASSUME NEW p \in Seq(PlanItem), NEW turn \in Nat
    PROVE  Settles(p, SkipBlockedSteps(p, turn))
<1>. DEFINE q == SkipBlockedSteps(p, turn)
<1>1. q \in [DOMAIN p -> {q[i] : i \in DOMAIN p}]
  BY DEF SkipBlockedSteps
<1>2. \A i \in DOMAIN p :
         \/ q[i] = p[i]
         \/ /\ p[i].status = "pending"
            /\ q[i] = Finish(p[i], "skipped", turn)
  BY DEF SkipBlockedSteps, IsBlocked
<1>. HIDE DEF q
<1>3. Settles(p, q)
  BY <1>1, <1>2, PassSettles
<1>. QED
  BY <1>3 DEF q

\* _skip_unbudgeted_visu only finishes pending steps.
LEMMA SkipUnbudgetedSettles ==
    ASSUME NEW p \in Seq(PlanItem), NEW turn \in Nat, NEW s \in BOOLEAN
    PROVE  Settles(p, SkipUnbudgetedVisu(p, s, turn))
<1>. DEFINE q == SkipUnbudgetedVisu(p, s, turn)
<1>1. q \in [DOMAIN p -> {q[i] : i \in DOMAIN p}]
  BY DEF SkipUnbudgetedVisu
<1>2. \A i \in DOMAIN p :
         \/ q[i] = p[i]
         \/ /\ p[i].status = "pending"
            /\ q[i] = Finish(p[i], "failed", turn)
  BY DEF SkipUnbudgetedVisu
<1>. HIDE DEF q
<1>3. Settles(p, q)
  BY <1>1, <1>2, PassSettles
<1>. QED
  BY <1>3 DEF q

\* The hop cap's pass finishes every pending step and touches no other.
LEMMA CutShortSettles ==
    ASSUME NEW p \in Seq(PlanItem)
    PROVE  Settles(p, CutShort(p)) /\ Pending(CutShort(p)) = {}
<1>. DEFINE q == CutShort(p)
<1>1. q \in [DOMAIN p -> {q[i] : i \in DOMAIN p}]
  BY DEF CutShort
<1>2. \A i \in DOMAIN p :
         \/ q[i] = p[i]
         \/ /\ p[i].status = "pending"
            /\ q[i] = Finish(p[i], "failed", 0)
  BY DEF CutShort
<1>3. \A i \in DOMAIN p : q[i].status # "pending"
  <2>. TAKE i \in DOMAIN p
  <2>1. p[i] \in PlanItem
    OBVIOUS
  <2>. QED  BY <2>1 DEF CutShort, Finish, PlanItem
<1>. HIDE DEF q
<1>4. Settles(p, q)
  BY <1>1, <1>2, PassSettles
<1>. QED
  BY <1>1, <1>3, <1>4 DEF Pending, q

\* _complete_current_step finishes the first pending step, and only that one.
LEMMA CompleteSettles ==
    ASSUME NEW p \in Seq(PlanItem), NEW result \in SpecialistResult
    PROVE  /\ Settles(p, CompleteCurrentStep(p, result))
           /\ Pending(CompleteCurrentStep(p, result)) = Pending(p) \ {NextPending(p)}
<1>. DEFINE i == NextPending(p)
            status == IF result.status = "done" THEN "done" ELSE "failed"
            item == [p[i] EXCEPT !.status = status, !.text = result.text,
                                 !.rows = result.rows]
            q == CompleteCurrentStep(p, result)
<1>1. CASE i = 0
  <2>1. q = p
    BY <1>1 DEF CompleteCurrentStep
  <2>2. Pending(p) = {}
    BY <1>1, NextPendingFirst DEF Pending
  <2>. QED  BY <2>1, <2>2 DEF Settles
<1>2. CASE i # 0
  <2>1. i \in DOMAIN p /\ p[i].status = "pending" /\ p[i] \in PlanItem
    BY <1>2, NextPendingFirst DEF Pending
  <2>2. /\ item \in PlanItem /\ item.status \in {"done", "failed"}
        /\ item.route = p[i].route /\ item.task = p[i].task /\ item.src = p[i].src
    <3>1. result.text \in Nat /\ result.rows \in Nat
      BY DEF SpecialistResult
    <3>. HIDE DEF i
    <3>. QED  BY <2>1, <3>1 DEF PlanItem
  <2>3. q = [p EXCEPT ![i] = item]
    BY <1>2, <2>1 DEF CompleteCurrentStep
  <2>. HIDE DEF i, item, q
  <2>4. /\ q \in Seq(PlanItem) /\ Len(q) = Len(p) /\ DOMAIN q = DOMAIN p
        /\ \A j \in DOMAIN p : q[j] = IF j = i THEN item ELSE p[j]
    BY <2>1, <2>2, <2>3
  <2>5. Settles(p, q)
    BY <2>1, <2>2, <2>4 DEF Settles
  <2>6. Pending(q) = Pending(p) \ {i}
    BY <2>2, <2>4 DEF Pending
  <2>. QED  BY <2>5, <2>6 DEF i, q
<1>. QED
  BY <1>1, <1>2

-----------------------------------------------------------------------------
(* The shape a plan keeps while it is carried out.                         *)

\* The cap holds, except for the one chart the supervisor may add by itself.
WithinCap(plan) ==
    \/ Len(plan) <= MAX_PLAN_STEPS
    \/ Len(plan) <= MAX_PLAN_STEPS + 1 /\ HasVisu(plan)

\* A question still to be asked is one the turn may ask.
QuestionsAllowed(plan, count) ==
    \A i \in Pending(plan) :
        plan[i].route = "clarification" => count < MAX_CLARIFICATIONS_PER_TURN

WellShaped(plan, count) ==
    /\ plan \in Seq(PlanItem)
    /\ WithinCap(plan) /\ QuestionsAlone(plan) /\ QuestionsAllowed(plan, count)

\* The plan of an outage, or of a decision to end, is well-shaped and has no
\* step.
LEMMA EmptyPlanShape ==
    ASSUME NEW count \in Nat
    PROVE  WellShaped(<<>>, count) /\ Pending(<<>>) = {}
  BY DEF WellShaped, WithinCap, QuestionsAlone, QuestionsAllowed, Pending

\* Finishing pending steps keeps the shape of a plan and makes no step pending.
LEMMA SettlesShape ==
    ASSUME NEW p, NEW q, NEW count \in Nat, WellShaped(p, count), Settles(p, q)
    PROVE  /\ WellShaped(q, count) /\ Pending(q) \subseteq Pending(p)
           /\ DOMAIN q = DOMAIN p
<1>1. /\ p \in Seq(PlanItem) /\ q \in Seq(PlanItem) /\ Len(q) = Len(p)
      /\ DOMAIN q = DOMAIN p
  BY DEF Settles, WellShaped
<1>2. \A i \in DOMAIN p : /\ q[i].route = p[i].route
                          /\ p[i].status # "pending" => q[i] = p[i]
  BY DEF Settles
<1>3. Pending(q) \subseteq Pending(p)
  BY <1>1, <1>2 DEF Pending
<1>4. WithinCap(q)
  BY <1>1, <1>2 DEF WithinCap, HasVisu, HasRoute, WellShaped
<1>5. QuestionsAlone(q)
  BY <1>1, <1>2 DEF QuestionsAlone, WellShaped
<1>6. QuestionsAllowed(q, count)
  BY <1>1, <1>2, <1>3 DEF QuestionsAllowed, WellShaped, Pending
<1>. QED
  BY <1>1, <1>3, <1>4, <1>5, <1>6 DEF WellShaped

\* _apply_clarification_cap leaves no question the turn may not ask.
LEMMA ClarificationCapShape ==
    ASSUME NEW p \in Seq(PlanItem), NEW count \in Nat,
           Len(p) <= MAX_PLAN_STEPS, QuestionsAlone(p)
    PROVE  WellShaped(ApplyClarificationCap(p, count), count)
<1>. DEFINE q == ApplyClarificationCap(p, count)
<1>1. CASE count < MAX_CLARIFICATIONS_PER_TURN
  <2>1. q = p
    BY <1>1 DEF ApplyClarificationCap
  <2>. QED  BY <1>1, <2>1 DEF WellShaped, WithinCap, QuestionsAllowed
<1>2. CASE ~ (count < MAX_CLARIFICATIONS_PER_TURN)
  <2>1. \A i \in DOMAIN p : q[i] \in PlanItem /\ q[i].route # "clarification"
    <3>. TAKE i \in DOMAIN p
    <3>1. p[i] \in PlanItem
      OBVIOUS
    <3>. QED  BY <1>2, <3>1 DEF ApplyClarificationCap, PlanItem, PlanRoutes,
                                Specialists, AnyTask
  <2>2. q \in [DOMAIN p -> {q[i] : i \in DOMAIN p}]
    BY <1>2 DEF ApplyClarificationCap
  <2>. HIDE DEF q
  <2>3. q \in [1..Len(p) -> PlanItem]
    BY <2>1, <2>2
  <2>4. q \in Seq(PlanItem) /\ Len(q) = Len(p) /\ DOMAIN q = DOMAIN p
    BY <2>3
  <2>5. WellShaped(q, count)
    BY <2>1, <2>4 DEF WellShaped, WithinCap, QuestionsAlone, QuestionsAllowed, Pending
  <2>. QED  BY <2>5 DEF q
<1>. QED
  BY <1>1, <1>2

\* _maybe_insert_visu adds at most one chart, at the end, and to no question.
LEMMA InsertVisuShape ==
    ASSUME NEW p, NEW count \in Nat, WellShaped(p, count), NEW wants \in BOOLEAN
    PROVE  LET q == MaybeInsertVisu(p, wants)
           IN  /\ WellShaped(q, count)
               /\ DOMAIN p \subseteq DOMAIN q /\ \A i \in DOMAIN p : q[i] = p[i]
               /\ \A i \in DOMAIN q \ DOMAIN p : \A j \in DOMAIN p : j < i
               /\ p = <<>> => q = <<>>
<1>. DEFINE q == MaybeInsertVisu(p, wants)
            item == NewItem("visu", Canned, "database")
<1>1. CASE q = p
  BY <1>1
<1>2. CASE q # p
  <2>1. p \in Seq(PlanItem) /\ item \in PlanItem
    BY NewItemType DEF WellShaped, PlanRoutes, Specialists, AnyTask, DataSources
  <2>2. ~ HasVisu(p) /\ RowsUpstreamIndex(p, Len(p) + 1) # 0 /\ q = Append(p, item)
    BY <1>2 DEF MaybeInsertVisu
  <2>3. PICK j \in DOMAIN p : p[j].route = "sql"
    <3>1. PICK j \in UpstreamSql(p, Len(p) + 1) : TRUE
      BY <2>2 DEF RowsUpstreamIndex
    <3>. QED  BY <2>1, <3>1 DEF UpstreamSql
  <2>4. item.route = "visu"
    BY DEF NewItem
  <2>. HIDE DEF q, item
  <2>5. /\ q \in Seq(PlanItem) /\ Len(q) = Len(p) + 1
        /\ q[Len(p) + 1] = item /\ \A i \in DOMAIN p : q[i] = p[i]
        /\ DOMAIN p = 1..Len(p) /\ DOMAIN q = 1..(Len(p) + 1)
    BY <2>1, <2>2
  <2>6. WithinCap(q)
    <3>1. Len(p) <= MAX_PLAN_STEPS
      BY <2>2 DEF WellShaped, WithinCap
    <3>2. HasVisu(q)
      BY <2>1, <2>4, <2>5 DEF HasVisu, HasRoute
    <3>. QED  BY <2>1, <2>5, <3>1, <3>2 DEF WithinCap
  <2>7. \A i \in DOMAIN q : q[i].route # "clarification"
    <3>1. \A i \in DOMAIN p : p[i].route # "clarification"
      BY <2>1, <2>3, <2>5 DEF WellShaped, QuestionsAlone
    <3>. QED  BY <2>1, <2>4, <2>5, <3>1
  <2>8. WellShaped(q, count)
    BY <2>5, <2>6, <2>7 DEF WellShaped, QuestionsAlone, QuestionsAllowed, Pending
  <2>9. p # <<>>
    BY <2>3
  <2>. QED  BY <2>1, <2>5, <2>8, <2>9 DEF q
<1>. QED
  BY <1>1, <1>2
=============================================================================
