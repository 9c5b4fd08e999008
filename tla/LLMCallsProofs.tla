---------------------------- MODULE LLMCallsProofs ----------------------------
(***************************************************************************)
(* Theorems about the LLM chain and its budget, and about the nodes that   *)
(* make several calls on one budget: for a chain of any length, any limits *)
(* and any number of iterations and attempts.                              *)
(***************************************************************************)
EXTENDS LLMCalls, FiniteSetTheorems, WellFoundedInduction, TLAPS

-----------------------------------------------------------------------------
(* One call of the chain                                                   *)

\* What the chain knows at each of its steps: until the reserved call is made
\* one contact less has happened than calls are counted, and past the check
\* every limit still has room.
LLMInv ==
    /\ TypeOK
    /\ calls = contacts + (IF pc = "contact" THEN 1 ELSE 0)
    /\ calls <= MaxCalls
    /\ waited = llm_seconds
    /\ llm_seconds = 0 \/ llm_seconds < MaxSeconds + LongestCall
    /\ tokens = 0 \/ tokens < MaxTokens + LargestReply
    /\ pc \in {"build", "contact"} => tokens < MaxTokens /\ llm_seconds < MaxSeconds
    /\ pc = "build" => calls < MaxCalls

\* A step of a call keeps the invariant.
LEMMA NextKeepsLLMInv == LLMInv /\ [Next]_vars => LLMInv'
<1> USE BudgetAssumption
<1> SUFFICES ASSUME LLMInv, [Next]_vars PROVE LLMInv'
    OBVIOUS
<1>1. CASE Invoke
      BY <1>1 DEF LLMInv, TypeOK, Invoke, budgetVars, factVars, Outcomes
<1>2. CASE Check
      BY <1>2 DEF LLMInv, TypeOK, Check, Return, Exhausted, budgetVars, factVars, Outcomes
<1>3. CASE BuildFails
      BY <1>3 DEF LLMInv, TypeOK, BuildFails, FallThrough, Return, budgetVars, factVars, Outcomes
<1>4. CASE BuildSucceeds
      BY <1>4 DEF LLMInv, TypeOK, BuildSucceeds, factVars, Outcomes
<1>5. CASE ProviderAnswers
  <2>1. PICK seconds \in 0..LongestCall, usage \in 0..LargestReply :
              /\ Contacted(seconds)
              /\ llm_seconds' = llm_seconds + seconds
              /\ tokens' = tokens + usage
        BY <1>5 DEF ProviderAnswers
  <2> QED BY <1>5, <2>1 DEF LLMInv, TypeOK, ProviderAnswers, Contacted, Return, Outcomes
<1>6. CASE ProviderFails
  <2>1. PICK seconds \in 0..LongestCall :
              Contacted(seconds) /\ llm_seconds' = llm_seconds + seconds
        BY <1>6 DEF ProviderFails
  <2> QED BY <1>6, <2>1
          DEF LLMInv, TypeOK, ProviderFails, Contacted, FallThrough, Return, Outcomes
<1>7. CASE OpenScope
      BY <1>7 DEF LLMInv, TypeOK, OpenScope, Outcomes
<1>8. CASE UNCHANGED vars
      BY <1>8 DEF LLMInv, TypeOK, vars, budgetVars, factVars
<1> QED BY <1>1, <1>2, <1>3, <1>4, <1>5, <1>6, <1>7, <1>8 DEF Next, Step

\* The invariant holds of a fresh budget and is kept by every call.
THEOREM LLMInvariant == Spec => []LLMInv
<1>1. Init => LLMInv
      BY BudgetAssumption DEF Init, LLMInv, TypeOK, Outcomes
<1> QED BY <1>1, NextKeepsLLMInv, PTL DEF Spec

\* One budget pays for at most MaxCalls provider contacts and overshoots its
\* time and token limits by less than one contact (services/budget.py,
\* services/llm.py invoke), however the calls fall back.
THEOREM BudgetIsABackstop == Spec => []ScopeBound
<1>1. LLMInv => ScopeBound
      BY BudgetAssumption DEF LLMInv, TypeOK, ScopeBound
<1> QED BY <1>1, LLMInvariant, PTL

\* Each step of a call brings the end of the chain nearer, which is never far.
LEMMA CallShrinks ==
    ASSUME LLMInv, Step
    PROVE  CallLeft' \in 0..(CallLeft - 1)
<1> USE BudgetAssumption
<1>0. Candidates \in Nat /\ candidate \in 1..Candidates
      BY DEF LLMInv, TypeOK
<1>1. CASE Check
      BY <1>0, <1>1 DEF Check, Return, CallLeft
<1>2. ASSUME FallThrough, pc \in {"build", "contact"} PROVE CallLeft' \in 0..(CallLeft - 1)
      BY <1>0, <1>2 DEF FallThrough, Return, CallLeft
<1>3. CASE BuildFails
      BY <1>2, <1>3 DEF BuildFails
<1>4. CASE BuildSucceeds
      BY <1>0, <1>4 DEF BuildSucceeds, CallLeft
<1>5. ASSUME NEW how, Return(how), pc = "contact" PROVE CallLeft' \in 0..(CallLeft - 1)
      BY <1>0, <1>5 DEF Return, CallLeft
<1>6. CASE ProviderAnswers
      BY <1>5, <1>6 DEF ProviderAnswers
<1>7. CASE ProviderFails
      BY <1>2, <1>5, <1>7 DEF ProviderFails
<1> QED BY <1>1, <1>3, <1>4, <1>6, <1>7 DEF Step

LEMMA CallIsShort == LLMInv => CallLeft \in 0..(3 * Candidates)
<1> SUFFICES ASSUME LLMInv PROVE CallLeft \in 0..(3 * Candidates)
    OBVIOUS
<1> QED BY BudgetAssumption DEF LLMInv, TypeOK, CallLeft

\* Every step of the chain is a step or a stutter of the call it promises.
LEMMA StepKeepsContract == LLMInv /\ [Next]_vars => [Promise!CallNext]_Promise!callVars
<1> USE BudgetAssumption
<1> USE DEF Promise!callVars, Promise!CallNext, Promise!Step
<1> SUFFICES ASSUME LLMInv, [Next]_vars PROVE [Promise!CallNext]_Promise!callVars
    OBVIOUS
<1>0. outcome # "open" /\ Exhausted \in BOOLEAN /\ Exhausted' \in BOOLEAN
      BY DEF LLMInv, TypeOK, Outcomes, Exhausted
<1>a. ASSUME Phase = "open", Phase' = "open" \/ Phase' \in {"answer", "error", "over"},
             Exhausted => Exhausted', Phase' = "over" => Exhausted',
             CallLeft' \in 0..(CallLeft - 1)
      PROVE  Promise!Work \/ Promise!End
  <2>1. CASE Phase' = "open"
        BY <1>0, <1>a, <2>1 DEF Promise!Work
  <2>2. CASE Phase' # "open"
    <3>1. 0 \in 0..(CallLeft - 1)
          BY <1>a, CallIsShort
    <3> QED BY <1>0, <1>a, <2>2, <3>1 DEF Promise!End
  <2> QED BY <2>1, <2>2
<1>1. CASE Invoke
  <2>1. Exhausted' = Exhausted
        BY <1>1 DEF Invoke, budgetVars, Exhausted
  <2>2. Phase = outcome /\ Phase' = IF Exhausted THEN outcome ELSE "open"
        BY <1>1, <2>1 DEF Invoke, Phase
  <2>3. CallLeft' \in 0..(3 * Candidates)
    <3>1. pc' = "check" /\ candidate' = 1
          BY <1>1 DEF Invoke
    <3>2. CallLeft' = 3 * (Candidates - 1) + 3
          BY <3>1 DEF CallLeft
    <3> QED BY <3>2
  <2> QED BY <1>0, <2>1, <2>2, <2>3 DEF Promise!Start
<1>2. CASE Check
  <2>1. Exhausted' = Exhausted
        BY <1>2 DEF Check, budgetVars, Exhausted
  <2>2. CASE Exhausted
    <3>1. Phase' = "over"
          BY <1>2, <2>2 DEF Check, Return, Phase
    <3>2. Phase = outcome \/ Phase = "open"
          BY <1>2 DEF Check, Phase
    <3>3. CASE Phase = outcome
          BY <1>0, <2>1, <2>2, <3>1, <3>3 DEF Promise!Refuse
    <3>4. CASE Phase = "open"
          BY <1>2, <1>a, <2>1, <2>2, <3>1, <3>4, CallShrinks DEF Step
    <3> QED BY <3>2, <3>3, <3>4
  <2>3. CASE ~Exhausted
    <3>1. Phase = "open" /\ Phase' = "open"
          BY <1>2, <2>3 DEF Check, Phase
    <3> QED BY <1>2, <1>a, <2>1, <3>1, CallShrinks DEF Step
  <2> QED BY <2>2, <2>3
<1>3. CASE BuildFails
  <2>1. Exhausted' = Exhausted
        BY <1>3 DEF BuildFails, budgetVars, Exhausted
  <2>2. Phase = "open" /\ Phase' \in {"open", "error"}
        BY <1>3 DEF BuildFails, FallThrough, Return, Phase, LLMInv, TypeOK
  <2> QED BY <1>3, <1>a, <2>1, <2>2, CallShrinks DEF Step
<1>4. CASE BuildSucceeds
  <2>1. Exhausted => Exhausted'
        BY <1>4 DEF BuildSucceeds, Exhausted, LLMInv, TypeOK
  <2>2. Phase = "open" /\ Phase' = "open"
        BY <1>4 DEF BuildSucceeds, Phase
  <2> QED BY <1>4, <1>a, <2>1, <2>2, CallShrinks DEF Step
<1>5. CASE ProviderAnswers
  <2>1. PICK seconds \in 0..LongestCall, usage \in 0..LargestReply :
              llm_seconds' = llm_seconds + seconds /\ tokens' = tokens + usage
        BY <1>5 DEF ProviderAnswers
  <2>2. Exhausted => Exhausted'
        BY <1>5, <2>1 DEF ProviderAnswers, Exhausted, LLMInv, TypeOK
  <2>3. Phase = "open" /\ Phase' = "answer"
        BY <1>5 DEF ProviderAnswers, Return, Phase
  <2> QED BY <1>5, <1>a, <2>2, <2>3, CallShrinks DEF Step
<1>6. CASE ProviderFails
  <2>1. PICK seconds \in 0..LongestCall : llm_seconds' = llm_seconds + seconds
        BY <1>6 DEF ProviderFails
  <2>2. Exhausted => Exhausted'
        BY <1>6, <2>1 DEF ProviderFails, Exhausted, LLMInv, TypeOK
  <2>3. Phase = "open" /\ Phase' \in {"open", "error"}
        BY <1>6 DEF ProviderFails, FallThrough, Return, Phase, LLMInv, TypeOK
  <2> QED BY <1>6, <1>a, <2>2, <2>3, CallShrinks DEF Step
<1>7. CASE OpenScope
  <2>1. Phase = outcome /\ Phase' = "none"
        BY <1>7 DEF OpenScope, Phase
  <2> QED BY <1>0, <2>1 DEF Promise!Replenish
<1>8. CASE UNCHANGED vars
      BY <1>8 DEF vars, budgetVars, factVars, Phase, Exhausted, CallLeft
<1> QED BY <1>1, <1>2, <1>3, <1>4, <1>5, <1>6, <1>7, <1>8 DEF Next, Step

\* The chain of models with its budget implements the abstract budgeted call:
\* TurnBudgetExceeded reaches a node only when nothing is left, and a call on
\* an exhausted budget ends in nothing else.  It takes three steps for each model
\* of the chain at most.
THEOREM ChainImplementsCall == Spec => KeepsCallContract
<1>1. Init => Promise!CallInit
      BY DEF Init, Promise!CallInit, Phase, Exhausted
<1> QED BY <1>1, LLMInvariant, StepKeepsContract, PTL
        DEF Spec, KeepsCallContract, Promise!CallSpec

-----------------------------------------------------------------------------
(* The rows of the last chartable fact                                     *)

\* A set of positions that is not empty has a last one.
LEMMA LastExists ==
    ASSUME NEW n \in Nat, NEW S \in SUBSET (1..n), S # {}
    PROVE  \E k \in S : \A j \in S : j <= k
<1> DEFINE T == {k..n : k \in S}
<1>1. T # {} /\ T \subseteq FiniteSubsetsOf(Nat)
  <2>1. \A k \in S : IsFiniteSet(k..n) /\ k..n \subseteq Nat
        BY FS_Interval
  <2> QED BY <2>1 DEF FiniteSubsetsOf
<1>2. PICK t \in T : \A u \in T : ~(<<u, t>> \in StrictSubsetOrdering(Nat))
  <2> HIDE DEF T
  <2> QED BY <1>1, WFMin, FS_StrictSubsetOrderingWellFounded
<1>3. PICK k \in S : t = k..n
      BY <1>2
<1>4. ASSUME NEW j \in S, k < j PROVE FALSE
  <2>1. j..n \subseteq k..n /\ k \in k..n /\ k \notin j..n /\ k..n \subseteq Nat
        BY <1>4
  <2>2. <<j..n, t>> \in StrictSubsetOrdering(Nat)
        BY <1>3, <2>1 DEF StrictSubsetOrdering
  <2> QED BY <1>2, <2>2
<1> QED BY <1>4

\* rows is the last chartable one of facts, or 0.
LastCharted(facts, rows) ==
    IF Charted(facts) = {} THEN rows = 0
    ELSE rows \in Charted(facts) /\ \A k \in Charted(facts) : k <= rows

\* The replies' outputs are sequences of facts.
LEMMA OutputsAreFacts ==
    ASSUME NEW outputs \in BoundedSeq(Facts, MaxToolCalls)
    PROVE  outputs \in Seq(Facts)
<1>1. PICK m \in 0..MaxToolCalls : outputs \in [1..m -> Facts]
      BY LoopAssumption DEF BoundedSeq, SeqOf
<1> QED BY <1>1, LoopAssumption

\* The loop keeps last_chartable_rows at the last chartable fact.
LEMMA NewRowsAreLast ==
    ASSUME NEW outputs \in Seq(Facts),
           collected_facts \in Seq(Facts), LastCharted(collected_facts, last_chartable_rows)
    PROVE  /\ LastCharted(collected_facts \o outputs, NewRows(collected_facts \o outputs))
           /\ NewRows(collected_facts \o outputs) \in Nat
<1> DEFINE all == collected_facts \o outputs
           n   == Len(collected_facts)
<1>1. /\ n \in Nat /\ Len(all) \in Nat /\ all \in Seq(Facts)
      /\ DOMAIN collected_facts = 1..n /\ DOMAIN all = 1..Len(all)
      /\ Len(all) = n + Len(outputs) /\ Len(outputs) \in Nat
      /\ \A k \in 1..n : all[k] = collected_facts[k]
      OBVIOUS
<1> HIDE DEF all, n
<1>2. Charted(all) \subseteq 1..Len(all) /\ Charted(collected_facts) \subseteq 1..n
      BY <1>1 DEF Charted
<1>3. Charted(collected_facts) = {k \in Charted(all) : k <= n}
      BY <1>1, <1>2 DEF Charted
<1>4. CASE \E k \in Charted(all) : k > n
  <2>1. \E k \in Charted(all) : \A j \in Charted(all) : j <= k
        BY <1>1, <1>2, <1>4, LastExists
  <2>2. NewRows(all) = CHOOSE k \in Charted(all) : \A j \in Charted(all) : j <= k
        BY <1>4 DEF NewRows, n
  <2>3. NewRows(all) \in Charted(all) /\ \A j \in Charted(all) : j <= NewRows(all)
        BY <2>1, <2>2
  <2> QED BY <1>1, <1>2, <2>3 DEF LastCharted, all
<1>5. CASE ~\E k \in Charted(all) : k > n
  <2>1. NewRows(all) = last_chartable_rows
        BY <1>5 DEF NewRows, n
  <2>2. Charted(all) = Charted(collected_facts)
        BY <1>1, <1>2, <1>3, <1>5
  <2> QED BY <1>1, <1>2, <2>1, <2>2 DEF LastCharted, all
<1> QED BY <1>4, <1>5

-----------------------------------------------------------------------------
(* The nodes use the chain as ResilientLLM describes it                    *)

LEMMA NodesStepTheChain == [CallsNext]_allVars => [Next]_vars
BY DEF CallsNext, allVars, OtherNode, NextMessage, Chain, PlanningNode, SqlNode, Next,
       BeginPlanning, PlanningStep, AskPlanner, PlannerHears, EndPlanning,
       BeginSql, SqlStep, AskModel, Heard, ModelOverBudget, ModelFails, ModelAnswers,
       ToolStopsVisit, ModelCallsTools, Synthesize, SynthesisHeard, EndSql

\* Planning, the sql loop and the other nodes are users of the chain: what holds
\* of every use of ResilientLLM and TurnBudget holds of theirs.
THEOREM NodesUseTheChain == CallsSpec => Spec
<1>1. CallsInit => Init
      BY DEF CallsInit
<1> QED BY <1>1, NodesStepTheChain, PTL DEF CallsSpec, Spec

\* A spent budget stays spent until the next scope, "over" is said of a spent
\* one only, and a call that is over has ended somehow.
LEMMA ChainFacts ==
    ASSUME LLMInv, Step
    PROVE  /\ Exhausted => Exhausted'
           /\ pc # "idle"
           /\ outcome' = "over" => outcome = "over" \/ Exhausted
           /\ pc = "check" /\ Exhausted => pc' = "idle" /\ outcome' = "over"
           /\ pc' = "idle" => outcome' # "none"
<1> USE BudgetAssumption DEF LLMInv, TypeOK, Exhausted
<1>1. CASE Check
      BY <1>1 DEF Check, Return, budgetVars
<1>2. CASE BuildFails
      BY <1>2 DEF BuildFails, FallThrough, Return, budgetVars
<1>3. CASE BuildSucceeds
      BY <1>3 DEF BuildSucceeds
<1>4. CASE ProviderAnswers
      BY <1>4 DEF ProviderAnswers, Return
<1>5. CASE ProviderFails
      BY <1>5 DEF ProviderFails, FallThrough, Return
<1> QED BY <1>1, <1>2, <1>3, <1>4, <1>5 DEF Step

\* A node that begins a call leaves the budget and the last ending alone.
LEMMA InvokeFacts ==
    Invoke => /\ pc = "idle" /\ pc' = "check" /\ outcome' = outcome
              /\ Exhausted' = Exhausted
BY DEF Invoke, budgetVars, Exhausted

LEMMA StutterFacts ==
    UNCHANGED vars => pc' = pc /\ outcome' = outcome /\ Exhausted' = Exhausted
BY DEF vars, budgetVars, Exhausted

-----------------------------------------------------------------------------
(* The inductive invariant                                                 *)

PlanningInv ==
    /\ planning \in PlanningVisit
    /\ planning.at # "rest" => sql.at = "rest"
    /\ planning.at \in {"ready", "returned"} => pc = "idle"
    /\ planning.at = "asked" /\ pc = "idle" => outcome # "none"

\* While a visit that began without budget lasts, its only call is refused.
Unfunded ==
    /\ sql.at = "ready" => Exhausted
    /\ sql.at = "asked" => /\ Exhausted
                           /\ pc = "check" \/ (pc = "idle" /\ outcome = "over")
    /\ sql.at \notin {"synthesize", "synthesizing"}

HandsOnRows ==
    sql.at = "returned" /\ sql.result.status # "raised"
        /\ sql.result.issue \notin Failures \cup {"invalid_request"}
    => sql.result.structured_data = last_chartable_rows

SqlInv ==
    /\ sql \in SqlVisit
    /\ sql.at = "rest" => sql = AtRest /\ collected_facts = <<>>
    /\ sql.at \in {"ready", "synthesize", "returned"} => pc = "idle"
    /\ sql.at \in {"asked", "synthesizing"} /\ pc = "idle" => outcome # "none"
    /\ sql.at \in {"ready", "asked"} => sql.iteration < max_iterations
    /\ sql.at = "synthesize" => collected_facts # <<>>
    /\ collected_facts \in Seq(Facts) /\ last_chartable_rows \in Nat
    /\ LastCharted(collected_facts, last_chartable_rows)
    /\ HandsOnRows
    /\ ~sql.funded => Unfunded

NodesInv ==
    /\ LLMInv
    /\ outcome = "over" => Exhausted
    /\ PlanningInv
    /\ SqlInv

LEMMA AtRestIsAVisit == AtRest \in SqlVisit
<1>1. NoAnswer \in [status: {"none", "done", "failed", "raised"}, issue: Issues,
                   structured_data: Nat]
      BY DEF NoAnswer, Issues
<1> HIDE DEF NoAnswer
<1> QED BY <1>1, LoopAssumption DEF SqlVisit, AtRest

LEMMA NodesInvInit == CallsInit => NodesInv
<1> SUFFICES ASSUME CallsInit PROVE NodesInv
    OBVIOUS
<1> USE BudgetAssumption, AttemptsAssumption, LoopAssumption
<1>1. LLMInv /\ outcome = "none"
      BY DEF CallsInit, Init, LLMInv, TypeOK, Outcomes
<1>2. PlanningInv
      BY DEF CallsInit, Init, PlanningInit, SqlInit, NotPlanning, PlanningInv,
             PlanningVisit, Verdicts, AtRest
<1>3. sql \in SqlVisit
      BY AtRestIsAVisit DEF CallsInit, SqlInit
<1>4. Charted(<<>>) = {}
      BY DEF Charted
<1>5. SqlInv
      BY <1>3, <1>4
      DEF CallsInit, SqlInit, SqlInv, AtRest, LastCharted, HandsOnRows, Unfunded
<1> QED BY <1>1, <1>2, <1>5 DEF NodesInv

\* Only a spent budget makes a call end "over".
LEMMA OverIsSpent ==
    ASSUME NodesInv, [CallsNext]_allVars
    PROVE  (outcome = "over" => Exhausted)'
<1>1. [Next]_vars
      BY NodesStepTheChain
<1>2. CASE Step
      BY <1>2, ChainFacts DEF NodesInv
<1>3. CASE Invoke
      BY <1>3, InvokeFacts DEF NodesInv
<1>4. CASE OpenScope
      BY <1>4 DEF OpenScope
<1>5. CASE UNCHANGED vars
      BY <1>5, StutterFacts DEF NodesInv
<1> QED BY <1>1, <1>2, <1>3, <1>4, <1>5 DEF Next

\* What a returned visit says, as a record of the right type.
LEMMA ReturnsFacts ==
    ASSUME sql \in SqlVisit, NEW rows \in Nat, NEW issue \in Issues,
           NEW status \in {"done", "failed", "raised"}, Returns(status, issue, rows)
    PROVE  /\ sql' \in SqlVisit
           /\ sql'.at = "returned" /\ sql'.funded = sql.funded
           /\ sql'.result.status = status /\ sql'.result.issue = issue
           /\ sql'.result.structured_data = rows
<1> DEFINE r == [status |-> status, issue |-> issue, structured_data |-> rows]
<1>1. /\ r \in [status: {"none", "done", "failed", "raised"}, issue: Issues,
                structured_data: Nat]
      /\ r.status = status /\ r.issue = issue /\ r.structured_data = rows
      OBVIOUS
<1>2. sql' = [sql EXCEPT !.at = "returned", !.result = r]
      BY DEF Returns
<1> HIDE DEF r
<1> QED BY <1>1, <1>2 DEF SqlVisit

\* A visit that returns keeps the invariant of the visit.
LEMMA ReturnKeepsSqlInv ==
    ASSUME SqlInv, NEW rows \in Nat, NEW issue \in Issues,
           NEW status \in {"done", "failed", "raised"}, Returns(status, issue, rows),
           pc = "idle", UNCHANGED <<vars, collected_facts, last_chartable_rows>>,
           \/ rows = last_chartable_rows \/ status = "raised"
           \/ issue \in Failures \cup {"invalid_request"}
    PROVE  SqlInv'
<1>1. /\ sql' \in SqlVisit /\ sql'.at = "returned"
      /\ sql'.result.status = status /\ sql'.result.issue = issue
      /\ sql'.result.structured_data = rows
      BY ReturnsFacts DEF SqlInv
<1>2. LastCharted(collected_facts, last_chartable_rows)'
      BY DEF SqlInv, LastCharted, Charted
<1>3. HandsOnRows'
      BY <1>1 DEF HandsOnRows, Failures
<1> QED BY <1>1, <1>2, <1>3, StutterFacts DEF SqlInv, Unfunded

\* The chain and the other nodes leave the visit as it is.
LEMMA ChainKeepsSqlInv ==
    ASSUME NodesInv, Step, UNCHANGED sqlVars
    PROVE  SqlInv'
<1>1. LastCharted(collected_facts, last_chartable_rows)' /\ HandsOnRows'
      BY DEF NodesInv, SqlInv, LastCharted, Charted, HandsOnRows, sqlVars
<1>2. ASSUME ~sql.funded PROVE Unfunded'
      BY <1>2, ChainFacts DEF NodesInv, SqlInv, Unfunded, sqlVars
<1> QED BY <1>1, <1>2, ChainFacts DEF NodesInv, SqlInv, sqlVars

LEMMA RestKeepsSqlInv ==
    ASSUME NodesInv, sql.at = "rest", UNCHANGED sqlVars
    PROVE  SqlInv'
<1>1. LastCharted(collected_facts, last_chartable_rows)' /\ HandsOnRows'
      BY DEF NodesInv, SqlInv, LastCharted, Charted, HandsOnRows, sqlVars
<1> QED BY <1>1 DEF NodesInv, SqlInv, Unfunded, sqlVars

\* Each step of the sql loop keeps the invariant of the visit.
LEMMA SqlNodeKeepsSqlInv ==
    ASSUME NodesInv, SqlNode
    PROVE  SqlInv'
<1> USE LoopAssumption DEF Issues, Failures
<1>0. SqlInv /\ last_chartable_rows \in Nat /\ sql \in SqlVisit /\ 0 \in Nat
      BY DEF NodesInv, SqlInv
<1>1. CASE BeginSql
  <2>1. CASE Returns("failed", "permission_denied", 0)
        BY <1>0, <1>1, <2>1, ReturnKeepsSqlInv DEF BeginSql
  <2>2. CASE sql' = [sql EXCEPT !.at = "ready", !.funded = ~Exhausted]
    <3>1. sql.iteration = 0
          BY <1>0, <1>1 DEF BeginSql, SqlInv, AtRest
    <3>2. (~Exhausted) \in BOOLEAN
          BY DEF Exhausted
    <3>3. sql' \in SqlVisit /\ sql'.at = "ready" /\ sql'.iteration = 0
          /\ sql'.funded = ~Exhausted
          BY <1>0, <2>2, <3>1, <3>2 DEF SqlVisit
    <3>4. LastCharted(collected_facts, last_chartable_rows)' /\ HandsOnRows'
          BY <1>0, <1>1, <3>3 DEF BeginSql, SqlInv, LastCharted, Charted, HandsOnRows
    <3>5. ASSUME ~sql'.funded PROVE Unfunded'
      <4>1. Exhausted
            BY <3>3, <3>5
      <4>2. Exhausted'
            BY <1>1, <4>1, StutterFacts DEF BeginSql
      <4> QED BY <3>3, <4>2 DEF Unfunded
    <3>6. pc' = "idle"
          BY <1>1, StutterFacts DEF BeginSql
    <3>7. collected_facts' = collected_facts /\ last_chartable_rows' = last_chartable_rows
          BY <1>1 DEF BeginSql
    <3> QED BY <1>0, <3>3, <3>4, <3>5, <3>6, <3>7 DEF SqlInv
  <2> QED BY <1>1, <2>1, <2>2 DEF BeginSql
<1>2. CASE AskModel
  <2>1. sql' \in SqlVisit /\ sql'.at = "asked" /\ sql'.iteration = sql.iteration
        /\ sql'.funded = sql.funded
        BY <1>0, <1>2 DEF AskModel, SqlVisit
  <2>2. LastCharted(collected_facts, last_chartable_rows)' /\ HandsOnRows'
        BY <1>0, <1>2, <2>1 DEF AskModel, SqlInv, LastCharted, Charted, HandsOnRows
  <2>3. ~sql'.funded => Unfunded'
        BY <1>0, <1>2, <2>1, InvokeFacts DEF AskModel, SqlInv, Unfunded
  <2> QED BY <1>0, <1>2, <2>1, <2>2, <2>3, InvokeFacts DEF AskModel, SqlInv
<1>3. CASE ModelOverBudget
      BY <1>0, <1>3, ReturnKeepsSqlInv DEF ModelOverBudget, Heard
<1>4. CASE ModelFails
      BY <1>0, <1>4, ReturnKeepsSqlInv DEF ModelFails, Heard
<1>5. CASE ModelAnswers
      BY <1>0, <1>5, ReturnKeepsSqlInv DEF ModelAnswers, Heard
<1>6. CASE ToolStopsVisit
      BY <1>0, <1>6, ReturnKeepsSqlInv DEF ToolStopsVisit, Heard
<1>7. CASE ModelCallsTools
  <2>1. PICK outputs \in BoundedSeq(Facts, MaxToolCalls) :
              /\ outputs # <<>>
              /\ collected_facts' = collected_facts \o outputs
              /\ last_chartable_rows' = NewRows(collected_facts \o outputs)
        BY <1>7 DEF ModelCallsTools
  <2>2. outputs \in Seq(Facts) /\ collected_facts \in Seq(Facts)
        BY <1>0, OutputsAreFacts DEF SqlInv
  <2>3. LastCharted(collected_facts, last_chartable_rows)' /\ last_chartable_rows' \in Nat
        BY <1>0, <2>1, <2>2, NewRowsAreLast DEF SqlInv, LastCharted, Charted
  <2>4. collected_facts' \in Seq(Facts) /\ collected_facts' # <<>>
        BY <2>1, <2>2
  <2>5. sql.at = "asked" /\ sql.iteration + 1 \in 0..max_iterations /\ sql.iteration \in Nat
        BY <1>0, <1>7 DEF ModelCallsTools, Heard, SqlInv, SqlVisit
  <2>6. /\ sql' \in SqlVisit /\ sql'.iteration = sql.iteration + 1
        /\ sql'.funded = sql.funded
        /\ sql'.at = IF sql.iteration + 1 = max_iterations THEN "synthesize" ELSE "ready"
        BY <1>0, <1>7, <2>5 DEF ModelCallsTools, SqlVisit
  <2>7. sql.funded
        BY <1>0, <1>7, <2>5 DEF ModelCallsTools, Heard, SqlInv, Unfunded
  <2>8. HandsOnRows'
        BY <2>6 DEF HandsOnRows
  <2>9. pc' = "idle"
        BY <1>7, StutterFacts DEF ModelCallsTools, Heard
  <2> QED BY <2>3, <2>4, <2>5, <2>6, <2>7, <2>8, <2>9 DEF SqlInv
<1>8. CASE Synthesize
  <2>1. sql.at = "synthesize" /\ collected_facts # <<>> /\ sql.funded
        BY <1>0, <1>8 DEF Synthesize, SqlInv, Unfunded
  <2>2. Invoke /\ sql' = [sql EXCEPT !.at = "synthesizing"]
        BY <1>8, <2>1 DEF Synthesize
  <2>3. sql' \in SqlVisit /\ sql'.at = "synthesizing" /\ sql'.funded
        BY <1>0, <2>1, <2>2 DEF SqlVisit
  <2>4. LastCharted(collected_facts, last_chartable_rows)' /\ HandsOnRows'
        BY <1>0, <1>8, <2>3 DEF Synthesize, SqlInv, LastCharted, Charted, HandsOnRows
  <2> QED BY <1>0, <1>8, <2>2, <2>3, <2>4, InvokeFacts DEF Synthesize, SqlInv
<1>9. CASE SynthesisHeard
  <2>1. outcome \in {"over", "error", "answer"}
        BY <1>0, <1>9 DEF SynthesisHeard, SqlInv, NodesInv, LLMInv, TypeOK, Outcomes
  <2>2. \E status \in {"done", "failed"}, issue \in Issues :
              Returns(status, issue, last_chartable_rows)
    <3>1. CASE outcome = "over"
          BY <1>9, <3>1 DEF SynthesisHeard
    <3>2. CASE outcome = "error"
          BY <1>9, <3>2 DEF SynthesisHeard
    <3>3. CASE outcome = "answer"
          BY <1>9, <3>3 DEF SynthesisHeard
    <3> QED BY <2>1, <3>1, <3>2, <3>3
  <2> QED BY <1>0, <1>9, <2>2, ReturnKeepsSqlInv DEF SynthesisHeard
<1>10. CASE EndSql
  <2>1. pc' = "idle" /\ Charted(<<>>) = {}
        BY <1>0, <1>10, StutterFacts DEF EndSql, SqlInv, Charted
  <2> QED BY <1>10, <2>1, AtRestIsAVisit
          DEF EndSql, SqlInv, AtRest, LastCharted, Charted, HandsOnRows, Unfunded
<1> QED BY <1>1, <1>2, <1>3, <1>4, <1>5, <1>6, <1>7, <1>8, <1>9, <1>10
        DEF SqlNode, SqlStep

\* Each step of a planning visit keeps its invariant.
LEMMA TryKeepsPlanningInv ==
    ASSUME NodesInv, sql.at = "rest", UNCHANGED <<vars, sqlVars>>, pc = "idle",
           NEW call \in {"workflow", "decision"}, NEW attempt \in 1..max_attempts,
           NEW verdict \in Verdicts,
           planning' = [planning EXCEPT !.at = "ready", !.call = call, !.attempt = attempt]
           \/ planning' = [planning EXCEPT !.at = "returned", !.verdict = verdict]
    PROVE  PlanningInv'
<1>1. planning \in PlanningVisit
      BY DEF NodesInv, PlanningInv
<1>2. planning' \in PlanningVisit /\ planning'.at \in {"ready", "returned"}
      BY <1>1 DEF PlanningVisit
<1> QED BY <1>2, StutterFacts DEF PlanningInv, sqlVars

LEMMA PlanningNodeKeepsPlanningInv ==
    ASSUME NodesInv, PlanningNode
    PROVE  PlanningInv'
<1> USE AttemptsAssumption
<1>0. /\ planning \in PlanningVisit /\ planning.attempt \in 1..max_attempts
      /\ planning.call \in {"workflow", "decision"} /\ 1 \in 1..max_attempts
      /\ UNCHANGED sqlVars
      BY DEF NodesInv, PlanningInv, PlanningVisit, PlanningNode
<1>1. CASE AtRestAll /\ BeginPlanning
  <2>1. CASE Exhausted
        BY <1>0, <1>1, <2>1, TryKeepsPlanningInv
        DEF AtRestAll, BeginPlanning, Decide, Verdicts
  <2>2. CASE ~Exhausted
        BY <1>0, <1>1, <2>2, TryKeepsPlanningInv
        DEF AtRestAll, BeginPlanning, Try, Verdicts
  <2> QED BY <2>1, <2>2
<1>2. CASE AskPlanner
  <2>1. planning' \in PlanningVisit /\ planning'.at = "asked"
        BY <1>0, <1>2 DEF AskPlanner, PlanningVisit
  <2>2. sql'.at = "rest"
        BY <1>0, <1>2 DEF AskPlanner, NodesInv, PlanningInv, sqlVars
  <2> QED BY <1>2, <2>1, <2>2, InvokeFacts DEF AskPlanner, PlanningInv
<1>3. CASE PlannerHears
  <2>1. sql.at = "rest" /\ pc = "idle" /\ UNCHANGED <<vars, sqlVars>>
        BY <1>0, <1>3 DEF PlannerHears, NodesInv, PlanningInv
  <2>2. outcome \in {"over", "error", "answer"}
        BY <1>3 DEF PlannerHears, NodesInv, PlanningInv, LLMInv, TypeOK, Outcomes
  <2>3. \/ \E verdict \in Verdicts : Decide(verdict)
        \/ \E call \in {"workflow", "decision"}, attempt \in 1..max_attempts :
              Try(call, attempt)
    <3>1. planning.attempt < max_attempts => planning.attempt + 1 \in 1..max_attempts
          BY <1>0
    <3>2. CASE GiveUp
          BY <1>0, <3>2 DEF GiveUp, Verdicts
    <3>3. CASE Retry
          BY <1>0, <3>1, <3>2, <3>3 DEF Retry
    <3>4. CASE \/ outcome = "over" /\ GiveUp
               \/ outcome = "error" /\ (Retry \/ Decide("outage"))
               \/ outcome = "answer" /\ (\/ Decide(planning.call) \/ GiveUp \/ Retry
                                       \/ Decide("outage"))
          BY <1>0, <3>2, <3>3, <3>4 DEF Verdicts
    <3>5. CASE outcome = "over"
          BY <1>3, <3>4, <3>5 DEF PlannerHears
    <3>6. CASE outcome = "error"
          BY <1>3, <3>4, <3>6 DEF PlannerHears
    <3>7. CASE outcome = "answer"
          BY <1>3, <3>4, <3>7 DEF PlannerHears
    <3> QED BY <2>2, <3>5, <3>6, <3>7
  <2> QED BY <1>0, <2>1, <2>3, TryKeepsPlanningInv DEF Decide, Try, Verdicts
<1>4. CASE EndPlanning
  <2>1. NotPlanning \in PlanningVisit
        BY DEF NotPlanning, PlanningVisit, Verdicts
  <2> QED BY <1>4, <2>1 DEF EndPlanning, PlanningInv, NotPlanning
<1> QED BY <1>1, <1>2, <1>3, <1>4 DEF PlanningNode, PlanningStep

LEMMA NodesInvNext == NodesInv /\ [CallsNext]_allVars => NodesInv'
<1> SUFFICES ASSUME NodesInv, [CallsNext]_allVars PROVE NodesInv'
    OBVIOUS
<1>0. LLMInv' /\ (outcome = "over" => Exhausted)'
      BY NodesStepTheChain, NextKeepsLLMInv, OverIsSpent DEF NodesInv
<1>1. CASE OtherNode \/ NextMessage
  <2>1. AtRestAll /\ UNCHANGED <<planning, sqlVars>>
        BY <1>1 DEF OtherNode, NextMessage
  <2>2. SqlInv'
        BY <2>1, RestKeepsSqlInv DEF AtRestAll
  <2>3. PlanningInv'
        BY <2>1 DEF AtRestAll, NodesInv, PlanningInv, sqlVars
  <2> QED BY <1>0, <2>2, <2>3 DEF NodesInv
<1>2. CASE Chain
  <2>1. SqlInv'
        BY <1>2, ChainKeepsSqlInv DEF Chain
  <2>2. PlanningInv'
        BY <1>2, ChainFacts DEF Chain, NodesInv, PlanningInv, sqlVars
  <2> QED BY <1>0, <2>1, <2>2 DEF NodesInv
<1>3. CASE PlanningNode
  <2>1. sql.at = "rest" /\ UNCHANGED sqlVars
        BY <1>3 DEF PlanningNode, AtRestAll, PlanningStep, AskPlanner, PlannerHears,
                    EndPlanning, NodesInv, PlanningInv
  <2> QED BY <1>0, <1>3, <2>1, RestKeepsSqlInv, PlanningNodeKeepsPlanningInv DEF NodesInv
<1>4. CASE SqlNode
  <2>1. planning.at = "rest" /\ UNCHANGED planning
        BY <1>4 DEF SqlNode, AtRestAll, SqlStep, AskModel, Heard, ModelOverBudget,
                    ModelFails, ModelAnswers, ToolStopsVisit, ModelCallsTools, Synthesize,
                    SynthesisHeard, EndSql, NodesInv, PlanningInv
  <2>2. PlanningInv'
        BY <2>1 DEF NodesInv, PlanningInv
  <2> QED BY <1>0, <1>4, <2>2, SqlNodeKeepsSqlInv DEF NodesInv
<1>5. CASE UNCHANGED allVars
  <2>1. PlanningInv'
        BY <1>5, StutterFacts DEF allVars, NodesInv, PlanningInv, sqlVars
  <2>2. LastCharted(collected_facts, last_chartable_rows)' /\ HandsOnRows'
        BY <1>5 DEF allVars, NodesInv, SqlInv, LastCharted, Charted, HandsOnRows, sqlVars
  <2>3. SqlInv'
        BY <1>5, <2>2, StutterFacts DEF allVars, NodesInv, SqlInv, Unfunded, sqlVars
  <2> QED BY <1>0, <2>1, <2>3 DEF NodesInv
<1> QED BY <1>1, <1>2, <1>3, <1>4, <1>5 DEF CallsNext

\* The invariant holds from the first message of a budget on.
THEOREM NodesInvariant == CallsSpec => []NodesInv
BY NodesInvInit, NodesInvNext, PTL DEF CallsSpec

-----------------------------------------------------------------------------
(* What follows from it                                                    *)

\* Visits, facts and rows have their types throughout (agents/supervisor.py,
\* agents/sql_agent.py).
THEOREM CallsTypeCorrect == CallsSpec => []CallsTypeOK
<1>1. NodesInv => CallsTypeOK
      BY DEF NodesInv, LLMInv, PlanningInv, SqlInv, CallsTypeOK
<1> QED BY <1>1, NodesInvariant, PTL

\* One budget pays for no more than its limits whichever nodes use it.
THEOREM NodesStayInScope == CallsSpec => []ScopeBound
BY NodesUseTheChain, BudgetIsABackstop, PTL

\* An sql visit whose iterations are used up has facts to synthesize from
\* (agents/sql_agent.py:252 is a backstop).
THEOREM SynthesisHasFacts == CallsSpec => []FactsAtTheLimit
<1>1. NodesInv => FactsAtTheLimit
      BY DEF NodesInv, SqlInv, FactsAtTheLimit
<1> QED BY <1>1, NodesInvariant, PTL

\* An sql step hands on the newest chartable rows, however many tools were
\* called and however it ended (agents/sql_agent.py, last_chartable_rows).
THEOREM NewestRowsAreHandedOn == CallsSpec => []RowsAreNewest
<1>1. NodesInv => RowsAreNewest
      BY DEF NodesInv, SqlInv, HandsOnRows, LastCharted, RowsAreNewest
<1> QED BY <1>1, NodesInvariant, PTL

-----------------------------------------------------------------------------
(* The visits as budgeted calls                                            *)

\* Between visits the nodes are no call to anybody.
LEMMA RestIsNoCall ==
    ASSUME NodesInv, AtRestAll
    PROVE  NodePhase = "none"
BY DEF NodesInv, SqlInv, AtRestAll, AtRest, NodePhase, SqlPhase

\* What a visit that has returned looks like from outside.
LEMMA ReturnsPhase ==
    ASSUME sql \in SqlVisit, NEW rows \in Nat, NEW issue \in Issues,
           NEW status \in {"done", "failed", "raised"}, Returns(status, issue, rows)
    PROVE  SqlPhase' = CASE status = "raised"         -> "error"
                         [] issue = "budget_exceeded" -> "over"
                         [] ~sql.funded /\ issue = "permission_denied" -> "none"
                         [] OTHER                     -> "answer"
BY ReturnsFacts DEF SqlPhase

\* A funded visit may return anything but, unless the budget is spent, "over".
LEMMA FundedReturnIsAnEnd ==
    ASSUME NodesInv, NEW rows \in Nat, NEW issue \in Issues,
           NEW status \in {"done", "failed", "raised"}, Returns(status, issue, rows),
           issue = "budget_exceeded" => Exhausted /\ status = "failed",
           sql.funded, sql.at \notin {"rest", "returned"}, Exhausted' = Exhausted
    PROVE  SqlPhase = "open" /\ SqlPhase' \in {"answer", "error", "over"}
           /\ (SqlPhase' = "over" => Exhausted')
<1>1. sql \in SqlVisit
      BY DEF NodesInv, SqlInv
<1>2. SqlPhase = "open"
      BY DEF SqlPhase
<1>3. CASE status = "raised"
      BY <1>1, <1>2, <1>3, ReturnsPhase
<1>4. CASE status # "raised" /\ issue = "budget_exceeded"
      BY <1>1, <1>2, <1>4, ReturnsPhase
<1>5. CASE status # "raised" /\ issue # "budget_exceeded"
      BY <1>1, <1>2, <1>5, ReturnsPhase
<1> QED BY <1>3, <1>4, <1>5

\* Fewer calls take fewer steps, whatever a call takes.
LEMMA FewerCalls ==
    ASSUME NEW K \in Nat, NEW n \in Nat, NEW m \in 0..n
    PROVE  /\ m * K \in Nat /\ n * K \in Nat /\ m * K <= n * K
           /\ (n + 1) * K = n * K + K
<1>1. PICK d \in Nat : n = m + d
      BY n - m \in Nat, n = m + (n - m)
<1>2. d * K \in Nat /\ m * K \in Nat
      OBVIOUS
<1>3. (m + d) * K = m * K + d * K
      OBVIOUS
<1> QED BY <1>1, <1>2, <1>3

\* The sums the visits are measured in.
LEMMA Sums ==
    /\ \A s, c, d \in Nat : d \in 0..(c - 1) =>
          s + (d + 1) \in 0..((s + (c + 1)) - 1)
    /\ \A s, K \in Nat : \A d \in 0..(K - 2) :
          s + K \in Nat \ {0} /\ s + (d + 1) \in 0..((s + K) - 1)
OBVIOUS

\* What a node has left of the call it makes.
LEMMA CallOfNode ==
    ASSUME NodesInv
    PROVE  /\ StepsOfCall \in Nat /\ CallLeft \in 0..(StepsOfCall - 2)
           /\ pc = "idle" => CallLeft = 0
           /\ Invoke => CallLeft' \in 0..(StepsOfCall - 2)
           /\ Step => CallLeft' \in 0..(CallLeft - 1) /\ CallLeft' \in Nat /\ CallLeft \in Nat
<1> USE BudgetAssumption
<1>1. LLMInv
      BY DEF NodesInv
<1>2. StepsOfCall = 3 * Candidates + 2 /\ StepsOfCall \in Nat
      BY DEF StepsOfCall
<1>3. pc = "idle" => CallLeft = 0
      BY DEF CallLeft
<1>4. Invoke => CallLeft' = 3 * (Candidates - 1) + 3
      BY DEF Invoke, CallLeft
<1> QED BY <1>1, <1>2, <1>3, <1>4, CallIsShort, CallShrinks

\* Each step of an sql visit brings its end nearer.
LEMMA SqlShrinks ==
    ASSUME NodesInv, SqlStep
    PROVE  /\ SqlLeft \in Nat \ {0}
           /\ sql'.at = "returned" \/ SqlLeft' \in 0..(SqlLeft - 1)
<1> USE LoopAssumption
<1>0. /\ sql \in SqlVisit /\ sql.iteration \in 0..max_iterations
      /\ sql.at \in {"ready", "asked"} => sql.iteration + 1 \in 0..max_iterations
      BY DEF NodesInv, SqlInv, SqlVisit
<1> DEFINE n == max_iterations - sql.iteration
           K == StepsOfCall
<1>1. n \in Nat /\ K \in Nat /\ n * K \in Nat /\ (n + 1) * K = n * K + K
      BY <1>0, FewerCalls, CallOfNode
<1>2. CASE sql.at \in {"ready", "synthesize"} /\ sql' # sql
  <2>1. SqlLeft = n * K + K
        BY <1>1, <1>2 DEF SqlLeft, SqlCalls
  <2>2. Invoke /\ sql'.at \in {"asked", "synthesizing"} /\ sql'.iteration = sql.iteration
    <3>1. CASE AskModel
          BY <1>0, <3>1 DEF AskModel, SqlVisit
    <3>2. CASE Synthesize
          BY <1>0, <3>2 DEF Synthesize, NodesInv, SqlInv, SqlVisit
    <3> QED BY <1>2, <3>1, <3>2
            DEF SqlStep, Heard, ModelOverBudget, ModelFails, ModelAnswers, ToolStopsVisit,
                ModelCallsTools, SynthesisHeard
  <2>3. SqlLeft' = (n + 0) * K + (CallLeft' + 1) /\ n + 0 = n
        BY <1>1, <2>2 DEF SqlLeft, SqlCalls, StepsOfCall
  <2>4. CallLeft' \in 0..(K - 2)
        BY <2>2, CallOfNode
  <2> HIDE DEF n, K
  <2>5. n * K + K \in Nat \ {0} /\ n * K + (CallLeft' + 1) \in 0..((n * K + K) - 1)
        BY <1>1, <2>4, Sums
  <2>6. SqlLeft' = n * K + (CallLeft' + 1)
        BY <2>3
  <2> QED BY <2>1, <2>5, <2>6, Zenon
<1>3. CASE sql.at \in {"asked", "synthesizing"} /\ pc = "idle"
  <2>1. SqlLeft = n * K + 1
        BY <1>1, <1>3, CallOfNode DEF SqlLeft, SqlCalls
  <2>2. CASE ModelCallsTools
    <3>1. /\ sql.at = "asked" /\ sql'.iteration = sql.iteration + 1
          /\ sql'.at \in {"ready", "synthesize"}
          BY <1>0, <2>2 DEF ModelCallsTools, Heard, SqlVisit
    <3>2. SqlLeft' = (max_iterations - (sql.iteration + 1) + 1) * K + 0
          BY <3>1 DEF SqlLeft, SqlCalls, StepsOfCall
    <3>3. max_iterations - (sql.iteration + 1) + 1 = n
          BY <1>0
    <3> HIDE DEF n, K
    <3> QED BY <1>1, <2>1, <3>2, <3>3
  <2>3. CASE ~ModelCallsTools
    <3>1. \E status, issue, rows : Returns(status, issue, rows)
      <4>1. CASE SynthesisHeard
        <5>1. outcome \in {"over", "error", "answer"}
              BY <4>1 DEF SynthesisHeard, SqlInv, NodesInv, LLMInv, TypeOK, Outcomes
        <5>2. CASE outcome = "over"
              BY <4>1, <5>2 DEF SynthesisHeard
        <5>3. CASE outcome = "error"
              BY <4>1, <5>3 DEF SynthesisHeard
        <5>4. CASE outcome = "answer"
              BY <4>1, <5>4 DEF SynthesisHeard
        <5> QED BY <5>1, <5>2, <5>3, <5>4
      <4>2. CASE ~SynthesisHeard
            BY <1>3, <2>3, <4>2
            DEF SqlStep, ModelOverBudget, ModelFails, ModelAnswers, ToolStopsVisit,
                AskModel, Synthesize
      <4> QED BY <4>1, <4>2
    <3>2. sql'.at = "returned"
          BY <1>0, <3>1 DEF Returns, SqlVisit
    <3> HIDE DEF n, K
    <3> QED BY <1>1, <2>1, <3>2
  <2> QED BY <2>2, <2>3
<1>4. (sql.at \in {"ready", "synthesize"} /\ sql' # sql)
      \/ (sql.at \in {"asked", "synthesizing"} /\ pc = "idle")
  <2>1. CASE AskModel
        BY <1>0, <2>1 DEF AskModel, SqlVisit
  <2>2. CASE Synthesize
        BY <1>0, <2>2 DEF Synthesize, NodesInv, SqlInv, SqlVisit
  <2> QED BY <2>1, <2>2
          DEF SqlStep, Heard, ModelOverBudget, ModelFails, ModelAnswers, ToolStopsVisit,
              ModelCallsTools, SynthesisHeard
<1> QED BY <1>2, <1>3, <1>4

\* Each step of a planning visit brings its end nearer.
LEMMA PlanningShrinks ==
    ASSUME NodesInv, PlanningStep
    PROVE  /\ PlanningLeft \in Nat \ {0} /\ planning'.at # "rest"
           /\ planning'.at = "returned" \/ PlanningLeft' \in 0..(PlanningLeft - 1)
<1> USE AttemptsAssumption
<1>0. /\ planning \in PlanningVisit /\ planning.attempt \in 1..max_attempts
      /\ planning.call \in {"workflow", "decision"}
      BY DEF NodesInv, PlanningInv, PlanningVisit
<1> DEFINE K == StepsOfCall
           more == IF planning.call = "workflow" THEN max_attempts ELSE 0
           n == more + (max_attempts - planning.attempt)
<1>1. n \in Nat /\ K \in Nat /\ n * K \in Nat /\ (n + 1) * K = n * K + K
      BY <1>0, FewerCalls, CallOfNode
<1>2. CASE AskPlanner
  <2>1. /\ Invoke /\ planning.at = "ready"
        /\ planning'.at = "asked" /\ planning'.attempt = planning.attempt
        /\ planning'.call = planning.call
        BY <1>0, <1>2 DEF AskPlanner, PlanningVisit
  <2>2. PlanningLeft = n * K + K
        BY <1>1, <2>1 DEF PlanningLeft, PlanningCalls
  <2>3. PlanningLeft' = (n + 0) * K + (CallLeft' + 1) /\ n + 0 = n
        BY <1>1, <2>1 DEF PlanningLeft, PlanningCalls, StepsOfCall
  <2>4. CallLeft' \in 0..(K - 2)
        BY <2>1, CallOfNode
  <2> HIDE DEF n, K
  <2>5. n * K + K \in Nat \ {0} /\ n * K + (CallLeft' + 1) \in 0..((n * K + K) - 1)
        BY <1>1, <2>4, Sums
  <2>6. PlanningLeft' = n * K + (CallLeft' + 1)
        BY <2>3
  <2>7. PlanningLeft \in Nat \ {0} /\ PlanningLeft' \in 0..(PlanningLeft - 1)
        BY <2>2, <2>5, <2>6, Zenon
  <2> QED BY <2>1, <2>7
<1>3. CASE PlannerHears
  <2>1. PlanningLeft = n * K + 1
        BY <1>1, <1>3, CallOfNode DEF PlanningLeft, PlanningCalls, PlannerHears
  <2>2. PlanningLeft \in Nat \ {0}
    <3> HIDE DEF n, K
    <3> QED BY <1>1, <2>1
  <2>3. ASSUME NEW verdict, Decide(verdict) PROVE planning'.at = "returned"
        BY <1>0, <2>3 DEF Decide, PlanningVisit
  <2>4. ASSUME NEW call \in {"workflow", "decision"}, NEW attempt \in 1..max_attempts,
               Try(call, attempt),
               NEW m \in 0..n,
               m = (IF call = "workflow" THEN max_attempts ELSE 0)
                   + (max_attempts - attempt) + 1
        PROVE  planning'.at = "ready" /\ PlanningLeft' \in 0..(PlanningLeft - 1)
    <3>1. planning'.at = "ready" /\ planning'.call = call /\ planning'.attempt = attempt
          BY <1>0, <2>4 DEF Try, PlanningVisit
    <3>2. PlanningLeft' = m * K + 0
          BY <2>4, <3>1 DEF PlanningLeft, PlanningCalls, StepsOfCall
    <3> HIDE DEF n, K
    <3>3. m * K \in Nat /\ m * K <= n * K
          BY <1>1, <2>4, FewerCalls
    <3> QED BY <1>1, <2>1, <3>1, <3>2, <3>3
  <2>5. CASE GiveUp
    <3>1. CASE planning.call = "workflow"
      <4>1. Try("decision", 1)
            BY <2>5, <3>1 DEF GiveUp
      <4>2. PICK m \in 0..n : m = 0 + (max_attempts - 1) + 1
            BY <1>0, <3>1
      <4>3. 1 \in 1..max_attempts
            BY AttemptsAssumption
      <4> HIDE DEF n, K
      <4> QED BY <2>2, <2>4, <4>1, <4>2, <4>3
    <3>2. CASE planning.call # "workflow"
          BY <2>2, <2>3, <2>5, <3>2 DEF GiveUp
    <3> HIDE DEF n, K
    <3> QED BY <3>1, <3>2
  <2>6. CASE Retry
    <3>1. CASE planning.attempt < max_attempts
      <4>1. Try(planning.call, planning.attempt + 1)
            BY <2>6, <3>1 DEF Retry
      <4>2. planning.attempt + 1 \in 1..max_attempts
            BY <1>0, <3>1
      <4>3. PICK m \in 0..n : m = more + (max_attempts - (planning.attempt + 1)) + 1
            BY <1>0
      <4> HIDE DEF n
      <4> QED BY <1>0, <2>2, <2>4, <4>1, <4>2, <4>3
    <3>2. CASE ~(planning.attempt < max_attempts)
          BY <2>5, <2>6, <3>2 DEF Retry
    <3> QED BY <3>1, <3>2
  <2>7. GiveUp \/ Retry \/ \E verdict : Decide(verdict)
    <3>1. outcome \in {"over", "error", "answer"}
          BY <1>3 DEF PlannerHears, NodesInv, PlanningInv, LLMInv, TypeOK, Outcomes
    <3>2. CASE outcome = "over"
          BY <1>3, <3>2 DEF PlannerHears
    <3>3. CASE outcome = "error"
          BY <1>3, <3>3 DEF PlannerHears
    <3>4. CASE outcome = "answer"
          BY <1>3, <3>4 DEF PlannerHears
    <3> QED BY <3>1, <3>2, <3>3, <3>4
  <2> QED BY <2>2, <2>3, <2>5, <2>6, <2>7
<1> QED BY <1>2, <1>3 DEF PlanningStep

\* While a node is at work, each of its steps and of its calls' brings its end nearer.
LEMMA NodeShrinks ==
    ASSUME NodesInv, SqlNode \/ PlanningNode \/ Chain, NodePhase = "open"
    PROVE  NodeLeft' \in 0..(NodeLeft - 1)
<1>0. /\ planning \in PlanningVisit /\ sql \in SqlVisit
      /\ planning.at # "rest" => sql.at = "rest"
      BY DEF NodesInv, PlanningInv, SqlInv
<1>a. \A n \in Nat \ {0} : 0 \in 0..(n - 1)
      OBVIOUS
<1>1. CASE planning.at # "rest"
  <2>1. planning.at # "returned" /\ NodeLeft = PlanningLeft
        BY <1>1 DEF NodePhase, PlanningPhase, NodeLeft
  <2>2. CASE PlanningStep
    <3>1. planning'.at = "returned" => NodeLeft' = 0
          BY PlanningShrinks, <2>2 DEF NodeLeft, NodePhase, PlanningPhase
    <3>2. planning'.at # "returned" => NodeLeft' = PlanningLeft'
          BY PlanningShrinks, <2>2 DEF NodeLeft, NodePhase, PlanningPhase
    <3> QED BY <1>a, <2>1, <2>2, <3>1, <3>2, PlanningShrinks
  <2>3. CASE Chain
    <3>1. planning.at = "asked" /\ planning' = planning
          BY <1>0, <1>1, <2>1, <2>3, ChainFacts
          DEF Chain, NodesInv, PlanningInv, PlanningVisit
    <3>2. NodeLeft' = PlanningLeft'
          BY <3>1 DEF NodeLeft, NodePhase, PlanningPhase
    <3> DEFINE steps == PlanningCalls * StepsOfCall
    <3>3. PlanningLeft = steps + (CallLeft + 1) /\ PlanningLeft' = steps + (CallLeft' + 1)
          BY <3>1 DEF PlanningLeft, PlanningCalls, StepsOfCall
    <3>4. steps \in Nat
      <4>1. PlanningCalls \in Nat
            BY <1>0, AttemptsAssumption DEF PlanningCalls, PlanningVisit
      <4> QED BY <4>1, CallOfNode
    <3>5. CallLeft \in Nat /\ CallLeft' \in Nat /\ CallLeft' \in 0..(CallLeft - 1)
          BY <2>3, CallOfNode DEF Chain
    <3> HIDE DEF steps
    <3>6. steps + (CallLeft' + 1) \in 0..((steps + (CallLeft + 1)) - 1)
          BY <3>4, <3>5, Sums
    <3> QED BY <2>1, <3>2, <3>3, <3>6, Zenon
  <2>4. PlanningStep \/ Chain
        BY <1>0, <1>1, <2>1
        DEF SqlNode, PlanningNode, AtRestAll, EndPlanning, EndSql, SqlStep, AskModel, Heard,
            ModelOverBudget, ModelFails, ModelAnswers, ToolStopsVisit, ModelCallsTools,
            Synthesize, SynthesisHeard
  <2> QED BY <2>2, <2>3, <2>4
<1>2. CASE planning.at = "rest"
  <2>1. sql.at # "returned" /\ sql.funded /\ NodeLeft = SqlLeft
        BY <1>2 DEF NodePhase, SqlPhase, NodeLeft
  <2>2. sql.at # "rest"
        BY <2>1 DEF NodesInv, SqlInv, AtRest
  <2>3. CASE SqlNode
    <3>1. SqlStep /\ planning' = planning
          BY <1>2, <2>1, <2>2, <2>3 DEF SqlNode, AtRestAll, EndSql
    <3>2. NodeLeft' = 0 \/ (NodeLeft' = SqlLeft' /\ sql'.at # "returned")
          BY <1>2, <3>1 DEF NodeLeft, NodePhase, SqlPhase
    <3> QED BY <1>a, <2>1, <3>1, <3>2, SqlShrinks
  <2>4. CASE Chain
    <3>1. sql.at \in {"asked", "synthesizing"} /\ sql' = sql /\ planning' = planning
          BY <1>0, <2>1, <2>2, <2>4, ChainFacts
          DEF Chain, NodesInv, SqlInv, SqlVisit, sqlVars
    <3>2. NodeLeft' = SqlLeft'
          BY <1>2, <2>1, <3>1 DEF NodeLeft, NodePhase, SqlPhase
    <3> DEFINE steps == SqlCalls * StepsOfCall
    <3>3. SqlLeft = steps + (CallLeft + 1) /\ SqlLeft' = steps + (CallLeft' + 1)
          BY <3>1 DEF SqlLeft, SqlCalls, StepsOfCall
    <3>4. steps \in Nat
      <4>1. SqlCalls \in Nat
            BY <1>0, LoopAssumption DEF SqlCalls, SqlVisit
      <4> QED BY <4>1, CallOfNode
    <3>5. CallLeft \in Nat /\ CallLeft' \in Nat /\ CallLeft' \in 0..(CallLeft - 1)
          BY <2>4, CallOfNode DEF Chain
    <3> HIDE DEF steps
    <3>6. steps + (CallLeft' + 1) \in 0..((steps + (CallLeft + 1)) - 1)
          BY <3>4, <3>5, Sums
    <3> QED BY <2>1, <3>2, <3>3, <3>6, Zenon
  <2>5. SqlNode \/ Chain
        BY <1>2, <2>2
        DEF PlanningNode, AtRestAll, EndPlanning, PlanningStep, AskPlanner, PlannerHears
  <2> QED BY <2>3, <2>4, <2>5
<1> QED BY <1>1, <1>2

\* However a visit goes on, its end is never far.
NodeIsNear == NodeLeft \in 0..((2 * max_attempts + max_iterations + 1) * StepsOfCall)

LEMMA NodeIsShort == NodesInv => NodeIsNear
<1> USE AttemptsAssumption, LoopAssumption
<1> SUFFICES ASSUME NodesInv PROVE NodeIsNear
    OBVIOUS
<1> DEFINE most == 2 * max_attempts + max_iterations
           K == StepsOfCall
<1>1. most \in Nat /\ K \in Nat /\ (most + 1) * K = most * K + K /\ most * K \in Nat
      BY FewerCalls, CallOfNode
<1>2. ASSUME NEW calls_, calls_ \in 0..most, NEW x \in 0..K
      PROVE  calls_ * K + x \in 0..((most + 1) * K)
  <2>1. calls_ * K \in Nat /\ calls_ * K <= most * K
        BY <1>1, <1>2, FewerCalls
  <2> HIDE DEF most, K
  <2> QED BY <1>1, <1>2, <2>1
<1>3. CallLeft + 1 \in 0..K /\ 0 \in 0..K
      BY CallOfNode
<1>4. PlanningLeft \in 0..((most + 1) * K)
  <2>1. PlanningCalls \in 0..most
        BY DEF PlanningCalls, NodesInv, PlanningInv, PlanningVisit
  <2> QED BY <1>2, <1>3, <2>1 DEF PlanningLeft
<1>5. SqlLeft \in 0..((most + 1) * K)
  <2>1. SqlCalls \in 0..most
        BY DEF SqlCalls, NodesInv, SqlInv, SqlVisit
  <2> QED BY <1>2, <1>3, <2>1 DEF SqlLeft
<1>6. 0 \in 0..((most + 1) * K)
  <2> HIDE DEF most, K
  <2> QED BY <1>1
<1> QED BY <1>4, <1>5, <1>6 DEF NodeIsNear, NodeLeft

\* A step of a node, seen as a step of one budgeted call.
LEMMA NodeStepIsACallStep ==
    ASSUME NodesInv, NodesInv', SqlNode \/ PlanningNode \/ Chain, Exhausted => Exhausted',
           \/ NodePhase' = NodePhase
              /\ (NodePhase = "open" \/ NodePhase = "none" \/ Exhausted' = Exhausted)
           \/ NodePhase # "open" /\ ~Exhausted /\ NodePhase' = "open"
              /\ Exhausted' = Exhausted
           \/ NodePhase # "open" /\ Exhausted /\ NodePhase' = "over"
           \/ NodePhase = "open" /\ NodePhase' \in {"answer", "error", "over"}
              /\ (NodePhase' = "over" => Exhausted)
           \/ NodePhase # "open" /\ NodePhase' = "none"
    PROVE  [Node!CallNext]_Node!callVars
<1>1. Exhausted \in BOOLEAN /\ Exhausted' \in BOOLEAN
      BY DEF Exhausted
<1>2. /\ NodePhase # "open" => NodeLeft = 0
      /\ NodePhase' # "open" => NodeLeft' = 0
      BY DEF NodeLeft
<1>3. NodePhase = "open" => NodeLeft' \in 0..(NodeLeft - 1)
      BY NodeShrinks
<1>4. NodeLeft' \in 0..((2 * max_attempts + max_iterations + 1) * StepsOfCall)
  <2>1. (NodesInv => NodeIsNear)'
        BY NodeIsShort, PTL
  <2> QED BY <2>1 DEF NodeIsNear, StepsOfCall
<1> HIDE DEF Exhausted, NodePhase, NodeLeft
<1> QED BY <1>1, <1>2, <1>3, <1>4
        DEF Node!CallNext, Node!callVars, Node!Start, Node!Refuse, Node!Step, Node!Work,
            Node!End, Node!Replenish

\* The steps of the sql loop as steps of one budgeted call.
LEMMA SqlNodeKeepsContract ==
    ASSUME NodesInv, NodesInv', SqlNode
    PROVE  [Node!CallNext]_Node!callVars
<1> USE DEF Issues, Failures
<1>0. /\ sql \in SqlVisit /\ last_chartable_rows \in Nat /\ 0 \in Nat
      /\ Exhausted \in BOOLEAN
      BY DEF NodesInv, SqlInv, Exhausted
<1>1. planning.at = "rest" /\ planning' = planning
      BY DEF SqlNode, AtRestAll, SqlStep, AskModel, Heard, ModelOverBudget,
             ModelFails, ModelAnswers, ToolStopsVisit, ModelCallsTools, Synthesize,
             SynthesisHeard, EndSql, NodesInv, PlanningInv
<1>2. NodePhase = SqlPhase /\ NodePhase' = SqlPhase'
      BY <1>1 DEF NodePhase
<1>3. Exhausted' = Exhausted
      BY InvokeFacts, StutterFacts
      DEF SqlNode, BeginSql, SqlStep, AskModel, Heard, ModelOverBudget,
          ModelFails, ModelAnswers, ToolStopsVisit, ModelCallsTools, Synthesize,
          SynthesisHeard, EndSql
<1>4. SUFFICES \/ SqlPhase' = SqlPhase
               \/ SqlPhase # "open" /\ ~Exhausted /\ SqlPhase' = "open"
               \/ SqlPhase # "open" /\ Exhausted /\ SqlPhase' = "over"
               \/ SqlPhase = "open" /\ SqlPhase' \in {"answer", "error", "over"}
                  /\ (SqlPhase' = "over" => Exhausted)
               \/ SqlPhase # "open" /\ SqlPhase' = "none"
      BY <1>2, <1>3, NodeStepIsACallStep
<1>5. CASE AtRestAll /\ BeginSql
  <2>1. SqlPhase = "none" /\ ~sql.funded
        BY <1>2, <1>5, RestIsNoCall DEF AtRestAll, NodesInv, SqlInv, AtRest
  <2>2. CASE Returns("failed", "permission_denied", 0)
        BY <1>0, <2>1, <2>2, ReturnsPhase
  <2>3. CASE sql' = [sql EXCEPT !.at = "ready", !.funded = ~Exhausted]
    <3>1. (~Exhausted) \in BOOLEAN
          BY <1>0
    <3>2. sql'.at = "ready" /\ sql'.funded = ~Exhausted
          BY <1>0, <2>3, <3>1 DEF SqlVisit
    <3>3. CASE Exhausted
          BY <2>1, <3>2, <3>3 DEF SqlPhase
    <3>4. CASE ~Exhausted
          BY <2>1, <3>2, <3>4 DEF SqlPhase
    <3> QED BY <3>3, <3>4
  <2> QED BY <1>5, <2>2, <2>3 DEF BeginSql
<1>6. CASE AskModel
      BY <1>0, <1>6 DEF AskModel, SqlVisit, SqlPhase
<1>7. CASE ModelCallsTools
  <2>1. sql.at = "asked" /\ sql'.at # "returned" /\ sql'.funded = sql.funded
        BY <1>0, <1>7 DEF ModelCallsTools, Heard, SqlVisit
  <2> QED BY <2>1 DEF SqlPhase
<1>8. CASE Synthesize
  <2>1. sql.at = "synthesize" /\ sql' = [sql EXCEPT !.at = "synthesizing"]
        BY <1>8 DEF Synthesize, NodesInv, SqlInv
  <2> QED BY <1>0, <2>1 DEF SqlPhase, SqlVisit
<1>9. CASE EndSql
      BY <1>9 DEF EndSql, AtRest, SqlPhase
<1>10. CASE ModelOverBudget
  <2>1. Exhausted /\ sql.at = "asked" /\ Returns("failed", "budget_exceeded", last_chartable_rows)
        BY <1>10 DEF ModelOverBudget, Heard, NodesInv
  <2>2. CASE sql.funded
        BY <1>0, <1>3, <2>1, <2>2, FundedReturnIsAnEnd
  <2>3. CASE ~sql.funded
    <3>1. SqlPhase = "none"
          BY <2>1, <2>3 DEF SqlPhase
    <3>2. SqlPhase' = "over"
          BY <1>0, <2>1, ReturnsPhase
    <3> QED BY <2>1, <3>1, <3>2
  <2> QED BY <2>2, <2>3
<1>11. CASE ModelFails \/ ModelAnswers \/ ToolStopsVisit \/ SynthesisHeard
  <2>1. sql.funded /\ sql.at \notin {"rest", "returned"}
    <3>1. sql.at = "synthesizing" \/ (sql.at = "asked" /\ pc = "idle" /\ outcome # "over")
          BY <1>11 DEF ModelFails, ModelAnswers, ToolStopsVisit, SynthesisHeard, Heard
    <3> QED BY <3>1 DEF NodesInv, SqlInv, Unfunded
  <2>2. \E status \in {"done", "failed", "raised"}, issue \in Issues, rows \in Nat :
              /\ Returns(status, issue, rows)
              /\ issue = "budget_exceeded" => Exhausted /\ status = "failed"
    <3>1. CASE ModelFails
          BY <1>0, <3>1 DEF ModelFails
    <3>2. CASE ModelAnswers
          BY <1>0, <3>2 DEF ModelAnswers
    <3>3. CASE ToolStopsVisit
          BY <1>0, <3>3 DEF ToolStopsVisit
    <3>4. CASE SynthesisHeard
      <4>1. outcome \in {"over", "error", "answer"} /\ (outcome = "over" => Exhausted)
            BY <3>4 DEF SynthesisHeard, SqlInv, NodesInv, LLMInv, TypeOK, Outcomes
      <4>2. CASE outcome = "over"
            BY <1>0, <3>4, <4>1, <4>2 DEF SynthesisHeard
      <4>3. CASE outcome = "error"
            BY <1>0, <3>4, <4>3 DEF SynthesisHeard
      <4>4. CASE outcome = "answer"
            BY <1>0, <3>4, <4>4 DEF SynthesisHeard
      <4> QED BY <4>1, <4>2, <4>3, <4>4
    <3> QED BY <1>11, <3>1, <3>2, <3>3, <3>4
  <2> QED BY <1>3, <2>1, <2>2, FundedReturnIsAnEnd
<1> QED BY <1>5, <1>6, <1>7, <1>8, <1>9, <1>10, <1>11 DEF SqlNode, SqlStep

\* The steps of a planning visit as steps of one budgeted call.
LEMMA PlanningNodeKeepsContract ==
    ASSUME NodesInv, NodesInv', PlanningNode
    PROVE  [Node!CallNext]_Node!callVars
<1>0. planning \in PlanningVisit /\ Exhausted \in BOOLEAN /\ UNCHANGED sqlVars
      BY DEF NodesInv, PlanningInv, Exhausted, PlanningNode
<1>1. Exhausted' = Exhausted
      BY InvokeFacts, StutterFacts
      DEF PlanningNode, BeginPlanning, PlanningStep, AskPlanner, PlannerHears, EndPlanning
<1>2. SUFFICES \/ NodePhase' = NodePhase
               \/ NodePhase # "open" /\ ~Exhausted /\ NodePhase' = "open"
               \/ NodePhase # "open" /\ Exhausted /\ NodePhase' = "over"
               \/ NodePhase = "open" /\ NodePhase' \in {"answer", "error", "over"}
                  /\ (NodePhase' = "over" => Exhausted)
               \/ NodePhase # "open" /\ NodePhase' = "none"
      BY <1>1, NodeStepIsACallStep
<1>3. CASE AtRestAll /\ BeginPlanning
  <2>1. NodePhase = "none"
        BY <1>3, RestIsNoCall
  <2>2. CASE Exhausted
    <3>1. planning'.at = "returned" /\ planning'.verdict = "closed"
          BY <1>0, <1>3, <2>2 DEF BeginPlanning, Decide, PlanningVisit
    <3> QED BY <2>1, <2>2, <3>1 DEF NodePhase, PlanningPhase
  <2>3. CASE ~Exhausted
    <3>1. planning'.at = "ready"
          BY <1>0, <1>3, <2>3 DEF BeginPlanning, Try, PlanningVisit
    <3> QED BY <2>1, <2>3, <3>1 DEF NodePhase, PlanningPhase
  <2> QED BY <2>2, <2>3
<1>4. CASE AskPlanner
  <2>1. planning.at = "ready" /\ planning'.at = "asked"
        BY <1>0, <1>4 DEF AskPlanner, PlanningVisit
  <2> QED BY <2>1 DEF NodePhase, PlanningPhase
<1>5. CASE PlannerHears
  <2>1. planning.at = "asked" /\ pc = "idle" /\ outcome' = outcome /\ NodePhase = "open"
        BY <1>5, StutterFacts DEF PlannerHears, NodePhase, PlanningPhase
  <2>2. outcome \in {"over", "error", "answer"} /\ (outcome = "over" => Exhausted)
        BY <2>1 DEF NodesInv, PlanningInv, LLMInv, TypeOK, Outcomes
  <2>3. ASSUME NEW call, NEW attempt, Try(call, attempt)
        PROVE  NodePhase' = "open"
    <3>1. planning'.at = "ready"
          BY <1>0, <2>3 DEF Try, PlanningVisit
    <3> QED BY <3>1 DEF NodePhase, PlanningPhase
  <2>4. ASSUME NEW verdict \in {"workflow", "decision", "default", "outage"}, Decide(verdict)
        PROVE  NodePhase' \in {"answer", "error", "over"}
               /\ (NodePhase' = "over" => Exhausted)
    <3>1. planning'.at = "returned" /\ planning'.verdict = verdict
          BY <1>0, <2>4 DEF Decide, PlanningVisit, Verdicts
    <3> QED BY <2>1, <2>2, <3>1 DEF NodePhase, PlanningPhase
  <2>5. \/ \E call, attempt : Try(call, attempt)
        \/ \E verdict \in {"workflow", "decision", "default", "outage"} : Decide(verdict)
    <3>1. CASE GiveUp
          BY <3>1 DEF GiveUp
    <3>2. CASE Retry
          BY <3>1, <3>2 DEF Retry
    <3>3. planning.call \in {"workflow", "decision"}
          BY <1>0 DEF PlanningVisit
    <3>4. CASE outcome = "over"
          BY <1>5, <3>1, <3>4 DEF PlannerHears
    <3>5. CASE outcome = "error"
          BY <1>5, <3>2, <3>5 DEF PlannerHears
    <3>6. CASE outcome = "answer"
          BY <1>5, <3>1, <3>2, <3>3, <3>6 DEF PlannerHears
    <3> QED BY <2>2, <3>4, <3>5, <3>6
  <2> QED BY <2>1, <2>3, <2>4, <2>5
<1>6. CASE EndPlanning
  <2>1. NodePhase # "open" /\ AtRestAll'
        BY <1>0, <1>6
        DEF EndPlanning, NodePhase, PlanningPhase, NotPlanning, AtRestAll, sqlVars,
            NodesInv, PlanningInv
  <2>2. NodePhase' = "none"
        BY <1>0, <1>6, <2>1
        DEF EndPlanning, NotPlanning, sqlVars, NodesInv, SqlInv, AtRestAll, AtRest,
            NodePhase, SqlPhase
  <2> QED BY <2>1, <2>2
<1> QED BY <1>3, <1>4, <1>5, <1>6 DEF PlanningNode, PlanningStep

\* The chain may only use up the budget of a visit that has some.
LEMMA ChainKeepsNodeContract ==
    ASSUME NodesInv, NodesInv', Chain
    PROVE  [Node!CallNext]_Node!callVars
<1>0. Exhausted \in BOOLEAN /\ Exhausted' \in BOOLEAN /\ (Exhausted => Exhausted')
      BY ChainFacts DEF Exhausted, Chain, NodesInv
<1>1. NodePhase' = NodePhase
  <2>1. planning.at \in {"rest", "asked"} /\ sql.at # "returned"
        BY ChainFacts
        DEF Chain, NodesInv, PlanningInv, PlanningVisit, SqlInv
  <2> QED BY <2>1 DEF Chain, sqlVars, NodePhase, PlanningPhase, SqlPhase
<1>2. NodePhase \in {"open", "none"}
  <2>1. planning.at \in {"rest", "asked"} /\ sql.at # "returned"
        BY ChainFacts
        DEF Chain, NodesInv, PlanningInv, PlanningVisit, SqlInv
  <2> QED BY <2>1 DEF NodePhase, PlanningPhase, SqlPhase
<1> QED BY <1>0, <1>1, <1>2, NodeStepIsACallStep

LEMMA NodesKeepTheContract ==
    NodesInv /\ NodesInv' /\ [CallsNext]_allVars => [Node!CallNext]_Node!callVars
<1> SUFFICES ASSUME NodesInv, NodesInv', [CallsNext]_allVars
             PROVE  [Node!CallNext]_Node!callVars
    OBVIOUS
<1>1. CASE OtherNode \/ NextMessage
  <2>1. AtRestAll /\ AtRestAll' /\ Exhausted' \in BOOLEAN
        BY <1>1 DEF OtherNode, NextMessage, AtRestAll, sqlVars, Exhausted
  <2>2. NodePhase = "none" /\ NodePhase' = "none"
    <3>1. NodePhase = "none"
          BY <2>1, RestIsNoCall
    <3>2. NodePhase' = NodePhase
          BY <1>1, <2>1
          DEF OtherNode, NextMessage, AtRestAll, sqlVars, NodePhase, SqlPhase
    <3> QED BY <3>1, <3>2
  <2>3. NodeLeft = 0 /\ NodeLeft' = 0
        BY <2>2 DEF NodeLeft
  <2> HIDE DEF Exhausted, NodePhase
  <2> QED BY <2>1, <2>2, <2>3 DEF Node!callVars, Node!CallNext, Node!Replenish
<1>2. CASE Chain
      BY <1>2, ChainKeepsNodeContract
<1>3. CASE PlanningNode
      BY <1>3, PlanningNodeKeepsContract
<1>4. CASE SqlNode
      BY <1>4, SqlNodeKeepsContract
<1>5. CASE UNCHANGED allVars
  <2>1. Exhausted' = Exhausted
        BY <1>5, StutterFacts DEF allVars
  <2>2. NodePhase' = NodePhase
        BY <1>5 DEF allVars, vars, sqlVars, NodePhase, PlanningPhase, SqlPhase
  <2>3. NodeLeft' = NodeLeft
        BY <1>5, <2>2
        DEF allVars, vars, sqlVars, NodeLeft, PlanningLeft, PlanningCalls, SqlLeft, SqlCalls,
            StepsOfCall, CallLeft
  <2> QED BY <2>1, <2>2, <2>3 DEF Node!callVars
<1> QED BY <1>1, <1>2, <1>3, <1>4, <1>5 DEF CallsNext

\* What an sql visit heard last is what it reports.
LEMMA SqlReportsWhatItHeard ==
    ASSUME NodesInv, SqlNode PROVE RefusedIffOver
<1> USE DEF Issues, Failures
<1>0. sql \in SqlVisit /\ last_chartable_rows \in Nat /\ 0 \in Nat
      BY DEF NodesInv, SqlInv
<1>1. planning.at = "rest" /\ planning' = planning
      BY DEF SqlNode, AtRestAll, SqlStep, AskModel, Heard, ModelOverBudget,
             ModelFails, ModelAnswers, ToolStopsVisit, ModelCallsTools, Synthesize,
             SynthesisHeard, EndSql, NodesInv, PlanningInv
<1>2. NodePhase = SqlPhase /\ NodePhase' = SqlPhase'
      BY <1>1 DEF NodePhase
<1>3. SUFFICES ASSUME SqlPhase = "open", SqlPhase' # "open"
               PROVE  SqlPhase' = "over" <=> outcome = "over"
      BY <1>2 DEF RefusedIffOver
<1>4. sql.at \notin {"rest", "returned"} /\ sql.funded
      BY <1>3 DEF SqlPhase, NodesInv, SqlInv, AtRest
<1>5. ASSUME NEW rows \in Nat, NEW issue \in Issues, NEW status \in {"done", "failed", "raised"},
             Returns(status, issue, rows), issue = "budget_exceeded" => status = "failed"
      PROVE  SqlPhase' = "over" <=> issue = "budget_exceeded"
  <2>1. SqlPhase' = CASE status = "raised"         -> "error"
                      [] issue = "budget_exceeded" -> "over"
                      [] ~sql.funded /\ issue = "permission_denied" -> "none"
                      [] OTHER                     -> "answer"
        BY <1>0, <1>5, ReturnsPhase
  <2>2. CASE status = "raised"
        BY <1>5, <2>1, <2>2
  <2>3. CASE status # "raised" /\ issue = "budget_exceeded"
        BY <2>1, <2>3
  <2>4. CASE status # "raised" /\ issue # "budget_exceeded"
        BY <1>4, <2>1, <2>4
  <2> QED BY <2>2, <2>3, <2>4
<1>6. CASE AskModel
      BY <1>0, <1>3, <1>4, <1>6 DEF AskModel, SqlVisit, SqlPhase
<1>7. CASE ModelCallsTools
  <2>1. sql'.at # "returned" /\ sql'.funded = sql.funded
        BY <1>0, <1>7 DEF ModelCallsTools, Heard, SqlVisit
  <2> QED BY <1>3, <1>4, <2>1 DEF SqlPhase
<1>8. CASE Synthesize
  <2>1. sql.at = "synthesize" /\ sql' = [sql EXCEPT !.at = "synthesizing"]
        BY <1>8 DEF Synthesize, NodesInv, SqlInv
  <2> QED BY <1>0, <1>3, <1>4, <2>1 DEF SqlPhase, SqlVisit
<1>9. CASE ModelOverBudget
      BY <1>0, <1>5, <1>9 DEF ModelOverBudget, Heard
<1>10. CASE ModelFails
      BY <1>0, <1>5, <1>10 DEF ModelFails, Heard
<1>11. CASE ModelAnswers
      BY <1>0, <1>5, <1>11 DEF ModelAnswers, Heard
<1>12. CASE ToolStopsVisit
      BY <1>0, <1>5, <1>12 DEF ToolStopsVisit, Heard
<1>13. CASE SynthesisHeard
  <2>1. outcome \in {"over", "error", "answer"}
        BY <1>13 DEF SynthesisHeard, SqlInv, NodesInv, LLMInv, TypeOK, Outcomes
  <2>2. CASE outcome = "over"
        BY <1>0, <1>5, <1>13, <2>2 DEF SynthesisHeard
  <2>3. CASE outcome = "error"
        BY <1>0, <1>5, <1>13, <2>3 DEF SynthesisHeard
  <2>4. CASE outcome = "answer"
        BY <1>0, <1>5, <1>13, <2>4 DEF SynthesisHeard
  <2> QED BY <2>1, <2>2, <2>3, <2>4
<1>14. ~BeginSql /\ ~EndSql
      BY <1>4 DEF BeginSql, EndSql
<1> QED BY <1>6, <1>7, <1>8, <1>9, <1>10, <1>11, <1>12, <1>13, <1>14 DEF SqlNode, SqlStep

\* A planning visit too: the budget's exception is never classified as an outage.
LEMMA PlanningReportsWhatItHeard ==
    ASSUME NodesInv, PlanningNode PROVE RefusedIffOver
<1>0. planning \in PlanningVisit /\ UNCHANGED sqlVars
      BY DEF NodesInv, PlanningInv, PlanningNode
<1>1. SUFFICES ASSUME NodePhase = "open", NodePhase' # "open"
               PROVE  NodePhase' = "over" <=> outcome = "over"
      BY DEF RefusedIffOver
<1>2. planning.at \in {"ready", "asked"}
  <2>1. planning.at # "rest"
    <3>1. CASE planning.at = "rest"
      <4>1. NodePhase = "none"
            BY <3>1, RestIsNoCall
            DEF PlanningNode, PlanningStep, AskPlanner, PlannerHears, EndPlanning
      <4> QED BY <1>1, <4>1
    <3> QED BY <3>1
  <2> QED BY <1>0, <1>1, <2>1 DEF NodePhase, PlanningPhase, PlanningVisit
<1>3. CASE AskPlanner
  <2>1. planning'.at = "asked"
        BY <1>0, <1>3 DEF AskPlanner, PlanningVisit
  <2> QED BY <1>1, <2>1 DEF NodePhase, PlanningPhase
<1>4. CASE PlannerHears
  <2>1. outcome' = outcome
        BY <1>4, StutterFacts DEF PlannerHears
  <2>2. outcome \in {"over", "error", "answer"}
        BY <1>4 DEF PlannerHears, NodesInv, PlanningInv, LLMInv, TypeOK, Outcomes
  <2>3. ASSUME NEW call, NEW attempt, Try(call, attempt)
        PROVE  FALSE
    <3>1. planning'.at = "ready"
          BY <1>0, <2>3 DEF Try, PlanningVisit
    <3> QED BY <1>1, <3>1 DEF NodePhase, PlanningPhase
  <2>4. ASSUME NEW verdict \in {"workflow", "decision", "default", "outage"}, Decide(verdict)
        PROVE  NodePhase' = CASE verdict = "outage"  -> "error"
                              [] verdict = "default" -> IF outcome = "over" THEN "over" ELSE "error"
                              [] OTHER               -> "answer"
    <3>1. planning'.at = "returned" /\ planning'.verdict = verdict
          BY <1>0, <2>4 DEF Decide, PlanningVisit, Verdicts
    <3> QED BY <2>1, <3>1 DEF NodePhase, PlanningPhase
  <2>5. planning.call \in {"workflow", "decision"}
        BY <1>0 DEF PlanningVisit
  <2>6. GiveUp => Decide("default")
        BY <2>3 DEF GiveUp
  <2>7. Retry => Decide("default")
        BY <2>3, <2>6 DEF Retry
  <2>8. CASE outcome = "over"
    <3>1. Decide("default")
          BY <1>4, <2>6, <2>8 DEF PlannerHears
    <3> QED BY <2>4, <2>8, <3>1
  <2>9. CASE outcome = "error"
    <3>1. Decide("default") \/ Decide("outage")
          BY <1>4, <2>7, <2>9 DEF PlannerHears
    <3> QED BY <2>4, <2>9, <3>1
  <2>10. CASE outcome = "answer"
    <3>1. \/ Decide("workflow") \/ Decide("decision")
          \/ Decide("default") \/ Decide("outage")
          BY <1>4, <2>5, <2>6, <2>7, <2>10 DEF PlannerHears
    <3> QED BY <2>4, <2>10, <3>1
  <2> QED BY <2>2, <2>8, <2>9, <2>10
<1>5. ~BeginPlanning /\ ~EndPlanning
      BY <1>2 DEF BeginPlanning, EndPlanning
<1> QED BY <1>3, <1>4, <1>5 DEF PlanningNode, PlanningStep

LEMMA NodesReportWhatTheyHeard ==
    NodesInv /\ [CallsNext]_allVars => [RefusedIffOver]_allVars
<1> SUFFICES ASSUME NodesInv, CallsNext PROVE RefusedIffOver
    OBVIOUS
<1>1. CASE OtherNode \/ NextMessage
  <2>1. NodePhase = "none"
        BY <1>1, RestIsNoCall DEF OtherNode, NextMessage
  <2> QED BY <2>1 DEF RefusedIffOver
<1>2. CASE Chain
  <2>1. planning.at \in {"rest", "asked"} /\ sql.at # "returned"
        BY <1>2, ChainFacts
        DEF Chain, NodesInv, PlanningInv, PlanningVisit, SqlInv
  <2>2. NodePhase' = NodePhase
        BY <1>2, <2>1 DEF Chain, sqlVars, NodePhase, PlanningPhase, SqlPhase
  <2> QED BY <2>2 DEF RefusedIffOver
<1> QED BY <1>1, <1>2, SqlReportsWhatItHeard, PlanningReportsWhatItHeard DEF CallsNext

\* Planning and the sql loop implement one budgeted call each, whatever number of
\* calls, attempts and fallbacks they make (agents/supervisor.py:466-497,
\* agents/sql_agent.py): "budget_exceeded" means a spent budget, a visit that
\* starts without budget is refused or says so, and a refused call is what a visit
\* reports as such, never an outage. A visit is over after a number of steps that
\* only the limits and the chain decide.
THEOREM NodesImplementCall == CallsSpec => NodesKeepContract
<1>1. CallsInit => Node!CallInit
  <2> SUFFICES ASSUME CallsInit PROVE Node!CallInit
      OBVIOUS
  <2>1. NodePhase = "none"
        BY NodesInvInit, RestIsNoCall
        DEF CallsInit, PlanningInit, SqlInit, NotPlanning, AtRest, AtRestAll
  <2> QED BY <2>1 DEF Node!CallInit, Exhausted, NodeLeft
<1> QED BY <1>1, NodesInvariant, NodesKeepTheContract, NodesReportWhatTheyHeard, PTL
        DEF CallsSpec, NodesKeepContract, Node!CallSpec

\* The calls they make keep the contract of the chain, too.
THEOREM CallsKeepContract == CallsSpec => KeepsCallContract
BY NodesUseTheChain, ChainImplementsCall, PTL
=============================================================================
