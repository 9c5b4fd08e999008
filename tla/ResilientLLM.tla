---------------------------- MODULE ResilientLLM ----------------------------
(***************************************************************************)
(* Every LLM call of a turn: ResilientLLM.invoke (services/llm.py) walks   *)
(* the chain of models and falls back from one to the next, and charges    *)
(* the TurnBudget (services/budget.py) the entry point has opened.  The    *)
(* nodes of a turn run one at a time, so the calls of one budget do too.   *)
(***************************************************************************)
EXTENDS Naturals

CONSTANTS
    Candidates,   \* number of models in the chain
    MaxCalls, MaxTokens, MaxSeconds,   \* TurnBudget's limits
    LongestCall,  \* bound: seconds one provider contact may last
    LargestReply  \* bound: tokens one reply may report

ASSUME BudgetAssumption ==
    /\ Candidates \in Nat \ {0}
    /\ MaxCalls \in Nat /\ MaxTokens \in Nat /\ MaxSeconds \in Nat
    /\ LongestCall \in Nat /\ LargestReply \in Nat

VARIABLES
    calls, tokens, llm_seconds,   \* the TurnBudget
    pc,         \* "idle", "check", "build" or "contact"
    candidate,  \* index into the chain
    outcome,    \* how the last invoke ended
    contacts, waited   \* providers contacted and time they took, in fact

budgetVars == <<calls, tokens, llm_seconds>>
factVars   == <<contacts, waited>>
vars == <<budgetVars, pc, candidate, outcome, factVars>>

Outcomes == {"none", "answer", "error", "over"}

\* TurnBudget.exhausted, and the condition of raise_if_exhausted.
Exhausted ==
    calls >= MaxCalls \/ tokens >= MaxTokens \/ llm_seconds >= MaxSeconds

Init ==
    /\ calls = 0 /\ tokens = 0 /\ llm_seconds = 0
    /\ pc = "idle" /\ candidate = 1 /\ outcome = "none"
    /\ contacts = 0 /\ waited = 0

Invoke ==
    /\ pc = "idle"
    /\ pc' = "check" /\ candidate' = 1
    /\ UNCHANGED <<budgetVars, outcome, factVars>>

Return(how) == pc' = "idle" /\ outcome' = how /\ UNCHANGED candidate

\* Mutant: off by one at the end of the chain.
FallThrough_PastEnd ==
    IF candidate <= Candidates
    THEN pc' = "check" /\ candidate' = candidate + 1 /\ UNCHANGED outcome
    ELSE Return("error")

\* Mutant: the chain is tried again from its start.
FallThrough_Wraps ==
    pc' = "check" /\ candidate' = (candidate % Candidates) + 1 /\ UNCHANGED outcome

\* On to the next model; past the last one the call fails.
FallThrough ==
    IF candidate < Candidates
    THEN pc' = "check" /\ candidate' = candidate + 1 /\ UNCHANGED outcome
    ELSE Return("error")

\* Mutant: the budget is not looked at before a model is tried.
Check_Skipped ==
    /\ pc = "check"
    /\ pc' = "build"
    /\ UNCHANGED <<budgetVars, candidate, outcome, factVars>>

\* raise_if_exhausted, before anything is built.
Check ==
    /\ pc = "check"
    /\ IF Exhausted THEN Return("over")
                    ELSE pc' = "build" /\ UNCHANGED <<candidate, outcome>>
    /\ UNCHANGED <<budgetVars, factVars>>

\* The client cannot be constructed: no key, a bad model name.
BuildFails ==
    /\ pc = "build"
    /\ FallThrough
    /\ UNCHANGED <<budgetVars, factVars>>

\* check_and_count reserves the call the client is about to make.
BuildSucceeds ==
    /\ pc = "build"
    /\ calls' = calls + 1
    /\ pc' = "contact"
    /\ UNCHANGED <<tokens, llm_seconds, candidate, outcome, factVars>>

Contacted(seconds) == contacts' = contacts + 1 /\ waited' = waited + seconds

\* A reply without usage metadata adds no tokens.
ProviderAnswers ==
    /\ pc = "contact"
    /\ \E seconds \in 0..LongestCall, usage \in 0..LargestReply :
          /\ Contacted(seconds)
          /\ llm_seconds' = llm_seconds + seconds
          /\ tokens' = tokens + usage
    /\ Return("answer")
    /\ UNCHANGED calls

\* Mutant: the time of a failed contact is not charged.
ProviderFails_Free ==
    /\ pc = "contact"
    /\ \E seconds \in 0..LongestCall : Contacted(seconds)
    /\ FallThrough \/ Return("error")
    /\ UNCHANGED budgetVars

\* The error is retryable, so the next model is tried, or it is raised.
ProviderFails ==
    /\ pc = "contact"
    /\ \E seconds \in 0..LongestCall :
          /\ Contacted(seconds)
          /\ llm_seconds' = llm_seconds + seconds
    /\ FallThrough \/ Return("error")
    /\ UNCHANGED <<calls, tokens>>

\* A new budget scope: the next message, or in chat.py the answer to a question.
OpenScope ==
    /\ pc = "idle"
    /\ calls' = 0 /\ tokens' = 0 /\ llm_seconds' = 0
    /\ outcome' = "none"
    /\ contacts' = 0 /\ waited' = 0
    /\ UNCHANGED <<pc, candidate>>

\* The steps of one call; Invoke belongs to the node that makes it.
Step == Check \/ BuildFails \/ BuildSucceeds \/ ProviderAnswers \/ ProviderFails

Next == Invoke \/ Step \/ OpenScope

Spec == Init /\ [][Next]_vars

\* Provider clients have timeouts: a contact ends one way or the other.
FairSpec == Spec /\ WF_vars(Step)

-----------------------------------------------------------------------------
TypeOK ==
    /\ calls \in Nat /\ tokens \in Nat /\ llm_seconds \in Nat
    /\ pc \in {"idle", "check", "build", "contact"}
    /\ candidate \in 1..Candidates
    /\ outcome \in Outcomes
    /\ contacts \in Nat /\ waited \in Nat

\* However many calls fall back over however many models, one budget pays for
\* at most MaxCalls contacts and less than one contact's time and one reply's
\* tokens beyond its limits (services/budget.py:49: the global backstop).
ScopeBound ==
    /\ contacts <= MaxCalls
    /\ waited < MaxSeconds + LongestCall \/ waited = 0
    /\ tokens < MaxTokens + LargestReply \/ tokens = 0

Phase ==
    CASE pc = "idle"                                -> outcome
      [] pc = "check" /\ candidate = 1 /\ Exhausted -> outcome
      [] OTHER                                      -> "open"

\* Steps until the call returns if every model that is left is tried.
CallLeft ==
    CASE pc = "idle"    -> 0
      [] pc = "check"   -> 3 * (Candidates - candidate) + 3
      [] pc = "build"   -> 3 * (Candidates - candidate) + 2
      [] pc = "contact" -> 3 * (Candidates - candidate) + 1

\* Steps that one call takes of the node that makes it, at most.
StepsOfCall == 3 * Candidates + 2

Promise == INSTANCE BudgetedCall WITH
    MaxSteps <- 3 * Candidates,
    phase <- Phase, spent <- Exhausted,
    toGo <- IF Phase = "open" THEN CallLeft ELSE 0

\* A call is given up for the budget only when the budget is spent, and one that
\* answers or fails was begun on a budget that allowed it: what the nodes of a
\* turn rely on when they take TurnBudgetExceeded for "nothing is left".  Every
\* step of it brings the end of the chain nearer.
KeepsCallContract == Promise!CallSpec

\* No call waits for ever: the chain is finite and each contact ends.
CallReturns == pc # "idle" ~> pc = "idle"
=============================================================================
