--------------------------- MODULE TurnRefinement ---------------------------
(***************************************************************************)
(* Turn implements Contract: the graph's places collapse to three phases,  *)
(* and the steps of the plan that are not pending any more are the work.   *)
(* What a crash leaves behind is last_result, until the supervisor starts  *)
(* a step or finalize has reported it.                                     *)
(***************************************************************************)
EXTENDS TurnProperties

Phase == CASE pc = "idle"   -> "idle"
           [] pc = "paused" -> "asking"
           [] OTHER         -> "working"

\* Between an invocation's entry and memory_manager the state is still that
\* of the turn before.
Begun == pc \notin {"idle", "memory_manager"}

Asked == IF Begun THEN clarification_count ELSE 0

FinishedWork ==
    IF Begun
    THEN {i \in DOMAIN plan : plan[i].status # "pending" /\ plan[i].route # "clarification"}
    ELSE {}

\* A result that is not of the plan at work.
LeftBehind ==
    /\ last_result # NoResult
    /\ \/ pc \in {"idle", "memory_manager"}
       \/ pc = "supervisor" /\ ~plan_ready
       \/ pc = "finalize" /\ FinishedWork = {}

\* At most how many steps the turn under way still takes, its user's answers
\* included: three for every hop left, and those to its end.
StepsLeft ==
    LET hopsLeft == MAX_HOPS - hops
    IN  CASE pc = "idle"           -> 0
          [] pc = "finalize"       -> 1
          [] pc = "supervisor"     -> 3 * hopsLeft + 2
          [] pc = "paused"         -> 3 * hopsLeft + 3
          [] pc \in PlanRoutes     -> 3 * hopsLeft + 4
          [] pc = "memory_manager" -> 3 * MAX_HOPS + 3

\* A turn cannot go on for ever: whatever the models decide, the user answers
\* and the nodes do with it, every step until the next message is one of a
\* number that the hop cap fixes when the turn begins.
TurnsAreBounded ==
    [][pc' # "memory_manager" => StepsLeft' \in 0..(StepsLeft - 1)]_vars

Promise == INSTANCE Contract
    WITH MaxQuestions <- MAX_CLARIFICATIONS_PER_TURN, MaxWork <- MAX_PLAN_STEPS + 1,
         MaxSteps <- 3 * MAX_HOPS + 3, MayBreak <- Crashes,
         phase <- Phase, asked <- Asked, work <- FinishedWork, toGo <- StepsLeft,
         closing <- reply.kind, left <- LeftBehind

\* Every turn of the graph keeps the contract with the user: it takes a bounded
\* number of steps, work is never undone, a question comes before any work, and
\* an answer has work of its own behind it or, once after a crash, the result
\* that was left behind.
KeepsContract == Promise!ContractSpec
=============================================================================
