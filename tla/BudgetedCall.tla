---------------------------- MODULE BudgetedCall ----------------------------
(***************************************************************************)
(* What a piece of work that asks LLMs under the turn's budget promises to *)
(* its caller: refused at once when nothing is left, given up only once    *)
(* nothing is left, never started on an empty budget, and over after a     *)
(* bounded number of steps.                                                *)
(***************************************************************************)
EXTENDS Naturals

CONSTANT MaxSteps

VARIABLES phase,   \* "open" while it runs, otherwise how the last one ended
          spent,   \* nothing is left of the budget
          toGo     \* bound on the steps that are left while it runs

callVars == <<phase, spent, toGo>>

CallInit == phase = "none" /\ spent \in BOOLEAN /\ toGo = 0

Start ==
    /\ phase # "open" /\ ~spent
    /\ phase' = "open" /\ UNCHANGED spent
    /\ toGo' \in 0..MaxSteps

Refuse == phase # "open" /\ spent /\ phase' = "over" /\ UNCHANGED <<spent, toGo>>

Step == phase = "open" /\ toGo' \in 0..(toGo - 1) /\ (spent => spent')

Work == Step /\ UNCHANGED phase

End ==
    /\ Step
    /\ phase' \in {"answer", "error", "over"}
    /\ phase' = "over" => spent'

\* The caller is given another budget.
Replenish ==
    /\ phase # "open"
    /\ phase' = "none" /\ spent' \in BOOLEAN /\ UNCHANGED toGo

CallNext == Start \/ Refuse \/ Work \/ End \/ Replenish

CallSpec == CallInit /\ [][CallNext]_callVars
=============================================================================
