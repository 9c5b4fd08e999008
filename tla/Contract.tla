------------------------------ MODULE Contract ------------------------------
(***************************************************************************)
(* What a conversation thread promises its user, whatever the graph behind *)
(* it looks like: a message takes a bounded number of steps, its work is   *)
(* never undone, a bounded number of questions may come before any work is *)
(* done, and it is closed exactly once - with an answer only when there is *)
(* work to report.  A process that stops breaks off what it works on; what *)
(* that leaves behind may be reported once, by a later message that has    *)
(* nothing of its own.                                                     *)
(***************************************************************************)
EXTENDS Naturals

CONSTANTS MaxQuestions,  \* questions one message may lead to
          MaxWork,       \* pieces of work one message may lead to
          MaxSteps,      \* steps one message may take, its answers included
          MayBreak       \* may the process stop while it works?

VARIABLES phase,    \* "idle", "working" or "asking"
          asked,    \* questions answered since the message
          work,     \* what is finished
          toGo,     \* the steps that are left at most
          closing,  \* what the user was last shown
          left      \* a message that broke off has left a result behind

contractVars == <<phase, asked, work, toGo, closing, left>>

ContractInit ==
    /\ phase = "idle" /\ asked = 0 /\ work = {} /\ toGo = 0
    /\ closing = "none" /\ left = FALSE

\* Every step counts, and none is taken when no step is left.
Step == toGo' \in 0..(toGo - 1)

\* A question may be left unanswered: the next message then starts afresh.
Receive ==
    /\ phase \in {"idle", "asking"}
    /\ phase' = "working" /\ asked' = 0 /\ work' = {} /\ closing' = "none"
    /\ toGo' = MaxSteps
    /\ UNCHANGED left

Work ==
    /\ phase = "working" /\ Step
    /\ work' \in SUBSET (1..MaxWork)
    /\ work \subseteq work'
    /\ left' \in {left, FALSE}
    /\ UNCHANGED <<phase, asked, closing>>

Ask ==
    /\ phase = "working" /\ Step
    /\ asked < MaxQuestions
    /\ work = {}
    /\ phase' = "asking" /\ closing' = "question"
    /\ UNCHANGED <<asked, work, left>>

Hear ==
    /\ phase = "asking" /\ Step
    /\ phase' = "working" /\ asked' = asked + 1 /\ closing' = "none"
    /\ UNCHANGED <<work, left>>

Close ==
    /\ phase = "working" /\ Step
    /\ \/ closing' = "answer" /\ (work # {} \/ left)
       \/ closing' \in {"fallback", "outage", "error"}
    /\ phase' = "idle" /\ asked' = 0 /\ work' = {} /\ left' = FALSE

\* Whatever was done is lost but for, perhaps, one result.
Break ==
    /\ MayBreak
    /\ phase = "working" /\ Step
    /\ phase' = "idle" /\ asked' = 0 /\ work' = {} /\ closing' = "none"
    /\ left' \in BOOLEAN

ContractNext == Receive \/ Work \/ Ask \/ Hear \/ Close \/ Break

ContractSpec == ContractInit /\ [][ContractNext]_contractVars
=============================================================================
